----------------------------- MODULE LineEditor -----------------------------
(***************************************************************************)
(* What the keyboard's line editor amounts to: a cursor in a line, the     *)
(* text on its left and the text on its right, and the commands entered.   *)
(* Enter runs the text on the left; the screen shows nothing else.  No     *)
(* array, no terminators, no shifting of characters.                       *)
(***************************************************************************)
EXTENDS Sequences, SequencesExt

CONSTANTS
  Chars,
  Room,        \* the most characters a line may have
  MaxHistory

VARIABLES
  left, right,
  history,     \* commands entered, the last one last
  saved,       \* the line left behind when browsing began
  broken       \* a character was forced into a full line

Text == UNION {[1 .. n -> Chars] : n \in 0 .. Room}

Init == left = <<>> /\ right = <<>> /\ history = <<>> /\ saved = <<>> /\ broken = FALSE

Edit(l, r) == left' = l /\ right' = r /\ UNCHANGED <<history, saved, broken>>

Full == Len(left) + Len(right) = Room

(* Text to the right stays there; where there is none, a character typed   *)
(* at the end of the line may bring old text back behind it.               *)
Type(c) ==
  /\ ~Full
  /\ left' = Append(left, c)
  /\ right' \in IF right = <<>> THEN Text ELSE {right}
  /\ UNCHANGED <<history, saved, broken>>

Break == /\ Full /\ right # <<>>
         /\ broken' = TRUE /\ left' = <<>> /\ right' = <<>>
         /\ UNCHANGED <<history, saved>>

Backspace == left # <<>> /\ Edit(Front(left), right)

Delete == right # <<>> /\ Edit(left, Tail(right))

Left == left # <<>> /\ Edit(Front(left), <<Last(left)>> \o right)

Right == right # <<>> /\ Edit(Append(left, Head(right)), Tail(right))

Home == Edit(<<>>, left \o right)

End == Edit(left \o right, <<>>)

(* An old command takes the place of the line; what stays on the right is  *)
(* not promised.                                                           *)
Recall ==
  /\ left' \in ToSet(history) \cup {saved}
  /\ right' \in Text
  /\ saved' \in {saved, left}
  /\ UNCHANGED <<history, broken>>

(* A command is remembered unless it repeats the last one; the oldest goes.*)
Remember(line) ==
  IF line = <<>> \/ (history # <<>> /\ Last(history) = line) THEN history
  ELSE IF Len(history) < MaxHistory THEN Append(history, line)
  ELSE Append(Tail(history), line)

(* What was entered stays in the line, on the right of the cursor.         *)
Enter == /\ left' = <<>> /\ right' = left
         /\ history' = Remember(left)
         /\ UNCHANGED <<saved, broken>>

(* A command that does not return leaves the line as it stood.             *)
EnterForGood == left # <<>> /\ Edit(left, <<>>)

Next ==
  /\ ~broken
  /\ \/ \E c \in Chars : Type(c)
     \/ Break
     \/ Backspace \/ Delete
     \/ Left \/ Right \/ Home \/ End
     \/ Recall
     \/ Enter \/ EnterForGood

Spec == Init /\ [][Next]_<<left, right, history, saved, broken>>

=============================================================================
