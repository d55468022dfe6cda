------------------------------ MODULE Keyboard ------------------------------
(***************************************************************************)
(* Keyboard::handle_interrupt (src/src/kernel/keyboard.cpp): one scan code *)
(* per interrupt, decoded and applied to the line in input_buffer and to   *)
(* the command history.  The handler runs with interrupts off, so each     *)
(* scan code is one step.  A string is the characters up to the first NUL. *)
(***************************************************************************)
EXTENDS Integers, Sequences

CONSTANTS
  BufSize,      \* sizeof(input_buffer)
  MAX_HISTORY,
  Letters,      \* keys whose character shift and caps lock both change
  Symbols,      \* keys whose character shift alone changes
  Shifted,      \* that other character, by key
  Codes,        \* the other keys the keyboard has
  NUL

Chars == Letters \cup Symbols \cup {Shifted[k] : k \in Letters \cup Symbols}

ASSUME KeyboardAssumption ==
  /\ BufSize \in Nat /\ BufSize >= 2
  /\ MAX_HISTORY \in Nat \ {0}
  /\ NUL \notin Chars

VARIABLES
  input_buffer, input_pos,
  history,            \* the strings history[0 .. history_count - 1]
  history_index,      \* -1 when the line is not a recalled one
  saved_input,        \* a string
  extended, shift_pressed, caps_lock,
  overrun             \* a character was stored past the buffer's end

line == <<input_buffer, input_pos>>
recall == <<history, history_index, saved_input>>
modifiers == <<extended, shift_pressed, caps_lock>>
kbvars == <<line, recall, modifiers, overrun>>

-----------------------------------------------------------------------------
(* The buffer *)

Cells == 0 .. BufSize - 1

(* Where a scan for NUL that starts at cell p stops.                       *)
Terminator(b, p) ==
  CHOOSE i \in p .. BufSize - 1 : b[i] = NUL /\ \A j \in p .. i - 1 : b[j] # NUL

(* The characters of cells p to q - 1, and the string at the front of b.   *)
Slice(b, p, q) == [i \in 1 .. q - p |-> b[p + i - 1]]

Str(b) == Slice(b, 0, Terminator(b, 0))

Terminated == [input_buffer EXCEPT ![input_pos] = NUL]

(* cmd copied over the front of the buffer, without its NUL.               *)
Overlaid(cmd) ==
  [i \in Cells |-> IF i < Len(cmd) THEN cmd[i + 1] ELSE input_buffer[i]]

(* Mutant: the NUL stays where it is. *)
Removed_keeps_nul(p) ==
  [i \in Cells |-> IF p <= i /\ i < Terminator(input_buffer, p + 1) - 1 THEN input_buffer[i + 1]
                   ELSE input_buffer[i]]

(* The cells behind p moved down by one, up to and with their NUL.         *)
Removed(p) ==
  [i \in Cells |-> IF p <= i /\ i < Terminator(input_buffer, p + 1) THEN input_buffer[i + 1]
                   ELSE input_buffer[i]]

(* c at the cursor, the text to its right and its NUL moved up by one.     *)
Inserted(c) ==
  LET len == Terminator(input_buffer, input_pos) IN
  [i \in Cells |-> IF i = input_pos THEN c
                   ELSE IF input_pos < i /\ i <= len + 1 /\ len > input_pos
                        THEN input_buffer[i - 1]
                   ELSE input_buffer[i]]

-----------------------------------------------------------------------------
KbInit ==
  /\ input_buffer = [i \in Cells |-> NUL] /\ input_pos = 0
  /\ history = <<>> /\ history_index = -1 /\ saved_input = <<>>
  /\ extended = FALSE /\ shift_pressed = FALSE /\ caps_lock = FALSE
  /\ overrun = FALSE

(* Scan codes without a line to edit: prefix, releases, modifiers, codes   *)
(* that mean nothing.                                                      *)
PrefixE0 ==
  /\ extended' = TRUE
  /\ UNCHANGED <<line, recall, shift_pressed, caps_lock, overrun>>

(* The shift codes release shift even behind a prefix.                     *)
Release(sc) ==
  /\ shift_pressed' = (shift_pressed /\ sc # "shift")
  /\ extended' = FALSE
  /\ UNCHANGED <<line, recall, caps_lock, overrun>>

Shift ==
  /\ ~extended
  /\ shift_pressed' = TRUE
  /\ UNCHANGED <<line, recall, extended, caps_lock, overrun>>

CapsLock ==
  /\ ~extended
  /\ caps_lock' = ~caps_lock
  /\ UNCHANGED <<line, recall, extended, shift_pressed, overrun>>

ExtendedOther ==
  /\ extended /\ extended' = FALSE
  /\ UNCHANGED <<line, recall, shift_pressed, caps_lock, overrun>>

-----------------------------------------------------------------------------
(* Keys behind the prefix 0xE0 *)

Extended ==
  /\ extended /\ extended' = FALSE
  /\ UNCHANGED <<shift_pressed, caps_lock, overrun>>

ReplaceLine(cmd) ==
  /\ input_buffer' = Overlaid(cmd)
  /\ input_pos' = Len(cmd)

(* The first press leaves the line being typed in saved_input, as far as   *)
(* the cursor.                                                             *)
Up ==
  /\ Extended
  /\ IF history = <<>> THEN UNCHANGED <<line, recall>>
     ELSE /\ history_index' = CASE history_index = -1 -> Len(history) - 1
                                [] history_index > 0  -> history_index - 1
                                [] OTHER              -> history_index
          /\ saved_input' = IF history_index = -1 THEN Str(Terminated) ELSE saved_input
          /\ ReplaceLine(history[history_index' + 1])
          /\ UNCHANGED history

HasNewer == history_index < Len(history) - 1

Down ==
  /\ Extended
  /\ CASE history_index = -1 -> UNCHANGED <<line, history_index>>
       [] history_index # -1 /\ HasNewer ->
            /\ history_index' = history_index + 1
            /\ ReplaceLine(history[history_index' + 1])
       [] OTHER ->
            /\ history_index' = -1
            /\ ReplaceLine(saved_input)
  /\ UNCHANGED <<history, saved_input>>

MoveTo(p) == input_pos' = p /\ UNCHANGED input_buffer

Left == Extended /\ MoveTo(IF input_pos > 0 THEN input_pos - 1 ELSE 0) /\ UNCHANGED recall

(* Mutant: only the buffer's end stops the cursor. *)
AtText_in_buffer == input_pos < BufSize - 1

AtText == input_pos < BufSize - 1 /\ input_buffer[input_pos] # NUL

Right ==
  /\ Extended
  /\ MoveTo(IF AtText THEN input_pos + 1 ELSE input_pos)
  /\ UNCHANGED recall

Home == Extended /\ MoveTo(0) /\ UNCHANGED recall

End == Extended /\ MoveTo(Terminator(input_buffer, input_pos)) /\ UNCHANGED recall

Delete ==
  /\ Extended
  /\ input_buffer' = IF input_buffer[input_pos] = NUL THEN input_buffer ELSE Removed(input_pos)
  /\ UNCHANGED <<input_pos, recall>>

-----------------------------------------------------------------------------
(* Keys that write *)

Plain == ~extended /\ UNCHANGED modifiers

(* Mutant: the check against the last command left out. *)
Remembered_always(cmd) ==
  IF Len(history) < MAX_HISTORY THEN Append(history, cmd) ELSE Append(Tail(history), cmd)

(* Mutant: <= for <. *)
Remembered_one_more(cmd) ==
  IF Len(history) <= MAX_HISTORY THEN Append(history, cmd) ELSE Append(Tail(history), cmd)

(* The history with cmd in it: not twice in a row, the oldest shifted out. *)
Remembered(cmd) ==
  IF history # <<>> /\ history[Len(history)] = cmd THEN history
  ELSE IF Len(history) < MAX_HISTORY THEN Append(history, cmd)
  ELSE Append(Tail(history), cmd)

(* process_command has returned, or there was nothing to run.              *)
Enter ==
  /\ Plain
  /\ input_buffer' = Terminated
  /\ history' = IF input_pos > 0 THEN Remembered(Str(Terminated)) ELSE history
  /\ input_pos' = 0
  /\ history_index' = -1
  /\ UNCHANGED <<saved_input, overrun>>

(* The user command does not return: what follows it is never run, but the *)
(* keyboard still interrupts the ring 3 task.                              *)
EnterForGood ==
  /\ Plain
  /\ input_pos > 0
  /\ input_buffer' = Terminated
  /\ UNCHANGED <<input_pos, recall, overrun>>

Backspace ==
  /\ Plain
  /\ IF input_pos > 0
     THEN input_buffer' = Removed(input_pos - 1) /\ input_pos' = input_pos - 1
     ELSE UNCHANGED line
  /\ UNCHANGED <<recall, overrun>>

Ascii(key) ==
  IF (key \in Letters /\ shift_pressed # caps_lock) \/ (key \in Symbols /\ shift_pressed)
  THEN Shifted[key] ELSE key

(* When text follows the cursor up to the last cell but one, moving it up  *)
(* stores its NUL past the end: what that overwrites is not modelled, and  *)
(* the model stops.                                                        *)
Character(key) ==
  /\ Plain
  /\ IF input_pos < BufSize - 1
     THEN /\ input_buffer' = Inserted(Ascii(key))
          /\ input_pos' = input_pos + 1
          /\ overrun' = (Terminator(input_buffer, input_pos) = BufSize - 1)
     ELSE UNCHANGED <<line, overrun>>
  /\ UNCHANGED recall

-----------------------------------------------------------------------------
(* One interrupt of the keyboard, with the keys it has.                    *)
KeyHandled ==
  /\ ~overrun
  /\ \/ "extended" \in Codes /\ (PrefixE0 \/ ExtendedOther)
     \/ "up" \in Codes /\ Up
     \/ "down" \in Codes /\ Down
     \/ "left" \in Codes /\ Left
     \/ "right" \in Codes /\ Right
     \/ "home" \in Codes /\ Home
     \/ "end" \in Codes /\ End
     \/ "delete" \in Codes /\ Delete
     \/ "shift" \in Codes /\ (Shift \/ Release("shift"))
     \/ "caps" \in Codes /\ CapsLock
     \/ Release("other")
     \/ Enter \/ Backspace
     \/ \E key \in Letters \cup Symbols : Character(key)

HandleInterrupt == KeyHandled \/ (~overrun /\ EnterForGood)

Stopped == overrun /\ UNCHANGED kbvars

KbNext == HandleInterrupt \/ Stopped

KbSpec == KbInit /\ [][KbNext]_kbvars

-----------------------------------------------------------------------------
(* Properties *)

Text == UNION {[1 .. n -> Chars] : n \in 0 .. BufSize - 1}

KbTypeOK ==
  /\ input_buffer \in [Cells -> Chars \cup {NUL}]
  /\ input_pos \in Cells
  /\ history \in Seq(Text) /\ Len(history) <= MAX_HISTORY
  /\ history_index \in -1 .. MAX_HISTORY - 1
  /\ saved_input \in Text
  /\ extended \in BOOLEAN /\ shift_pressed \in BOOLEAN /\ caps_lock \in BOOLEAN
  /\ overrun \in BOOLEAN

(* Every scan for NUL ends inside the buffer, because its last cell holds  *)
(* one, and no NUL hides left of the cursor: the string that Enter runs is *)
(* the text the screen shows there.                                        *)
LineIsTerminated ==
  ~overrun => /\ input_buffer[BufSize - 1] = NUL
              /\ \A i \in 0 .. input_pos - 1 : input_buffer[i] # NUL

(* While a recalled command is shown its index names an entry of the       *)
(* history, which holds no command twice in a row and no empty one, so Up  *)
(* never reads an entry that was not written.                              *)
HistoryIndexNamesEntry ==
  /\ history_index < Len(history)
  /\ \A i \in DOMAIN history :
       history[i] # <<>> /\ (i > 1 => history[i] # history[i - 1])

(* The editor over a zero-terminated array, with stale text behind the     *)
(* cursor, implements LineEditor.                                          *)
TextLeft == IF overrun THEN <<>> ELSE Slice(input_buffer, 0, input_pos)

TextRight ==
  IF overrun THEN <<>>
  ELSE Slice(input_buffer, input_pos, Terminator(input_buffer, input_pos))

Editor == INSTANCE LineEditor
  WITH left <- TextLeft, right <- TextRight, saved <- saved_input,
       broken <- overrun, Room <- BufSize - 1, MaxHistory <- MAX_HISTORY

ImplementsLineEditor == Editor!Spec

=============================================================================
