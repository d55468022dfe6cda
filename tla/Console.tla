------------------------------ MODULE Console ------------------------------
(***************************************************************************)
(* One line, two editors: the polling loop of kernel_main (kernel.cpp)     *)
(* edits input_buffer and input_pos from the serial port while the         *)
(* keyboard's handler edits them from interrupts, without a lock.  The     *)
(* handler is one step; the loop is broken where it touches the line, as   *)
(* the compiled code does: it loads input_pos once and stores afterwards.  *)
(***************************************************************************)
EXTENDS Keyboard

VARIABLES
  at,      \* where the loop stands
  reg,     \* input_pos as it was loaded
  char,    \* the character being stored
  stores,  \* stores still to do, in either order
  gone,    \* a command that does not return was run
  fresh    \* history: the line was edited since a command was last started

loop == <<at, reg, char, stores>>
vars == <<kbvars, loop, gone, fresh>>

Init ==
  /\ KbInit
  /\ at = "poll" /\ reg = 0 /\ char = NUL /\ stores = {}
  /\ gone = FALSE /\ fresh = FALSE

-----------------------------------------------------------------------------
(* The keyboard interrupts anywhere.                                       *)
KeyInterrupt ==
  \/ /\ KeyHandled
     /\ fresh' = IF Enter THEN fresh /\ input_pos = 0 ELSE fresh \/ line' # line
     /\ UNCHANGED <<loop, gone>>
  \/ /\ ~overrun /\ EnterForGood
     /\ gone' = TRUE
     /\ fresh' = FALSE
     /\ UNCHANGED loop

-----------------------------------------------------------------------------
(* The polling loop *)

At(where) == ~overrun /\ ~gone /\ at = where

Load(where) == at' = where /\ reg' = input_pos

(* '\r': the newline is written before input_pos is loaded.                *)
SerialEnter ==
  /\ At("poll") /\ Load("terminate")
  /\ UNCHANGED <<kbvars, char, stores, gone, fresh>>

Terminate ==
  /\ At("terminate")
  /\ input_buffer' = [input_buffer EXCEPT ![reg] = NUL]
  /\ at' = IF reg > 0 THEN "process" ELSE "finish"
  /\ UNCHANGED <<input_pos, recall, modifiers, overrun, reg, char, stores, gone, fresh>>

(* process_command starts; it returns later, or never.                     *)
ProcessCommand ==
  /\ At("process")
  /\ at' = "finish"
  /\ gone' \in BOOLEAN
  /\ fresh' = FALSE
  /\ UNCHANGED <<kbvars, reg, char, stores>>

Finish ==
  /\ At("finish")
  /\ input_pos' = 0
  /\ at' = "poll" /\ reg' = 0
  /\ UNCHANGED <<input_buffer, recall, modifiers, overrun, char, stores, gone, fresh>>

(* Mutant: without the test for zero. *)
MayErase_always == TRUE

MayErase == input_pos > 0

SerialBackspace ==
  /\ At("poll") /\ MayErase /\ Load("erase")
  /\ UNCHANGED <<kbvars, char, stores, gone, fresh>>

Erase ==
  /\ At("erase")
  /\ input_pos' = reg - 1
  /\ at' = "poll" /\ reg' = 0
  /\ fresh' = TRUE
  /\ UNCHANGED <<input_buffer, recall, modifiers, overrun, char, stores, gone>>

(* Mutant: < 256 for < 255. *)
HasRoom_full == input_pos < BufSize

HasRoom == input_pos < BufSize - 1

SerialCharacter(c) ==
  /\ At("poll") /\ HasRoom /\ Load("store")
  /\ char' = c /\ stores' = {"char", "pos"}
  /\ UNCHANGED <<kbvars, gone, fresh>>

Store(what) ==
  /\ At("store") /\ what \in stores
  /\ input_buffer' = IF what = "char" THEN [input_buffer EXCEPT ![reg] = char] ELSE input_buffer
  /\ input_pos' = IF what = "pos" THEN reg + 1 ELSE input_pos
  /\ stores' = stores \ {what}
  /\ IF stores' = {} THEN at' = "poll" /\ reg' = 0 /\ char' = NUL
                     ELSE UNCHANGED <<at, reg, char>>
  /\ fresh' = TRUE
  /\ UNCHANGED <<recall, modifiers, overrun, gone>>

LoopStep ==
  \/ SerialEnter \/ Terminate \/ ProcessCommand \/ Finish
  \/ SerialBackspace \/ Erase
  \/ \E c \in Chars : SerialCharacter(c)
  \/ \E what \in stores : Store(what)

OverrunStops == overrun /\ UNCHANGED vars

Next == KeyInterrupt \/ LoopStep \/ OverrunStops

Spec == Init /\ [][Next]_vars

-----------------------------------------------------------------------------
(* Properties *)

TypeOK ==
  /\ KbTypeOK
  /\ at \in {"poll", "terminate", "process", "finish", "erase", "store"}
  /\ reg \in Cells /\ char \in Chars \cup {NUL}
  /\ stores \subseteq {"char", "pos"}
  /\ gone \in BOOLEAN /\ fresh \in BOOLEAN

(* However the two editors interleave, the last cell keeps its NUL, so     *)
(* every scan of either one ends inside the buffer; only the keyboard's    *)
(* insertion into a full line can store past the end.                      *)
LastCellHoldsNul == ~overrun => input_buffer[BufSize - 1] = NUL

(* The loop's comment: Enter finishes the line and processes the command.  *)
(* A command is processed because a line was entered: never the same line  *)
(* a second time with no edit in between.                                  *)
EachLineRunsOnce == [][at = "process" /\ at' = "finish" => fresh]_vars

=============================================================================
