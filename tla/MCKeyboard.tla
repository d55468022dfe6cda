----------------------------- MODULE MCKeyboard -----------------------------
(* Two letters, without shift and caps lock, and a buffer of four cells;   *)
(* MCConsole has the modifiers.                                             *)
EXTENDS Keyboard

MCShifted == [k \in Letters |-> k]

=============================================================================
