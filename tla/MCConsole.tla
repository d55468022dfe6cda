----------------------------- MODULE MCConsole ------------------------------
(* One letter, which shift and caps lock turn into another, in a buffer of  *)
(* three cells; the serial line sends the same characters.                  *)
EXTENDS Console

MCShifted == [k \in Letters |-> "A"]

=============================================================================
