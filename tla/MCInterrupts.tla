--------------------------- MODULE MCInterrupts ----------------------------
(* The timer, the keyboard and the slave's first line.                      *)
EXTENDS Interrupts

MCLines == {Timer, Kbd, 8}

=============================================================================
