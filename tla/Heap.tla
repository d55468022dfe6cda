-------------------------------- MODULE Heap --------------------------------
(***************************************************************************)
(* What kmalloc.h promises its callers, whatever lies below: kmalloc(n)    *)
(* returns n bytes of usable memory that no other live allocation shares,  *)
(* or null; kfree(p) ends the allocation p and no other.                   *)
(***************************************************************************)
EXTENDS Integers

CONSTANTS
  Memory,     \* addresses an allocation may use
  Requests    \* sizes callers ask for

VARIABLE
  live        \* the allocations in use: their pointers, and the size asked for

Extent(p, n) == p .. p + n - 1

Init == live = <<>>

Allocate(p, n) ==
  /\ n > 0 /\ Extent(p, n) \subseteq Memory
  /\ \A q \in DOMAIN live : Extent(p, n) \cap Extent(q, live[q]) = {}
  /\ live' = [q \in DOMAIN live \cup {p} |-> IF q = p THEN n ELSE live[q]]

Release(p) ==
  live' = [q \in DOMAIN live \ {p} |-> live[q]]

Next ==
  \/ \E p \in Memory, n \in Requests : Allocate(p, n)
  \/ \E p \in DOMAIN live : Release(p)

Spec == Init /\ [][Next]_live

=============================================================================
