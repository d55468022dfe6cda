------------------------------ MODULE Syscall ------------------------------
(***************************************************************************)
(* The system call gate: int 0x80 from ring 3 through isr_syscall          *)
(* (src/src/boot/interrupts.asm) and syscall_handler                       *)
(* (src/src/kernel/idt.cpp).  The gate is a trap gate, so interrupts come  *)
(* in between the steps; they save and restore all registers and are left  *)
(* out.  EAX is kept in the parts the code writes separately.  No program  *)
(* in the repository issues a call: the caller's registers are arbitrary.  *)
(***************************************************************************)
EXTENDS Integers, Sequences

CONSTANTS
  Upper,  \* what the upper half of EAX may hold
  Bytes,  \* what AH and AL may hold in ring 3, and what the handler leaves there
  Values  \* what the other registers may hold

VARIABLES
  pc,
  eax,          \* [high, ah, al]: the upper half, and the bytes of AX
  reg,          \* the other registers isr_syscall saves
  stack,        \* what isr_syscall has pushed
  syscall_eax,  \* the number syscall_handler reads
  served,       \* history: syscall_handler ran a call
  caller        \* history: the registers at the int instruction

EaxValues == [high : Upper, ah : Bytes, al : Bytes]

svars == <<pc, eax, reg, stack, syscall_eax, served, caller>>

(* The order of the pushes behind EAX; the pops run back through it.       *)
Saved == <<"ecx", "edx", "ebx", "ebp", "esi", "edi", "ds", "es", "fs", "gs">>

Registers == {Saved[i] : i \in 1 .. 10}

KernelData == 16

Write == [high |-> 0, ah |-> 0, al |-> 1]

(* Letters written to the debug port pass through AL.                      *)
Debug(e, letter) == [e EXCEPT !.al = letter]

A == 65
B == 66
C == 67
D == 68
LF == 10

(* mov ax, 0x10                                                            *)
LoadAX(e) == [e EXCEPT !.ah = 0, !.al = KernelData]

SInit ==
  /\ pc = "user"
  /\ eax \in EaxValues /\ reg \in [Registers -> Values]
  /\ stack = <<>>
  /\ syscall_eax = [high |-> 0, ah |-> 0, al |-> 0]
  /\ served = FALSE
  /\ caller = [eax |-> eax, reg |-> reg]

(* Between calls the program in ring 3 may load anything it likes.         *)
Int80 ==
  /\ pc = "user"
  /\ pc' = "entry"
  /\ eax' \in EaxValues /\ reg' \in [Registers -> Values]
  /\ caller' = [eax |-> eax', reg |-> reg']
  /\ UNCHANGED <<stack, syscall_eax, served>>

KernelDS ==
  /\ pc = "entry"
  /\ pc' = "parameters"
  /\ eax' = Debug(LoadAX(Debug(eax, A)), B)
  /\ reg' = [reg EXCEPT !["ds"] = KernelData]
  /\ UNCHANGED <<stack, syscall_eax, served, caller>>

SaveParameters ==
  /\ pc = "parameters"
  /\ pc' = "push"
  /\ syscall_eax' = eax
  /\ eax' = Debug(eax, C)
  /\ UNCHANGED <<reg, stack, served, caller>>

Push ==
  /\ pc = "push"
  /\ pc' = "call"
  /\ stack' = [eax |-> eax, reg |-> [i \in 1 .. 10 |-> reg[Saved[i]]]]
  /\ eax' = Debug(LoadAX(eax), D)
  /\ reg' = [reg EXCEPT !["es"] = KernelData, !["fs"] = KernelData, !["gs"] = KernelData]
  /\ UNCHANGED <<syscall_eax, served, caller>>

(* A C++ function leaves anything in EAX, ECX and EDX.                     *)
syscall_handler ==
  /\ pc = "call"
  /\ pc' = "pop"
  /\ served' = (served \/ syscall_eax = Write)
  /\ eax' \in EaxValues
  /\ \E v, w \in Values : reg' = [reg EXCEPT !["ecx"] = v, !["edx"] = w]
  /\ UNCHANGED <<stack, syscall_eax, caller>>

Pop ==
  /\ pc = "pop"
  /\ pc' = "iret"
  /\ reg' = [r \in Registers |-> stack.reg[CHOOSE i \in 1 .. 10 : Saved[i] = r]]
  /\ eax' = Debug(stack.eax, LF)
  /\ stack' = <<>>
  /\ UNCHANGED <<syscall_eax, served, caller>>

(* On the way to ring 3 the processor empties a data segment register that *)
(* holds a segment of the kernel.                                          *)
Iret ==
  /\ pc = "iret"
  /\ pc' = "user"
  /\ reg' = [reg EXCEPT !["ds"] = IF reg["ds"] = KernelData THEN 0 ELSE @]
  /\ UNCHANGED <<eax, stack, syscall_eax, served, caller>>

SNext == Int80 \/ KernelDS \/ SaveParameters \/ Push \/ syscall_handler \/ Pop \/ Iret

SSpec == SInit /\ [][SNext]_svars

-----------------------------------------------------------------------------
(* Properties *)

(* The number the caller passed in EAX is gone before it is "saved"        *)
(* (interrupts.asm:160): AX has loaded DS and carried two debug letters.   *)
(* What syscall_handler finds is the second letter under the caller's      *)
(* upper half.                                                             *)
NumberLost ==
  pc = "call" => syscall_eax = [high |-> caller.eax.high, ah |-> 0, al |-> B]

(* No call is ever served, not even write, the only one syscall_handler    *)
(* knows.                                                                  *)
NoCallServed == ~served

(* Back in ring 3 every register is the caller's except DS and the lower   *)
(* half of EAX: whatever the handler did to them in between, the pops find *)
(* each at its place.                                                      *)
RegistersBack ==
  pc = "user" =>
    /\ \A r \in Registers \ {"ds"} : reg[r] = caller.reg[r]
    /\ eax.high = caller.eax.high

=============================================================================
