--------------------------- MODULE SyscallProofs ---------------------------
(***************************************************************************)
(* What the system call gate keeps and what it loses, for every content of *)
(* the caller's registers and everything a handler may leave in them.      *)
(***************************************************************************)
EXTENDS Syscall, TLAPS

(* What EAX may hold inside the gate as well.                              *)
AnyEax == [high : Upper, ah : Bytes \cup {0},
           al : Bytes \cup {KernelData, A, B, C, D, LF}]

STypeOK ==
  /\ pc \in {"user", "entry", "parameters", "push", "call", "pop", "iret"}
  /\ eax \in AnyEax
  /\ reg \in [Registers -> Values \cup {0, KernelData}]
  /\ pc \in {"call", "pop"} =>
       /\ stack.eax \in AnyEax
       /\ \A i \in 1 .. 10 : stack.reg[i] \in Values \cup {0, KernelData}

(* The upper half of EAX is the caller's up to the handler; AL is the      *)
(* debug letter B when it is saved.                                        *)
NumberInv ==
  /\ served = FALSE
  /\ pc \in {"entry", "parameters", "push"} => eax.high = caller.eax.high
  /\ pc = "parameters" => eax.ah = 0 /\ eax.al = B
  /\ pc \in {"push", "call"} =>
       syscall_eax = [high |-> caller.eax.high, ah |-> 0, al |-> B]
  /\ syscall_eax.al \in {0, B}

(* Outside the handler the caller's values are in the registers, around it *)
(* on the stack.                                                           *)
RegistersInv ==
  /\ pc \notin {"call", "pop"} =>
       /\ \A r \in Registers \ {"ds"} : reg[r] = caller.reg[r]
       /\ eax.high = caller.eax.high
  /\ pc \in {"call", "pop"} =>
       /\ \A i \in 1 .. 10 : Saved[i] # "ds" => stack.reg[i] = caller.reg[Saved[i]]
       /\ stack.eax.high = caller.eax.high

SInv == STypeOK /\ NumberInv /\ RegistersInv

(* An assignment to AL, or to AX, leaves the rest of EAX alone.            *)
LEMMA DebugKeeps ==
  ASSUME NEW e \in AnyEax, NEW l \in {A, B, C, D, LF}
  PROVE  /\ Debug(e, l) \in AnyEax
         /\ Debug(e, l).high = e.high /\ Debug(e, l).ah = e.ah /\ Debug(e, l).al = l
BY DEF Debug, AnyEax

(* Loading AX with a selector leaves the upper half of EAX.                 *)
LEMMA LoadKeeps ==
  ASSUME NEW e \in AnyEax
  PROVE  /\ LoadAX(e) \in AnyEax
         /\ LoadAX(e).high = e.high /\ LoadAX(e).ah = 0
BY DEF LoadAX, AnyEax

(* Every register has a place in the order of the pushes.                  *)
LEMMA Places ==
  /\ \A i \in 1 .. 10 : Saved[i] \in Registers
  /\ \A r \in Registers : LET i == CHOOSE i \in 1 .. 10 : Saved[i] = r
                          IN  i \in 1 .. 10 /\ Saved[i] = r
BY DEF Registers

(* The caller's values are in the registers to begin with.                  *)
LEMMA SInitOK == SInit => SInv
BY DEF SInit, SInv, STypeOK, NumberInv, RegistersInv, EaxValues, AnyEax, B

(* Every step keeps track of where they are.                                *)
LEMMA SStepOK == SInv /\ [SNext]_svars => SInv'
<1> SUFFICES ASSUME SInv, [SNext]_svars PROVE SInv'
  OBVIOUS
<1> USE DEF SInv, STypeOK, NumberInv, RegistersInv
<1>1. CASE Int80
  BY <1>1 DEF Int80, EaxValues, AnyEax
<1>2. CASE KernelDS
  <2> DEFINE first == Debug(eax, A)
             second == LoadAX(first)
  <2>1. first \in AnyEax /\ first.high = eax.high
    BY DebugKeeps
  <2>2. second \in AnyEax /\ second.high = eax.high /\ second.ah = 0
    BY <2>1, LoadKeeps
  <2>3. eax' \in AnyEax /\ eax'.high = eax.high /\ eax'.ah = 0 /\ eax'.al = B
    BY <1>2, <2>2, DebugKeeps DEF KernelDS
  <2>4. /\ reg' \in [Registers -> Values \cup {0, KernelData}]
        /\ \A r \in Registers \ {"ds"} : reg'[r] = reg[r]
    BY <1>2 DEF KernelDS
  <2> QED
    BY <1>2, <2>3, <2>4 DEF KernelDS
<1>3. CASE SaveParameters
  <2>1. eax' \in AnyEax /\ eax'.high = eax.high
    BY <1>3, DebugKeeps DEF SaveParameters
  <2>2. syscall_eax' = [high |-> caller.eax.high, ah |-> 0, al |-> B]
    BY <1>3 DEF SaveParameters, AnyEax
  <2> QED
    BY <1>3, <2>1, <2>2 DEF SaveParameters
<1>4. CASE Push
  <2>1. LoadAX(eax) \in AnyEax
    BY LoadKeeps
  <2>2. eax' \in AnyEax
    BY <1>4, <2>1, DebugKeeps DEF Push
  <2>3. reg' \in [Registers -> Values \cup {0, KernelData}]
    BY <1>4 DEF Push
  <2>4. \A i \in 1 .. 10 : Saved[i] # "ds" => stack'.reg[i] = caller'.reg[Saved[i]]
    BY <1>4, Places DEF Push
  <2>5. \A i \in 1 .. 10 : stack'.reg[i] \in Values \cup {0, KernelData}
    BY <1>4, Places DEF Push
  <2>6. stack'.eax \in AnyEax /\ stack'.eax.high = caller'.eax.high
    BY <1>4 DEF Push
  <2> QED
    BY <1>4, <2>2, <2>3, <2>4, <2>5, <2>6 DEF Push
<1>5. CASE syscall_handler
  <2>1. syscall_eax # Write
    BY DEF Write, B
  <2>2. eax' \in AnyEax
    BY <1>5 DEF syscall_handler, EaxValues, AnyEax
  <2>3. reg' \in [Registers -> Values \cup {0, KernelData}]
    BY <1>5 DEF syscall_handler
  <2> QED
    BY <1>5, <2>1, <2>2, <2>3 DEF syscall_handler
<1>6. CASE Pop
  <2>1. eax' \in AnyEax /\ eax'.high = caller.eax.high
    BY <1>6, DebugKeeps DEF Pop
  <2>2. ASSUME NEW r \in Registers \ {"ds"} PROVE reg'[r] = caller.reg[r]
    <3> DEFINE i == CHOOSE i \in 1 .. 10 : Saved[i] = r
    <3>1. i \in 1 .. 10 /\ Saved[i] = r
      BY Places
    <3>2. reg'[r] = stack.reg[i]
      BY <1>6 DEF Pop
    <3> HIDE DEF i
    <3>3. stack.reg[i] = caller.reg[Saved[i]]
      BY <1>6, <3>1, SMTT(20) DEF Pop
    <3> QED BY <3>1, <3>2, <3>3
  <2>3. reg' \in [Registers -> Values \cup {0, KernelData}]
    BY <1>6, Places DEF Pop
  <2>4. pc' = "iret" /\ UNCHANGED <<syscall_eax, served, caller>>
    BY <1>6 DEF Pop
  <2>5. STypeOK'
    BY <2>1, <2>3, <2>4
  <2>6. NumberInv'
    BY <2>4
  <2>7. RegistersInv'
    BY <2>1, <2>2, <2>4
  <2> QED
    BY <2>5, <2>6, <2>7 DEF SInv
<1>7. CASE Iret
  <2>1. /\ reg' \in [Registers -> Values \cup {0, KernelData}]
        /\ \A r \in Registers \ {"ds"} : reg'[r] = reg[r]
    BY <1>7 DEF Iret
  <2> QED
    BY <1>7, <2>1 DEF Iret
<1>8. CASE UNCHANGED svars
  BY <1>8 DEF svars
<1> QED
  BY <1>1, <1>2, <1>3, <1>4, <1>5, <1>6, <1>7, <1>8 DEF SNext

(* interrupts.asm:160-163 never hands the handler the caller's number.     *)
THEOREM SyscallNumberLost == SSpec => []NumberLost
<1>1. SInv => NumberLost
  BY DEF SInv, NumberInv, NumberLost
<1> QED
  BY <1>1, SInitOK, SStepOK, PTL DEF SSpec

(* The branch of syscall_handler for write (idt.cpp:29-39) is never taken. *)
THEOREM SyscallNoCallServed == SSpec => []NoCallServed
<1>1. SInv => NoCallServed
  BY DEF SInv, NumberInv, NoCallServed
<1> QED
  BY <1>1, SInitOK, SStepOK, PTL DEF SSpec

(* The pops of isr_syscall (interrupts.asm:198-209) undo its pushes, for   *)
(* every register but DS.                                                  *)
THEOREM SyscallRegistersBack == SSpec => []RegistersBack
<1>1. SInv => RegistersBack
  BY DEF SInv, RegistersInv, RegistersBack
<1> QED
  BY <1>1, SInitOK, SStepOK, PTL DEF SSpec

=============================================================================
