-------------------------- MODULE InterruptsProofs --------------------------
(* Proofs about Interrupts, for every set of interrupt lines.               *)
EXTENDS Interrupts, TLAPS

(* The lines that can be in service while the first handler instruction    *)
(* for vector v is still to come; none are once it has been acknowledged.  *)
Unacknowledged(v) ==
  IF v < 32 THEN {}
  ELSE IF v - 32 \in Slave THEN {v - 32, Cascade} ELSE {v - 32}

InServiceFor(v, where) ==
  isr \subseteq (IF where = "entry" THEN Unacknowledged(v) ELSE {})

(* At most one handler is in progress, and it knows every line in service. *)
OneHandler ==
  \/ frames = <<>> /\ isr = {}
  \/ \E v \in 0 .. 47, where \in HandlerPcs :
       /\ frames = <<[vector |-> v, pc |-> where]>>
       /\ InServiceFor(v, where)
       /\ ~int_flag

Basics ==
  /\ int_flag \in BOOLEAN
  /\ current_task \in Tasks
  /\ ctx = [t \in Tasks |-> ctx[t]]

IInv == OneHandler /\ Basics

-----------------------------------------------------------------------------
(* Entering a handler when none is in progress.                            *)
LEMMA EnterAlone ==
  ASSUME frames = <<>>, int_flag \in BOOLEAN, NEW v \in 0 .. 47, Enter(v)
  PROVE  frames' = <<[vector |-> v, pc |-> "entry"]>> /\ int_flag' = FALSE
<1>1. frames' = <<Frame(v)>>
  BY DEF Enter
<1>2. v < 48
  OBVIOUS
<1>3. GateClearsIF(v)
  BY <1>2 DEF GateClearsIF
<1>4. int_flag' = (int_flag /\ ~GateClearsIF(v))
  BY DEF Enter
<1>5. int_flag' = FALSE
  BY <1>3, <1>4, Zenon
<1> QED  BY <1>1, <1>5 DEF Frame

(* In a handler there is exactly one frame, and its place is where.        *)
LEMMA TheFrame ==
  ASSUME OneHandler, NEW where, InHandler(where)
  PROVE  /\ where \in HandlerPcs /\ ~int_flag
         /\ \E v \in 0 .. 47 : /\ frames = <<[vector |-> v, pc |-> where]>>
                               /\ Top = [vector |-> v, pc |-> where]
                               /\ InServiceFor(v, where)
<1>1. PICK v \in 0 .. 47, w \in HandlerPcs :
        /\ frames = <<[vector |-> v, pc |-> w]>> /\ InServiceFor(v, w) /\ ~int_flag
  BY DEF InHandler, OneHandler
<1>2. Top = [vector |-> v, pc |-> w]
  BY <1>1 DEF Top
<1>3. w = where
  BY <1>2 DEF InHandler
<1> QED  BY <1>1, <1>2, <1>3

(* ... and a handler that goes on is still that frame.                     *)
LEMMA ContinuedFrame ==
  ASSUME NEW v, NEW where, frames = <<[vector |-> v, pc |-> where]>>,
         NEW next, Continue(next)
  PROVE  frames' = <<[vector |-> v, pc |-> next]>>
<1>1. Len(frames) = 1
  OBVIOUS
<1>2. frames' = [frames EXCEPT ![1].pc = next]
  BY <1>1 DEF Continue
<1> QED  BY <1>2

(* The end of interrupt leaves nothing in service, master or slave.        *)
LEMMA AcknowledgeClears ==
  ASSUME NEW v \in 32 .. 47, InServiceFor(v, "entry"), Acknowledge(v)
  PROVE  isr' = {}
<1>1. isr \subseteq Unacknowledged(v)
  BY DEF InServiceFor
<1>2. CASE v < 40
  <2>1. isr \subseteq {v - 32} /\ v - 32 \in Master
    BY <1>1, <1>2 DEF Unacknowledged, Slave, Master
  <2>2. isr \cap Master = isr
    BY <2>1
  <2>3. \A x \in isr : \A y \in isr : x <= y
    BY <2>1
  <2>4. Highest(isr) = isr
    BY <2>3, Zenon DEF Highest
  <2>5. Highest(isr \cap Master) = isr
    BY <2>2, <2>4, Zenon
  <2>6. isr' = (isr \ isr) \ {}
    BY <1>2, <2>5 DEF Acknowledge, EndOfInterrupt
  <2> QED  BY <2>6
<1>3. CASE v >= 40
  <2>1. isr \subseteq {v - 32, Cascade} /\ v - 32 \in Slave
    BY <1>1, <1>3 DEF Unacknowledged, Slave
  <2>2. Highest(isr \cap Master) = isr \cap {Cascade}
    BY <2>1 DEF Highest, Master, Slave, Cascade
  <2>3. Highest(isr \cap Slave) = isr \cap {v - 32}
    BY <2>1 DEF Highest, Slave, Cascade
  <2> QED  BY <1>3, <2>1, <2>2, <2>3 DEF Acknowledge, EndOfInterrupt
<1> QED  BY <1>2, <1>3

-----------------------------------------------------------------------------
(* At reset no handler is in progress.                                      *)
LEMMA InitIInv == Init => IInv
  BY DEF Init, IInv, OneHandler, Basics, Tasks

(* Actions that touch neither handlers, nor the flag, nor the lines in     *)
(* service.                                                                *)
LEMMA Elsewhere ==
  ASSUME IInv, UNCHANGED <<frames, int_flag, isr, current_task, ctx>>
  PROVE  IInv'
  BY DEF IInv, OneHandler, Basics, InServiceFor

(* A handler just entered.                                                 *)
LEMMA Entered ==
  ASSUME NEW v \in 0 .. 47, frames' = <<[vector |-> v, pc |-> "entry"]>>,
         int_flag' = FALSE, isr' \subseteq Unacknowledged(v), Basics'
  PROVE  IInv'
<1>1. InServiceFor(v, "entry")'
  BY DEF InServiceFor, Unacknowledged
<1>2. "entry" \in HandlerPcs
  BY DEF HandlerPcs
<1>3. ~(int_flag')
  OBVIOUS
<1> QED  BY <1>1, <1>2, <1>3 DEF IInv, OneHandler

(* An interrupt is taken only with interrupts on, so alone.                 *)
LEMMA DeliverIInv ==
  ASSUME IInv, NEW l \in Lines, Deliver(l) PROVE IInv'
<1>1. frames = <<>> /\ isr = {}
  BY DEF Deliver, IInv, OneHandler
<1>2. l \in 0 .. 15 /\ l \in Nat
  BY LinesAssumption
<1> DEFINE v == Vector(l)
<1>3. v \in 0 .. 47 /\ v >= 32 /\ v - 32 = l
  BY <1>2 DEF Vector
<1>4. frames' = <<[vector |-> v, pc |-> "entry"]>> /\ int_flag' = FALSE
  BY <1>1, <1>3, EnterAlone DEF Deliver, IInv, Basics
<1>5. isr' \subseteq Unacknowledged(v)
  <2>1. isr' = (IF l \in Slave THEN {l, Cascade} ELSE {l})
    BY <1>1 DEF Deliver
  <2>2. Unacknowledged(v) = (IF l \in Slave THEN {l, Cascade} ELSE {l})
    BY <1>3 DEF Unacknowledged
  <2> QED  BY <2>1, <2>2
<1>6. Basics'
  BY <1>4 DEF Deliver, tasking, IInv, Basics
<1> HIDE DEF v
<1> QED  BY <1>3, <1>4, <1>5, <1>6, Entered

(* So is a spurious one.                                                    *)
LEMMA SpuriousIInv ==
  ASSUME IInv, NEW l \in {7, 15}, DeliverSpurious(l) PROVE IInv'
<1>1. frames = <<>> /\ isr = {}
  BY DEF DeliverSpurious, IInv, OneHandler
<1> DEFINE v == Vector(l)
<1>2. v \in 0 .. 47 /\ v >= 32 /\ v - 32 = l
  BY DEF Vector
<1>3. frames' = <<[vector |-> v, pc |-> "entry"]>> /\ int_flag' = FALSE
  BY <1>1, <1>2, EnterAlone DEF DeliverSpurious, IInv, Basics
<1>4. isr' \subseteq Unacknowledged(v)
  <2>1. isr' = (IF l \in Slave THEN {Cascade} ELSE {})
    BY <1>1 DEF DeliverSpurious
  <2>2. Unacknowledged(v) = (IF l \in Slave THEN {l, Cascade} ELSE {l})
    BY <1>2 DEF Unacknowledged
  <2> QED  BY <2>1, <2>2
<1>5. Basics'
  BY <1>3 DEF DeliverSpurious, tasking, IInv, Basics
<1> HIDE DEF v
<1> QED  BY <1>2, <1>3, <1>4, <1>5, Entered

(* A step inside a handler that has been acknowledged, to another such.    *)
LEMMA GoesOn ==
  ASSUME IInv, NEW v \in 0 .. 47, NEW where \in HandlerPcs,
         frames' = <<[vector |-> v, pc |-> where]>>, where # "entry",
         isr' = {}, int_flag' = FALSE, current_task' \in Tasks,
         ctx' = [t \in Tasks |-> ctx'[t]]
  PROVE  IInv'
  BY DEF IInv, OneHandler, Basics, InServiceFor

(* A handler acknowledges its own line, and returns with interrupts on.     *)
LEMMA HandlerIInv ==
  ASSUME IInv, HandlerStep PROVE IInv'
<1>1. CASE HandlerAcknowledges
  <2>1. InHandler("entry") /\ Top.vector >= 32 /\ Acknowledge(Top.vector)
    BY <1>1 DEF HandlerAcknowledges
  <2>2. PICK v \in 0 .. 47 : /\ frames = <<[vector |-> v, pc |-> "entry"]>>
                             /\ Top = [vector |-> v, pc |-> "entry"]
                             /\ InServiceFor(v, "entry") /\ ~int_flag
    BY <2>1, TheFrame DEF IInv
  <2>3. v \in 32 .. 47
    BY <2>1, <2>2
  <2>4. isr' = {}
    BY <2>1, <2>2, <2>3, AcknowledgeClears
  <2>5. PICK next \in {"keyboard", "task_switch", "return"} : Continue(next)
    BY <1>1 DEF HandlerAcknowledges
  <2>6. frames' = <<[vector |-> v, pc |-> next]>>
    BY <2>2, <2>5, ContinuedFrame
  <2>7. int_flag' = FALSE /\ current_task' \in Tasks /\ ctx' = [t \in Tasks |-> ctx'[t]]
    BY <1>1, <2>2 DEF HandlerAcknowledges, tasking, IInv, Basics
  <2> QED  BY <2>4, <2>5, <2>6, <2>7, GoesOn DEF HandlerPcs
<1>2. CASE HandlerKeyboard
  <2>1. InHandler("keyboard")
    BY <1>2 DEF HandlerKeyboard
  <2>2. PICK v \in 0 .. 47 : /\ frames = <<[vector |-> v, pc |-> "keyboard"]>>
                             /\ InServiceFor(v, "keyboard") /\ ~int_flag
    BY <2>1, TheFrame DEF IInv
  <2>3. PICK next \in {"return", "command"} : Continue(next)
    BY <1>2 DEF HandlerKeyboard
  <2>4. frames' = <<[vector |-> v, pc |-> next]>>
    BY <2>2, <2>3, ContinuedFrame
  <2>5. /\ isr' = {} /\ int_flag' = FALSE /\ current_task' \in Tasks
        /\ ctx' = [t \in Tasks |-> ctx'[t]]
    BY <1>2, <2>2 DEF HandlerKeyboard, tasking, IInv, Basics, InServiceFor
  <2> QED  BY <2>3, <2>4, <2>5, GoesOn DEF HandlerPcs
<1>3. CASE HandlerTimer
  <2>1. InHandler("task_switch")
    BY <1>3 DEF HandlerTimer
  <2>2. PICK v \in 0 .. 47 : /\ frames = <<[vector |-> v, pc |-> "task_switch"]>>
                             /\ InServiceFor(v, "task_switch") /\ ~int_flag
    BY <2>1, TheFrame DEF IInv
  <2>3. isr' = {} /\ int_flag = FALSE
    BY <1>3, <2>2 DEF HandlerTimer, InServiceFor, IInv, Basics
  <2>4. CASE ~test_active
    <3>1. frames' = <<[vector |-> v, pc |-> "return"]>>
      BY <1>3, <2>2, <2>4, ContinuedFrame DEF HandlerTimer, task_switch
    <3>2. /\ int_flag' = FALSE /\ current_task' \in Tasks
          /\ ctx' = [t \in Tasks |-> ctx'[t]]
      BY <1>3, <2>3, <2>4 DEF HandlerTimer, task_switch, tasking, IInv, Basics
    <3> QED  BY <2>3, <3>1, <3>2, GoesOn DEF HandlerPcs
  <2>5. CASE test_active
    <3>1. switch_to_task(current_task, current_task') /\ current_task' \in Tasks
      BY <1>3, <2>5 DEF HandlerTimer, task_switch, Tasks
    <3>2. current_task \in Tasks /\ ctx = [t \in Tasks |-> ctx[t]]
      BY DEF IInv, Basics
    <3>3. ctx' = [ctx EXCEPT ![current_task] = Registers]
      BY <3>1 DEF switch_to_task
    <3>4. ctx' = [t \in Tasks |-> ctx'[t]] /\ ctx'[current_task] = Registers
      BY <3>2, <3>3
    <3>5. int_flag' = FALSE
      BY <2>3, <3>1, <3>3, <3>4 DEF switch_to_task, LoadedFrom, Registers
    <3>6. frames' = [frames EXCEPT ![Len(frames)].pc = "return"]
      BY <2>2, <3>1, <3>3, <3>4 DEF switch_to_task, LoadedFrom, Registers
    <3>7. frames' = <<[vector |-> v, pc |-> "return"]>>
      BY <2>2, <3>6, ContinuedFrame DEF Continue
    <3> QED  BY <2>3, <3>1, <3>4, <3>5, <3>7, GoesOn DEF HandlerPcs
  <2> QED  BY <2>4, <2>5
<1>4. CASE HandlerReturns
  <2>1. InHandler("return") /\ Leave
    BY <1>4 DEF HandlerReturns
  <2>2. PICK v \in 0 .. 47 : /\ frames = <<[vector |-> v, pc |-> "return"]>>
                             /\ InServiceFor(v, "return")
    BY <2>1, TheFrame DEF IInv
  <2>3. frames' = <<>> /\ int_flag' = TRUE
    BY <2>1, <2>2 DEF Leave
  <2>4. isr' = {}
    BY <1>4, <2>2 DEF HandlerReturns, InServiceFor
  <2> QED  BY <1>4, <2>3, <2>4 DEF HandlerReturns, tasking, IInv, OneHandler, Basics
<1>5. CASE HandlerCommand
  <2>1. InHandler("command")
    BY <1>5 DEF HandlerCommand
  <2>2. PICK v \in 0 .. 47 : /\ frames = <<[vector |-> v, pc |-> "command"]>>
                             /\ InServiceFor(v, "command") /\ ~int_flag
    BY <2>1, TheFrame DEF IInv
  <2>3. isr = {} /\ isr' = {} /\ UNCHANGED <<current_task, ctx>>
    BY <1>5, <2>2 DEF HandlerCommand, InServiceFor, tasking
  <2>4. CASE Continue("return") /\ UNCHANGED int_flag
    <3>1. frames' = <<[vector |-> v, pc |-> "return"]>>
      BY <2>2, <2>4, ContinuedFrame
    <3>2. /\ int_flag' = FALSE /\ current_task' \in Tasks
          /\ ctx' = [t \in Tasks |-> ctx'[t]]
      BY <2>2, <2>3, <2>4 DEF IInv, Basics
    <3> QED  BY <2>3, <3>1, <3>2, GoesOn DEF HandlerPcs
  <2>5. CASE EnterUser
    BY <2>3, <2>5 DEF EnterUser, IInv, OneHandler, Basics
  <2>6. CASE UNCHANGED cpu
    BY <2>3, <2>6, Elsewhere DEF cpu
  <2> QED  BY <1>5, <2>4, <2>5, <2>6 DEF HandlerCommand
<1>6. CASE FaultHandler
  BY <1>6, Elsewhere DEF FaultHandler, cpu, tasking
<1> QED
  BY <1>1, <1>2, <1>3, <1>4, <1>5, <1>6 DEF HandlerStep

(* The code beneath the handlers is not a handler.                          *)
LEMMA MainIInv ==
  ASSUME IInv, MainStep PROVE IInv'
<1>1. frames = <<>> /\ isr = {}
  BY DEF MainStep, IDT_init, Sti, TaskingInit, MainPoll, MainCommand, Running, IInv, OneHandler
<1>2. CASE IDT_init
  BY <1>1, <1>2, Elsewhere DEF IDT_init, cpu, tasking
<1>3. CASE Sti
  BY <1>1, <1>3 DEF Sti, tasking, IInv, OneHandler, Basics
<1>4. CASE TaskingInit
  <2>1. UNCHANGED <<frames, int_flag, isr>>
    BY <1>4 DEF TaskingInit, cpu
  <2>2. current_task' \in Tasks
    BY <1>4 DEF TaskingInit, IInv, Basics, Tasks
  <2>3. ctx' = [t \in Tasks |-> ctx'[t]]
    BY <1>4 DEF TaskingInit, IInv, Basics
  <2> QED  BY <1>1, <2>1, <2>2, <2>3 DEF IInv, OneHandler, Basics
<1>5. CASE MainPoll
  BY <1>5, Elsewhere DEF MainPoll, cpu, tasking
<1>6. CASE MainCommand
  <2>1. CASE EnterUser
    BY <1>1, <1>6, <2>1 DEF MainCommand, EnterUser, tasking, IInv, OneHandler, Basics
  <2>2. CASE UNCHANGED cpu
    BY <1>6, <2>2, Elsewhere DEF MainCommand, cpu, tasking
  <2> QED  BY <1>6, <2>1, <2>2 DEF MainCommand
<1> QED
  BY <1>2, <1>3, <1>4, <1>5, <1>6 DEF MainStep

(* Nor is the task in ring 3.                                               *)
LEMMA UserIInv ==
  ASSUME IInv, UserStep PROVE IInv'
<1>1. frames = <<>> /\ isr = {}
  BY DEF UserStep, UserOut, UserHlt, Running, IInv, OneHandler
<1>2. CASE UserOut
  BY <1>2, Elsewhere DEF UserOut, cpu, tasking
<1>3. CASE UserHlt
  <2>1. frames' = <<[vector |-> 13, pc |-> "entry"]>> /\ int_flag' = FALSE
    BY <1>1, <1>3, EnterAlone DEF UserHlt, IInv, Basics
  <2>2. isr' \subseteq Unacknowledged(13)
    BY <1>1, <1>3 DEF UserHlt
  <2>3. Basics'
    BY <1>3, <2>1 DEF UserHlt, tasking, IInv, Basics
  <2>4. 13 \in 0 .. 47
    OBVIOUS
  <2> QED  BY <2>1, <2>2, <2>3, <2>4, Entered, Zenon
<1> QED  BY <1>2, <1>3 DEF UserStep

(* Every step keeps the invariant.                                          *)
LEMMA NextIInv == IInv /\ [Next]_vars => IInv'
<1> SUFFICES ASSUME IInv, [Next]_vars PROVE IInv'
  OBVIOUS
<1>1. CASE RaiseTimer \/ PressKey \/ \E l \in Lines : RaiseOther(l)
  BY <1>1, Elsewhere DEF RaiseTimer, PressKey, RaiseOther, cpu, tasking
<1>2. CASE Stopped \/ UNCHANGED vars
  BY <1>2, Elsewhere DEF Stopped, vars
<1> QED
  BY <1>1, <1>2, DeliverIInv, SpuriousIInv, HandlerIInv, MainIInv, UserIInv DEF Next

(* So it holds throughout.                                                  *)
LEMMA SpecIInv == Spec => []IInv
<1> QED  BY InitIInv, NextIInv, PTL DEF Spec

(* No handler is ever entered on top of another.                           *)
THEOREM IrqHandlersRunAlone == Spec => []HandlersRunAlone
<1>1. IInv => HandlersRunAlone
  <2> SUFFICES ASSUME IInv, frames # <<>> PROVE Len(frames) <= 1 /\ ~int_flag
    <3>1. frames = <<>> => Len(frames) = 0
      OBVIOUS
    <3> QED  BY <3>1 DEF HandlersRunAlone
  <2>1. PICK f : frames = <<f>> /\ ~int_flag
    BY DEF IInv, OneHandler
  <2>2. Len(<<f>>) = 1
    OBVIOUS
  <2> QED  BY <2>1, <2>2
<1> QED  BY <1>1, SpecIInv, PTL

(* Whenever the processor accepts interrupts no line is left in service,   *)
(* even when a handler was abandoned for ring 3.                           *)
THEOREM IrqNoLineLeftInService == Spec => []NoLineLeftInService
<1>1. IInv => NoLineLeftInService
  BY DEF IInv, OneHandler, NoLineLeftInService
<1> QED  BY <1>1, SpecIInv, PTL

-----------------------------------------------------------------------------
(* The keyboard.  The frame of a handler that has yet to read the port.    *)
KeyHeld ==
  \E where \in {"entry", "keyboard"} : frames = <<[vector |-> Vector(Kbd), pc |-> where]>>

(* IDT::init forgets requests, so the buffer must be empty until then.     *)
KeyInv ==
  /\ pc = "idt" => ~obf
  /\ power = "on" /\ obf => Kbd \in irr \/ KeyHeld

(* A step away from the keyboard's handler that forgets no request.        *)
LEMMA StillRequested ==
  ASSUME KeyInv, ~KeyHeld, power = "on", obf' = obf, irr \subseteq irr',
         pc' = "idt" => pc = "idt"
  PROVE  KeyInv'
  BY DEF KeyInv

(* A frame somewhere else, or none, is not the keyboard's.                 *)
LEMMA NotHeld ==
  /\ frames = <<>> => ~KeyHeld
  /\ \A v \in 0 .. 47 : \A where :
       frames = <<[vector |-> v, pc |-> where]>>
         => (v # Vector(Kbd) \/ where \notin {"entry", "keyboard"} => ~KeyHeld)
<1>1. frames = <<>> => ~KeyHeld
  BY DEF KeyHeld
<1>2. ASSUME NEW v \in 0 .. 47, NEW where, NEW w,
             <<[vector |-> v, pc |-> where]>> = <<[vector |-> Vector(Kbd), pc |-> w]>>
      PROVE  v = Vector(Kbd) /\ where = w
  <2>1. [vector |-> v, pc |-> where] = [vector |-> Vector(Kbd), pc |-> w]
    BY <1>2
  <2> QED  BY <2>1
<1> QED  BY <1>1, <1>2 DEF KeyHeld

(* The keyboard's handler is dropped only after it has read the port.       *)
LEMMA HandlerKeyInv ==
  ASSUME IInv, KeyInv, HandlerStep PROVE KeyInv'
<1>1. CASE HandlerAcknowledges
  <2>1. PICK v \in 0 .. 47 : /\ frames = <<[vector |-> v, pc |-> "entry"]>>
                             /\ Top = [vector |-> v, pc |-> "entry"]
    BY <1>1, TheFrame DEF HandlerAcknowledges, IInv
  <2>2. CASE v = Vector(Kbd)
    <3>1. Continue("keyboard")
      <4>1. Top.vector = Vector(Kbd) /\ Vector(Kbd) # Vector(Timer)
        BY <2>1, <2>2 DEF Vector, Kbd, Timer
      <4> DEFINE next == CASE Top.vector = Vector(Kbd)   -> "keyboard"
                           [] Top.vector = Vector(Timer) -> "task_switch"
                           [] OTHER                      -> "return"
      <4>2. next = "keyboard"
        BY <4>1
      <4>3. Continue(next)
        BY <1>1 DEF HandlerAcknowledges
      <4> QED  BY <4>2, <4>3
    <3>2. frames' = <<[vector |-> Vector(Kbd), pc |-> "keyboard"]>>
      BY <2>1, <2>2, <3>1, ContinuedFrame
    <3>3. KeyHeld'
      BY <3>2 DEF KeyHeld
    <3> QED  BY <1>1, <3>3 DEF HandlerAcknowledges, KeyInv
  <2>3. CASE v # Vector(Kbd)
    <3>1. ~KeyHeld
      BY <2>1, <2>3, NotHeld
    <3> QED  BY <1>1, <3>1, StillRequested DEF HandlerAcknowledges, InHandler
  <2> QED  BY <2>2, <2>3
<1>2. CASE HandlerKeyboard
  BY <1>2 DEF HandlerKeyboard, ReadPort, KeyInv
<1>3. ASSUME NEW where, InHandler(where), where \notin {"entry", "keyboard"} PROVE ~KeyHeld
  BY <1>3, TheFrame, NotHeld DEF IInv
<1>4. CASE HandlerTimer
  <2>1. ~KeyHeld
    BY <1>3, <1>4 DEF HandlerTimer
  <2> QED  BY <1>4, <2>1, StillRequested DEF HandlerTimer, InHandler
<1>5. CASE HandlerReturns
  <2>1. ~KeyHeld
    BY <1>3, <1>5 DEF HandlerReturns
  <2> QED  BY <1>5, <2>1, StillRequested DEF HandlerReturns, InHandler
<1>6. CASE HandlerCommand
  <2>1. ~KeyHeld
    BY <1>3, <1>6 DEF HandlerCommand
  <2> QED  BY <1>6, <2>1, StillRequested DEF HandlerCommand, InHandler
<1>7. CASE FaultHandler
  BY <1>7 DEF FaultHandler, cpu, InHandler, KeyInv, KeyHeld
<1> QED
  BY <1>1, <1>2, <1>4, <1>5, <1>6, <1>7 DEF HandlerStep

(* Nothing runs, or enters, but beneath the handlers.                      *)
LEMMA DeliverKeyInv ==
  ASSUME IInv, KeyInv, NEW l \in Lines, Deliver(l) PROVE KeyInv'
<1>1. frames = <<>>
  BY DEF Deliver, IInv, OneHandler
<1>2. ~KeyHeld
  BY <1>1, NotHeld
<1>3. CASE l = Kbd
  <2>1. Vector(Kbd) \in 0 .. 47
    BY DEF Vector, Kbd
  <2>2. frames' = <<[vector |-> Vector(Kbd), pc |-> "entry"]>>
    BY <1>1, <1>3, <2>1, EnterAlone DEF Deliver, IInv, Basics
  <2>3. KeyHeld'
    BY <2>2 DEF KeyHeld
  <2> QED  BY <2>3 DEF Deliver, KeyInv
<1>4. CASE l # Kbd
  BY <1>2, <1>4 DEF Deliver, KeyInv
<1> QED  BY <1>3, <1>4

(* No other step touches the controller or a request for it.                *)
LEMMA BeneathKeyInv ==
  ASSUME IInv, KeyInv, MainStep \/ UserStep \/ \E l \in {7, 15} : DeliverSpurious(l)
  PROVE  KeyInv'
<1>1. frames = <<>> /\ power = "on"
  BY DEF MainStep, IDT_init, Sti, TaskingInit, MainPoll, MainCommand, UserStep, UserOut,
         UserHlt, DeliverSpurious, Running, IInv, OneHandler
<1>2. ~KeyHeld
  BY <1>1, NotHeld
<1>3. CASE IDT_init
  BY <1>3 DEF IDT_init, KeyInv
<1>4. CASE Sti \/ TaskingInit \/ MainPoll \/ MainCommand
  <2>1. UNCHANGED <<obf, irr>> /\ (pc' = "idt" => pc = "idt")
    BY <1>4 DEF Sti, TaskingInit, MainPoll, MainCommand
  <2> QED  BY <1>1, <1>2, <2>1, StillRequested
<1>5. CASE UserStep \/ \E l \in {7, 15} : DeliverSpurious(l)
  <2>1. UNCHANGED <<obf, irr, pc>>
    BY <1>5 DEF UserStep, UserOut, UserHlt, DeliverSpurious
  <2> QED  BY <1>1, <1>2, <2>1, StillRequested
<1> QED  BY <1>3, <1>4, <1>5 DEF MainStep

(* Every step keeps the invariant of the key.                               *)
LEMMA NextKeyInv == IInv /\ KeyInv /\ [Next]_vars => KeyInv'
<1> SUFFICES ASSUME IInv, KeyInv, [Next]_vars PROVE KeyInv'
  OBVIOUS
<1>1. CASE RaiseTimer \/ \E l \in Lines : RaiseOther(l)
  BY <1>1 DEF RaiseTimer, RaiseOther, cpu, KeyInv, KeyHeld
<1>2. CASE PressKey
  BY <1>2 DEF PressKey, KeyInv
<1>3. CASE Stopped \/ UNCHANGED vars
  BY <1>3 DEF Stopped, vars, KeyInv, KeyHeld
<1> QED
  BY <1>1, <1>2, <1>3, HandlerKeyInv, DeliverKeyInv, BeneathKeyInv DEF Next

(* A byte in the keyboard controller is never left without a request, or a *)
(* handler on its way to read it, whatever interrupts what and wherever a  *)
(* command leads.                                                          *)
THEOREM IrqKeyNotStranded == Spec => []KeyNotStranded
<1>1. Init => KeyInv
  BY DEF Init, KeyInv
<1>2. KeyInv => KeyNotStranded
  <2> SUFFICES ASSUME KeyHeld
               PROVE  \E i \in DOMAIN frames : /\ frames[i].vector = Vector(Kbd)
                                               /\ frames[i].pc \in {"entry", "keyboard"}
    BY DEF KeyInv, KeyNotStranded
  <2>1. PICK where \in {"entry", "keyboard"} : frames = <<[vector |-> Vector(Kbd), pc |-> where]>>
    BY DEF KeyHeld
  <2>2. 1 \in DOMAIN frames /\ frames[1] = [vector |-> Vector(Kbd), pc |-> where]
    BY <2>1
  <2> QED  BY <2>2
<1> QED  BY <1>1, <1>2, SpecIInv, NextKeyInv, PTL DEF Spec

-----------------------------------------------------------------------------
(* Types *)

(* What IInv says of the frames is more than their type.                   *)
LEMMA FramesTyped == OneHandler => frames \in Frames
<1> SUFFICES ASSUME OneHandler PROVE frames \in Frames
  OBVIOUS
<1> DEFINE F == [vector : 0 .. 47, pc : HandlerPcs]
<1>1. CASE frames = <<>>
  BY <1>1 DEF Frames
<1>2. CASE \E v \in 0 .. 47, where \in HandlerPcs : frames = <<[vector |-> v, pc |-> where]>>
  <2>1. PICK v \in 0 .. 47, where \in HandlerPcs : frames = <<[vector |-> v, pc |-> where]>>
    BY <1>2
  <2>2. [vector |-> v, pc |-> where] \in F
    OBVIOUS
  <2> HIDE DEF F
  <2>3. frames \in Seq(F)
    BY <2>1, <2>2
  <2> QED BY <2>3 DEF Frames, F
<1> QED BY <1>1, <1>2 DEF OneHandler

(* The types that IInv leaves open.                                        *)
MachineTyped ==
  /\ power \in {"on", "halted", "reset"}
  /\ pc \in {"idt", "sti", "tasking_init", "activate", "context", "poll", "delay", "command"}
  /\ user_pc \in {"out", "hlt"}
  /\ obf \in BOOLEAN
  /\ test_active \in BOOLEAN

LinesTyped == irr \subseteq Lines /\ isr \subseteq Lines \cup {Cascade}

Contexts == [thread : {"main", "user", "nowhere"}, frames : Frames, int_flag : BOOLEAN]

TasksTyped == thread \in {"main", "user"} /\ ctx \in [Tasks -> Contexts]

(* Every step keeps the processor's state within its type.                  *)
LEMMA MachineStaysTyped ==
  ASSUME MachineTyped, [Next]_vars PROVE MachineTyped'
<1>1. CASE RaiseTimer \/ PressKey \/ \E l \in Lines : RaiseOther(l)
  BY <1>1 DEF MachineTyped, RaiseTimer, PressKey, RaiseOther, tasking
<1>2. CASE (\E l \in Lines : Deliver(l)) \/ \E l \in {7, 15} : DeliverSpurious(l)
  BY <1>2 DEF MachineTyped, Deliver, DeliverSpurious, tasking
<1>3. CASE HandlerAcknowledges \/ HandlerKeyboard \/ HandlerReturns
  BY <1>3 DEF MachineTyped, HandlerAcknowledges, HandlerKeyboard, HandlerReturns, ReadPort, tasking
<1>4. CASE HandlerTimer
  BY <1>4 DEF MachineTyped, HandlerTimer, task_switch, tasking
<1>5. CASE HandlerCommand \/ FaultHandler
  BY <1>5 DEF MachineTyped, HandlerCommand, FaultHandler, EnterUser, tasking
<1>6. CASE MainStep
  <2>1. CASE IDT_init \/ Sti
    BY <2>1 DEF MachineTyped, IDT_init, Sti, tasking
  <2>2. CASE TaskingInit \/ MainPoll
    BY <2>2 DEF MachineTyped, TaskingInit, MainPoll, tasking
  <2>3. CASE MainCommand
    BY <2>3 DEF MachineTyped, MainCommand, EnterUser, tasking
  <2> QED BY <1>6, <2>1, <2>2, <2>3 DEF MainStep
<1>7. CASE UserStep \/ Stopped \/ UNCHANGED vars
  BY <1>7 DEF MachineTyped, UserStep, UserOut, UserHlt, Stopped, vars, tasking
<1> QED BY <1>1, <1>2, <1>3, <1>4, <1>5, <1>6, <1>7 DEF Next, HandlerStep

(* Only devices request a line, and only a line taken enters service.      *)
LEMMA LinesStayTyped ==
  ASSUME LinesTyped, [Next]_vars PROVE LinesTyped'
<1> USE DEF LinesTyped
<1>1. CASE RaiseTimer \/ PressKey \/ \E l \in Lines : RaiseOther(l)
  BY <1>1, LinesAssumption DEF RaiseTimer, PressKey, RaiseOther
<1>2. CASE (\E l \in Lines : Deliver(l)) \/ \E l \in {7, 15} : DeliverSpurious(l)
  BY <1>2 DEF Deliver, DeliverSpurious
<1>3. CASE HandlerAcknowledges
  BY <1>3 DEF HandlerAcknowledges, Acknowledge, EndOfInterrupt
<1>4. CASE HandlerKeyboard \/ HandlerReturns \/ HandlerTimer \/ HandlerCommand \/ FaultHandler
  BY <1>4 DEF HandlerKeyboard, HandlerReturns, HandlerTimer, HandlerCommand, FaultHandler
<1>5. CASE MainStep
  BY <1>5 DEF MainStep, IDT_init, Sti, TaskingInit, MainPoll, MainCommand
<1>6. CASE UserStep \/ Stopped \/ UNCHANGED vars
  BY <1>6 DEF UserStep, UserOut, UserHlt, Stopped, vars
<1> QED BY <1>1, <1>2, <1>3, <1>4, <1>5, <1>6 DEF Next, HandlerStep

(* A switch saves the running context and loads it again.                  *)
LEMMA TasksStayTyped ==
  ASSUME IInv, TasksTyped, [Next]_vars PROVE TasksTyped'
<1> USE DEF TasksTyped
<1>1. CASE RaiseTimer \/ PressKey \/ \E l \in Lines : RaiseOther(l)
  BY <1>1 DEF RaiseTimer, PressKey, RaiseOther, cpu, tasking
<1>2. CASE (\E l \in Lines : Deliver(l)) \/ \E l \in {7, 15} : DeliverSpurious(l)
  BY <1>2 DEF Deliver, DeliverSpurious, tasking
<1>3. CASE HandlerAcknowledges \/ HandlerKeyboard \/ HandlerReturns \/ FaultHandler
  BY <1>3 DEF HandlerAcknowledges, HandlerKeyboard, HandlerReturns, FaultHandler, cpu, tasking
<1>4. CASE HandlerTimer
  <2>1. CASE ~test_active
    BY <1>4, <2>1 DEF HandlerTimer, task_switch, tasking
  <2>2. CASE test_active
    <3>1. switch_to_task(current_task, current_task') /\ current_task \in Tasks
      BY <1>4, <2>2 DEF HandlerTimer, task_switch, IInv, Basics
    <3>2. Registers \in Contexts
      BY FramesTyped DEF Registers, Contexts, IInv, Basics
    <3>3. ctx' = [ctx EXCEPT ![current_task] = Registers]
      BY <3>1 DEF switch_to_task
    <3>4. thread' = thread
      BY <3>1, <3>3 DEF switch_to_task, LoadedFrom, Registers
    <3> QED BY <3>1, <3>2, <3>3, <3>4
  <2> QED BY <2>1, <2>2
<1>5. CASE HandlerCommand \/ MainCommand
  BY <1>5 DEF HandlerCommand, MainCommand, EnterUser, cpu, tasking
<1>6. CASE TaskingInit
  <2>1. thread' = thread
    BY <1>6 DEF TaskingInit, cpu
  <2>2. Nowhere \in Contexts
    <3>1. <<>> \in Frames
      BY DEF Frames
    <3> QED BY <3>1 DEF Nowhere, Contexts
  <2>3. ctx' = ctx \/ ctx' = [ctx EXCEPT !["test_task"] = Nowhere]
    BY <1>6 DEF TaskingInit
  <2> QED BY <2>1, <2>2, <2>3
<1>7. CASE IDT_init \/ Sti \/ MainPoll
  BY <1>7 DEF IDT_init, Sti, MainPoll, cpu, tasking
<1>8. CASE UserStep \/ Stopped \/ UNCHANGED vars
  BY <1>8 DEF UserStep, UserOut, UserHlt, Stopped, vars, cpu, tasking
<1> QED BY <1>1, <1>2, <1>3, <1>4, <1>5, <1>6, <1>7, <1>8 DEF Next, HandlerStep, MainStep

(* Every variable keeps its type; a context that is saved is always a      *)
(* whole one, whatever handler the switch happened in (switch_to_task).    *)
THEOREM IrqTypeOK == Spec => []ITypeOK
<1> DEFINE Typed == MachineTyped /\ LinesTyped /\ TasksTyped
<1>1. Init => Typed
  <2>1. <<>> \in Frames
    BY DEF Frames
  <2>2. Nowhere \in Contexts
    BY <2>1 DEF Nowhere, Contexts
  <2> QED BY <2>2 DEF Init, MachineTyped, LinesTyped, TasksTyped
<1>2. IInv /\ Typed /\ [Next]_vars => Typed'
  BY MachineStaysTyped, LinesStayTyped, TasksStayTyped
<1>3. IInv /\ Typed => ITypeOK
  BY FramesTyped DEF IInv, Basics, MachineTyped, LinesTyped, TasksTyped, Contexts, ITypeOK
<1> QED BY <1>1, <1>2, <1>3, SpecIInv, PTL DEF Spec

=============================================================================
