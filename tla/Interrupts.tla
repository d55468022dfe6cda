----------------------------- MODULE Interrupts -----------------------------
(***************************************************************************)
(* The interrupt path: the two 8259s as IDT::init programs them, the gates *)
(* of the IDT, irq_handler and fault_handler (idt.cpp), task_switch and    *)
(* switch_to_task (task.cpp, task_switch.asm), the timer and the keyboard  *)
(* as devices, and the code they interrupt: kernel_main from IDT::init to  *)
(* its polling loop, and the ring 3 task the user command starts, never to *)
(* return (user.cpp).  What the commands print, and what the keyboard does *)
(* with its scan codes, are other modules' matters.                        *)
(***************************************************************************)
EXTENDS Integers, Sequences

CONSTANT Lines   \* the interrupt lines that devices raise

Timer == 0
Kbd == 1
Cascade == 2     \* the master's line the slave hangs on

ASSUME LinesAssumption == {Timer, Kbd} \subseteq Lines /\ Lines \subseteq (0 .. 15) \ {Cascade}

Tasks == {"main_task", "test_task"}

VARIABLES
  power,         \* "on"; "halted": hlt with interrupts off; "reset"
  thread,        \* whose code runs beneath the handlers
  pc,            \* where kernel_main stands
  user_pc,       \* where user_task stands
  frames,        \* handlers in progress on the stack in use, innermost last
  int_flag,      \* IF, the interrupt flag
  irr, isr,      \* lines requested, and in service
  obf,           \* the keyboard controller's output buffer is full
  current_task, test_active, ctx

vars == <<power, thread, pc, user_pc, frames, int_flag, irr, isr, obf,
          current_task, test_active, ctx>>

cpu == <<thread, frames, int_flag>>
tasking == <<current_task, test_active, ctx>>

-----------------------------------------------------------------------------
(* The 8259s: fully nested, no automatic end of interrupt *)

Vector(l) == 32 + l

(* The slave's lines rank where its cascade line does.                     *)
Rank(l) == IF l < 8 THEN 10 * l ELSE 10 * Cascade + (l - 8)

Master == 0 .. 7
Slave == 8 .. 15

Highest(S) == {l \in S : \A m \in S : l <= m}

EndOfInterrupt(chip) == isr \ Highest(isr \cap chip)

Deliverable(l) ==
  /\ l \in irr
  /\ \A m \in irr \ {l} : Rank(l) < Rank(m)
  /\ \A m \in isr : Rank(l) < Rank(m)

-----------------------------------------------------------------------------
(* Mutant: trap gates, type 0xF, for the hardware vectors too. *)
GateClearsIF_trap(v) == v < 32

(* Vectors 0 .. 47 are interrupt gates (0x8E), int 0x80 a trap gate.       *)
GateClearsIF(v) == v < 48

Frame(v) == [vector |-> v, pc |-> "entry"]

Enter(v) ==
  /\ frames' = Append(frames, Frame(v))
  /\ int_flag' = (int_flag /\ ~GateClearsIF(v))

Top == frames[Len(frames)]

InHandler(where) == power = "on" /\ frames # <<>> /\ Top.pc = where

Continue(where) == frames' = [frames EXCEPT ![Len(frames)].pc = where]

(* iret: the flags the gate saved had IF set, or it would not have fired.  *)
Leave == /\ frames' = SubSeq(frames, 1, Len(frames) - 1)
         /\ int_flag' = TRUE

Running(t) == power = "on" /\ thread = t /\ frames = <<>>

-----------------------------------------------------------------------------
(* Contexts: what switch_to_task saves and loads *)

Registers == [thread |-> thread, frames |-> frames, int_flag |-> int_flag]

(* A zeroed context, and also what tasking_init leaves in the test task's: *)
(* its eip and eflags are 0, whatever lies on its stack.                   *)
Nowhere == [thread |-> "nowhere", frames |-> <<>>, int_flag |-> FALSE]

(* Mutant: the second argument is loaded. *)
LoadedFrom_new(old, new) == new

(* The context that is loaded: after the return address has been popped,   *)
(* [esp] is the first argument, the context just saved.                    *)
LoadedFrom(old, new) == old

Init ==
  /\ power = "on" /\ thread = "main" /\ pc = "idt" /\ user_pc = "out"
  /\ frames = <<>> /\ int_flag = FALSE
  /\ irr = {} /\ isr = {} /\ obf = FALSE
  /\ current_task = "main_task"
  /\ test_active = FALSE
  /\ ctx = [t \in Tasks |-> Nowhere]

-----------------------------------------------------------------------------
(* Devices *)

(* A tick takes longer to come than its handler to run.                    *)
RaiseTimer ==
  /\ power = "on" /\ pc # "idt"
  /\ \A i \in DOMAIN frames : frames[i].vector # Vector(Timer)
  /\ irr' = irr \cup {Timer}
  /\ UNCHANGED <<power, cpu, pc, user_pc, isr, obf, tasking>>

(* A byte reaches the output buffer once it is empty; that raises the line.*)
PressKey ==
  /\ power = "on" /\ pc # "idt"
  /\ ~obf
  /\ obf' = TRUE
  /\ irr' = irr \cup {Kbd}
  /\ UNCHANGED <<power, cpu, pc, user_pc, isr, tasking>>

(* IDT::init leaves no line masked.                                        *)
RaiseOther(l) ==
  /\ power = "on" /\ pc # "idt" /\ l \notin {Timer, Kbd}
  /\ irr' = irr \cup {l}
  /\ UNCHANGED <<power, cpu, pc, user_pc, isr, obf, tasking>>

(* The processor takes the request with the highest priority.              *)
Deliver(l) ==
  /\ power = "on" /\ int_flag /\ Deliverable(l)
  /\ irr' = irr \ {l}
  /\ isr' = isr \cup (IF l \in Slave THEN {l, Cascade} ELSE {l})
  /\ Enter(Vector(l))
  /\ UNCHANGED <<power, thread, pc, user_pc, obf, tasking>>

(* A request that went away before it was taken: the chip answers with its *)
(* line 7, in service nowhere; for the slave the cascade line is.          *)
DeliverSpurious(l) ==
  /\ power = "on" /\ pc # "idt" /\ int_flag /\ l \in {7, 15}
  /\ \A m \in isr : Rank(l) < Rank(m)
  /\ isr' = isr \cup (IF l \in Slave THEN {Cascade} ELSE {})
  /\ Enter(Vector(l))
  /\ UNCHANGED <<power, thread, pc, user_pc, irr, obf, tasking>>

-----------------------------------------------------------------------------
(* irq_handler *)

(* Mutant: > 40 for >= 40. *)
Acknowledge_above_40(v) ==
  isr' = EndOfInterrupt(Master) \ (IF v > 40 THEN Highest(isr \cap Slave) ELSE {})

(* Mutant: only the keyboard's branch ends its interrupt. *)
Acknowledge_keyboard_only(v) ==
  isr' = IF v = Vector(Kbd) THEN EndOfInterrupt(Master) ELSE isr

Acknowledge(v) ==
  isr' = EndOfInterrupt(Master) \ (IF v >= 40 THEN Highest(isr \cap Slave) ELSE {})

HandlerAcknowledges ==
  /\ InHandler("entry") /\ Top.vector >= 32
  /\ Acknowledge(Top.vector)
  /\ Continue(CASE Top.vector = Vector(Kbd)   -> "keyboard"
                [] Top.vector = Vector(Timer) -> "task_switch"
                [] OTHER                      -> "return")
  /\ UNCHANGED <<power, thread, pc, user_pc, int_flag, irr, obf, tasking>>

(* Mutant: the port is not read, as a driver that only counts would do. *)
ReadPort_not == obf' = obf

(* Keyboard::handle_interrupt reads the port once, whatever comes next.    *)
ReadPort == obf' = FALSE

(* Most bytes are dealt with at once; Enter runs the command in here.      *)
HandlerKeyboard ==
  /\ InHandler("keyboard")
  /\ ReadPort
  /\ \E next \in {"return", "command"} : Continue(next)
  /\ UNCHANGED <<power, thread, pc, user_pc, int_flag, irr, isr, tasking>>

switch_to_task(old, new) ==
  LET saved == [ctx EXCEPT ![old] = Registers]
      regs == saved[LoadedFrom(old, new)]
  IN  /\ ctx' = saved
      /\ thread' = regs.thread
      /\ frames' = IF regs.frames = <<>> THEN <<>>
                   ELSE [regs.frames EXCEPT ![Len(regs.frames)].pc = "return"]
      /\ int_flag' = regs.int_flag

task_switch ==
  IF ~test_active
  THEN /\ Continue("return")
       /\ UNCHANGED <<thread, int_flag, tasking>>
  ELSE /\ current_task' = IF current_task = "main_task" THEN "test_task" ELSE "main_task"
       /\ switch_to_task(current_task, current_task')
       /\ UNCHANGED test_active

HandlerTimer ==
  /\ InHandler("task_switch")
  /\ task_switch
  /\ UNCHANGED <<power, pc, user_pc, irr, isr, obf>>

HandlerReturns ==
  /\ InHandler("return")
  /\ Leave
  /\ UNCHANGED <<power, thread, pc, user_pc, irr, isr, obf, tasking>>

-----------------------------------------------------------------------------
(* Commands, from the polling loop or from inside the keyboard handler.    *)
(* user builds a ring 3 frame with IF set and the start of user_task as    *)
(* its EIP, and irets into it: the stack it ran on, handler included, is   *)
(* left as it is and never used again.                                     *)

EnterUser ==
  /\ thread' = "user"
  /\ user_pc' = "out"
  /\ frames' = <<>>
  /\ int_flag' = TRUE

HandlerCommand ==
  /\ InHandler("command")
  /\ \/ Continue("return") /\ UNCHANGED <<power, thread, user_pc, int_flag>>
     \/ EnterUser /\ UNCHANGED power
     \/ power' = "reset" /\ UNCHANGED <<cpu, user_pc>>
  /\ UNCHANGED <<pc, irr, isr, obf, tasking>>

MainCommand ==
  /\ Running("main") /\ pc = "command"
  /\ \/ pc' = "delay" /\ UNCHANGED <<power, cpu, user_pc>>
     \/ EnterUser /\ UNCHANGED <<power, pc>>
     \/ power' = "reset" /\ UNCHANGED <<pc, cpu, user_pc>>
  /\ UNCHANGED <<irr, isr, obf, tasking>>

-----------------------------------------------------------------------------
(* kernel_main *)

(* IDT::init reprograms the chips, which forgets their state.              *)
IDT_init ==
  /\ Running("main") /\ pc = "idt"
  /\ pc' = "sti"
  /\ irr' = {} /\ isr' = {}
  /\ UNCHANGED <<power, cpu, user_pc, obf, tasking>>

Sti ==
  /\ Running("main") /\ pc = "sti"
  /\ pc' = "tasking_init"
  /\ int_flag' = TRUE
  /\ UNCHANGED <<power, thread, frames, user_pc, irr, isr, obf, tasking>>

(* tasking_init runs with interrupts on; the test task becomes active      *)
(* before its context is filled in.                                        *)
TaskingInit ==
  /\ Running("main")
  /\ \/ /\ pc = "tasking_init" /\ pc' = "activate"
        /\ current_task' = "main_task"
        /\ UNCHANGED <<test_active, ctx>>
     \/ /\ pc = "activate" /\ pc' = "context"
        /\ test_active' = TRUE
        /\ UNCHANGED <<current_task, ctx>>
     \/ /\ pc = "context" /\ pc' = "poll"
        /\ ctx' = [ctx EXCEPT !["test_task"] = Nowhere]
        /\ UNCHANGED <<current_task, test_active>>
  /\ UNCHANGED <<power, cpu, user_pc, irr, isr, obf>>

(* The loop looks at the serial port, edits or runs the line, and idles.   *)
MainPoll ==
  /\ Running("main")
  /\ \/ pc = "poll" /\ pc' \in {"delay", "command"}
     \/ pc = "delay" /\ pc' = "poll"
  /\ UNCHANGED <<power, cpu, user_pc, irr, isr, obf, tasking>>

MainStep == IDT_init \/ Sti \/ TaskingInit \/ MainPoll \/ MainCommand

-----------------------------------------------------------------------------
(* user_task writes to port 0xE9, then executes hlt at privilege level 3:  *)
(* a general protection fault, vector 13.                                  *)
UserOut ==
  /\ Running("user") /\ user_pc = "out"
  /\ user_pc' = "hlt"
  /\ UNCHANGED <<power, cpu, pc, irr, isr, obf, tasking>>

UserHlt ==
  /\ Running("user") /\ user_pc = "hlt"
  /\ Enter(13)
  /\ UNCHANGED <<power, thread, pc, user_pc, irr, isr, obf, tasking>>

(* fault_handler prints the vector and halts; only an interrupt ends hlt.  *)
FaultHandler ==
  /\ InHandler("entry") /\ Top.vector < 32
  /\ power' = IF int_flag THEN "on" ELSE "halted"
  /\ UNCHANGED <<cpu, pc, user_pc, irr, isr, obf, tasking>>

HandlerStep == HandlerAcknowledges \/ HandlerKeyboard \/ HandlerTimer \/ HandlerReturns
               \/ HandlerCommand \/ FaultHandler

UserStep == UserOut \/ UserHlt

(* Nothing happens any more.                                               *)
Stopped == power # "on" /\ UNCHANGED vars

Next ==
  \/ RaiseTimer \/ PressKey \/ \E l \in Lines : RaiseOther(l)
  \/ \E l \in Lines : Deliver(l)
  \/ \E l \in {7, 15} : DeliverSpurious(l)
  \/ HandlerStep \/ MainStep \/ UserStep \/ Stopped

Spec == Init /\ [][Next]_vars

(* A handler runs on: nothing interrupts it.  The processor takes requests *)
(* between instructions, and handlers leave time for the code beneath them.*)
Fairness == /\ WF_vars(HandlerStep)
            /\ \A l \in Lines : SF_vars(Deliver(l))
            /\ SF_vars(MainStep) /\ SF_vars(UserStep)

FairSpec == Spec /\ Fairness

-----------------------------------------------------------------------------
(* Properties *)

HandlerPcs == {"entry", "keyboard", "task_switch", "command", "return"}

Frames == Seq([vector : 0 .. 47, pc : HandlerPcs])

ITypeOK ==
  /\ power \in {"on", "halted", "reset"}
  /\ thread \in {"main", "user"}
  /\ pc \in {"idt", "sti", "tasking_init", "activate", "context", "poll", "delay", "command"}
  /\ user_pc \in {"out", "hlt"}
  /\ frames \in Frames
  /\ int_flag \in BOOLEAN
  /\ irr \subseteq Lines /\ isr \subseteq Lines \cup {Cascade}
  /\ obf \in BOOLEAN
  /\ current_task \in Tasks /\ test_active \in BOOLEAN
  /\ ctx \in [Tasks -> [thread : {"main", "user", "nowhere"}, frames : Frames, int_flag : BOOLEAN]]

(* A handler runs alone: interrupts are off while one is in progress, so   *)
(* that none is ever entered on top of another and the 16 KB boot stack    *)
(* holds at most one frame.                                                *)
HandlersRunAlone == Len(frames) <= 1 /\ (frames # <<>> => ~int_flag)

(* Whenever the processor would take an interrupt, no line is in service   *)
(* any more: a line left in service would shut out every line that ranks   *)
(* below it for ever.  The keyboard handler that runs the user command     *)
(* never reaches its end, so this needs the end of interrupt to come first.*)
NoLineLeftInService == int_flag => isr = {}

(* The controller's byte cannot be stranded: while it is unread no further *)
(* edge comes, so a request is pending or its handler is about to read.    *)
KeyNotStranded ==
  (power = "on" /\ obf) =>
    \/ Kbd \in irr
    \/ \E i \in DOMAIN frames : /\ frames[i].vector = Vector(Kbd)
                               /\ frames[i].pc \in {"entry", "keyboard"}

(* The main loop is polled for ever, whatever arrives, unless a command    *)
(* left it for good; and every key that arrives is read.                   *)
GoneForGood == power # "on" \/ thread = "user"

MainKeepsPolling == []<>(GoneForGood \/ pc = "poll") /\ []<>(GoneForGood \/ pc = "delay")

EveryKeyRead == obf ~> (~obf \/ power # "on")

(* task.h calls current_task the global current task, and ps lists the     *)
(* test thread as running: once tasks are set up, the code that runs when  *)
(* no handler is in progress is the one current_task names.                *)
CurrentTaskRuns ==
  (pc \in {"poll", "delay"} /\ frames = <<>> /\ thread # "user") =>
    (current_task = "test_task" => thread = "test")

(* user_task's comment: hanging on hlt is safe in ring 3.                  *)
HltIsSafe == power # "halted"

=============================================================================
