--------------------------- MODULE HAL_INTERRUPTS ---------------------------
(***************************************************************************)
(* Interrupts of the HAL with the controller inside the processor: the     *)
(* table of handlers, registration with interrupts off, the dispatch loop, *)
(* and routines that let others interrupt them.                            *)
(*                                                                         *)
(* threads is the stack of activations: the program at the bottom, above   *)
(* it the runs of alt_irq_handler that interrupted each other.  A device   *)
(* asserts its line until its routine acknowledges it.  The program        *)
(* enables only lines it has registered a handler for.                     *)
(***************************************************************************)
EXTENDS Integers, Sequences, FiniteSetsExt

CONSTANTS
  ALT_NIRQ,     \* the number of lines, 32 on the processor
  Isrs,         \* the handlers that are registered
  NestingCalls  \* whether a routine that can be interrupted enables lines

InterruptsAssumption == ALT_NIRQ \in Nat \ {0} /\ NestingCalls \in BOOLEAN

Irqs == 0..ALT_NIRQ - 1
NULL == "null"
EINVAL == 22

VARIABLES
  alt_irq,            \* handler and context of each line
  alt_irq_active,     \* the lines enabled by software
  alt_priority_mask,  \* the lines that the running routine lets in
  ienable, pie,       \* the control registers
  asserted,           \* the lines that devices assert
  threads,
  rc                  \* what the last registration returned

table == <<alt_irq, alt_irq_active, alt_priority_mask>>
registers == <<ienable, pie>>
vars == <<table, registers, asserted, threads, rc>>

Jobs == [kind : {"register", "enable", "disable"}, irq : Irqs, isr : Isrs \cup {NULL}]
NoJob == [kind |-> "disable", irq |-> 0, isr |-> NULL]
Activation(irq, pc) ==
  [irq |-> irq, pc |-> pc, job |-> NoJob, back |-> pc, ctx |-> FALSE, outer |-> FALSE,
   active |-> {}, old |-> Irqs, section |-> FALSE]

TypeOK ==
  /\ alt_irq \in [Irqs -> [handler : Isrs \cup {NULL}, context : Isrs \cup {NULL}]]
  /\ alt_irq_active \subseteq Irqs /\ alt_priority_mask \subseteq Irqs
  /\ ienable \subseteq Irqs /\ pie \in BOOLEAN /\ asserted \subseteq Irqs
  /\ rc \in {0, -EINVAL} /\ Len(threads) > 0
  /\ \A k \in 1..Len(threads) :
       /\ threads[k].irq \in Irqs \cup {ALT_NIRQ} /\ threads[k].job \in Jobs
       /\ threads[k].active \subseteq Irqs /\ threads[k].old \subseteq Irqs
       /\ threads[k].ctx \in BOOLEAN /\ threads[k].outer \in BOOLEAN

\* After alt_irq_init.
Init ==
  /\ alt_irq = [i \in Irqs |-> [handler |-> NULL, context |-> NULL]]
  /\ alt_irq_active = {} /\ alt_priority_mask = Irqs
  /\ ienable = {} /\ pie = TRUE /\ asserted = {}
  /\ threads = <<Activation(ALT_NIRQ, "run")>> /\ rc = 0

-----------------------------------------------------------------------------
Top == threads[Len(threads)]
At(pc) == Top.pc = pc
Becomes(activation) == threads' = [threads EXCEPT ![Len(threads)] = activation]
pending == asserted \cap ienable

\* A device asks for service.
Assert(i) ==
  /\ i \notin asserted /\ asserted' = asserted \cup {i}
  /\ UNCHANGED <<table, registers, threads, rc>>

\* The processor takes an interrupt: alt_irq_handler starts.
Take ==
  /\ pie /\ pending # {} /\ pie' = FALSE
  /\ threads' = Append(threads, Activation(ALT_NIRQ, "look"))
  /\ UNCHANGED <<table, ienable, asserted, rc>>

\* alt_irq_handler reads which lines are pending.  After a routine it returns if none
\* is; its first pass does not test that (alt_irq_handler.c:128-155), and never meets
\* it here, where only routines clear a line and none runs before that pass.
Look ==
  /\ At("look") /\ pending # {}
  /\ Becomes([Top EXCEPT !.active = pending, !.pc = "dispatch"])
  /\ UNCHANGED <<table, registers, asserted, rc>>
Leave ==
  /\ At("look") /\ pending = {}
  /\ threads' = SubSeq(threads, 1, Len(threads) - 1) /\ pie' = TRUE
  /\ UNCHANGED <<table, ienable, asserted, rc>>

\* It calls the handler of the first.
Dispatch ==
  /\ At("dispatch") /\ Becomes([Top EXCEPT !.irq = Min(Top.active), !.pc = "isr"])
  /\ UNCHANGED <<table, registers, asserted, rc>>

\* The routine acknowledges its device and returns.
Acknowledge ==
  /\ At("isr") /\ asserted' = asserted \ {Top.irq} /\ Becomes([Top EXCEPT !.pc = "look"])
  /\ UNCHANGED <<table, registers, rc>>

\* Or it lets lines of higher priority interrupt it: alt_irq_interruptible,
\* alt_irq_non_interruptible.
Interruptible ==
  /\ At("isr")
  /\ Becomes([Top EXCEPT !.old = alt_priority_mask, !.pc = "open"])
  /\ alt_priority_mask' = {i \in Irqs : i < Top.irq}
  /\ ienable' = alt_irq_active \cap alt_priority_mask' /\ pie' = TRUE
  /\ UNCHANGED <<alt_irq, alt_irq_active, asserted, rc>>
\* Slip: the mask stays.
NonInterruptible_KeepsMask ==
  /\ At("open") /\ pie' = FALSE /\ Becomes([Top EXCEPT !.pc = "isr"])
  /\ ienable' = alt_irq_active \cap alt_priority_mask
  /\ UNCHANGED <<alt_irq, alt_irq_active, alt_priority_mask, asserted, rc>>
NonInterruptible ==
  /\ At("open") /\ pie' = FALSE /\ Becomes([Top EXCEPT !.pc = "isr"])
  /\ alt_priority_mask' = Top.old /\ ienable' = alt_irq_active \cap Top.old
  /\ UNCHANGED <<alt_irq, alt_irq_active, asserted, rc>>

-----------------------------------------------------------------------------
\* alt_irq_disable_all and alt_irq_enable_all, in an activation that goes on as
\* next.
DisableAll(next) == pie' = FALSE /\ Becomes(next)
\* Slip: interrupts come on whatever they were before.
EnableAll_Always(context, next) == pie' = TRUE /\ Becomes(next)
EnableAll(context, next) == pie' = context /\ Becomes(next)

\* The program, or a routine, calls alt_ic_isr_register (alt_irq_register in the
\* legacy interface), alt_ic_irq_enable or alt_ic_irq_disable.
Callable == At("run") \/ (At("open") /\ NestingCalls)
Call(job) ==
  /\ Callable /\ (job.kind = "enable" => alt_irq[job.irq].handler # NULL)
  /\ Becomes([Top EXCEPT !.job = job, !.back = Top.pc,
                         !.pc = IF job.kind = "register" THEN "shut" ELSE "off"])
  /\ UNCHANGED <<table, registers, asserted, rc>>
CallTooHigh ==
  /\ At("run") /\ rc' = -EINVAL /\ UNCHANGED <<table, registers, asserted, threads>>

RegisterShut ==
  /\ At("shut") /\ DisableAll([Top EXCEPT !.outer = pie, !.pc = "handler"])
  /\ UNCHANGED <<table, ienable, asserted, rc>>
RegisterHandler ==
  /\ At("handler") /\ alt_irq' = [alt_irq EXCEPT ![Top.job.irq].handler = Top.job.isr]
  /\ Becomes([Top EXCEPT !.pc = "context"])
  /\ UNCHANGED <<alt_irq_active, alt_priority_mask, registers, asserted, rc>>
RegisterContext ==
  /\ At("context") /\ alt_irq' = [alt_irq EXCEPT ![Top.job.irq].context = Top.job.isr]
  /\ Becomes([Top EXCEPT !.pc = "off"])
  /\ UNCHANGED <<alt_irq_active, alt_priority_mask, registers, asserted, rc>>

\* alt_irq_enable or alt_irq_disable, also from within the registration.
Off ==
  /\ At("off") /\ DisableAll([Top EXCEPT !.ctx = pie, !.pc = "active"])
  /\ UNCHANGED <<table, ienable, asserted, rc>>
Enables(job) == job.kind = "enable" \/ (job.kind = "register" /\ job.isr # NULL)
SetActive ==
  /\ At("active")
  /\ alt_irq_active' = IF Enables(Top.job) THEN alt_irq_active \cup {Top.job.irq}
                       ELSE alt_irq_active \ {Top.job.irq}
  /\ Becomes([Top EXCEPT !.pc = "ienable"])
  /\ UNCHANGED <<alt_irq, alt_priority_mask, registers, asserted, rc>>
SetIenable ==
  /\ At("ienable") /\ ienable' = alt_irq_active /\ Becomes([Top EXCEPT !.pc = "on"])
  /\ UNCHANGED <<table, pie, asserted, rc>>
On ==
  /\ At("on")
  /\ EnableAll(Top.ctx, [Top EXCEPT !.pc = IF Top.job.kind = "register" THEN "reopen" ELSE Top.back,
                                    !.job = IF Top.job.kind = "register" THEN @ ELSE NoJob])
  /\ UNCHANGED <<table, ienable, asserted, rc>>
RegisterReopen ==
  /\ At("reopen") /\ EnableAll(Top.outer, [Top EXCEPT !.pc = Top.back, !.job = NoJob]) /\ rc' = 0
  /\ UNCHANGED <<table, ienable, asserted>>

\* The program shuts interrupts off for a section of its own.
EnterSection ==
  /\ At("run") /\ ~Top.section /\ DisableAll([Top EXCEPT !.section = TRUE])
  /\ UNCHANGED <<table, ienable, asserted, rc>>
LeaveSection ==
  /\ At("run") /\ Top.section /\ EnableAll(TRUE, [Top EXCEPT !.section = FALSE])
  /\ UNCHANGED <<table, ienable, asserted, rc>>

Handler == Take \/ Look \/ Leave \/ Dispatch \/ Acknowledge \/ Interruptible \/ NonInterruptible
Registering ==
  \/ RegisterShut \/ RegisterHandler \/ RegisterContext
  \/ Off \/ SetActive \/ SetIenable \/ On \/ RegisterReopen
Next ==
  \/ \E i \in Irqs : Assert(i)
  \/ Handler \/ Registering \/ EnterSection \/ LeaveSection \/ CallTooHigh
  \/ \E job \in Jobs : Call(job)

\* Interrupts are taken if they can be again and again (the processor looks
\* after every instruction), routines and calls run on, and the program leaves
\* its section.
Spec ==
  /\ Init /\ [][Next]_vars
  /\ SF_vars(Take) /\ WF_vars(Look) /\ WF_vars(Leave) /\ WF_vars(Dispatch) /\ SF_vars(Acknowledge)
  /\ WF_vars(NonInterruptible) /\ WF_vars(Registering) /\ SF_vars(LeaveSection)

-----------------------------------------------------------------------------
\* A handler is called with the context it was registered with, and never
\* after it has been removed: no interrupt falls between the writes.
HandlerIsWhole ==
  At("dispatch") => /\ Top.active # {}
                    /\ LET e == alt_irq[Min(Top.active)] IN e.handler # NULL /\ e.context = e.handler

\* The program is not interrupted in a section with interrupts shut off,
\* although the calls in it shut them off and back on again.
SectionIsClosed == threads[1].section => Len(threads) = 1

\* Outside its sections and calls the program can be interrupted, whatever
\* nested on the way.
ProgramIsOpen == Len(threads) = 1 /\ At("run") => (pie <=> ~Top.section)

\* A routine is interrupted by lines of higher priority only
\* (alt_legacy_irq.h:103: "allow higer priority interrupts to interrupt the
\* current ISR").
NestsByPriority ==
  \A j \in 2..Len(threads), k \in 2..Len(threads) :
    j < k /\ threads[k].pc \notin {"look", "dispatch"} => threads[k].irq < threads[j].irq

\* The line of highest priority is served, unless it is disabled, whatever
\* other lines, routines and registrations go on.
FirstIsServed == 0 \in asserted \cap alt_irq_active ~> 0 \notin asserted \cap alt_irq_active
=============================================================================
