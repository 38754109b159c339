-------------------------- MODULE StateChartRunner --------------------------
(***************************************************************************)
(* sc::StateChartRunner: a state chart that tasks drive with ApplyEvent    *)
(* and ProcessEnqueuedEvent, and that interrupt handlers reach through a   *)
(* mailbox of one place with EnqueueEvent.                                 *)
(*                                                                         *)
(* Two atomic flags are all the protection there is: processing_event,     *)
(* which makes the calls of tasks exclusive (ExclusiveWithAtomicFlag), and *)
(* has_enqueued_event, which guards the optional enqueued_event.  Every    *)
(* access to a flag or to the optional is a step of its own, and one       *)
(* processor runs all contexts: interrupts preempt tasks and interrupts of *)
(* lower level between any two steps, tasks preempt each other.            *)
(***************************************************************************)
EXTENDS Naturals

CONSTANTS
  Isrs,       \* interrupt handlers that use the runner
  Tasks,      \* tasks that use it
  Level,      \* [Isrs -> Nat], an interrupt preempts those of lower level
  Enqueuers,  \* the contexts that call EnqueueEvent
  States,     \* the states of the chart
  Initial,    \* the state it starts in
  Events,     \* the alternatives of its event variant
  JumpTable,  \* the states a transition may lead to; {} is a nullptr entry
  None        \* std::nullopt

Contexts == Isrs \cup Tasks

ASSUME ContextsAssumption ==
  /\ Isrs \cap Tasks = {}
  /\ Enqueuers \subseteq Contexts
  /\ Level \in [Isrs -> Nat]

ASSUME ChartAssumption ==
  /\ Initial \in States
  /\ JumpTable \in [States -> [Events -> SUBSET States]]
  /\ None \notin Events

VARIABLES
  chart,             \* chart.state
  enqueued_event,    \* the optional event
  has_enqueued_event, processing_event,  \* the atomic flags
  pc,                \* [Contexts -> Labels], the next access of each context
  arg,               \* the event a context brings, or has copied
  outcome            \* what its last call returned

vars == <<chart, enqueued_event, has_enqueued_event, processing_event, pc, arg, outcome>>

(* Labels inside the section that processing_event makes exclusive. *)
ApplyLabels   == {"flag", "deliver", "reset", "clear", "apply"}
ProcessLabels == {"copy", "reset copied", "clear copied", "clear empty", "deliver copied"}
Section       == ApplyLabels \cup ProcessLabels \cup {"release"}

Labels == Section \cup {"idle", "store", "claim"}

TypeOK ==
  /\ chart \in States
  /\ enqueued_event \in Events \cup {None}
  /\ has_enqueued_event \in BOOLEAN
  /\ processing_event \in BOOLEAN
  /\ pc \in [Contexts -> Labels]
  /\ arg \in [Contexts -> Events \cup {None}]
  /\ outcome \in [Contexts -> {"none", "done", "full", "busy", "ignored"}]

Init ==
  /\ chart = Initial
  /\ enqueued_event = None
  /\ has_enqueued_event = FALSE
  /\ processing_event = FALSE
  /\ pc = [c \in Contexts |-> "idle"]
  /\ arg = [c \in Contexts |-> None]
  /\ outcome = [c \in Contexts |-> "none"]

-----------------------------------------------------------------------------
(* One processor: a task runs while no interrupt is active, an interrupt    *)
(* while no other one of its level or above is.                             *)
Executes(c) ==
  \A i \in Isrs \ {c} :
    pc[i] # "idle" => c \in Isrs /\ Level[i] < Level[c]

At(c, label) == Executes(c) /\ pc[c] = label

Goto(c, label) == pc' = [pc EXCEPT ![c] = label]

Begin(c, label, e) ==
  /\ Goto(c, label)
  /\ arg' = [arg EXCEPT ![c] = e]
  /\ outcome' = [outcome EXCEPT ![c] = "none"]

(* The call ends; arg is a local variable of it. *)
Return(c, result) ==
  /\ Goto(c, "idle")
  /\ arg' = [arg EXCEPT ![c] = None]
  /\ outcome' = [outcome EXCEPT ![c] = result]

(* The jump through JumpTable, or nothing where the entry is a nullptr.     *)
Transit(e) ==
  \/ chart' \in JumpTable[chart][e]
  \/ JumpTable[chart][e] = {} /\ UNCHANGED chart

-----------------------------------------------------------------------------
(* EnqueueEvent. *)

(* Mutated: the flag tested but not honoured. *)
EnqueueOverwrites(c, e) ==
  /\ At(c, "idle") /\ c \in Enqueuers
  /\ has_enqueued_event' = TRUE
  /\ Begin(c, "store", e)
  /\ UNCHANGED <<chart, enqueued_event, processing_event>>

EnqueueEvent(c, e) ==
  /\ At(c, "idle") /\ c \in Enqueuers
  /\ has_enqueued_event' = TRUE
  /\ IF has_enqueued_event THEN Return(c, "full") ELSE Begin(c, "store", e)
  /\ UNCHANGED <<chart, enqueued_event, processing_event>>

StoreEvent(c) ==
  /\ At(c, "store")
  /\ enqueued_event' = arg[c]
  /\ Return(c, "done")
  /\ UNCHANGED <<chart, has_enqueued_event, processing_event>>

-----------------------------------------------------------------------------
(* ApplyEvent, not to be used in an interrupt. *)

ApplyEvent(c, e) ==
  /\ At(c, "idle") /\ c \in Tasks
  /\ processing_event' = TRUE
  /\ IF processing_event THEN Return(c, "busy") ELSE Begin(c, "flag", e)
  /\ UNCHANGED <<chart, enqueued_event, has_enqueued_event>>

(* The flag is set whether or not an event is pending. *)
TestAndSetPending(c) ==
  /\ At(c, "flag")
  /\ has_enqueued_event' = TRUE
  /\ Goto(c, IF has_enqueued_event THEN "deliver" ELSE "apply")
  /\ UNCHANGED <<chart, enqueued_event, processing_event, arg, outcome>>

(* The pending event takes its transition where it lies. *)
DeliverPending(c) ==
  /\ At(c, "deliver")
  /\ IF enqueued_event # None THEN Transit(enqueued_event) ELSE UNCHANGED chart
  /\ Goto(c, "reset")
  /\ UNCHANGED <<enqueued_event, has_enqueued_event, processing_event, arg, outcome>>

ResetPending(c) ==
  /\ At(c, "reset")
  /\ enqueued_event' = None
  /\ Goto(c, "clear")
  /\ UNCHANGED <<chart, has_enqueued_event, processing_event, arg, outcome>>

ClearPending(c) ==
  /\ At(c, "clear")
  /\ has_enqueued_event' = FALSE
  /\ Goto(c, "apply")
  /\ UNCHANGED <<chart, enqueued_event, processing_event, arg, outcome>>

ApplyIncoming(c) ==
  /\ At(c, "apply")
  /\ Transit(arg[c])
  /\ Goto(c, "release")
  /\ outcome' = [outcome EXCEPT ![c] =
                   IF JumpTable[chart][arg[c]] = {} THEN "ignored" ELSE "done"]
  /\ UNCHANGED <<enqueued_event, has_enqueued_event, processing_event, arg>>

-----------------------------------------------------------------------------
(* ProcessEnqueuedEvent. *)

ProcessEnqueuedEvent(c) ==
  /\ At(c, "idle") /\ c \in Tasks
  /\ IF has_enqueued_event THEN Begin(c, "claim", None) ELSE Return(c, "done")
  /\ UNCHANGED <<chart, enqueued_event, has_enqueued_event, processing_event>>

(* Mutated: no test of the flag that another task holds. *)
ClaimUnconditionally(c) ==
  /\ At(c, "claim")
  /\ processing_event' = TRUE
  /\ Goto(c, "copy")
  /\ UNCHANGED <<chart, enqueued_event, has_enqueued_event, arg, outcome>>

ClaimProcessing(c) ==
  /\ At(c, "claim")
  /\ processing_event' = TRUE
  /\ IF processing_event THEN Return(c, "done")
     ELSE Goto(c, "copy") /\ UNCHANGED <<arg, outcome>>
  /\ UNCHANGED <<chart, enqueued_event, has_enqueued_event>>

CopyEnqueued(c) ==
  /\ At(c, "copy")
  /\ arg' = [arg EXCEPT ![c] = enqueued_event]
  /\ Goto(c, IF enqueued_event = None THEN "clear empty" ELSE "reset copied")
  /\ UNCHANGED <<chart, enqueued_event, has_enqueued_event, processing_event, outcome>>

(* Mutated: the optional is copied and not emptied. *)
ResetEnqueuedNever(c) ==
  /\ At(c, "reset copied")
  /\ Goto(c, "clear copied")
  /\ UNCHANGED <<chart, enqueued_event, has_enqueued_event, processing_event, arg, outcome>>

ResetEnqueued(c) ==
  /\ At(c, "reset copied")
  /\ enqueued_event' = None
  /\ Goto(c, "clear copied")
  /\ UNCHANGED <<chart, has_enqueued_event, processing_event, arg, outcome>>

(* Mutated: the else branch dropped, an empty optional leaves its flag up. *)
ClearFullOnly(c) ==
  \/ /\ At(c, "clear copied") /\ Goto(c, "deliver copied")
     /\ has_enqueued_event' = FALSE
     /\ UNCHANGED <<chart, enqueued_event, processing_event, arg, outcome>>
  \/ /\ At(c, "clear empty") /\ Goto(c, "release")
     /\ UNCHANGED <<chart, enqueued_event, has_enqueued_event, processing_event, arg, outcome>>

(* From here on the next event can be enqueued. *)
ClearEnqueued(c) ==
  /\ \/ At(c, "clear copied") /\ Goto(c, "deliver copied")
     \/ At(c, "clear empty") /\ Goto(c, "release")
  /\ has_enqueued_event' = FALSE
  /\ UNCHANGED <<chart, enqueued_event, processing_event, arg, outcome>>

DeliverEnqueued(c) ==
  /\ At(c, "deliver copied")
  /\ Transit(arg[c])
  /\ Goto(c, "release")
  /\ UNCHANGED <<enqueued_event, has_enqueued_event, processing_event, arg, outcome>>

(* ~ClearFlagAtExit at the end of either call. *)
Release(c) ==
  /\ At(c, "release")
  /\ processing_event' = FALSE
  /\ Return(c, IF outcome[c] = "none" THEN "done" ELSE outcome[c])
  /\ UNCHANGED <<chart, enqueued_event, has_enqueued_event>>

-----------------------------------------------------------------------------
Calls(c) ==
  \/ \E e \in Events : EnqueueEvent(c, e) \/ ApplyEvent(c, e)
  \/ ProcessEnqueuedEvent(c)

(* The call a context is in goes on. *)
Continue(c) ==
  \/ StoreEvent(c)
  \/ TestAndSetPending(c) \/ DeliverPending(c) \/ ResetPending(c) \/ ClearPending(c)
  \/ ApplyIncoming(c)
  \/ ClaimProcessing(c) \/ CopyEnqueued(c) \/ ResetEnqueued(c) \/ ClearEnqueued(c)
  \/ DeliverEnqueued(c)
  \/ Release(c)

Next == \E c \in Contexts : Calls(c) \/ Continue(c)

Spec == Init /\ [][Next]_vars

(***************************************************************************)
(* Interrupts return and leave the processor to the tasks between them     *)
(* (strong fairness: a task is preempted again and again, not for ever),   *)
(* and some task polls the mailbox.                                        *)
(***************************************************************************)
Fairness ==
  /\ \A c \in Contexts : SF_vars(Continue(c))
  /\ SF_vars(\E c \in Tasks : ProcessEnqueuedEvent(c))

FairSpec == Spec /\ Fairness

-----------------------------------------------------------------------------
(* Properties of any use. *)

(* ExclusiveWithAtomicFlag: one task at a time is between test_and_set and  *)
(* clear of processing_event, so transitions never overlap and the chart's  *)
(* handlers are never re-entered; the flag is down when nobody is there.    *)
ExclusiveProcessing ==
  /\ \A c, d \in Contexts : pc[c] \in Section /\ pc[d] \in Section => c = d
  /\ processing_event <=> \E c \in Contexts : pc[c] \in Section

-----------------------------------------------------------------------------
(***************************************************************************)
(* Properties of the use the comments describe: interrupts enqueue, and    *)
(* one task applies and processes.                                         *)
(***************************************************************************)
SingleCaller ==
  /\ Enqueuers \subseteq Isrs
  /\ \A c, d \in Tasks : c = d

(* An event that lies in the mailbox has its flag up, so that the next      *)
(* ProcessEnqueuedEvent or ApplyEvent sees it.                              *)
EnqueuedIsPending == enqueued_event # None => has_enqueued_event

(* ProcessEnqueuedEvent's comment: any event that was accepted is processed *)
(* and leaves the mailbox.                                                  *)
EnqueuedIsTaken == enqueued_event # None ~> enqueued_event = None

(* The mailbox opens again, also after ApplyEvent has closed it with        *)
(* nothing in it.                                                           *)
MailboxReopens == has_enqueued_event ~> ~has_enqueued_event

(* The runner implements a mailbox that delivers what it accepted, once and *)
(* in order.  A copied event is in flight until its transition; a delivered *)
(* one may still lie in the optional until it is reset.                     *)
InFlight == {c \in Contexts : pc[c] \in {"reset copied", "clear copied", "deliver copied"}}

CurrentEvent == IF InFlight = {} THEN None ELSE arg[CHOOSE c \in InFlight : TRUE]

WaitingEvent == IF \E c \in Contexts : pc[c] \in {"reset", "reset copied"}
                THEN None ELSE enqueued_event

Mailbox == INSTANCE EventMailbox WITH current <- CurrentEvent, waiting <- WaitingEvent

MailboxSpec == Mailbox!Spec

-----------------------------------------------------------------------------
(* The inductive invariant. *)

(* Only tasks get past the test of a flag, with the event they need.        *)
CallInv ==
  \A c \in Contexts :
    /\ pc[c] \in Section \cup {"claim"} => c \in Tasks
    /\ pc[c] \in ApplyLabels \cup {"reset copied", "clear copied", "deliver copied"}
         => arg[c] \in Events
    /\ pc[c] = "store" => c \in Enqueuers /\ arg[c] \in Events

(* Where a task relies on the flag of the mailbox being up and on no        *)
(* interrupt being half-way through EnqueueEvent.                           *)
Held == {"claim", "deliver", "reset", "clear",
         "copy", "reset copied", "clear copied", "clear empty"}

MailInv ==
  /\ EnqueuedIsPending
  /\ \A c \in Contexts : pc[c] = "store" =>
       /\ has_enqueued_event /\ enqueued_event = None
       /\ \A d \in Contexts : /\ pc[d] = "store" => c = d
                              /\ pc[d] \notin Held
  /\ \A c \in Contexts :
       /\ pc[c] \in Held => has_enqueued_event
       /\ pc[c] \in {"clear", "clear copied", "clear empty"} => enqueued_event = None
       /\ pc[c] = "reset copied" => enqueued_event = arg[c]

IInv == /\ TypeOK /\ ExclusiveProcessing /\ CallInv
        /\ SingleCaller => MailInv

-----------------------------------------------------------------------------
(* The safety half of MailboxReopens: how many steps of the calling task    *)
(* are left until it clears a flag that is up.                              *)
StepsToClear(label) ==
  CASE label \in {"clear", "clear copied", "clear empty"} -> 1
    [] label \in {"reset", "reset copied"}                -> 2
    [] label \in {"deliver", "copy"}                      -> 3
    [] label \in {"flag", "claim"}                        -> 4
    [] label = "idle"                                     -> 5
    [] label = "release"                                  -> 6
    [] OTHER                                              -> 7

(* Whichever call the task makes, every step of it brings the moment closer *)
(* at which the mailbox opens again; no call of another context delays it.  *)
MailboxProgress ==
  [][has_enqueued_event /\ has_enqueued_event' => \A t \in Tasks :
       /\ pc'[t] # pc[t] => StepsToClear(pc'[t]) < StepsToClear(pc[t])
       /\ Calls(t) \/ Continue(t) => pc'[t] # pc[t]]_vars
=============================================================================
