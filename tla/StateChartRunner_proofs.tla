----------------------- MODULE StateChartRunner_proofs -----------------------
(***************************************************************************)
(* Proofs about StateChartRunner for any interrupts, tasks, levels and     *)
(* charts: mutual exclusion by processing_event, and, for one calling      *)
(* task, the refinement of EventMailbox.                                   *)
(***************************************************************************)
EXTENDS StateChartRunner, TLAPS

(* A step is a call that begins or goes on. *)
Step(c) ==
  \/ \E e \in Events : EnqueueEvent(c, e) \/ ApplyEvent(c, e)
  \/ ProcessEnqueuedEvent(c) \/ StoreEvent(c)
  \/ TestAndSetPending(c) \/ DeliverPending(c) \/ ResetPending(c) \/ ClearPending(c)
  \/ ApplyIncoming(c)
  \/ ClaimProcessing(c) \/ CopyEnqueued(c) \/ ResetEnqueued(c) \/ ClearEnqueued(c)
  \/ DeliverEnqueued(c)
  \/ Release(c)

LEMMA NextIsStep == Next => \E c \in Contexts : Step(c)
  BY DEF Next, Calls, Continue, Step

LEMMA TransitTyped ==
  ASSUME chart \in States, NEW e \in Events, Transit(e)
  PROVE  chart' \in States
BY ChartAssumption DEF Transit

-----------------------------------------------------------------------------
(* Types. *)
LEMMA TypeStep ==
  ASSUME TypeOK, CallInv, NEW c \in Contexts, Step(c)
  PROVE  TypeOK'
<1> USE DEF TypeOK, Goto, Begin, Return, At, Step, EnqueueEvent, ApplyEvent,
        ProcessEnqueuedEvent, StoreEvent, TestAndSetPending, DeliverPending, ResetPending,
        ClearPending, ApplyIncoming, ClaimProcessing, CopyEnqueued, ResetEnqueued,
        ClearEnqueued, DeliverEnqueued, Release
<1>1. pc' \in [Contexts -> Labels]
  BY DEF Labels, Section, ApplyLabels, ProcessLabels
<1>2. arg' \in [Contexts -> Events \cup {None}]
  OBVIOUS
<1>3. outcome' \in [Contexts -> {"none", "done", "full", "busy", "ignored"}]
  OBVIOUS
<1>4. has_enqueued_event' \in BOOLEAN /\ processing_event' \in BOOLEAN
  BY Zenon
<1>5. enqueued_event' \in Events \cup {None}
  OBVIOUS
<1>6. chart' \in States
  <2>1. CASE DeliverPending(c)
    BY <2>1, TransitTyped
  <2>2. CASE ApplyIncoming(c)
    <3>1. arg[c] \in Events
      BY <2>2 DEF CallInv, ApplyLabels
    <3>. QED BY <2>2, <3>1, TransitTyped
  <2>3. CASE DeliverEnqueued(c)
    <3>1. arg[c] \in Events
      BY <2>3 DEF CallInv
    <3>. QED BY <2>3, <3>1, TransitTyped
  <2>4. CASE UNCHANGED chart
    BY <2>4
  <2>. QED
    BY <2>1, <2>2, <2>3, <2>4
<1>. QED BY <1>1, <1>2, <1>3, <1>4, <1>5, <1>6, Zenon

LEMMA CallStep ==
  ASSUME TypeOK, CallInv, NEW c \in Contexts, Step(c)
  PROVE  CallInv'
<1> USE DEF TypeOK, CallInv, Goto, Begin, Return, At, ApplyLabels, Section, ProcessLabels
<1>1. ASSUME NEW e \in Events, EnqueueEvent(c, e) \/ ApplyEvent(c, e) PROVE CallInv'
  BY <1>1, ZenonT(30) DEF EnqueueEvent, ApplyEvent
<1>2. CASE StoreEvent(c) \/ ProcessEnqueuedEvent(c) \/ ClaimProcessing(c) \/ Release(c)
  BY <1>2, ZenonT(30) DEF StoreEvent, ProcessEnqueuedEvent, ClaimProcessing, Release
<1>3. CASE \/ TestAndSetPending(c) \/ DeliverPending(c) \/ ResetPending(c) \/ ClearPending(c)
           \/ ApplyIncoming(c)
  BY <1>3 DEF TestAndSetPending, DeliverPending, ResetPending, ClearPending, ApplyIncoming
<1>4. CASE CopyEnqueued(c) \/ ResetEnqueued(c) \/ ClearEnqueued(c) \/ DeliverEnqueued(c)
  BY <1>4 DEF CopyEnqueued, ResetEnqueued, ClearEnqueued, DeliverEnqueued
<1>. QED BY <1>1, <1>2, <1>3, <1>4 DEF Step

-----------------------------------------------------------------------------
(* Mutual exclusion. *)

(* A step enters the section where processing_event was down, leaves it     *)
(* with Release, or changes neither.                                        *)
LEMMA SectionMoves ==
  ASSUME TypeOK, NEW c \in Contexts, Step(c)
  PROVE  /\ \A d \in Contexts \ {c} : pc'[d] = pc[d]
         /\ \/ ~processing_event /\ processing_event' /\ pc[c] \notin Section /\ pc'[c] \in Section
            \/ pc[c] \in Section /\ ~processing_event' /\ pc'[c] \notin Section
            \/ /\ processing_event' = processing_event
               /\ pc[c] \in Section <=> pc'[c] \in Section
<1> USE DEF TypeOK, Goto, Begin, Return, At, ApplyLabels, Section, ProcessLabels
<1>1. ASSUME NEW e \in Events, EnqueueEvent(c, e) PROVE processing_event' = processing_event /\ pc[c] \notin Section /\ pc'[c] \notin Section
  BY <1>1 DEF EnqueueEvent
<1>2. CASE StoreEvent(c) \/ ProcessEnqueuedEvent(c)
  BY <1>2 DEF StoreEvent, ProcessEnqueuedEvent
<1>3. CASE ClaimProcessing(c) \/ \E e \in Events : ApplyEvent(c, e)
  <2>1. CASE processing_event
    BY <1>3, <2>1 DEF ClaimProcessing, ApplyEvent
  <2>2. CASE ~processing_event
    BY <1>3, <2>2 DEF ClaimProcessing, ApplyEvent
  <2>. QED BY <2>1, <2>2
<1>4. CASE \/ TestAndSetPending(c) \/ DeliverPending(c) \/ ResetPending(c) \/ ClearPending(c)
           \/ ApplyIncoming(c)
  BY <1>4 DEF TestAndSetPending, DeliverPending, ResetPending, ClearPending, ApplyIncoming
<1>5. CASE CopyEnqueued(c) \/ ResetEnqueued(c) \/ ClearEnqueued(c) \/ DeliverEnqueued(c)
  BY <1>5 DEF CopyEnqueued, ResetEnqueued, ClearEnqueued, DeliverEnqueued
<1>6. CASE Release(c)
  BY <1>6 DEF Release
<1>7. \A d \in Contexts \ {c} : pc'[d] = pc[d]
  BY DEF Step, EnqueueEvent, ApplyEvent,
     ProcessEnqueuedEvent, StoreEvent, TestAndSetPending, DeliverPending, ResetPending,
     ClearPending, ApplyIncoming, ClaimProcessing, CopyEnqueued, ResetEnqueued,
     ClearEnqueued, DeliverEnqueued, Release
<1>. QED BY <1>1, <1>2, <1>3, <1>4, <1>5, <1>6, <1>7 DEF Step

LEMMA ExclusiveStep ==
  ASSUME TypeOK, ExclusiveProcessing, NEW c \in Contexts, Step(c)
  PROVE  ExclusiveProcessing'
BY SectionMoves DEF ExclusiveProcessing

-----------------------------------------------------------------------------
(* The mailbox, for one calling task. *)

(* While a task executes no interrupt is half-way through EnqueueEvent,     *)
(* and no other task calls.                                                 *)
LEMMA TaskExecutesAlone ==
  ASSUME TypeOK, CallInv, SingleCaller, NEW c \in Contexts, Executes(c), c \in Tasks
  PROVE  \A d \in Contexts \ {c} : pc[d] = "idle"
<1>1. \A i \in Isrs : pc[i] = "idle"
  BY ContextsAssumption DEF Executes
<1>. QED BY <1>1 DEF SingleCaller, Contexts

LEMMA StoringAlone ==
  ASSUME MailInv, NEW c \in Contexts, pc[c] = "store"
  PROVE  /\ has_enqueued_event /\ enqueued_event = None
         /\ \A d \in Contexts : pc[d] \notin Held /\ (pc[d] = "store" => c = d)
<1>1. has_enqueued_event /\ enqueued_event = None
  BY DEF MailInv
<1>2. ASSUME NEW d \in Contexts PROVE pc[d] \notin Held
  BY DEF MailInv
<1>3. ASSUME NEW d \in Contexts, pc[d] = "store" PROVE c = d
  BY <1>3 DEF MailInv
<1>. QED BY <1>1, <1>2, <1>3

LEMMA MailStep ==
  ASSUME TypeOK, CallInv, SingleCaller, MailInv, NEW c \in Contexts, Step(c)
  PROVE  MailInv'
<1> USE DEF TypeOK, MailInv, EnqueuedIsPending, Held, Goto, Begin, Return, At
<1>1. ASSUME NEW e \in Events, EnqueueEvent(c, e) PROVE MailInv'
  <2>1. CASE has_enqueued_event
    <3>1. /\ has_enqueued_event' /\ enqueued_event' = enqueued_event /\ pc'[c] = "idle"
          /\ \A d \in Contexts \ {c} : pc'[d] = pc[d] /\ arg'[d] = arg[d]
      BY <1>1, <2>1 DEF EnqueueEvent
    <3>. QED BY <3>1, <2>1
  <2>2. CASE ~has_enqueued_event
    <3>1. /\ \A d \in Contexts : pc[d] # "store" /\ pc[d] \notin Held
          /\ enqueued_event = None
      BY <2>2
    <3>2. has_enqueued_event' = TRUE /\ enqueued_event' = enqueued_event
      BY <1>1, Zenon DEF EnqueueEvent
    <3>3. pc'[c] = "store" /\ \A d \in Contexts \ {c} : pc'[d] = pc[d] /\ arg'[d] = arg[d]
      BY <1>1, <2>2 DEF EnqueueEvent
    <3>. QED BY <3>1, <3>2, <3>3
  <2>. QED BY <2>1, <2>2
<1>2. CASE StoreEvent(c)
  <2>1. /\ has_enqueued_event
        /\ \A d \in Contexts : pc[d] \notin Held /\ (pc[d] = "store" => c = d)
    <3>1. pc[c] = "store"
      BY <1>2 DEF StoreEvent
    <3>. QED BY <3>1, StoringAlone
  <2>2. has_enqueued_event' = has_enqueued_event
    BY <1>2, Zenon DEF StoreEvent
  <2>3. /\ pc'[c] = "idle" /\ \A d \in Contexts \ {c} : pc'[d] = pc[d]
    BY <1>2 DEF StoreEvent
  <2>. QED BY <2>1, <2>2, <2>3
<1>3. ASSUME c \in Tasks, Executes(c) PROVE \A d \in Contexts \ {c} : pc[d] = "idle"
  BY <1>3, TaskExecutesAlone
<1>4. ASSUME NEW e \in Events, ApplyEvent(c, e) PROVE MailInv'
  <2>1. /\ UNCHANGED <<enqueued_event, has_enqueued_event>>
        /\ pc'[c] \in {"idle", "flag"} /\ \A d \in Contexts \ {c} : pc'[d] = "idle"
    BY <1>3, <1>4 DEF ApplyEvent
  <2>. QED BY <2>1
<1>5. CASE TestAndSetPending(c) \/ DeliverPending(c)
  BY <1>3, <1>5 DEF TestAndSetPending, DeliverPending, CallInv, Section, ApplyLabels
<1>6. CASE ResetPending(c) \/ ClearPending(c) \/ ApplyIncoming(c)
  BY <1>3, <1>6 DEF ResetPending, ClearPending, ApplyIncoming, CallInv, Section, ApplyLabels
<1>7. CASE ProcessEnqueuedEvent(c) \/ ClaimProcessing(c)
  <2>1. /\ UNCHANGED <<enqueued_event, has_enqueued_event>>
        /\ \A d \in Contexts \ {c} : pc'[d] = "idle"
    BY <1>3, <1>7 DEF ProcessEnqueuedEvent, ClaimProcessing, CallInv
  <2>2. pc'[c] \in {"claim", "copy"} => has_enqueued_event
    BY <1>7 DEF ProcessEnqueuedEvent, ClaimProcessing
  <2>3. pc'[c] \in {"idle", "claim", "copy"}
    BY <1>7 DEF ProcessEnqueuedEvent, ClaimProcessing
  <2>. QED BY <2>1, <2>2, <2>3
<1>8. CASE CopyEnqueued(c) \/ ResetEnqueued(c)
  BY <1>3, <1>8 DEF CopyEnqueued, ResetEnqueued, CallInv, Section, ProcessLabels
<1>9. CASE ClearEnqueued(c) \/ DeliverEnqueued(c) \/ Release(c)
  BY <1>3, <1>9, ZenonT(30) DEF ClearEnqueued, DeliverEnqueued, Release, CallInv, Section, ProcessLabels
<1>. QED BY <1>1, <1>2, <1>4, <1>5, <1>6, <1>7, <1>8, <1>9 DEF Step

-----------------------------------------------------------------------------
(* The flags and the optional are used as the runner means them to be, in   *)
(* every reachable state.                                                   *)
THEOREM RunnerInvariant == Spec => []IInv
<1>1. Init => IInv
  <2> SUFFICES ASSUME Init PROVE IInv
    OBVIOUS
  <2> USE DEF Init, Section, ApplyLabels, ProcessLabels
  <2>1. TypeOK
    BY ChartAssumption DEF TypeOK, Labels
  <2>2. ExclusiveProcessing /\ CallInv
    BY DEF ExclusiveProcessing, CallInv
  <2>3. MailInv
    BY DEF MailInv, EnqueuedIsPending, Held
  <2>. QED BY <2>1, <2>2, <2>3 DEF IInv
<1>2. IInv /\ [Next]_vars => IInv'
  <2>1. IInv /\ Next => IInv'
    <3> SUFFICES ASSUME IInv, NEW c \in Contexts, Step(c) PROVE IInv'
      BY NextIsStep
    <3>1. SingleCaller => MailInv'
      BY MailStep DEF IInv
    <3>2. SingleCaller' <=> SingleCaller
      BY DEF SingleCaller
    <3>. QED BY <3>1, <3>2, TypeStep, CallStep, ExclusiveStep DEF IInv
  <2>2. IInv /\ UNCHANGED vars => IInv'
    <3> SUFFICES ASSUME IInv, UNCHANGED vars PROVE IInv'
      OBVIOUS
    <3>1. TypeOK' /\ ExclusiveProcessing' /\ CallInv'
      BY Zenon DEF vars, IInv, TypeOK, ExclusiveProcessing, CallInv
    <3>2. SingleCaller => MailInv'
      BY Zenon DEF vars, IInv, MailInv, EnqueuedIsPending
    <3>3. SingleCaller' <=> SingleCaller
      BY DEF SingleCaller
    <3>. QED BY <3>1, <3>2, <3>3 DEF IInv
  <2>. QED BY <2>1, <2>2
<1>. QED BY <1>1, <1>2, PTL DEF Spec

(* The transitions of the chart never overlap, whoever calls. *)
THEOREM ProcessingIsExclusive == Spec => []ExclusiveProcessing
BY RunnerInvariant, PTL DEF IInv

(* With one calling task, an accepted event never lies in the mailbox with  *)
(* its flag down.                                                           *)
THEOREM EnqueuedStaysPending ==
  ASSUME SingleCaller
  PROVE  Spec => []EnqueuedIsPending
<1>1. IInv => EnqueuedIsPending
  BY DEF IInv, MailInv
<1>. QED BY <1>1, RunnerInvariant, PTL

-----------------------------------------------------------------------------
(* The refinement of EventMailbox. *)

Flight == {"reset copied", "clear copied", "deliver copied"}

(* What the mapped variables are in a reachable state. *)
CurrentIs ==
  /\ \A c \in Contexts : pc[c] \in Flight => CurrentEvent = arg[c] /\ arg[c] # None
  /\ (\A c \in Contexts : pc[c] \notin Flight) => CurrentEvent = None

LEMMA MappedState == IInv => CurrentIs
<1> SUFFICES ASSUME IInv PROVE CurrentIs
  OBVIOUS
<1>1. ASSUME NEW c \in Contexts, pc[c] \in Flight PROVE CurrentEvent = arg[c] /\ arg[c] # None
  <2>1. \A d \in InFlight : d = c
    BY <1>1 DEF IInv, ExclusiveProcessing, InFlight, Flight, Section, ProcessLabels
  <2>2. c \in InFlight
    BY <1>1 DEF InFlight, Flight
  <2>3. CurrentEvent = arg[c]
    BY <2>1, <2>2 DEF CurrentEvent
  <2>4. arg[c] # None
    BY <1>1, ChartAssumption DEF IInv, CallInv, Flight
  <2>. QED BY <2>3, <2>4
<1>2. ASSUME \A c \in Contexts : pc[c] \notin Flight PROVE CurrentEvent = None
  BY <1>2 DEF CurrentEvent, InFlight, Flight
<1>. QED BY <1>1, <1>2 DEF CurrentIs

(* A step of a task that moves nothing but its place outside the labels     *)
(* the mapping looks at changes neither mapped variable.                    *)
LEMMA Unmapped ==
  ASSUME IInv, CurrentIs, CurrentIs', NEW c \in Contexts, Step(c),
         UNCHANGED <<chart, enqueued_event>>,
         \/ pc[c] \notin Flight /\ pc'[c] \notin Flight
         \/ pc[c] \in Flight /\ pc'[c] \in Flight /\ arg'[c] = arg[c],
         pc[c] \notin {"reset", "reset copied"} /\ pc'[c] \notin {"reset", "reset copied"}
  PROVE  UNCHANGED <<chart, CurrentEvent, WaitingEvent>>
<1>1. \A d \in Contexts \ {c} : pc'[d] = pc[d] /\ arg'[d] = arg[d]
  BY DEF IInv, TypeOK, Goto, Begin, Return, At, Step, EnqueueEvent, ApplyEvent,
     ProcessEnqueuedEvent, StoreEvent, TestAndSetPending, DeliverPending, ResetPending,
     ClearPending, ApplyIncoming, ClaimProcessing, CopyEnqueued, ResetEnqueued,
     ClearEnqueued, DeliverEnqueued, Release
<1>2. CurrentEvent' = CurrentEvent
  <2>1. CASE \E d \in Contexts : pc[d] \in Flight
    <3>1. PICK d \in Contexts : pc[d] \in Flight
      BY <2>1
    <3>2. pc'[d] \in Flight /\ arg'[d] = arg[d]
      BY <1>1, <3>1
    <3>3. CurrentEvent = arg[d]
      BY <3>1 DEF CurrentIs
    <3>4. CurrentEvent' = arg'[d]
      BY <3>2 DEF CurrentIs
    <3>. QED BY <3>2, <3>3, <3>4
  <2>2. CASE \A d \in Contexts : pc[d] \notin Flight
    BY <1>1, <2>2 DEF CurrentIs
  <2>. QED BY <2>1, <2>2
<1>3. WaitingEvent' = WaitingEvent
  BY <1>1 DEF WaitingEvent
<1>. QED BY <1>2, <1>3

(* Every step of the runner is one of the mailbox, or leaves it alone.      *)
LEMMA StepMaps ==
  ASSUME IInv, IInv', SingleCaller, CurrentIs, CurrentIs', NEW c \in Contexts, Step(c)
  PROVE  Mailbox!Next \/ UNCHANGED <<chart, CurrentEvent, WaitingEvent>>
<1> USE DEF IInv, Goto, Begin, Return, At
<1>0. TypeOK /\ CallInv /\ MailInv
  OBVIOUS
<1>1. ASSUME NEW e \in Events, EnqueueEvent(c, e) \/ ApplyEvent(c, e)
      PROVE  UNCHANGED <<chart, CurrentEvent, WaitingEvent>>
  BY <1>1, Unmapped DEF TypeOK, EnqueueEvent, ApplyEvent, Flight
<1>2. CASE \/ TestAndSetPending(c) \/ ClearPending(c) \/ ProcessEnqueuedEvent(c)
           \/ ClaimProcessing(c) \/ Release(c) \/ ClearEnqueued(c)
  BY <1>2, Unmapped DEF TypeOK, TestAndSetPending, ClearPending, ProcessEnqueuedEvent,
     ClaimProcessing, Release, ClearEnqueued, Flight
<1>3. ASSUME c \in Tasks, Executes(c)
      PROVE  \A d \in Contexts \ {c} : pc[d] = "idle"
  BY <1>3, TaskExecutesAlone
<1>4. CASE StoreEvent(c)
  <2>1. arg[c] \in Events /\ enqueued_event = None /\ \A d \in Contexts : pc[d] \notin Held
    BY <1>0, <1>4, StoringAlone DEF CallInv, StoreEvent
  <2>2. /\ enqueued_event' = arg[c] /\ UNCHANGED chart
        /\ pc'[c] = "idle" /\ \A d \in Contexts \ {c} : pc'[d] = pc[d] /\ arg'[d] = arg[d]
    BY <1>4 DEF StoreEvent, TypeOK
  <2>3. WaitingEvent = None /\ WaitingEvent' = arg[c]
    BY <2>1, <2>2 DEF WaitingEvent, Held
  <2>4. CurrentEvent' = CurrentEvent
    <3>1. CASE \E d \in Contexts : pc[d] \in Flight
      <4>1. PICK d \in Contexts : pc[d] \in Flight
        BY <3>1
      <4>2. d # c
        BY <1>4, <4>1 DEF StoreEvent, Flight
      <4>. QED BY <2>2, <4>1, <4>2 DEF CurrentIs
    <3>2. CASE \A d \in Contexts : pc[d] \notin Flight
      BY <2>2, <3>2 DEF CurrentIs, Flight
    <3>. QED BY <3>1, <3>2
  <2>. QED BY <2>1, <2>2, <2>3, <2>4 DEF Mailbox!Next, Mailbox!Accept
<1>5. CASE DeliverPending(c)
  <2>1. \A d \in Contexts \ {c} : pc[d] = "idle"
    BY <1>3, <1>5 DEF DeliverPending, CallInv, Section, ApplyLabels
  <2>2. /\ pc[c] = "deliver" /\ pc'[c] = "reset" /\ UNCHANGED enqueued_event
        /\ \A d \in Contexts \ {c} : pc'[d] = pc[d]
    BY <1>5 DEF DeliverPending, TypeOK
  <2>3. CurrentEvent = None /\ CurrentEvent' = None
    BY <2>1, <2>2 DEF CurrentIs, Flight
  <2>4. WaitingEvent = enqueued_event /\ WaitingEvent' = None
    BY <2>1, <2>2 DEF WaitingEvent
  <2>5. CASE enqueued_event = None
    BY <1>5, <2>3, <2>4, <2>5 DEF DeliverPending
  <2>6. CASE enqueued_event # None
    BY <1>5, <2>3, <2>4, <2>6 DEF DeliverPending, Transit, Mailbox!Next,
       Mailbox!DeliverWaiting, Mailbox!Transit
  <2>. QED BY <2>5, <2>6
<1>6. CASE ResetPending(c)
  <2>1. \A d \in Contexts \ {c} : pc[d] = "idle"
    BY <1>3, <1>6 DEF ResetPending, CallInv, Section, ApplyLabels
  <2>2. /\ pc[c] = "reset" /\ pc'[c] = "clear" /\ enqueued_event' = None /\ UNCHANGED chart
        /\ \A d \in Contexts \ {c} : pc'[d] = pc[d]
    BY <1>6 DEF ResetPending, TypeOK
  <2>3. CurrentEvent = None /\ CurrentEvent' = None
    BY <2>1, <2>2 DEF CurrentIs, Flight
  <2>. QED BY <2>1, <2>2, <2>3 DEF WaitingEvent
<1>7. CASE ApplyIncoming(c)
  <2>1. (\A d \in Contexts \ {c} : pc[d] = "idle") /\ arg[c] \in Events
    BY <1>3, <1>7 DEF ApplyIncoming, CallInv, Section, ApplyLabels
  <2>2. /\ pc[c] = "apply" /\ pc'[c] = "release" /\ UNCHANGED enqueued_event
        /\ \A d \in Contexts \ {c} : pc'[d] = pc[d]
    BY <1>7 DEF ApplyIncoming, TypeOK
  <2>3. CurrentEvent = None /\ CurrentEvent' = None /\ WaitingEvent' = WaitingEvent
    BY <2>1, <2>2 DEF CurrentIs, Flight, WaitingEvent
  <2>. QED BY <1>7, <2>1, <2>3 DEF ApplyIncoming, Transit, Mailbox!Next, Mailbox!Apply, Mailbox!Transit
<1>8. CASE CopyEnqueued(c)
  <2>1. \A d \in Contexts \ {c} : pc[d] = "idle"
    BY <1>3, <1>8 DEF CopyEnqueued, CallInv, Section, ProcessLabels
  <2>2. /\ pc[c] = "copy" /\ UNCHANGED <<chart, enqueued_event>>
        /\ pc'[c] = IF enqueued_event = None THEN "clear empty" ELSE "reset copied"
        /\ arg'[c] = enqueued_event
        /\ \A d \in Contexts \ {c} : pc'[d] = pc[d]
    BY <1>8 DEF CopyEnqueued, TypeOK
  <2>3. CurrentEvent = None /\ WaitingEvent = enqueued_event
    BY <2>1, <2>2 DEF CurrentIs, Flight, WaitingEvent
  <2>4. CASE enqueued_event = None
    <3>1. CurrentEvent' = None /\ WaitingEvent' = None
      BY <2>1, <2>2, <2>4 DEF CurrentIs, Flight, WaitingEvent
    <3>. QED BY <2>2, <2>3, <2>4, <3>1
  <2>5. CASE enqueued_event # None
    <3>1. CurrentEvent' = enqueued_event /\ WaitingEvent' = None
      BY <2>1, <2>2, <2>5 DEF CurrentIs, Flight, WaitingEvent
    <3>. QED BY <2>2, <2>3, <2>5, <3>1 DEF Mailbox!Next, Mailbox!Take
  <2>. QED BY <2>4, <2>5
<1>9. CASE ResetEnqueued(c)
  <2>1. \A d \in Contexts \ {c} : pc[d] = "idle"
    BY <1>3, <1>9 DEF ResetEnqueued, CallInv, Section, ProcessLabels
  <2>2. /\ pc[c] = "reset copied" /\ pc'[c] = "clear copied" /\ enqueued_event' = None
        /\ UNCHANGED <<chart, arg>>
        /\ \A d \in Contexts \ {c} : pc'[d] = pc[d]
    BY <1>9 DEF ResetEnqueued, TypeOK
  <2>3. CurrentEvent = arg[c] /\ CurrentEvent' = arg[c]
    BY <2>2 DEF CurrentIs, Flight
  <2>. QED BY <2>1, <2>2, <2>3 DEF WaitingEvent
<1>10. CASE DeliverEnqueued(c)
  <2>1. \A d \in Contexts \ {c} : pc[d] = "idle"
    BY <1>3, <1>10 DEF DeliverEnqueued, CallInv, Section, ProcessLabels
  <2>2. /\ pc[c] = "deliver copied" /\ pc'[c] = "release" /\ UNCHANGED enqueued_event
        /\ \A d \in Contexts \ {c} : pc'[d] = pc[d]
    BY <1>10 DEF DeliverEnqueued, TypeOK
  <2>3. CurrentEvent = arg[c] /\ arg[c] # None /\ CurrentEvent' = None
    BY <2>1, <2>2 DEF CurrentIs, Flight
  <2>4. WaitingEvent' = WaitingEvent
    BY <2>1, <2>2 DEF WaitingEvent
  <2>. QED BY <1>10, <2>3, <2>4 DEF DeliverEnqueued, Transit, Mailbox!Next, Mailbox!Deliver, Mailbox!Transit
<1>. QED BY <1>1, <1>2, <1>4, <1>5, <1>6, <1>7, <1>8, <1>9, <1>10 DEF Step

(* With one calling task, interrupts of any nesting and any chart: accepted *)
(* events are delivered once, in order, before anything overtakes them.     *)
THEOREM RunnerImplementsMailbox ==
  ASSUME SingleCaller
  PROVE  Spec => MailboxSpec
<1>1. Init => Mailbox!Init
  BY DEF Init, Mailbox!Init, CurrentEvent, InFlight, WaitingEvent
<1>2. IInv /\ IInv' /\ CurrentIs /\ CurrentIs' /\ [Next]_vars
        => [Mailbox!Next]_<<chart, CurrentEvent, WaitingEvent>>
  <2>1. ASSUME IInv, IInv', CurrentIs, CurrentIs', Next
        PROVE  [Mailbox!Next]_<<chart, CurrentEvent, WaitingEvent>>
    BY <2>1, NextIsStep, StepMaps
  <2>2. ASSUME UNCHANGED vars
        PROVE  UNCHANGED <<chart, CurrentEvent, WaitingEvent>>
    BY <2>2 DEF vars, CurrentEvent, InFlight, WaitingEvent
  <2>. QED BY <2>1, <2>2
<1>. QED BY <1>1, <1>2, RunnerInvariant, MappedState, PTL DEF Spec, MailboxSpec, Mailbox!Spec, Mailbox!vars

-----------------------------------------------------------------------------
(* The mailbox opens again, for one calling task. *)

LEMMA StepsAreCounted ==
  /\ \A label : StepsToClear(label) \in Nat
  /\ \A label \in {"clear", "clear copied", "clear empty"} : StepsToClear(label) = 1
  /\ \A label \in {"reset", "reset copied"} : StepsToClear(label) = 2
  /\ \A label \in {"deliver", "copy"} : StepsToClear(label) = 3
  /\ \A label \in {"flag", "claim"} : StepsToClear(label) = 4
  /\ StepsToClear("idle") = 5 /\ StepsToClear("release") = 6
  /\ \A label \in {"apply", "deliver copied"} : StepsToClear(label) = 7
BY DEF StepsToClear

(* The task's own test of processing_event never fails. *)
LEMMA NobodyElseProcesses ==
  ASSUME IInv, SingleCaller, NEW t \in Tasks, pc[t] \notin Section
  PROVE  ~processing_event
BY DEF IInv, ExclusiveProcessing, CallInv, SingleCaller

(* The calling task is in its section when it is neither between two calls  *)
(* nor about to claim it.                                                   *)
LEMMA TaskSteps ==
  ASSUME IInv, SingleCaller, NEW t \in Tasks, Step(t), has_enqueued_event, has_enqueued_event'
  PROVE  \/ pc[t] = "idle" /\ pc'[t] \in {"flag", "claim"}
         \/ pc[t] = "flag" /\ pc'[t] = "deliver"
         \/ pc[t] = "claim" /\ pc'[t] = "copy"
         \/ pc[t] = "deliver" /\ pc'[t] = "reset"
         \/ pc[t] = "reset" /\ pc'[t] = "clear"
         \/ pc[t] = "copy" /\ pc'[t] \in {"clear empty", "reset copied"}
         \/ pc[t] = "reset copied" /\ pc'[t] = "clear copied"
         \/ pc[t] \in {"apply", "deliver copied"} /\ pc'[t] = "release"
         \/ pc[t] = "release" /\ pc'[t] = "idle"
<1> USE DEF Goto, Begin, Return, At
<1>1. pc \in [Contexts -> Labels] /\ t \in Contexts /\ t \notin Enqueuers /\ pc[t] # "store"
  BY ContextsAssumption DEF IInv, TypeOK, CallInv, SingleCaller, Contexts
<1>2. pc[t] \in {"idle", "claim"} => ~processing_event
  BY NobodyElseProcesses DEF Section, ApplyLabels, ProcessLabels
<1>3. ASSUME NEW e \in Events, EnqueueEvent(t, e) \/ ApplyEvent(t, e)
      PROVE  pc[t] = "idle" /\ pc'[t] = "flag"
  BY <1>1, <1>2, <1>3 DEF EnqueueEvent, ApplyEvent
<1>4. CASE ProcessEnqueuedEvent(t) \/ ClaimProcessing(t) \/ StoreEvent(t)
  BY <1>1, <1>2, <1>4 DEF ProcessEnqueuedEvent, ClaimProcessing, StoreEvent
<1>5. CASE TestAndSetPending(t) \/ DeliverPending(t) \/ ResetPending(t) \/ ClearPending(t)
  BY <1>1, <1>5 DEF TestAndSetPending, DeliverPending, ResetPending, ClearPending
<1>6. CASE CopyEnqueued(t) \/ ResetEnqueued(t) \/ ClearEnqueued(t)
  BY <1>1, <1>6 DEF CopyEnqueued, ResetEnqueued, ClearEnqueued
<1>7. CASE ApplyIncoming(t) \/ DeliverEnqueued(t) \/ Release(t)
  BY <1>1, <1>7 DEF ApplyIncoming, DeliverEnqueued, Release
<1>. QED BY <1>3, <1>4, <1>5, <1>6, <1>7 DEF Step

(* With one calling task a raised flag comes down within five steps of a    *)
(* call the task makes, and seven of its steps at most, whatever the        *)
(* interrupts enqueue meanwhile.                                            *)
THEOREM MailboxAdvances ==
  ASSUME SingleCaller
  PROVE  Spec => MailboxProgress
<1>1. ASSUME IInv, NEW t \in Tasks, Step(t), has_enqueued_event, has_enqueued_event'
      PROVE  StepsToClear(pc'[t]) < StepsToClear(pc[t]) /\ pc'[t] # pc[t]
  <2> DEFINE from == pc[t]
             to   == pc'[t]
             n    == StepsToClear(from)
             m    == StepsToClear(to)
  <2>1. \/ from = "idle" /\ to \in {"flag", "claim"}
        \/ from = "flag" /\ to = "deliver"
        \/ from = "claim" /\ to = "copy"
        \/ from = "deliver" /\ to = "reset"
        \/ from = "reset" /\ to = "clear"
        \/ from = "copy" /\ to \in {"clear empty", "reset copied"}
        \/ from = "reset copied" /\ to = "clear copied"
        \/ from \in {"apply", "deliver copied"} /\ to = "release"
        \/ from = "release" /\ to = "idle"
    BY <1>1, TaskSteps
  <2> HIDE DEF from, to
  <2>2. \/ n = 7 /\ m = 6
        \/ n = 6 /\ m = 5
        \/ n = 5 /\ m = 4
        \/ n = 4 /\ m = 3
        \/ n = 3 /\ m \in {1, 2}
        \/ n = 2 /\ m = 1
    BY <2>1, StepsAreCounted
  <2>3. from = to => n = m
    OBVIOUS
  <2> HIDE DEF n, m
  <2>4. m < n /\ n # m
    BY <2>2
  <2>. QED BY <2>3, <2>4 DEF n, m, from, to
<1>2. ASSUME IInv, [Next]_vars
      PROVE  [has_enqueued_event /\ has_enqueued_event' => \A t \in Tasks :
               /\ pc'[t] # pc[t] => StepsToClear(pc'[t]) < StepsToClear(pc[t])
               /\ Calls(t) \/ Continue(t) => pc'[t] # pc[t]]_vars
  <2> SUFFICES ASSUME Next, has_enqueued_event, has_enqueued_event', NEW t \in Tasks
               PROVE  /\ pc'[t] # pc[t] => StepsToClear(pc'[t]) < StepsToClear(pc[t])
                      /\ Calls(t) \/ Continue(t) => pc'[t] # pc[t]
    BY <1>2
  <2>1. PICK c \in Contexts : Step(c)
    BY NextIsStep
  <2>2. pc'[t] # pc[t] => c = t
    <3>1. TypeOK /\ t \in Contexts
      BY <1>2 DEF IInv, Contexts
    <3>. QED BY <2>1, <3>1, SectionMoves
  <2>3. Calls(t) \/ Continue(t) => Step(t)
    BY DEF Calls, Continue, Step
  <2>. QED BY <1>1, <1>2, <2>1, <2>2, <2>3
<1>. QED BY <1>2, RunnerInvariant, PTL DEF Spec, MailboxProgress
=============================================================================
