------------------------ MODULE SilRefinement_proofs ------------------------
(***************************************************************************)
(* The scheduler implements the discrete-event simulation of module        *)
(* DiscreteEvents, for every value of the constants.                       *)
(***************************************************************************)
EXTENDS SilScheduler_proofs

(* What the refinement mapping shows of a state in which nothing runs. *)
LEMMA MappedState ==
  ASSUME IInv, current = None
  PROVE  /\ \A i \in Items : DE!CanAct(i) <=> Ready(i)
         /\ NothingReady => DE!Quiet
<1>1. \A i \in Items : DE!CanAct(i) <=> GetTimeout(i) = now \/ (i \in Threads /\ SyncUnblocked(i, bits))
  BY ConstantsAssumption DEF DE!CanAct, Due, Items
<1>2. \A i \in Items : ~IsRunning(i) => /\ GetTimeout(i) = None
                                        /\ i \in Threads => sync[i] = None
  BY DEF IInv, TokenInv, IsRunning, GetTimeout, TypeOK
<1>3. now # None
  BY NoneIsNoTime DEF IInv, TypeOK
<1>4. \A i \in Items : DE!CanAct(i) <=> Ready(i)
  BY <1>1, <1>2, <1>3 DEF Ready, IsPending, SyncUnblocked
<1>. QED BY <1>4 DEF NothingReady, DE!Quiet

LEMMA InitMaps == Init => DE!Init
<1> SUFFICES ASSUME Init PROVE DE!Init
  OBVIOUS
<1>1. \A i \in Items : Due(i) = None
  BY DEF Init, Due, GetTimeout, Items
<1>2. \A t \in Threads : ~SyncUnblocked(t, bits)
  BY DEF Init, SyncUnblocked
<1>. QED BY <1>1, <1>2 DEF DE!Init, Init, Epoch

(* An item that is handed the token, or an event that is run, occurs. *)
LEMMA HandleOccurs ==
  ASSUME NEW i \in Items, IInv, SchedulerHandles(i)
  PROVE  DE!Occur(i)
<1> USE DEF IInv
<1>1. HandleNextItem(i) /\ current = None
  BY DEF SchedulerHandles, RunUntilHandles, DrainHandles, ShutdownHandles, InRunUntil, InShutdown
<1>2. /\ DE!CanAct(i) /\ \A j \in Items : DE!CanAct(j) => ~PrioLess(ItemPrio(j), ItemPrio(i))
      /\ now' = now
  BY <1>1, MappedState DEF HandleNextItem, IsNext
<1>3. /\ i \in Threads => ~SyncUnblocked(i, bits)'
      /\ \A j \in Items \ {i} : GetTimeout(j)' = GetTimeout(j)
  <2>1. CASE i \in Threads
    <3>1. /\ UNCHANGED pending
          /\ timeout' = [timeout EXCEPT ![i] = None] /\ sync' = [sync EXCEPT ![i] = None]
      BY <1>1, <2>1 DEF HandleNextItem, RunThread
    <3>. QED BY <2>1, <3>1 DEF GetTimeout, SyncUnblocked, TypeOK, Items
  <2>2. CASE i \notin Threads
    BY <1>1, <2>2 DEF HandleNextItem, RunEvent, GetTimeout
  <2>. QED BY <2>1, <2>2
<1>4. current' = i
  BY <1>1 DEF HandleNextItem, RunThread, RunEvent
<1>5. Due(i)' = None /\ \A j \in Items \ {i} : Due(j)' = Due(j)
  BY <1>1, <1>3, <1>4, ConstantsAssumption DEF Due
<1>6. DE!PlansOnly({i})
  BY <1>5 DEF DE!PlansOnly
<1>. QED BY <1>1, <1>2, <1>3, <1>4, <1>5, <1>6 DEF DE!Occur

(* Time ticks, or the call ends and the simulation does not notice. *)
LEMMA LoopTicks ==
  ASSUME IInv, LoopStep
  PROVE  DE!Tick \/ UNCHANGED DE!vars
<1>1. /\ UNCHANGED itemVars /\ current' = current /\ current = None
  BY Zenon DEF LoopStep, RunUntilAdvances, RunUntilReturns, DrainNowEnds, DrainNextEnds,
     ShutdownAdvances, ShutdownReturns, ShutdownThrows, InRunUntil, InShutdown
<1>2. /\ \A i \in Items : Due(i)' = Due(i)
      /\ \A t \in Threads : SyncUnblocked(t, bits)' <=> SyncUnblocked(t, bits)
  BY <1>1 DEF itemVars, Due, GetTimeout, SyncUnblocked
<1>3. /\ [i \in Items |-> Due(i)]' = [i \in Items |-> Due(i)]
      /\ {t \in Threads : SyncUnblocked(t, bits)}' = {t \in Threads : SyncUnblocked(t, bits)}
  BY <1>2
<1>4. CASE now' = now
  BY <1>1, <1>3, <1>4 DEF DE!vars
<1>5. CASE now' # now
  <2>1. RunUntilAdvances \/ DrainNowEnds \/ ShutdownAdvances
    BY <1>5, TimeSteps DEF Next, OtherSteps
  <2>2. /\ now' > now /\ NothingReady
        /\ \A i \in Items : Due(i) # None => now' <= Due(i)
    <3>1. /\ now' \in Nat /\ now \in Nat /\ now' >= now /\ NothingReady
          /\ \A i \in Items : GetTimeout(i) # None => GetTimeout(i) \in Nat /\ GetTimeout(i) >= now'
      BY <2>1, AdvanceFacts, TimeoutsAreTimes, ConstantsAssumption DEF IInv, TypeOK, Time
    <3>. QED BY <1>5, <3>1 DEF Due
  <2>. QED BY <1>1, <1>3, <2>2, MappedState DEF DE!Tick
<1>. QED BY <1>4, <1>5

(* What it takes to be a step of the abstract specification that leaves     *)
(* time alone.                                                              *)
LEMMA PlansOnlyFacts ==
  ASSUME \A i \in Items : \/ Due(i)' = Due(i)
                          \/ Due(i) = None /\ Due(i)' >= now
  PROVE  DE!PlansOnly({})
BY DEF DE!PlansOnly

(* Calls plan, between two occurrences. *)
LEMMA ControlPlans ==
  ASSUME IInv, ControlCalls
  PROVE  DE!Plan \/ UNCHANGED DE!vars
<1> USE DEF IInv
<1>1. /\ current = None /\ now' = now /\ current' = current
      /\ UNCHANGED <<sync, bits>> \/ UNCHANGED itemVars
  BY Zenon DEF ControlCalls, Start, CallRunUntil, CallRunUntilNextTimePoint, CallShutdown,
     SimulateEvent, Idle
<1>2. {t \in Threads : SyncUnblocked(t, bits)}' = {t \in Threads : SyncUnblocked(t, bits)}
  BY <1>1 DEF SyncUnblocked, itemVars
<1>3. CASE Start
  <2>1. /\ timeout' = [t \in Threads |-> 0] /\ now = 0 /\ UNCHANGED pending
        /\ \A t \in Threads : timeout[t] = None
    BY <1>3 DEF Start, TokenInv, Epoch
  <2>2. \A i \in Items : \/ Due(i)' = Due(i)
                         \/ Due(i) = None /\ Due(i)' >= now
    BY <1>1, <2>1, ConstantsAssumption DEF Due, GetTimeout, Items
  <2>. QED BY <1>1, <1>2, <2>2, PlansOnlyFacts DEF DE!Plan
<1>4. ASSUME NEW e \in Events, NEW ts \in Time, SimulateEvent(e, ts) PROVE DE!Plan
  <2>1. \A i \in Items : \/ Due(i)' = Due(i)
                         \/ Due(i) = None /\ Due(i)' >= now
    BY <1>1, <1>4, ConstantsAssumption DEF SimulateEvent, Due, GetTimeout, TypeOK, Items
  <2>. QED BY <1>1, <1>2, <2>1, PlansOnlyFacts DEF DE!Plan
<1>5. CASE UNCHANGED itemVars
  <2>1. [i \in Items |-> Due(i)]' = [i \in Items |-> Due(i)]
    BY <1>1, <1>5 DEF itemVars, Due, GetTimeout
  <2>. QED BY <1>1, <1>2, <2>1 DEF DE!vars
<1>6. \/ Start \/ UNCHANGED itemVars
      \/ \E e \in Events, ts \in Time : SimulateEvent(e, ts)
  BY Zenon DEF ControlCalls, CallRunUntil, CallRunUntilNextTimePoint, CallShutdown
<1>. QED BY <1>3, <1>4, <1>5, <1>6

(* A task that gives the token back acts: it plans its own next occurrence. *)
LEMMA BlockActs ==
  ASSUME NEW t \in Threads, NEW at \in Time, NEW w, IInv, Block(t, at, w), at >= now, now' = now
  PROVE  DE!Act(t)
<1> USE DEF IInv
<1>1. /\ current = t /\ current' = None /\ t # None /\ timeout[t] = None
      /\ timeout' = [timeout EXCEPT ![t] = at] /\ UNCHANGED pending
  BY ConstantsAssumption DEF Block, TokenInv, Items
<1>2. \A i \in Items : \/ Due(i)' = Due(i)
                       \/ Due(i) = None /\ Due(i)' >= now
  BY <1>1, ConstantsAssumption DEF Due, GetTimeout, TypeOK, Items
<1>3. Due(t) = None /\ t \in Items
  BY <1>1 DEF Due, Items
<1>. QED BY <1>1, <1>2, <1>3, PlansOnlyFacts DEF DE!Act

(* A task that keeps the token, or returns, acts: it plans for others only. *)
LEMMA KeepActs ==
  ASSUME NEW t \in Threads, IInv, current = t, current' \in {t, None}, now' = now,
         timeout' = timeout,
         \A e \in Events : \/ pending'[e] = pending[e]
                           \/ pending[e] = None /\ pending'[e] >= now
  PROVE  DE!Act(t)
<1>1. \A i \in Items : \/ Due(i)' = Due(i)
                       \/ Due(i) = None /\ Due(i)' >= now
  BY ConstantsAssumption DEF Due, GetTimeout, IInv, TokenInv, Items
<1>2. t \in Items /\ Due(t) = None /\ Due(t)' = None
  BY DEF Due, GetTimeout, IInv, TokenInv, Items
<1>. QED BY <1>1, <1>2, PlansOnlyFacts DEF DE!Act

(* The task that has the token acts. *)
LEMMA TaskActs ==
  ASSUME NEW t \in Threads, IInv, TaskStep(t)
  PROVE  DE!Act(t)
<1>1. TypeOK /\ TokenInv /\ now \in Time /\ now >= now /\ t # None /\ t \in Items
  BY ConstantsAssumption DEF IInv, TypeOK, Time, Items
<1>3. ASSUME NEW time \in Time, BlockCurrentThreadUntil(t, time) PROVE DE!Act(t)
  BY <1>3, BlockActs DEF BlockCurrentThreadUntil
<1>4. ASSUME NEW w \in Waits, NEW deadline \in Time, Wait(t, w, deadline) PROVE DE!Act(t)
  BY <1>4, BlockActs DEF Wait
<1>5. ASSUME NEW upper_bound \in Time, BlockCurrentThreadUntilNextTimepoint(t, upper_bound)
      PROVE  DE!Act(t)
  <2>1. PICK at \in Time : Block(t, at, None) /\ at >= now
    BY <1>5, NextTimepointBlocks
  <2>2. now' = now
    BY <1>5, Zenon DEF BlockCurrentThreadUntilNextTimepoint
  <2>. QED BY <2>1, <2>2, BlockActs
<1>6. ASSUME NEW mask \in Masks, SetBits(t, mask) \/ ClearBits(t, mask) PROVE DE!Act(t)
  <2>1. /\ now' = now
        /\ \/ Block(t, now, None)
           \/ current = t /\ UNCHANGED <<current, timeout, sync, running, pending, rr_idx>>
    BY <1>6, Zenon DEF SetBits, ClearBits, CheckSyncPrimitivePreemption
  <2>2. CASE Block(t, now, None)
    BY <1>1, <2>1, <2>2, BlockActs
  <2>3. CASE current = t /\ UNCHANGED <<current, timeout, sync, running, pending, rr_idx>>
    <3>1. /\ current = t /\ current' \in {t, None} /\ timeout' = timeout
          /\ \A e \in Events : pending'[e] = pending[e]
      BY <2>3
    <3>. QED BY <2>1, <3>1, KeepActs
  <2>. QED BY <2>1, <2>2, <2>3
<1>7. ASSUME NEW e \in Events, NEW ts \in Time, StartTransfer(t, e, ts) PROVE DE!Act(t)
  <2>1. \A f \in Events : \/ pending'[f] = pending[f]
                          \/ pending[f] = None /\ pending'[f] >= now
    BY <1>1, <1>7 DEF StartTransfer, TypeOK
  <2>2. current = t /\ current' \in {t, None} /\ timeout' = timeout /\ now' = now
    BY <1>7 DEF StartTransfer
  <2>. QED BY <2>1, <2>2, KeepActs
<1>8. ASSUME DeInitializeThread(t) PROVE DE!Act(t)
  <2>1. /\ current = t /\ current' \in {t, None} /\ timeout' = timeout /\ now' = now
        /\ \A e \in Events : pending'[e] = pending[e]
    BY <1>8 DEF DeInitializeThread
  <2>. QED BY <2>1, KeepActs
<1>. QED BY <1>3, <1>4, <1>5, <1>6, <1>7, <1>8 DEF TaskStep, TaskBlocks

(* The event whose callback runs acts. *)
LEMMA CallbackActs ==
  ASSUME NEW e \in Events, IInv, CallbackStep(e)
  PROVE  DE!Act(e)
<1>1. /\ current = e /\ current' \in {e, None} /\ e # None /\ e \in Items /\ e \notin Threads
      /\ now' = now /\ timeout' = timeout /\ TypeOK
  BY ConstantsAssumption DEF IInv, CallbackStep, CallbackRegisters, CallbackEnds, Items
<1>2. /\ \A f \in Events \ {e} : \/ pending'[f] = pending[f]
                                 \/ pending[f] = None /\ pending'[f] >= now
      /\ current' = None => pending'[e] = None
  BY <1>1 DEF CallbackStep, CallbackRegisters, CallbackEnds, TypeOK
<1>3. Due(e) = None /\ Due(e)' = None
  BY <1>1, <1>2 DEF Due, GetTimeout
<1>4. \A i \in Items : \/ Due(i)' = Due(i)
                       \/ Due(i) = None /\ Due(i)' >= now
  BY <1>1, <1>2, <1>3, ConstantsAssumption DEF Due, GetTimeout, Items
<1>. QED BY <1>1, <1>3, <1>4, PlansOnlyFacts DEF DE!Act

(* The scheduler implements a discrete-event simulation: occurrences follow *)
(* time and priority, none is skipped and none is undone.                   *)
THEOREM SchedulerImplementsDiscreteEvents == Spec => DESpec
<1>1. ASSUME IInv, [Next]_vars PROVE [DE!Next]_(DE!vars)
  <2>1. CASE UNCHANGED vars
    <3>1. /\ [i \in Items |-> Due(i)]' = [i \in Items |-> Due(i)]
          /\ {t \in Threads : SyncUnblocked(t, bits)}' = {t \in Threads : SyncUnblocked(t, bits)}
          /\ current' = current /\ now' = now
      BY <2>1 DEF vars, itemVars, Due, GetTimeout, SyncUnblocked
    <3>. QED BY <3>1 DEF DE!vars
  <2>2. ASSUME NEW i \in Items, SchedulerHandles(i) PROVE DE!Next
    BY <1>1, <2>2, HandleOccurs DEF DE!Next
  <2>3. ASSUME NEW t \in Threads, TaskStep(t) PROVE DE!Next
    BY <1>1, <2>3, TaskActs DEF DE!Next, Items
  <2>4. CASE LoopStep
    BY <1>1, <2>4, LoopTicks DEF DE!Next
  <2>5. CASE ControlCalls
    BY <1>1, <2>5, ControlPlans DEF DE!Next
  <2>6. ASSUME NEW e \in Events, CallbackStep(e) PROVE DE!Next
    BY <1>1, <2>6, CallbackActs DEF DE!Next, Items
  <2>. QED BY <1>1, <2>1, <2>2, <2>3, <2>4, <2>5, <2>6 DEF Next, OtherSteps, Terminated
<1>. QED BY <1>1, InitMaps, SchedulerInvariant, PTL DEF Spec, DESpec, DE!Spec
=============================================================================
