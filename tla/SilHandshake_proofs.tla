------------------------ MODULE SilHandshake_proofs ------------------------
(***************************************************************************)
(* The hand-over protocol is safe for every finite set of tasks: IInv is   *)
(* inductive and implies the invariants the runs check.                    *)
(***************************************************************************)
EXTENDS SilHandshake, FiniteSetTheorems, TLAPS

(* Labels, spelled out wherever a step needs to know they differ. *)
USE DEF ControlLabels, TaskLabels

LEMMA InitIInv == Init => IInv
<1> SUFFICES ASSUME Init PROVE IInv
  OBVIOUS
<1> USE ThreadsAssumption DEF Init
<1>1. TypeOK
  <2>1. Cardinality(Threads) \in Nat
    BY FS_CardinalityType
  <2>2. /\ wakeup \in [Threads -> BOOLEAN] /\ running \in [Threads -> BOOLEAN]
        /\ blocked \in BOOLEAN
    BY Zenon
  <2>3. /\ mtx \in Threads \cup {Control, None} /\ latch \in Nat
        /\ threads \in SUBSET Threads /\ picked \in Threads \cup {None}
        /\ cpc \in ControlLabels /\ pc \in [Threads -> TaskLabels]
    BY <2>1
  <2>. QED BY <2>2, <2>3 DEF TypeOK
<1>2. MutexInv
  BY DEF MutexInv, Holding
<1>3. RegistryInv
  BY DEF RegistryInv
<1>4. StartupInv
  <2>1. {t \in Threads : pc[t] \in NotCounted} = Threads
    BY DEF NotCounted
  <2>. QED BY <2>1 DEF StartupInv, Starting
<1>5. TokenInv
  BY DEF TokenInv
<1>. QED BY <1>1, <1>2, <1>3, <1>4, <1>5 DEF IInv

(***************************************************************************)
(* The control thread's steps.                                             *)
(***************************************************************************)
LEMMA StartSteps ==
  IInv /\ (CreateLatch \/ AwaitLatch \/ Relock \/ SetUp) => IInv'
<1> USE ThreadsAssumption DEF IInv, TypeOK, MutexInv, RegistryInv, StartupInv, TokenInv,
        Holding, NotCounted, Starting, Parked, HasToken, ControlGoes
<1>1. ASSUME IInv, CreateLatch PROVE IInv'
  BY <1>1 DEF CreateLatch
<1>2. ASSUME IInv, AwaitLatch PROVE IInv'
  <2>1. Cardinality({t \in Threads : pc[t] \in NotCounted}) = 0
    BY <1>2 DEF AwaitLatch
  <2>2. {t \in Threads : pc[t] \in NotCounted} = {}
    <3>1. IsFiniteSet({t \in Threads : pc[t] \in NotCounted})
      BY FS_Subset
    <3>. QED BY <2>1, <3>1, FS_EmptySet
  <2>. QED BY <1>2, <2>2 DEF AwaitLatch
<1>3. ASSUME IInv, Relock PROVE IInv'
  BY <1>3 DEF Relock
<1>4. ASSUME IInv, SetUp PROVE IInv'
  BY <1>4 DEF SetUp
<1>. QED BY <1>1, <1>2, <1>3, <1>4

LEMMA ScanSteps ==
  /\ \A t \in Threads : IInv /\ (Pick(t) \/ Run(t)) => IInv'
  /\ IInv /\ (AwaitBlocked \/ RunEvent \/ EventRan) => IInv'
<1> USE ThreadsAssumption DEF IInv, TypeOK, MutexInv, RegistryInv, StartupInv, TokenInv,
        Holding, NotCounted, Starting, Parked, HasToken, ControlGoes
<1>1. ASSUME NEW t \in Threads, IInv, Pick(t) PROVE IInv'
  BY <1>1 DEF Pick
<1>2. ASSUME NEW t \in Threads, IInv, Run(t) PROVE IInv'
  BY <1>2 DEF Run
<1>3. ASSUME IInv, AwaitBlocked PROVE IInv'
  BY <1>3 DEF AwaitBlocked
<1>4. ASSUME IInv, RunEvent PROVE IInv'
  BY <1>4 DEF RunEvent
<1>5. ASSUME IInv, EventRan PROVE IInv'
  BY <1>5 DEF EventRan
<1>. QED BY <1>1, <1>2, <1>3, <1>4, <1>5

(***************************************************************************)
(* The steps of a task during startup.                                     *)
(***************************************************************************)
LEMMA InitializeSteps ==
  ASSUME NEW t \in Threads
  PROVE  IInv /\ (LockForEmplace(t) \/ Emplace(t) \/ Lookup(t) \/ LockForGood(t)) => IInv'
<1> USE ThreadsAssumption DEF IInv, TypeOK, MutexInv, RegistryInv, TokenInv,
        Holding, Starting, Parked, HasToken, Goes, Acquire
<1>1. ASSUME IInv, LockForEmplace(t) \/ Emplace(t) \/ Lookup(t) \/ LockForGood(t)
      PROVE  StartupInv'
  <2>1. /\ pc[t] \in NotCounted /\ pc'[t] \in NotCounted
        /\ \A u \in Threads \ {t} : pc'[u] = pc[u]
        /\ UNCHANGED <<cpc, latch, wakeup>>
    BY <1>1 DEF NotCounted, LockForEmplace, Emplace, Lookup, LockForGood
  <2>2. {u \in Threads : pc'[u] \in NotCounted} = {u \in Threads : pc[u] \in NotCounted}
    BY <2>1
  <2>. QED BY <1>1, <2>1, <2>2 DEF StartupInv, NotCounted
<1>2. ASSUME IInv, LockForEmplace(t) PROVE TypeOK' /\ MutexInv' /\ RegistryInv' /\ TokenInv'
  BY <1>2 DEF LockForEmplace, StartupInv, NotCounted
<1>3. ASSUME IInv, Emplace(t) PROVE TypeOK' /\ MutexInv' /\ RegistryInv' /\ TokenInv'
  BY <1>3 DEF Emplace, StartupInv, NotCounted
<1>4. ASSUME IInv, Lookup(t) PROVE TypeOK' /\ MutexInv' /\ RegistryInv' /\ TokenInv'
  BY <1>4 DEF Lookup, StartupInv, NotCounted
<1>5. ASSUME IInv, LockForGood(t) PROVE TypeOK' /\ MutexInv' /\ RegistryInv' /\ TokenInv'
  BY <1>5 DEF LockForGood, StartupInv, NotCounted
<1>. QED BY <1>1, <1>2, <1>3, <1>4, <1>5

(* The latch counts the tasks that have not passed it. *)
LEMMA CountDownStep ==
  ASSUME NEW t \in Threads
  PROVE  IInv /\ CountDown(t) => IInv'
<1> SUFFICES ASSUME IInv, CountDown(t) PROVE IInv'
  OBVIOUS
<1> USE ThreadsAssumption DEF IInv, Goes
<1> DEFINE Left == {u \in Threads : pc[u] \in NotCounted}
<1>1. /\ pc[t] = "initialize" /\ pc' = [pc EXCEPT ![t] = "mark"]
      /\ pc \in [Threads -> TaskLabels]
      /\ UNCHANGED <<mtx, threads, blocked, wakeup, running, picked, cpc>>
  BY DEF CountDown, TypeOK
<1>2. cpc \in {"boot", "latch"}
  BY <1>1 DEF StartupInv, NotCounted, TypeOK
<1>3. latch' = Cardinality(Left') /\ latch' \in Nat
  <2>1. t \in Left /\ Left' = Left \ {t} /\ IsFiniteSet(Left)
    BY <1>1, FS_Subset DEF NotCounted
  <2>2. Cardinality(Left') = Cardinality(Left) - 1
    BY <2>1, FS_RemoveElement
  <2>3. Cardinality(Left') \in Nat
    BY <2>1, FS_CardinalityType, FS_RemoveElement
  <2>. QED BY <1>2, <2>2, <2>3 DEF CountDown, StartupInv
<1>4. StartupInv'
  BY <1>1, <1>2, <1>3 DEF StartupInv, NotCounted, Starting
<1>5. TypeOK' /\ MutexInv' /\ RegistryInv' /\ TokenInv'
  BY <1>1, <1>2, <1>3 DEF CountDown, TypeOK, MutexInv, RegistryInv, TokenInv, Holding
<1>. QED BY <1>4, <1>5

(***************************************************************************)
(* The steps of a task that has been through startup.                      *)
(***************************************************************************)
LEMMA LoopSteps ==
  ASSUME NEW t \in Threads
  PROVE  IInv /\ (\/ MarkCurrentItemBlocked(t) \/ WakeUp(t) \/ FallAsleep(t) \/ Poll(t)
                  \/ BodyBlocks(t) \/ BodyReturns(t) \/ ReleaseForGood(t) \/ Leave(t))
         => IInv'
<1> USE ThreadsAssumption DEF IInv, TypeOK, MutexInv, RegistryInv, TokenInv,
        Holding, NotCounted, Starting, Parked, HasToken, Goes, Acquire
<1> DEFINE Step == \/ MarkCurrentItemBlocked(t) \/ WakeUp(t) \/ FallAsleep(t) \/ Poll(t)
                   \/ BodyBlocks(t) \/ BodyReturns(t) \/ ReleaseForGood(t) \/ Leave(t)
<1>1. ASSUME IInv, Step PROVE StartupInv'
  <2>1. /\ pc[t] \notin NotCounted /\ pc'[t] \notin NotCounted
        /\ \A u \in Threads \ {t} : pc'[u] = pc[u]
        /\ UNCHANGED <<cpc, latch>>
    BY <1>1 DEF MarkCurrentItemBlocked, WakeUp, FallAsleep, Poll, BodyBlocks,
                BodyReturns, ReleaseForGood, Leave
  <2>2. {u \in Threads : pc'[u] \in NotCounted} = {u \in Threads : pc[u] \in NotCounted}
    BY <2>1
  <2>3. cpc \in Starting => /\ pc'[t] \notin {"body", "stop", "leave", "done"}
                            /\ wakeup' = wakeup
    BY <1>1 DEF StartupInv, MarkCurrentItemBlocked, WakeUp, FallAsleep, Poll, BodyBlocks,
                BodyReturns, ReleaseForGood, Leave
  <2>. QED BY <1>1, <2>1, <2>2, <2>3 DEF StartupInv
<1>2. ASSUME IInv, MarkCurrentItemBlocked(t) PROVE TypeOK' /\ MutexInv' /\ RegistryInv' /\ TokenInv'
  BY <1>2 DEF MarkCurrentItemBlocked
<1>3. ASSUME IInv, WakeUp(t) PROVE TypeOK' /\ MutexInv' /\ RegistryInv' /\ TokenInv'
  BY <1>3 DEF WakeUp
<1>4. ASSUME IInv, FallAsleep(t) PROVE TypeOK' /\ MutexInv' /\ RegistryInv' /\ TokenInv'
  BY <1>4 DEF FallAsleep
<1>5. ASSUME IInv, Poll(t) PROVE TypeOK' /\ MutexInv' /\ RegistryInv' /\ TokenInv'
  BY <1>5 DEF Poll
<1>6. ASSUME IInv, BodyBlocks(t) PROVE TypeOK' /\ MutexInv' /\ RegistryInv' /\ TokenInv'
  BY <1>6 DEF BodyBlocks
<1>7. ASSUME IInv, BodyReturns(t) PROVE TypeOK' /\ MutexInv' /\ RegistryInv' /\ TokenInv'
  BY <1>7 DEF BodyReturns
<1>8. ASSUME IInv, ReleaseForGood(t) PROVE TypeOK' /\ MutexInv' /\ RegistryInv' /\ TokenInv'
  BY <1>8 DEF ReleaseForGood
<1>9. ASSUME IInv, Leave(t) PROVE TypeOK' /\ MutexInv' /\ RegistryInv' /\ TokenInv'
  BY <1>9 DEF Leave
<1>. QED BY <1>1, <1>2, <1>3, <1>4, <1>5, <1>6, <1>7, <1>8, <1>9

LEMMA NextIInv == IInv /\ [Next]_vars => IInv'
<1> SUFFICES ASSUME IInv, [Next]_vars PROVE IInv'
  OBVIOUS
<1>1. CASE ControlStep
  BY <1>1, StartSteps, ScanSteps DEF ControlStep
<1>2. ASSUME NEW t \in Threads, TaskStep(t) PROVE IInv'
  BY <1>2, InitializeSteps, CountDownStep, LoopSteps DEF TaskStep
<1>3. CASE UNCHANGED vars
  BY <1>3 DEF vars, IInv, TypeOK, MutexInv, RegistryInv, StartupInv, TokenInv, Parked,
              HasToken
<1>. QED BY <1>1, <1>2, <1>3 DEF Next, Finished

(* The inductive invariant holds throughout the protocol: mutex, latch and  *)
(* flags always agree on which thread has the execution token.              *)
THEOREM HandshakeInvariant == Spec => []IInv
<1>1. Init => IInv
  BY InitIInv
<1>2. IInv /\ [Next]_vars => IInv'
  BY NextIInv
<1>. QED BY <1>1, <1>2, PTL DEF Spec

(* Every mutex, flag and position of a thread stays within its values.      *)
THEOREM TypeCorrect == Spec => []TypeOK
<1>1. IInv => TypeOK
  BY DEF IInv
<1>. QED BY <1>1, HandshakeInvariant, PTL

(* The scan of the control thread, which takes no lock, never overlaps with *)
(* a task that changes its item or runs its own code.                       *)
THEOREM ScanExclusive == Spec => []ScanIsExclusive
<1>1. IInv => ScanIsExclusive
  BY DEF IInv, TokenInv, Parked, ScanIsExclusive, TouchesItem
<1>. QED BY <1>1, HandshakeInvariant, PTL

(* No task runs but the one that was picked, while the control thread waits *)
(* for exactly that task.                                                   *)
THEOREM PickedTaskRuns == Spec => []OnlyPickedTaskRuns
<1>1. IInv => OnlyPickedTaskRuns
  BY DEF IInv, TypeOK, TokenInv, StartupInv, Starting, Parked, HasToken, OnlyPickedTaskRuns
<1>. QED BY <1>1, HandshakeInvariant, PTL

(* Start builds the priority brackets only once every announced task is     *)
(* registered and parked on its condition variable.                         *)
THEOREM BracketsComplete == Spec => []BracketsAreComplete
<1>1. IInv => BracketsAreComplete
  BY DEF IInv, TypeOK, RegistryInv, TokenInv, Parked, BracketsAreComplete
<1>. QED BY <1>1, HandshakeInvariant, PTL

(***************************************************************************)
(* The hand-over and the startup cannot get stuck.                         *)
(***************************************************************************)

(* The holder of the mutex, as long as it is in startup or parked, lets go. *)
LEMMA HolderLetsGo ==
  ASSUME IInv, mtx \in Threads, ~wakeup[mtx], pc[mtx] \notin {"body", "stop"}
  PROVE  LetsGo(mtx)
BY DEF IInv, MutexInv, Holding, LetsGo

(* A task that cannot take a step waits for the mutex, which someone holds. *)
LEMMA StoppedForMutex ==
  ASSUME IInv, NEW t \in Threads, pc[t] # "done", ~CanStep(t)
  PROVE  mtx # None /\ mtx # t
<1>1. pc[t] \in {"create", "lock", "sleep"} /\ mtx # None
  BY DEF IInv, TypeOK, RegistryInv, CanStep
<1>. QED BY <1>1 DEF IInv, MutexInv, Holding

(* Wherever the control thread waits, the task it waits for can go on, or   *)
(* the mutex it is kept by is about to be given up.                         *)
THEOREM NothingGetsStuck == Spec => []NobodyIsStuck
<1>1. ASSUME IInv PROVE NobodyIsStuck
  <2> USE <1>1
  <2>1. mtx \in Threads \cup {Control, None} /\ (cpc \notin {"boot", "setup"} => mtx # Control)
    BY DEF IInv, TypeOK, MutexInv
  <2>2. ASSUME cpc = "latch", latch # 0 PROVE \E t \in Threads : pc[t] \in NotCounted
    <3>1. {t \in Threads : pc[t] \in NotCounted} # {}
      BY <2>2, FS_EmptySet DEF IInv, StartupInv
    <3>. QED BY <3>1
  <2>3. ASSUME cpc = "latch", NEW t \in Threads, pc[t] \in NotCounted
        PROVE  CanStep(t) \/ \E u \in Threads \ {t} : LetsGo(u)
    <3>1. ASSUME ~CanStep(t) PROVE mtx \in Threads \ {t} /\ LetsGo(mtx)
      <4>1. mtx \in Threads \ {t}
        BY <2>1, <2>3, <3>1, StoppedForMutex DEF NotCounted
      <4>2. ~wakeup[mtx] /\ pc[mtx] \notin {"body", "stop"}
        BY <2>3, <4>1 DEF IInv, StartupInv, Starting
      <4>. QED BY <4>1, <4>2, HolderLetsGo
    <3>. QED BY <3>1
  <2>4. ASSUME cpc = "relock", mtx # None PROVE \E u \in Threads : LetsGo(u)
    <3>1. mtx \in Threads
      BY <2>1, <2>4
    <3>2. ~wakeup[mtx] /\ pc[mtx] \notin {"body", "stop"}
      BY <2>4, <3>1 DEF IInv, StartupInv, Starting
    <3>. QED BY <3>1, <3>2, HolderLetsGo
  <2>5. ASSUME cpc = "await", ~blocked, ~CanStep(picked)
        PROVE  \E u \in Threads \ {picked} : LetsGo(u)
    <3>1. /\ picked \in Threads /\ pc[picked] # "done"
          /\ \A t \in Threads \ {picked} : Parked(t)
      BY <2>5 DEF IInv, TokenInv, HasToken
    <3>2. mtx \in Threads \ {picked}
      BY <2>1, <2>5, <3>1, StoppedForMutex
    <3>3. ~wakeup[mtx] /\ pc[mtx] \notin {"body", "stop"}
      BY <3>1, <3>2 DEF Parked
    <3>. QED BY <3>2, <3>3, HolderLetsGo
  <2>. QED BY <2>2, <2>3, <2>4, <2>5 DEF NobodyIsStuck
<1>. QED BY <1>1, HandshakeInvariant, PTL

(* The steps that are left to the task that has the token. *)
LEMMA StepsLeftIs ==
  ASSUME IInv, cpc = "await"
  PROVE  /\ StepsLeft \in 0 .. 5
         /\ ~blocked => /\ StepsLeft = StepsFrom[pc[picked]]
                        /\ pc[picked] \in {"sleep", "check", "body", "stop", "leave", "mark"}
<1>1. ~blocked => pc[picked] \in {"sleep", "check", "body", "stop", "leave", "mark"}
  BY DEF IInv, TokenInv, HasToken
<1>2. ~blocked => StepsFrom[pc[picked]] \in 0 .. 5
  BY <1>1 DEF StepsFrom
<1>. QED BY <1>1, <1>2 DEF StepsLeft

(* One step of the task that was picked. *)
LEMMA PickedSteps ==
  ASSUME IInv, IInv', cpc = "await", picked \in Threads, TaskStep(picked)
  PROVE  /\ StepsLeft' \in 0 .. StepsLeft
         /\ ~blocked => StepsLeft' # StepsLeft
<1>1. UNCHANGED <<cpc, picked>> /\ pc \in [Threads -> TaskLabels]
  BY DEF IInv, TypeOK, TaskStep, LockForEmplace, Emplace, Lookup, LockForGood, CountDown,
     MarkCurrentItemBlocked, WakeUp, FallAsleep, Poll, BodyBlocks, BodyReturns,
     ReleaseForGood, Leave
<1>2. CASE blocked
  <2>1. blocked'
    BY <1>2 DEF TaskStep, LockForEmplace, Emplace, Lookup, LockForGood, CountDown,
       MarkCurrentItemBlocked, WakeUp, FallAsleep, Poll, BodyBlocks, BodyReturns,
       ReleaseForGood, Leave
  <2>. QED BY <1>2, <2>1 DEF StepsLeft
<1>3. CASE ~blocked
  <2>1. HasToken(picked)
    BY <1>3 DEF IInv, TokenInv
  <2>2. \/ pc[picked] = "sleep" /\ pc'[picked] = "check"
        \/ pc[picked] = "check" /\ pc'[picked] = "body"
        \/ pc[picked] = "body" /\ pc'[picked] \in {"mark", "stop"}
        \/ pc[picked] = "stop" /\ pc'[picked] = "leave"
        \/ pc[picked] \in {"mark", "leave"} /\ blocked'
    BY <1>1, <2>1 DEF HasToken, Goes, TaskStep, LockForEmplace, Emplace, Lookup, LockForGood,
       CountDown, MarkCurrentItemBlocked, WakeUp, FallAsleep, Poll, BodyBlocks, BodyReturns,
       ReleaseForGood, Leave
  <2>. QED BY <1>1, <1>3, <2>2 DEF StepsLeft, StepsFrom
<1>. QED BY <1>2, <1>3

(* One step of another task leaves the picked one where it is. *)
LEMMA ParkedSteps ==
  ASSUME IInv, cpc = "await", picked \in Threads, NEW t \in Threads \ {picked}, TaskStep(t)
  PROVE  UNCHANGED <<cpc, picked, blocked>> /\ pc'[picked] = pc[picked]
<1>1. Parked(t) /\ pc \in [Threads -> TaskLabels]
  BY DEF IInv, TypeOK, TokenInv
<1>2. FallAsleep(t) \/ Poll(t)
  BY <1>1 DEF Parked, Goes, TaskStep, LockForEmplace, Emplace, Lookup, LockForGood,
     CountDown, MarkCurrentItemBlocked, WakeUp, BodyBlocks, BodyReturns, ReleaseForGood, Leave
<1>. QED BY <1>1, <1>2 DEF FallAsleep, Poll, Goes

(* The released task is at most five of its own steps from giving the token *)
(* back, and every one it takes counts.                                     *)
THEOREM HandOverAdvances == Spec => HandOverProgress
<1>1. ASSUME IInv, [Next]_vars
      PROVE  [cpc = "await" /\ cpc' = "await" =>
                /\ StepsLeft' \in 0 .. StepsLeft
                /\ ~blocked /\ TaskStep(picked) => StepsLeft' # StepsLeft]_vars
  <2> SUFFICES ASSUME Next, cpc = "await", cpc' = "await"
               PROVE  /\ StepsLeft' \in 0 .. StepsLeft
                      /\ ~blocked /\ TaskStep(picked) => StepsLeft' # StepsLeft
    BY <1>1
  <2>1. IInv' /\ picked \in Threads /\ StepsLeft \in 0 .. 5
    BY <1>1, NextIInv, StepsLeftIs DEF IInv, TokenInv
  <2>2. CASE TaskStep(picked)
    BY <1>1, <2>1, <2>2, PickedSteps
  <2>3. ASSUME NEW t \in Threads \ {picked}, TaskStep(t)
        PROVE  StepsLeft' = StepsLeft
    <3>1. UNCHANGED <<cpc, picked, blocked>> /\ pc'[picked] = pc[picked]
      BY <1>1, <2>1, <2>3, ParkedSteps
    <3>. QED BY <3>1 DEF StepsLeft
  <2>4. ~ControlStep /\ ~Finished
    BY DEF ControlStep, CreateLatch, AwaitLatch, Relock, SetUp, Pick, Run, AwaitBlocked,
       RunEvent, EventRan, ControlGoes, Finished
  <2>5. \E t \in Threads : TaskStep(t)
    BY <2>4 DEF Next
  <2>. QED BY <2>1, <2>2, <2>3, <2>5
<1>. QED BY <1>1, HandshakeInvariant, PTL DEF Spec, HandOverProgress
=============================================================================
