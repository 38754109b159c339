------------------------ MODULE SilScheduler_proofs ------------------------
(***************************************************************************)
(* The scheduler's invariants and action properties, for every set of      *)
(* tasks and events, priorities, waits and bounds.                         *)
(***************************************************************************)
EXTENDS SilScheduler, FiniteSetTheorems, WellFoundedInduction, TLAPS

(***************************************************************************)
(* Facts about the helpers.                                                *)
(***************************************************************************)

(* The minimum of a non-empty set of time points is the least of them. *)
LEMMA MinOfNats ==
  ASSUME NEW S \in SUBSET Nat, S # {}
  PROVE  Min(S) \in S /\ \A x \in S : Min(S) <= x
<1> DEFINE R == OpToRel(<, Nat)
<1>1. \A x, y \in Nat : <<y, x>> \in R <=> y < x
  BY DEF OpToRel
<1>2. IsWellFoundedOn(R, Nat)
  BY NatLessThanWellFounded
<1> HIDE DEF R
<1>3. \E x \in S : \A y \in S : <<y, x>> \notin R
  BY <1>2, WFMin
<1>4. PICK x \in S : \A y \in S : ~(y < x)
  BY <1>1, <1>3, Zenon
<1>5. \A y \in S : x <= y
  BY <1>4
<1>. QED BY <1>5 DEF Min

(* Every item is in a bracket, and the brackets are finite. *)
LEMMA Brackets ==
  ASSUME NEW i \in Items
  PROVE  /\ ItemPrio(i) \in Prios
         /\ i \in Bracket(ItemPrio(i))
         /\ BracketSize(ItemPrio(i)) \in Nat \ {0}
<1>1. IsFiniteSet(Bracket(ItemPrio(i)))
  <2>1. IsFiniteSet(Items)
    BY ConstantsAssumption, FS_Union DEF Items
  <2>. QED BY <2>1, FS_Subset DEF Bracket
<1>2. i \in Bracket(ItemPrio(i)) /\ ItemPrio(i) \in Prios
  BY DEF Bracket, Prios
<1>3. BracketSize(ItemPrio(i)) # 0
  BY <1>1, <1>2, FS_EmptySet DEF BracketSize
<1>. QED BY <1>1, <1>2, <1>3, FS_CardinalityType DEF BracketSize

(* The round robin index stays within its bracket. *)
LEMMA RoundRobin ==
  ASSUME NEW n \in Nat \ {0}, NEW k \in Nat
  PROVE  (k + 1) % n \in Nat /\ (k + 1) % n < n
OBVIOUS

(* The planned times are time points, the least of them is planned. *)
LEMMA TimeoutsAreTimes ==
  ASSUME TypeOK
  PROVE  /\ Timeouts \in SUBSET Time
         /\ Timeouts # {} => /\ Min(Timeouts) \in Timeouts
                             /\ \A x \in Timeouts : Min(Timeouts) <= x
         /\ \A i \in Items : GetTimeout(i) \in Time \cup {None}
         /\ \A i \in Items : GetTimeout(i) # None => GetTimeout(i) \in Timeouts
<1>1. \A i \in Items : GetTimeout(i) \in Time \cup {None}
  BY DEF TypeOK, GetTimeout, Items
<1>2. Timeouts \in SUBSET Time
  BY <1>1 DEF Timeouts
<1>3. Timeouts \in SUBSET Nat
  BY <1>2, ConstantsAssumption DEF Time
<1>. QED BY <1>1, <1>2, <1>3, MinOfNats DEF Timeouts

(* No planned time is the absence of one. *)
LEMMA NoneIsNoTime == None \notin Time
BY NoneAssumption DEF Time

(***************************************************************************)
(* The initial state.                                                      *)
(***************************************************************************)
LEMMA InitIInv == Init => IInv
<1> SUFFICES ASSUME Init PROVE IInv
  OBVIOUS
<1> USE DEF Init
<1>1. TypeOK
  <2>1. 0 \in Time /\ 0 \in 0 .. MaxWakeups + 1
    BY ConstantsAssumption DEF Time
  <2>2. rr_idx \in [Prios -> Nat] /\ \A p \in Prios : rr_idx[p] < BracketSize(p)
    BY Brackets DEF Prios
  <2>3. /\ running \in [Threads -> BOOLEAN]
        /\ inclusive \in BOOLEAN /\ ran \in BOOLEAN /\ ret \in BOOLEAN
    BY Zenon
  <2>. QED BY <2>1, <2>2, <2>3 DEF TypeOK, Epoch, Calls
<1>2. CallInv
  BY DEF CallInv
<1>3. TokenInv
  BY ConstantsAssumption DEF TokenInv, Items
<1>4. QuiescenceInv
  BY DEF QuiescenceInv, Quiescent, SyncUnblocked
<1>5. NoMissedTimeout
  BY DEF NoMissedTimeout, GetTimeout, Items
<1>6. BlockedHaveTimeout
  BY DEF BlockedHaveTimeout
<1>. QED BY <1>1, <1>2, <1>3, <1>4, <1>5, <1>6 DEF IInv

(***************************************************************************)
(* The token is handed to an item.                                         *)
(***************************************************************************)
LEMMA HandleSteps ==
  ASSUME NEW i \in Items, IInv, SchedulerHandles(i)
  PROVE  IInv'
<1> USE DEF IInv
<1>1. /\ HandleNextItem(i) /\ current = None /\ InLoop
      /\ UNCHANGED <<call, limit, inclusive, ret>>
      /\ ran' \in BOOLEAN
      /\ call = "RunUntil" => RunUntilCondition
      /\ call = "DrainNext" => ran'
      /\ IF call = "Shutdown" THEN wakeups <= limit /\ wakeups' = wakeups + 1
                              ELSE UNCHANGED wakeups
  BY DEF SchedulerHandles, RunUntilHandles, DrainHandles, ShutdownHandles, InRunUntil,
         InShutdown, InLoop, callVars, TypeOK
<1>2. Ready(i) /\ UNCHANGED <<running, state, now>>
  BY <1>1 DEF HandleNextItem, IsNext
<1>3. rr_idx' \in [Prios -> Nat] /\ \A p \in Prios : rr_idx'[p] < BracketSize(p)
  BY <1>1, Brackets, RoundRobin DEF HandleNextItem, TypeOK
<1>4. (RunUntilCondition' <=> RunUntilCondition) /\ (InLoop' <=> InLoop)
  BY <1>1, <1>2 DEF RunUntilCondition, InLoop
<1>5. wakeups' \in 0 .. MaxWakeups + 1
  BY <1>1, ConstantsAssumption DEF CallInv, TypeOK
<1>6. CASE i \in Threads
  <2>1. /\ current' = i /\ UNCHANGED pending
        /\ timeout' = [timeout EXCEPT ![i] = None]
        /\ sync' = [sync EXCEPT ![i] = None]
        /\ bits' \in SUBSET bits
    BY <1>1, <1>6 DEF HandleNextItem, RunThread
  <2>2. running[i]
    BY <1>2, <1>6 DEF Ready, IsRunning
  <2>3. TypeOK'
    BY <1>1, <1>2, <1>3, <1>5, <1>6, <2>1 DEF TypeOK
  <2>4. i # None /\ \A t \in Threads : t # None
    BY <1>6, ConstantsAssumption DEF Items
  <2>5. CallInv' /\ QuiescenceInv'
    BY <1>1, <1>2, <1>4, <2>1, <2>4 DEF CallInv, InLoop, QuiescenceInv, Idle, TypeOK
  <2>6. TokenInv'
    BY <1>1, <1>2, <1>4, <1>6, <2>1, <2>2, <2>4, ConstantsAssumption
       DEF TokenInv, TypeOK, InLoop, IsRunning
  <2>7. NoMissedTimeout' /\ BlockedHaveTimeout'
    BY <1>1, <1>2, <2>1, <2>4 DEF NoMissedTimeout, BlockedHaveTimeout, GetTimeout, TypeOK, Items
  <2>. QED BY <2>3, <2>5, <2>6, <2>7
<1>7. CASE i \notin Threads
  <2>1. current' = i /\ UNCHANGED <<bits, pending, timeout, sync>> /\ i \in Events
    BY <1>1, <1>7 DEF HandleNextItem, RunEvent, Items
  <2>2. pending[i] = now /\ pending[i] # None
    BY <1>2, <1>7 DEF Ready, IsRunning, IsPending, GetTimeout
  <2>3. TypeOK'
    BY <1>1, <1>2, <1>3, <1>5, <2>1 DEF TypeOK, Items
  <2>4. CallInv' /\ QuiescenceInv'
    BY <1>1, <1>2, <1>4, <2>1 DEF CallInv, InLoop, QuiescenceInv, Idle, TypeOK
  <2>5. TokenInv'
    BY <1>1, <1>2, <1>4, <1>7, <2>1, <2>2 DEF TokenInv, TypeOK, InLoop, IsRunning
  <2>6. NoMissedTimeout' /\ BlockedHaveTimeout'
    BY <1>1, <1>2, <1>7, <2>1, ConstantsAssumption
       DEF NoMissedTimeout, BlockedHaveTimeout, GetTimeout, TypeOK, Items
  <2>. QED BY <2>3, <2>4, <2>5, <2>6
<1>. QED BY <1>6, <1>7

(***************************************************************************)
(* The control thread runs nothing: time advances, or the call ends.       *)
(***************************************************************************)

(* Where time goes when nothing is ready: not back, and not past anything   *)
(* that is planned.                                                         *)
LEMMA AdvanceFacts ==
  ASSUME IInv, RunUntilAdvances \/ DrainNowEnds \/ ShutdownAdvances
  PROVE  /\ now' \in Time /\ now' >= now /\ NothingReady
         /\ \A i \in Items : GetTimeout(i) # None => GetTimeout(i) >= now'
<1> USE DEF IInv
<1>1. /\ now \in Time /\ now \in Nat /\ Time \subseteq Nat /\ limit \in Nat
      /\ \A i \in Items : GetTimeout(i) # None => GetTimeout(i) \in Nat /\ GetTimeout(i) >= now
  BY TimeoutsAreTimes, ConstantsAssumption DEF TypeOK, Time, NoMissedTimeout
<1>2. ASSUME Timeouts = {} PROVE \A i \in Items : GetTimeout(i) = None
  BY <1>2, TimeoutsAreTimes
<1>3. ASSUME Timeouts # {}
      PROVE  /\ Min(Timeouts) \in Time /\ Min(Timeouts) \in Nat /\ Min(Timeouts) >= now
             /\ \A i \in Items : GetTimeout(i) # None => GetTimeout(i) >= Min(Timeouts)
  <2>1. PICK i \in Items : Min(Timeouts) = GetTimeout(i) /\ GetTimeout(i) # None
    BY <1>3, TimeoutsAreTimes DEF Timeouts
  <2>2. Min(Timeouts) \in Nat /\ Min(Timeouts) >= now
    BY <1>1, <2>1
  <2>. QED BY <1>1, <1>3, <2>2, TimeoutsAreTimes
<1>4. ~ShutdownAdvances => now <= limit /\ limit \in Time
  <2>1. CASE RunUntilAdvances
    BY <1>1, <2>1 DEF RunUntilAdvances, InRunUntil, RunUntilCondition, CallInv
  <2>2. CASE DrainNowEnds
    BY <1>1, <2>2 DEF DrainNowEnds, CallInv
  <2>. QED BY <2>1, <2>2
<1>5. /\ \/ now' = now
         \/ Timeouts # {} /\ now' = Min(Timeouts)
         \/ now' = limit /\ ~ShutdownAdvances /\ ~(Timeouts # {} /\ Min(Timeouts) <= limit)
      /\ NothingReady
  <2>1. CASE RunUntilAdvances
    <3>1. ~ShutdownAdvances
      BY <2>1 DEF RunUntilAdvances, ShutdownAdvances, InRunUntil, InShutdown
    <3>. QED BY <2>1, <3>1, Zenon DEF RunUntilAdvances
  <2>2. CASE DrainNowEnds
    <3>1. ~ShutdownAdvances
      BY <2>2 DEF DrainNowEnds, ShutdownAdvances, InShutdown
    <3>. QED BY <2>2, <3>1, Zenon DEF DrainNowEnds
  <2>3. CASE ShutdownAdvances
    BY <2>3, Zenon DEF ShutdownAdvances
  <2>. QED BY <2>1, <2>2, <2>3
<1>6. CASE now' = now
  BY <1>1, <1>5, <1>6
<1>7. CASE Timeouts # {} /\ now' = Min(Timeouts)
  BY <1>1, <1>3, <1>5, <1>7
<1>8. CASE now' = limit /\ ~ShutdownAdvances /\ ~(Timeouts # {} /\ Min(Timeouts) <= limit)
  <2>1. CASE Timeouts = {}
    BY <1>1, <1>2, <1>4, <1>5, <1>8, <2>1
  <2>2. CASE Timeouts # {}
    BY <1>1, <1>3, <1>4, <1>5, <1>8, <2>2
  <2>. QED BY <2>1, <2>2
<1>. QED BY <1>5, <1>6, <1>7, <1>8

(* When nothing is ready no task waits for bits that are set. *)
LEMMA NothingReadyIsQuiescent ==
  ASSUME IInv, NothingReady
  PROVE  Quiescent
BY DEF IInv, TokenInv, NothingReady, Ready, IsRunning, IsPending, Quiescent, SyncUnblocked, Items

LEMMA LoopSteps ==
  ASSUME IInv, LoopStep
  PROVE  IInv'
<1> USE DEF IInv
<1>1. UNCHANGED <<state, itemVars, current>> /\ current = None /\ InLoop
  BY DEF LoopStep, RunUntilAdvances, RunUntilReturns, DrainNowEnds, DrainNextEnds,
         ShutdownAdvances, ShutdownReturns, ShutdownThrows, InRunUntil, InShutdown, InLoop
<1>2. /\ now' \in Time /\ now' >= now
      /\ \A i \in Items : GetTimeout(i) # None => GetTimeout(i) >= now'
  <2>1. CASE RunUntilAdvances \/ DrainNowEnds \/ ShutdownAdvances
    BY <2>1, AdvanceFacts
  <2>2. CASE RunUntilReturns \/ DrainNextEnds \/ ShutdownReturns \/ ShutdownThrows
    <3>1. now' = now
      BY <2>2, Zenon DEF RunUntilReturns, DrainNextEnds, ShutdownReturns, ShutdownThrows
    <3>2. now \in Time /\ now \in Nat
      BY ConstantsAssumption DEF TypeOK, Time
    <3>. QED BY <3>1, <3>2 DEF NoMissedTimeout
  <2>. QED BY <2>1, <2>2 DEF LoopStep
<1> DEFINE Continues == UNCHANGED callVars /\ call \in {"RunUntil", "Shutdown"}
           Ends      == /\ call' \in {"Idle", "TooManyWakeups"} /\ limit' = 0 /\ wakeups' = 0
                        /\ inclusive' \in BOOLEAN /\ ran' \in BOOLEAN /\ ret' \in BOOLEAN
           Drains    == /\ call = "DrainNow" /\ call' = "DrainNext"
                        /\ Timeouts # {} /\ now' = Min(Timeouts)
                        /\ UNCHANGED <<limit, inclusive, ran, ret, wakeups>>
<1>3. ASSUME ShutdownAdvances, Timeouts = {} PROVE FALSE
  <2>1. PICK t \in Threads : running[t]
    BY <1>3 DEF ShutdownAdvances, AllThreadsStopped
  <2>2. timeout[t] # None
    BY <1>1, <1>3, <2>1, ConstantsAssumption
       DEF BlockedHaveTimeout, TokenInv, ShutdownAdvances, InShutdown, Items
  <2>. QED BY <1>3, <2>1, <2>2, TimeoutsAreTimes DEF GetTimeout, Items
<1>4. Continues \/ Ends \/ Drains
  <2>1. ASSUME NEW c \in {"Idle", "TooManyWakeups"}, NEW v \in BOOLEAN, Return(c, v)
        PROVE  Ends
    BY <2>1, Zenon DEF Return
  <2>2. CASE RunUntilAdvances
    BY <2>1, <2>2, Zenon DEF RunUntilAdvances, InRunUntil
  <2>3. CASE DrainNowEnds
    BY <2>1, <2>3, Zenon DEF DrainNowEnds
  <2>4. CASE ShutdownAdvances
    BY <1>3, <2>4, Zenon DEF ShutdownAdvances, InShutdown
  <2>5. CASE RunUntilReturns \/ DrainNextEnds \/ ShutdownReturns \/ ShutdownThrows
    BY <2>1, <2>5, Zenon DEF RunUntilReturns, DrainNextEnds, ShutdownReturns, ShutdownThrows
  <2>. QED BY <2>2, <2>3, <2>4, <2>5 DEF LoopStep
<1>5. TypeOK'
  <2>1. inclusive' \in BOOLEAN /\ ran' \in BOOLEAN /\ ret' \in BOOLEAN
    BY <1>4, Zenon DEF callVars, TypeOK
  <2>2. call' \in Calls /\ limit' \in Nat /\ wakeups' \in 0 .. MaxWakeups + 1
    BY <1>4, ConstantsAssumption DEF callVars, TypeOK, Calls, Failures
  <2>. QED BY <1>1, <1>2, <2>1, <2>2 DEF TypeOK, itemVars
<1>6. BlockedHaveTimeout'
  BY <1>1, <1>4 DEF BlockedHaveTimeout, itemVars, callVars
<1>7. NoMissedTimeout'
  BY <1>1, <1>2 DEF NoMissedTimeout, itemVars, GetTimeout
<1>8. TokenInv'
  BY <1>1, ConstantsAssumption DEF TokenInv, itemVars, InLoop, Items
<1>9. QuiescenceInv'
  <2>1. CASE ShutdownThrows
    BY <1>1, <2>1 DEF QuiescenceInv, ShutdownThrows, Return, Idle
  <2>2. CASE RunUntilReturns
    BY <1>1, <2>2 DEF RunUntilReturns, InRunUntil, QuiescenceInv, Quiescent, SyncUnblocked, itemVars
  <2>3. CASE ShutdownReturns
    BY <1>1, <2>3 DEF ShutdownReturns, AllThreadsStopped, TokenInv, QuiescenceInv, Quiescent, SyncUnblocked, itemVars
  <2>4. CASE NothingReady
    BY <1>1, <2>4, NothingReadyIsQuiescent DEF QuiescenceInv, Quiescent, SyncUnblocked, itemVars
  <2>. QED BY <2>1, <2>2, <2>3, <2>4
       DEF LoopStep, RunUntilAdvances, DrainNowEnds, DrainNextEnds, ShutdownAdvances
<1>10. CallInv'
  <2>1. CASE Continues
    BY <1>1, <2>1 DEF CallInv, callVars
  <2>2. CASE Ends
    BY <2>2 DEF CallInv
  <2>3. CASE Drains
    <3>1. PICK i \in Items : GetTimeout(i) = now' /\ GetTimeout(i) # None
      BY <2>3, TimeoutsAreTimes DEF Timeouts
    <3>2. IsRunning(i)
      BY <3>1 DEF IsRunning, GetTimeout, TokenInv, TypeOK
    <3>3. Ready(i)'
      BY <1>1, <3>1, <3>2 DEF Ready, IsPending, IsRunning, GetTimeout, itemVars
    <3>. QED BY <1>1, <2>3, <3>3 DEF CallInv, NothingReady
  <2>. QED BY <1>4, <2>1, <2>2, <2>3
<1>. QED BY <1>5, <1>6, <1>7, <1>8, <1>9, <1>10

(***************************************************************************)
(* The control thread enters a call.                                       *)
(***************************************************************************)
LEMMA ControlSteps ==
  ASSUME IInv, ControlCalls
  PROVE  IInv'
<1> USE DEF IInv
<1>1. Idle /\ Quiescent /\ current' = None /\ 0 \in 0 .. MaxWakeups + 1
  <2>1. Idle /\ current' = current
    BY Zenon DEF ControlCalls, Start, CallRunUntil, CallRunUntilNextTimePoint,
       CallShutdown, SimulateEvent
  <2>. QED BY <2>1, ConstantsAssumption DEF Idle, QuiescenceInv
<1>2. ASSUME Start PROVE IInv'
  <2>1. now = 0 /\ 0 \in Time /\ Epoch = 0
    BY <1>2, ConstantsAssumption DEF Start, TokenInv, Epoch, Time
  <2>2. TypeOK'
    BY <1>1, <1>2, <2>1 DEF Start, Enter, TypeOK, Calls
  <2>3. NoMissedTimeout' /\ BlockedHaveTimeout'
    BY <1>1, <1>2, <2>1, NoneAssumption
       DEF Start, Enter, NoMissedTimeout, BlockedHaveTimeout, GetTimeout, Items
  <2>4. QuiescenceInv'
    BY <1>1, <1>2 DEF Start, QuiescenceInv, Quiescent, SyncUnblocked
  <2>5. CallInv'
    BY <1>2, <2>1 DEF Start, Enter, CallInv
  <2>6. TokenInv'
    <3>1. \A t \in Threads : current' # t /\ running'[t]
      BY <1>1, <1>2, ConstantsAssumption DEF Start, TokenInv, Items
    <3>. QED BY <1>1, <1>2, <3>1 DEF Start, TokenInv
  <2>. QED BY <2>2, <2>3, <2>4, <2>5, <2>6
<1>3. ASSUME NEW c \in {"RunUntil", "DrainNow", "Shutdown"}, NEW arg \in Nat, NEW incl \in BOOLEAN,
             Enter(c, arg, incl), UNCHANGED <<now, itemVars, current>>,
             state # "Stopped", state' \in {state, "Stopping"},
             c \in {"RunUntil", "DrainNow"} => arg \in Time,
             c = "DrainNow" => now <= arg,
             c = "Shutdown" => arg \in 0 .. MaxWakeups
      PROVE  IInv'
  <2>1. /\ call' = c /\ limit' = arg /\ wakeups' = 0
        /\ inclusive' \in BOOLEAN /\ ran' \in BOOLEAN /\ ret' \in BOOLEAN
    BY <1>3, Zenon DEF Enter
  <2>2. state' \in {"Started", "Stopping"}
    BY <1>3 DEF TypeOK
  <2>3. TypeOK'
    BY <1>1, <1>3, <2>1, <2>2 DEF TypeOK, itemVars, Calls
  <2>4. NoMissedTimeout' /\ BlockedHaveTimeout'
    BY <1>3, <2>1 DEF NoMissedTimeout, BlockedHaveTimeout, GetTimeout, itemVars
  <2>5. QuiescenceInv'
    BY <1>1, <1>3 DEF QuiescenceInv, Quiescent, SyncUnblocked, itemVars
  <2>6. CallInv' /\ TokenInv'
    BY <1>1, <1>3, <2>1, <2>2 DEF CallInv, TokenInv, itemVars
  <2>. QED BY <2>3, <2>4, <2>5, <2>6
<1>4. Time \subseteq Nat /\ 0 .. MaxWakeups \subseteq Nat
  BY ConstantsAssumption DEF Time
<1>5. ASSUME NEW time \in Time, NEW incl \in BOOLEAN, CallRunUntil(time, incl) PROVE IInv'
  <2>1. "RunUntil" \in {"RunUntil", "DrainNow", "Shutdown"} /\ time \in Nat
    BY <1>4
  <2>2. Enter("RunUntil", time, incl) /\ state # "Stopped" /\ UNCHANGED <<now, state, itemVars, current>>
    BY <1>5 DEF CallRunUntil
  <2>. QED BY <1>3, <1>5, <2>1, <2>2
<1>6. ASSUME NEW upper_bound \in Time, CallRunUntilNextTimePoint(upper_bound) PROVE IInv'
  <2>1. upper_bound \in Nat /\ now \in Nat /\ upper_bound >= now
    BY <1>4, <1>6 DEF CallRunUntilNextTimePoint, TypeOK
  <2>2. now <= upper_bound
    BY <2>1
  <2>. QED BY <1>3, <1>6, <2>1, <2>2 DEF CallRunUntilNextTimePoint
<1>7. ASSUME NEW max_wakeups \in 0 .. MaxWakeups, CallShutdown(max_wakeups) PROVE IInv'
  <2>1. max_wakeups \in Nat
    BY <1>4
  <2>. QED BY <1>3, <1>7, <2>1 DEF CallShutdown
<1>8. ASSUME NEW e \in Events, NEW ts \in Time, SimulateEvent(e, ts) PROVE IInv'
  <2>1. /\ pending' = [pending EXCEPT ![e] = ts] /\ ts >= now
        /\ UNCHANGED <<now, state, rr_idx, running, timeout, sync, bits, current, callVars>>
    BY <1>8 DEF SimulateEvent
  <2>2. TypeOK'
    BY <2>1 DEF TypeOK, callVars
  <2>3. NoMissedTimeout' /\ BlockedHaveTimeout'
    BY <2>1 DEF NoMissedTimeout, BlockedHaveTimeout, GetTimeout, callVars, TypeOK, Items
  <2>4. QuiescenceInv' /\ CallInv' /\ TokenInv'
    BY <1>1, <2>1, ConstantsAssumption
       DEF QuiescenceInv, Quiescent, SyncUnblocked, CallInv, TokenInv, callVars, Idle, InLoop, Items
  <2>. QED BY <2>2, <2>3, <2>4
<1>. QED BY <1>2, <1>5, <1>6, <1>7, <1>8 DEF ControlCalls

(***************************************************************************)
(* The steps of the task that has the token.                               *)
(***************************************************************************)

(* It gives the token back, blocked until a time point that is not past.    *)
LEMMA BlockStep ==
  ASSUME NEW t \in Threads, NEW at \in Time, NEW w \in Waits \cup {None},
         IInv, Block(t, at, w), at >= now,
         bits' \in SUBSET Bits, UNCHANGED <<now, state, callVars>>
  PROVE  IInv'
<1> USE DEF IInv
<1>1. /\ current = t /\ current' = None /\ t # None
      /\ timeout' = [timeout EXCEPT ![t] = at] /\ sync' = [sync EXCEPT ![t] = w]
      /\ UNCHANGED <<running, pending, rr_idx>>
  BY ConstantsAssumption DEF Block, Items
<1>2. at # None
  BY NoneIsNoTime
<1>3. InLoop /\ running[t] /\ (call = "RunUntil" => RunUntilCondition)
  BY <1>1 DEF TokenInv, IsRunning
<1>4. TypeOK'
  BY <1>1 DEF TypeOK, callVars
<1>5. NoMissedTimeout' /\ BlockedHaveTimeout'
  BY <1>1, <1>2 DEF NoMissedTimeout, BlockedHaveTimeout, GetTimeout, callVars, TypeOK, Items
<1>6. QuiescenceInv'
  BY <1>1, <1>3 DEF QuiescenceInv, Idle, InLoop, RunUntilCondition, callVars
<1>7. CallInv'
  BY <1>1 DEF CallInv, callVars
<1>8. TokenInv'
  BY <1>1, <1>3, ConstantsAssumption DEF TokenInv, InLoop, callVars, TypeOK, Items
<1>. QED BY <1>4, <1>5, <1>6, <1>7, <1>8

(* It keeps the token: it changed bits or registered an action.             *)
LEMMA KeepStep ==
  ASSUME NEW t \in Threads, IInv, current = t,
         bits' \in SUBSET Bits,
         pending' \in [Events -> Time \cup {None}],
         \A e \in Events : pending'[e] \in {pending[e]} \cup {ts \in Time : ts >= now},
         UNCHANGED <<now, state, rr_idx, running, timeout, sync, current, callVars>>
  PROVE  IInv'
<1> USE DEF IInv
<1>1. t # None /\ InLoop /\ (call = "RunUntil" => RunUntilCondition)
  BY ConstantsAssumption DEF TokenInv, Items
<1>2. TypeOK'
  BY DEF TypeOK, callVars
<1>3. NoMissedTimeout' /\ BlockedHaveTimeout'
  BY DEF NoMissedTimeout, BlockedHaveTimeout, GetTimeout, callVars, TypeOK, Items
<1>4. QuiescenceInv'
  BY <1>1 DEF QuiescenceInv, Idle, InLoop, RunUntilCondition, callVars
<1>5. CallInv'
  BY <1>1 DEF CallInv, callVars
<1>6. TokenInv'
  BY <1>1, ConstantsAssumption DEF TokenInv, InLoop, RunUntilCondition, IsRunning, callVars
<1>. QED BY <1>2, <1>3, <1>4, <1>5, <1>6

(* BlockCurrentThreadUntilNextTimepoint blocks until a time point that is   *)
(* not past, whichever of its branches is taken.                            *)
LEMMA NextTimepointBlocks ==
  ASSUME NEW t \in Threads, NEW upper_bound \in Time, IInv,
         BlockCurrentThreadUntilNextTimepoint(t, upper_bound)
  PROVE  \E at \in Time : Block(t, at, None) /\ at >= now
<1> DEFINE seen == TimeoutsSeenBy(t)
<1>1. \A x \in seen : x \in Time /\ x >= now
  BY TimeoutsAreTimes DEF TimeoutsSeenBy, IInv, NoMissedTimeout
<1>2. seen # {} => Min(seen) \in seen
  <2>1. Time \subseteq Nat
    BY ConstantsAssumption DEF Time
  <2>. QED BY <1>1, <2>1, MinOfNats
<1> HIDE DEF seen
<1>. QED BY <1>1, <1>2, Zenon DEF BlockCurrentThreadUntilNextTimepoint, seen

LEMMA TaskSteps ==
  ASSUME NEW t \in Threads, IInv, TaskStep(t)
  PROVE  IInv'
<1>1. TypeOK /\ Time \subseteq Nat /\ now \in Time /\ now >= now /\ None \in Waits \cup {None}
  BY ConstantsAssumption DEF IInv, TypeOK, Time
<1>2. ASSUME NEW time \in Time, BlockCurrentThreadUntil(t, time) PROVE IInv'
  <2>1. Block(t, time, None) /\ time >= now /\ UNCHANGED <<now, state, bits, callVars>>
    BY <1>2 DEF BlockCurrentThreadUntil
  <2>. QED BY <1>1, <2>1, BlockStep DEF TypeOK
<1>3. ASSUME NEW w \in Waits, NEW deadline \in Time, Wait(t, w, deadline) PROVE IInv'
  <2>1. Block(t, deadline, w) /\ deadline >= now /\ UNCHANGED <<now, state, bits, callVars>>
    BY <1>3 DEF Wait
  <2>. QED BY <1>1, <2>1, BlockStep DEF TypeOK
<1>4. ASSUME NEW upper_bound \in Time, BlockCurrentThreadUntilNextTimepoint(t, upper_bound)
      PROVE  IInv'
  <2>3. PICK at \in Time : Block(t, at, None) /\ at >= now
    BY <1>4, NextTimepointBlocks
  <2>4. UNCHANGED <<now, state, bits, callVars>>
    BY <1>4, Zenon DEF BlockCurrentThreadUntilNextTimepoint
  <2>. QED BY <1>1, <2>3, <2>4, BlockStep DEF TypeOK
<1>5. ASSUME NEW mask \in Masks, SetBits(t, mask) \/ ClearBits(t, mask) PROVE IInv'
  <2>1. bits' \in SUBSET Bits /\ UNCHANGED <<now, state, callVars>>
    BY <1>1, <1>5, ConstantsAssumption DEF SetBits, ClearBits, TypeOK
  <2>2. \/ Block(t, now, None)
        \/ current = t /\ UNCHANGED <<current, timeout, sync, running, pending, rr_idx>>
    BY <1>5, Zenon DEF SetBits, ClearBits, CheckSyncPrimitivePreemption
  <2>3. CASE Block(t, now, None)
    BY <1>1, <2>1, <2>3, BlockStep
  <2>4. CASE current = t /\ UNCHANGED <<current, timeout, sync, running, pending, rr_idx>>
    BY <1>1, <2>1, <2>4, KeepStep DEF TypeOK
  <2>. QED BY <2>2, <2>3, <2>4
<1>6. ASSUME NEW e \in Events, NEW ts \in Time, StartTransfer(t, e, ts) PROVE IInv'
  <2>1. /\ current = t /\ ts >= now /\ pending' = [pending EXCEPT ![e] = ts]
        /\ UNCHANGED <<now, state, rr_idx, running, timeout, sync, bits, current, callVars>>
    BY <1>6 DEF StartTransfer
  <2>. QED BY <1>1, <2>1, KeepStep DEF TypeOK
<1>7. ASSUME DeInitializeThread(t) PROVE IInv'
  <2> USE DEF IInv
  <2>1. /\ current = t /\ current' = None /\ t # None
        /\ running' = [running EXCEPT ![t] = FALSE]
        /\ UNCHANGED <<now, state, rr_idx, timeout, sync, pending, bits, callVars>>
    BY <1>7, ConstantsAssumption DEF DeInitializeThread, Items
  <2>2. InLoop /\ state # "Stopped" /\ (call = "RunUntil" => RunUntilCondition)
    BY <2>1 DEF TokenInv
  <2>3. TypeOK'
    BY <2>1 DEF TypeOK, callVars
  <2>4. NoMissedTimeout' /\ BlockedHaveTimeout'
    BY <2>1 DEF NoMissedTimeout, BlockedHaveTimeout, GetTimeout, callVars, TypeOK, Items
  <2>5. QuiescenceInv'
    BY <2>1, <2>2 DEF QuiescenceInv, Idle, InLoop, RunUntilCondition, callVars
  <2>6. CallInv' /\ TokenInv'
    BY <2>1, <2>2, ConstantsAssumption DEF CallInv, TokenInv, callVars, TypeOK, Items
  <2>. QED BY <2>3, <2>4, <2>5, <2>6
<1>. QED BY <1>2, <1>3, <1>4, <1>5, <1>6, <1>7 DEF TaskStep, TaskBlocks

(***************************************************************************)
(* The steps of the event whose callback runs.                             *)
(***************************************************************************)
LEMMA CallbackSteps ==
  ASSUME NEW e \in Events, IInv, CallbackStep(e)
  PROVE  IInv'
<1> USE DEF IInv
<1>1. /\ current = e /\ e # None /\ e \in Items /\ e \notin Threads /\ InLoop
      /\ call = "RunUntil" => RunUntilCondition
      /\ state # "Stopped"
      /\ UNCHANGED <<now, state, rr_idx, running, timeout, sync, callVars>>
  <2>1. current = e /\ UNCHANGED <<now, state, rr_idx, running, timeout, sync, callVars>>
    BY Zenon DEF CallbackStep, CallbackRegisters, CallbackEnds
  <2>2. e # None /\ e \in Items /\ e \notin Threads
    BY ConstantsAssumption DEF Items
  <2>. QED BY <2>1, <2>2 DEF TokenInv
<1>2. ASSUME NEW f \in Events, NEW ts \in Time, CallbackRegisters(e, f, ts) PROVE IInv'
  <2>1. /\ f # e /\ ts >= now /\ pending' = [pending EXCEPT ![f] = ts]
        /\ UNCHANGED <<bits, current>>
    BY <1>2 DEF CallbackRegisters
  <2>2. TypeOK'
    BY <1>1, <2>1 DEF TypeOK, callVars
  <2>3. NoMissedTimeout' /\ BlockedHaveTimeout'
    BY <1>1, <2>1 DEF NoMissedTimeout, BlockedHaveTimeout, GetTimeout, callVars, TypeOK, Items
  <2>4. QuiescenceInv' /\ CallInv'
    BY <1>1, <2>1 DEF QuiescenceInv, CallInv, Idle, InLoop, RunUntilCondition, callVars
  <2>5. TokenInv'
    BY <1>1, <2>1 DEF TokenInv, InLoop, RunUntilCondition, IsRunning, callVars, TypeOK
  <2>. QED BY <2>2, <2>3, <2>4, <2>5
<1>3. ASSUME CallbackEnds(e) PROVE IInv'
  <2>1. /\ current' = None /\ bits' = bits \cup EventBits[e]
        /\ pending' = [pending EXCEPT ![e] = None]
    BY <1>3 DEF CallbackEnds
  <2>2. TypeOK'
    BY <1>1, <2>1, ConstantsAssumption DEF TypeOK, callVars
  <2>3. NoMissedTimeout' /\ BlockedHaveTimeout'
    BY <1>1, <2>1 DEF NoMissedTimeout, BlockedHaveTimeout, GetTimeout, callVars, TypeOK, Items
  <2>4. QuiescenceInv' /\ CallInv'
    BY <1>1, <2>1 DEF QuiescenceInv, CallInv, Idle, InLoop, RunUntilCondition, callVars
  <2>5. TokenInv'
    BY <1>1, <2>1, ConstantsAssumption DEF TokenInv, callVars, TypeOK, Items
  <2>. QED BY <2>2, <2>3, <2>4, <2>5
<1>. QED BY <1>2, <1>3 DEF CallbackStep

LEMMA NextIInv == IInv /\ [Next]_vars => IInv'
<1> SUFFICES ASSUME IInv, [Next]_vars PROVE IInv'
  OBVIOUS
<1>1. CASE UNCHANGED vars
  BY <1>1 DEF vars, itemVars, callVars, IInv, TypeOK, CallInv, TokenInv, QuiescenceInv, Quiescent,
     NoMissedTimeout, BlockedHaveTimeout, GetTimeout, SyncUnblocked, NothingReady, Ready, IsRunning,
     IsPending, Idle, InLoop, RunUntilCondition
<1>. QED BY <1>1, HandleSteps, LoopSteps, ControlSteps, TaskSteps, CallbackSteps
     DEF Next, OtherSteps, Terminated

(***************************************************************************)
(* The theorems.                                                           *)
(***************************************************************************)

(* Every reachable state of the scheduler satisfies the inductive           *)
(* invariant, whatever the tasks, events and callers do.                    *)
THEOREM SchedulerInvariant == Spec => []IInv
<1>1. Init => IInv
  BY InitIInv
<1>2. IInv /\ [Next]_vars => IInv'
  BY NextIInv
<1>. QED BY <1>1, <1>2, PTL DEF Spec

(* Every variable keeps its type; in particular the round robin index of a  *)
(* bracket stays below its size, and wakeups cannot exceed its bound.       *)
THEOREM TypeCorrect == Spec => []TypeOK
<1>1. IInv => TypeOK
  BY DEF IInv
<1>. QED BY <1>1, SchedulerInvariant, PTL

(* No timeout is ever skipped: the equality in IsPending loses no item.     *)
THEOREM NothingMissed == Spec => []NoMissedTimeout
<1>1. IInv => NoMissedTimeout
  BY DEF IInv
<1>. QED BY <1>1, SchedulerInvariant, PTL

(* A blocked task always has a timeout, and Shutdown never meets the error  *)
(* that no thread has one.                                                  *)
THEOREM BlockedTasksHaveTimeouts == Spec => []BlockedHaveTimeout
<1>1. IInv => BlockedHaveTimeout
  BY DEF IInv
<1>. QED BY <1>1, SchedulerInvariant, PTL

(* Between calls nobody waits for bits that are set.                        *)
THEOREM QuiescentBetweenCalls == Spec => []IdleQuiescent
<1>1. IInv => IdleQuiescent
  BY DEF IInv, QuiescenceInv, IdleQuiescent
<1>. QED BY <1>1, SchedulerInvariant, PTL

(* Which steps move time, and which steps end a call. *)
LEMMA TimeSteps ==
  ASSUME Next, now' # now
  PROVE  RunUntilAdvances \/ DrainNowEnds \/ ShutdownAdvances
BY Zenon DEF Next, OtherSteps, Terminated, LoopStep, RunUntilReturns, DrainNextEnds,
   ShutdownReturns, ShutdownThrows, ControlCalls, Start, CallRunUntil, CallRunUntilNextTimePoint,
   CallShutdown, SimulateEvent, TaskStep, TaskBlocks, BlockCurrentThreadUntil, Wait,
   BlockCurrentThreadUntilNextTimepoint, DeInitializeThread, SetBits, ClearBits, StartTransfer,
   CallbackStep, CallbackRegisters, CallbackEnds, SchedulerHandles, RunUntilHandles, DrainHandles,
   ShutdownHandles, HandleNextItem, vars

(* Simulated time never goes back, and moves only when nothing can run.     *)
THEOREM TimeIsDrained == Spec => TimeAdvancesWhenDrained
<1>1. ASSUME IInv, [Next]_vars
      PROVE  [now' # now => now' > now /\ NothingReady]_vars
  <2>1. ASSUME Next, now' # now PROVE now' > now /\ NothingReady
    <3>1. now' \in Nat /\ now \in Nat /\ now' >= now /\ NothingReady
      BY <1>1, <2>1, TimeSteps, AdvanceFacts, ConstantsAssumption DEF IInv, TypeOK, Time
    <3>. QED BY <2>1, <3>1
  <2>. QED BY <1>1, <2>1
<1>. QED BY <1>1, SchedulerInvariant, PTL DEF Spec, TimeAdvancesWhenDrained

(* Which steps run an event, end its callback, or change what is            *)
(* registered for it.                                                       *)
LEMMA EventSteps ==
  ASSUME IInv, Next, NEW e \in Events,
         pending'[e] # pending[e] \/ (current = e) # (current' = e)
  PROVE  \/ HandleNextItem(e) /\ pending'[e] = pending[e] /\ current # e /\ current' = e
         \/ CallbackEnds(e)
         \/ pending[e] = None /\ UNCHANGED current
<1> USE DEF IInv
<1>1. e # None /\ e \notin Threads /\ e \in Items /\ pending \in [Events -> Time \cup {None}]
  BY ConstantsAssumption DEF Items, TypeOK
<1>2. CASE LoopStep
  <2>1. UNCHANGED itemVars /\ UNCHANGED current
    BY <1>2, Zenon DEF LoopStep, RunUntilAdvances, RunUntilReturns, DrainNowEnds, DrainNextEnds,
       ShutdownAdvances, ShutdownReturns, ShutdownThrows
  <2>. QED BY <2>1 DEF itemVars
<1>3. CASE ControlCalls
  <2>1. /\ UNCHANGED current
        /\ \/ UNCHANGED pending \/ UNCHANGED itemVars
           \/ \E f \in Events, ts \in Time :
                pending[f] = None /\ pending' = [pending EXCEPT ![f] = ts]
    BY <1>3, Zenon DEF ControlCalls, Start, CallRunUntil, CallRunUntilNextTimePoint, CallShutdown,
       SimulateEvent
  <2>. QED BY <1>1, <2>1 DEF itemVars
<1>4. ASSUME NEW t \in Threads, TaskStep(t)
      PROVE  pending[e] = None /\ UNCHANGED current
  <2>1. /\ current = t /\ current' \in {t, None}
        /\ \/ UNCHANGED pending
           \/ \E f \in Events, ts \in Time :
                /\ pending[f] = None /\ pending' = [pending EXCEPT ![f] = ts]
                /\ UNCHANGED current
    BY <1>4, Zenon DEF TaskStep, TaskBlocks, BlockCurrentThreadUntil, Wait, Block,
       BlockCurrentThreadUntilNextTimepoint, DeInitializeThread, SetBits, ClearBits,
       CheckSyncPrimitivePreemption, StartTransfer
  <2>. QED BY <1>1, <2>1
<1>5. ASSUME NEW f \in Events, CallbackStep(f)
      PROVE  \/ CallbackEnds(e)
             \/ pending[e] = None /\ UNCHANGED current
  <2>1. CASE CallbackEnds(f)
    <3>1. f = e
      BY <1>1, <2>1 DEF CallbackEnds
    <3>. QED BY <2>1, <3>1
  <2>2. ASSUME NEW g \in Events, NEW ts \in Time, CallbackRegisters(f, g, ts)
        PROVE  pending[e] = None /\ UNCHANGED current
    BY <1>1, <2>2 DEF CallbackRegisters
  <2>. QED BY <1>5, <2>1, <2>2 DEF CallbackStep
<1>6. ASSUME NEW i \in Items, SchedulerHandles(i)
      PROVE  HandleNextItem(e) /\ pending'[e] = pending[e] /\ current # e /\ current' = e
  <2>1. HandleNextItem(i) /\ current = None
    BY <1>6 DEF SchedulerHandles, RunUntilHandles, DrainHandles, ShutdownHandles, InRunUntil,
                InShutdown
  <2>2. UNCHANGED pending /\ current' = i
    BY <2>1 DEF HandleNextItem, RunThread, RunEvent
  <2>. QED BY <1>1, <2>1, <2>2
<1>7. CASE Terminated
  BY <1>7 DEF Terminated, vars, itemVars
<1>. QED BY <1>2, <1>3, <1>4, <1>5, <1>6, <1>7 DEF Next, OtherSteps

(* A registered action runs at its time, once, and is gone when its         *)
(* callback has run; nothing else takes it away or replaces it.             *)
THEOREM EventsOnTime == Spec => EventsRunOnTime
<1>1. ASSUME IInv, [Next]_vars, NEW e \in Events
      PROVE  /\ current # e /\ current' = e => pending[e] = now
             /\ current = e /\ current' # e => pending'[e] = None
             /\ pending[e] # None /\ pending'[e] # pending[e] =>
                  current = e /\ current' # e
  <2>1. e # None /\ e \notin Threads /\ TypeOK
    BY <1>1, ConstantsAssumption DEF IInv, Items
  <2>2. CASE UNCHANGED <<pending, current>>
    BY <2>2
  <2>3. CASE HandleNextItem(e) /\ pending'[e] = pending[e] /\ current # e /\ current' = e
    BY <2>1, <2>3 DEF HandleNextItem, IsNext, Ready, IsPending, GetTimeout
  <2>4. CASE CallbackEnds(e)
    BY <2>1, <2>4 DEF CallbackEnds, TypeOK
  <2>5. CASE pending[e] = None /\ UNCHANGED current
    BY <2>5
  <2>6. CASE pending'[e] = pending[e] /\ ((current = e) <=> (current' = e))
    BY <2>6
  <2>. QED BY <1>1, <2>2, <2>3, <2>4, <2>5, <2>6, EventSteps DEF vars, itemVars
<1>2. ASSUME IInv, [Next]_vars
      PROVE  [\A e \in Events :
                /\ current # e /\ current' = e => pending[e] = now
                /\ current = e /\ current' # e => pending'[e] = None
                /\ pending[e] # None /\ pending'[e] # pending[e] =>
                     current = e /\ current' # e]_vars
  BY <1>1, <1>2
<1>. QED BY <1>2, SchedulerInvariant, PTL DEF Spec, EventsRunOnTime

(* Which steps end a run. *)
LEMMA EndSteps ==
  ASSUME Next, call # "Idle", call' = "Idle"
  PROVE  LoopStep
<1>1. CASE ControlCalls
  <2>1. Idle
    BY <1>1, Zenon DEF ControlCalls, Start, CallRunUntil, CallRunUntilNextTimePoint, CallShutdown,
       SimulateEvent
  <2>. QED BY <2>1 DEF Idle
<1>2. ASSUME NEW t \in Threads, TaskStep(t) PROVE FALSE
  <2>1. UNCHANGED callVars
    BY <1>2, Zenon DEF TaskStep, TaskBlocks, BlockCurrentThreadUntil, Wait,
       BlockCurrentThreadUntilNextTimepoint, DeInitializeThread, SetBits, ClearBits, StartTransfer
  <2>. QED BY <2>1 DEF callVars
<1>3. ASSUME NEW i \in Items, SchedulerHandles(i) PROVE FALSE
  BY <1>3 DEF SchedulerHandles, RunUntilHandles, DrainHandles, ShutdownHandles, callVars
<1>4. CASE Terminated
  BY <1>4 DEF Terminated, vars, callVars
<1>5. ASSUME NEW e \in Events, CallbackStep(e) PROVE FALSE
  <2>1. UNCHANGED callVars
    BY <1>5, Zenon DEF CallbackStep, CallbackRegisters, CallbackEnds
  <2>. QED BY <2>1 DEF callVars
<1>. QED BY <1>1, <1>2, <1>3, <1>4, <1>5 DEF Next, OtherSteps

(* RunUntil keeps its promise: when it returns everything before its bound, *)
(* or up to it, has been simulated, and time never overshoots the bound.    *)
THEOREM RunUntilKeepsContract == Spec => RunUntilContract
<1>1. ASSUME IInv, Next, call = "RunUntil", call' = "Idle"
      PROVE  /\ now' >= limit
             /\ \A i \in Items : GetTimeout(i)' # None =>
                  IF inclusive THEN GetTimeout(i)' > limit ELSE GetTimeout(i)' >= limit
  <2> USE DEF IInv
  <2>1. /\ now \in Nat /\ limit \in Nat
        /\ \A i \in Items : GetTimeout(i) # None => GetTimeout(i) \in Nat /\ GetTimeout(i) >= now
        /\ \A x \in Timeouts : x \in Nat
    BY <1>1, TimeoutsAreTimes, ConstantsAssumption DEF TypeOK, Time, NoMissedTimeout
  <2>2. RunUntilAdvances \/ RunUntilReturns
    BY <1>1, EndSteps DEF LoopStep, DrainNowEnds, DrainNextEnds, ShutdownAdvances,
       ShutdownReturns, ShutdownThrows, InShutdown
  <2>3. \A i \in Items : GetTimeout(i)' = GetTimeout(i)
    <3>1. UNCHANGED itemVars
      BY <2>2, Zenon DEF RunUntilAdvances, RunUntilReturns
    <3>. QED BY <3>1 DEF itemVars, GetTimeout
  <2>4. CASE RunUntilAdvances
    <3>1. now' = limit /\ ~(Timeouts # {} /\ Min(Timeouts) <= limit)
      <4>1. ~UNCHANGED callVars
        BY <1>1 DEF callVars
      <4>. QED BY <2>4, <4>1, Zenon DEF RunUntilAdvances
    <3>2. ASSUME NEW i \in Items, GetTimeout(i) # None PROVE GetTimeout(i) > limit
      <4>1. /\ GetTimeout(i) \in Timeouts /\ Min(Timeouts) \in Timeouts
            /\ Min(Timeouts) <= GetTimeout(i)
        BY <1>1, <3>2, TimeoutsAreTimes
      <4>2. ~(Min(Timeouts) <= limit)
        BY <3>1, <4>1
      <4>. QED BY <2>1, <4>1, <4>2
    <3>. QED BY <2>1, <2>3, <3>1, <3>2
  <2>5. CASE RunUntilReturns
    <3>1. now' = now /\ ~RunUntilCondition
      BY <2>5, Zenon DEF RunUntilReturns
    <3>. QED BY <2>1, <2>3, <3>1 DEF RunUntilCondition
  <2>. QED BY <2>2, <2>4, <2>5
<1>2. ASSUME IInv, Next, call \in {"RunUntil", "DrainNow"}, now' # now
      PROVE  now' <= limit
  <2>1. limit \in Nat
    BY <1>2 DEF IInv, TypeOK
  <2>2. CASE RunUntilAdvances
    <3>1. now' <= limit \/ now' = limit
      BY <1>2, <2>2, Zenon DEF RunUntilAdvances
    <3>. QED BY <2>1, <3>1
  <2>3. CASE DrainNowEnds
    <3>1. now' <= limit \/ now' = limit
      BY <1>2, <2>3, Zenon DEF DrainNowEnds
    <3>. QED BY <2>1, <3>1
  <2>. QED BY <1>2, <2>2, <2>3, TimeSteps DEF ShutdownAdvances, InShutdown
<1>3. ASSUME IInv, [Next]_vars
      PROVE  [/\ call = "RunUntil" /\ call' = "Idle" =>
                   /\ now' >= limit
                   /\ \A i \in Items : GetTimeout(i)' # None =>
                        IF inclusive THEN GetTimeout(i)' > limit ELSE GetTimeout(i)' >= limit
              /\ call \in {"RunUntil", "DrainNow"} /\ now' # now => now' <= limit]_vars
  BY <1>1, <1>2, <1>3, Zenon
<1>. QED BY <1>3, SchedulerInvariant, PTL DEF Spec, RunUntilContract

(* RunUntilNextTimePoint tells its caller whether an item ran, and advances *)
(* time only if none did.                                                   *)
THEOREM NextTimePointKeepsContract == Spec => NextTimePointContract
<1>1. ASSUME IInv, Next, call \in {"DrainNow", "DrainNext"}, call' = "Idle"
      PROVE  ret' <=> ran
  <2>1. DrainNowEnds \/ DrainNextEnds
    BY <1>1, EndSteps DEF LoopStep, RunUntilAdvances, RunUntilReturns, InRunUntil,
       ShutdownAdvances, ShutdownReturns, ShutdownThrows, InShutdown
  <2>2. CASE DrainNowEnds
    BY <1>1, <2>2, Zenon DEF DrainNowEnds, Return
  <2>3. CASE DrainNextEnds
    <3>1. call = "DrainNext" /\ NothingReady /\ ret' = TRUE
      BY <2>3, Zenon DEF DrainNextEnds, Return
    <3>2. ran
      BY <1>1, <3>1 DEF IInv, CallInv
    <3>. QED BY <3>1, <3>2
  <2>. QED BY <2>1, <2>2, <2>3
<1>2. ASSUME IInv, Next, call = "DrainNow", now' # now
      PROVE  ~ran
  <2>1. DrainNowEnds
    BY <1>2, TimeSteps DEF RunUntilAdvances, InRunUntil, ShutdownAdvances, InShutdown
  <2>. QED BY <1>2, <2>1, Zenon DEF DrainNowEnds
<1>3. ASSUME IInv, [Next]_vars
      PROVE  [/\ call \in {"DrainNow", "DrainNext"} /\ call' = "Idle" => (ret' <=> ran)
              /\ call = "DrainNow" /\ now' # now => ~ran]_vars
  BY <1>1, <1>2, <1>3, Zenon
<1>. QED BY <1>3, SchedulerInvariant, PTL DEF Spec, NextTimePointContract

(* Which steps give a task the token. *)
LEMMA TokenSteps ==
  ASSUME Next, NEW t \in Threads, current = None, current' = t
  PROVE  HandleNextItem(t)
<1>1. t # None
  BY ConstantsAssumption DEF Items
<1>2. CASE LoopStep
  BY <1>1, <1>2, Zenon DEF LoopStep, RunUntilAdvances, RunUntilReturns, DrainNowEnds,
     DrainNextEnds, ShutdownAdvances, ShutdownReturns, ShutdownThrows
<1>3. CASE ControlCalls
  BY <1>1, <1>3, Zenon DEF ControlCalls, Start, CallRunUntil, CallRunUntilNextTimePoint,
     CallShutdown, SimulateEvent
<1>4. ASSUME NEW u \in Threads, TaskStep(u) PROVE FALSE
  <2>1. current = u
    BY <1>4, Zenon DEF TaskStep, TaskBlocks, BlockCurrentThreadUntil, Wait, Block,
       BlockCurrentThreadUntilNextTimepoint, DeInitializeThread, SetBits, ClearBits,
       CheckSyncPrimitivePreemption, StartTransfer
  <2>. QED BY <2>1, ConstantsAssumption DEF Items
<1>5. ASSUME NEW i \in Items, SchedulerHandles(i) PROVE HandleNextItem(t)
  <2>1. HandleNextItem(i)
    BY <1>5 DEF SchedulerHandles, RunUntilHandles, DrainHandles, ShutdownHandles
  <2>2. i = t
    BY <1>1, <2>1 DEF HandleNextItem, RunThread, RunEvent
  <2>. QED BY <2>1, <2>2
<1>6. CASE Terminated
  BY <1>1, <1>6 DEF Terminated, vars
<1>7. ASSUME NEW e \in Events, CallbackStep(e) PROVE FALSE
  <2>1. current = e
    BY <1>7, Zenon DEF CallbackStep, CallbackRegisters, CallbackEnds
  <2>. QED BY <2>1, ConstantsAssumption DEF Items
<1>. QED BY <1>2, <1>3, <1>4, <1>5, <1>6, <1>7 DEF Next, OtherSteps

(* No part of a set is left once the set has been taken away. *)
LEMMA Consumed ==
  ASSUME NEW S, NEW T, NEW B, S \in (SUBSET T) \ {{}}
  PROVE  S \cap (B \ T) = {} /\ ~(S \subseteq B \ T)
<1>1. PICK x : x \in S /\ x \in T
  OBVIOUS
<1>2. x \notin B \ T
  BY <1>1
<1>3. S \cap (B \ T) = {}
  OBVIOUS
<1>. QED BY <1>1, <1>2, <1>3

(* Bits that one waiter consumes wake no second one.                        *)
THEOREM BitsWakeOne == Spec => BitsWakeOneWaiter
<1>1. ASSUME IInv, Next, NEW t \in Threads, NEW u \in Threads,
             current = None, current' = t, t # u, SyncUnblocked(t, bits), sync[t].clear,
             sync[u] # None, sync[u].bits \in (SUBSET sync[t].bits) \ {{}}
      PROVE  sync'[u] = sync[u] /\ ~CheckUnblock(sync[u], bits')
  <2>1. RunThread(t) /\ TypeOK
    BY <1>1, TokenSteps DEF HandleNextItem, IInv
  <2>2. sync'[u] = sync[u] /\ bits' = bits \ sync[t].bits
    BY <1>1, <2>1 DEF RunThread, TypeOK
  <2>3. sync[u].bits \cap bits' = {} /\ ~(sync[u].bits \subseteq bits')
    BY <1>1, <2>2, Consumed
  <2>. QED BY <2>2, <2>3, Zenon DEF CheckUnblock
<1>2. ASSUME IInv, [Next]_vars
      PROVE  [\A t, u \in Threads :
                 (/\ current = None /\ current' = t /\ t # u
                  /\ SyncUnblocked(t, bits) /\ sync[t].clear
                  /\ sync[u] # None /\ sync[u].bits \in (SUBSET sync[t].bits) \ {{}})
                 => sync'[u] = sync[u] /\ ~CheckUnblock(sync[u], bits')]_vars
  BY <1>1, <1>2
<1>. QED BY <1>2, SchedulerInvariant, PTL DEF Spec, BitsWakeOneWaiter

(***************************************************************************)
(* Shutdown makes progress: the safety half of ShutdownTerminates.         *)
(***************************************************************************)
LEMMA BudgetFacts ==
  ASSUME IInv
  PROVE  /\ limit \in Nat /\ wakeups \in Nat /\ PresentWork \in 0 .. 2
         /\ call = "Shutdown" => wakeups <= limit + 1 /\ ShutdownBudget \in Nat
<1>1. limit \in Nat /\ wakeups \in Nat /\ PresentWork \in 0 .. 2
  BY DEF IInv, TypeOK, PresentWork
<1>2. call = "Shutdown" => wakeups <= limit + 1
  BY DEF IInv, CallInv
<1>. QED BY <1>1, <1>2 DEF ShutdownBudget

(* A round costs three, and the task in it is worth two of them. *)
LEMMA Spent ==
  ASSUME NEW l \in Nat, NEW w \in Nat, NEW x \in Int
  PROVE  /\ 3 * (l + 1 - (w + 1)) + x = (3 * (l + 1 - w) + x) - 3
         /\ 3 * (l + 1 - w) \in Int
OBVIOUS

LEMMA SpentIsLess ==
  ASSUME NEW b \in Nat, NEW c \in Nat, NEW r \in Int, NEW x \in 0 .. 2, NEW y \in 0 .. 2,
         b = r + x
  PROVE  /\ c = (r + y) - 3 => c \in 0 .. b - 1
         /\ c = r + y /\ y <= x => c \in 0 .. b
         /\ c = r + y /\ y < x => c \in 0 .. b - 1
OBVIOUS

(* An iteration of the loop of Shutdown that does not end it. *)
LEMMA ShutdownRounds ==
  ASSUME IInv, IInv', LoopStep \/ \E i \in Items : SchedulerHandles(i),
         call = "Shutdown", call' = "Shutdown"
  PROVE  ShutdownBudget' \in 0 .. ShutdownBudget - 1
<1>1. /\ limit \in Nat /\ wakeups \in Nat /\ PresentWork \in 0 .. 2
      /\ PresentWork' \in 0 .. 2
      /\ ShutdownBudget \in Nat /\ ShutdownBudget' \in Nat
  <2>1. /\ limit \in Nat /\ wakeups \in Nat /\ PresentWork \in 0 .. 2
        /\ call = "Shutdown" => ShutdownBudget \in Nat
    BY BudgetFacts
  <2>2. (PresentWork \in 0 .. 2 /\ (call = "Shutdown" => ShutdownBudget \in Nat))'
    BY BudgetFacts, PTL
  <2>. QED BY <2>1, <2>2
<1>2. CASE LoopStep
  <2>1. ShutdownAdvances
    BY <1>2, Zenon DEF LoopStep, RunUntilAdvances, RunUntilReturns, DrainNowEnds,
       DrainNextEnds, ShutdownReturns, ShutdownThrows, Return, InRunUntil
  <2>2. /\ NothingReady /\ current = None /\ Timeouts # {} /\ now' = Min(Timeouts)
        /\ UNCHANGED <<limit, wakeups>> /\ UNCHANGED <<itemVars, current>>
    BY <2>1 DEF ShutdownAdvances, InShutdown, Return, callVars
  <2>3. PICK i \in Items : GetTimeout(i) = now' /\ GetTimeout(i) # None
    BY <2>2, TimeoutsAreTimes DEF Timeouts, IInv
  <2>4. IsRunning(i)
    BY <2>3 DEF IsRunning, GetTimeout, IInv, TokenInv, TypeOK
  <2>5. Ready(i)'
    BY <2>2, <2>3, <2>4 DEF Ready, IsPending, IsRunning, GetTimeout, itemVars
  <2>6. PresentWork = 1 /\ PresentWork' = 0
    BY <2>2, <2>5 DEF PresentWork, NothingReady
  <2>. QED BY <1>1, <2>2, <2>6 DEF ShutdownBudget
<1>3. CASE \E i \in Items : SchedulerHandles(i)
  <2>1. /\ wakeups' = wakeups + 1 /\ limit' = limit /\ wakeups <= limit
    BY <1>3 DEF SchedulerHandles, RunUntilHandles, DrainHandles, ShutdownHandles,
       InShutdown, InRunUntil
  <2>2. ShutdownBudget' = 3 * (limit + 1 - (wakeups + 1)) + PresentWork'
    BY <2>1, Zenon DEF ShutdownBudget
  <2>3. ShutdownBudget' = (3 * (limit + 1 - wakeups) + PresentWork') - 3
    BY <1>1, <2>2, Spent
  <2>4. ShutdownBudget = 3 * (limit + 1 - wakeups) + PresentWork
    BY DEF ShutdownBudget
  <2> DEFINE rounds == 3 * (limit + 1 - wakeups)
  <2>5. rounds \in Int
    BY <1>1, Spent
  <2> HIDE DEF rounds
  <2>6. ShutdownBudget' = (rounds + PresentWork') - 3 /\ ShutdownBudget = rounds + PresentWork
    BY <2>3, <2>4 DEF rounds
  <2>. QED BY <1>1, <2>5, <2>6, SpentIsLess
<1>. QED BY <1>2, <1>3

(* The item that runs during Shutdown. *)
LEMMA ShutdownRuns ==
  ASSUME IInv, IInv', NEW i \in Items, current = i, UNCHANGED callVars, current' \in {i, None},
         call = "Shutdown"
  PROVE  /\ ShutdownBudget' \in 0 .. ShutdownBudget
         /\ current' = None => ShutdownBudget' \in 0 .. ShutdownBudget - 1
<1>2. PresentWork = 2 /\ PresentWork' \in 0 .. 2 /\ (current' = None => PresentWork' \in 0 .. 1)
  BY ConstantsAssumption DEF PresentWork
<1>3. /\ limit \in Nat /\ wakeups \in Nat /\ UNCHANGED <<limit, wakeups, call>>
      /\ ShutdownBudget \in Nat /\ ShutdownBudget' \in Nat
  <2>1. UNCHANGED <<limit, wakeups, call>>
    BY DEF callVars
  <2>2. (limit \in Nat /\ wakeups \in Nat /\ ShutdownBudget \in Nat)
    BY BudgetFacts
  <2>3. (call = "Shutdown" => ShutdownBudget \in Nat)'
    BY BudgetFacts, PTL
  <2>. QED BY <2>1, <2>2, <2>3
<1> DEFINE rounds == 3 * (limit + 1 - wakeups)
<1>4. rounds \in Int
  BY <1>3, Spent
<1>5. ShutdownBudget' = rounds + PresentWork' /\ ShutdownBudget = rounds + PresentWork
  BY <1>3, Zenon DEF ShutdownBudget
<1> HIDE DEF rounds
<1>6. ShutdownBudget' \in 0 .. ShutdownBudget
  <2>1. PresentWork \in 0 .. 2 /\ PresentWork' \in 0 .. 2 /\ PresentWork' <= PresentWork
    BY <1>2
  <2>. QED BY <1>3, <1>4, <1>5, <2>1, SpentIsLess
<1>7. ASSUME current' = None PROVE ShutdownBudget' \in 0 .. ShutdownBudget - 1
  <2>1. PresentWork \in 0 .. 2 /\ PresentWork' \in 0 .. 2 /\ PresentWork' < PresentWork
    BY <1>2, <1>7
  <2>. QED BY <1>3, <1>4, <1>5, <2>1, SpentIsLess
<1>. QED BY <1>6, <1>7

LEMMA ShutdownTasks ==
  ASSUME IInv, IInv', NEW t \in Threads, TaskStep(t), call = "Shutdown"
  PROVE  /\ ShutdownBudget' \in 0 .. ShutdownBudget
         /\ TaskBlocks(t) => ShutdownBudget' \in 0 .. ShutdownBudget - 1
<1>1. /\ current = t /\ UNCHANGED callVars /\ current' \in {t, None}
      /\ TaskBlocks(t) => current' = None
  BY Zenon DEF TaskStep, TaskBlocks, BlockCurrentThreadUntil, Wait, Block,
     BlockCurrentThreadUntilNextTimepoint, DeInitializeThread, SetBits, ClearBits,
     CheckSyncPrimitivePreemption, StartTransfer
<1>. QED BY <1>1, ShutdownRuns DEF Items

LEMMA ShutdownCallbacks ==
  ASSUME IInv, IInv', NEW e \in Events, CallbackStep(e), call = "Shutdown"
  PROVE  /\ ShutdownBudget' \in 0 .. ShutdownBudget
         /\ CallbackEnds(e) => ShutdownBudget' \in 0 .. ShutdownBudget - 1
<1>1. /\ current = e /\ UNCHANGED callVars /\ current' \in {e, None}
      /\ CallbackEnds(e) => current' = None
  BY Zenon DEF CallbackStep, CallbackRegisters, CallbackEnds
<1>. QED BY <1>1, ShutdownRuns DEF Items

(* Shutdown uses up its budget, so that it can only end: whatever the tasks *)
(* do, it is left after finitely many iterations.                           *)
THEOREM ShutdownSpendsBudget == Spec => ShutdownProgress
<1>1. ASSUME IInv, [Next]_vars
      PROVE  [call = "Shutdown" /\ call' = "Shutdown" =>
                /\ ShutdownBudget' \in 0 .. ShutdownBudget
                /\ SchedulerStep \/ (\E t \in Threads : TaskBlocks(t))
                     => ShutdownBudget' # ShutdownBudget]_vars
  <2> SUFFICES ASSUME Next, call = "Shutdown", call' = "Shutdown"
               PROVE  /\ ShutdownBudget' \in 0 .. ShutdownBudget
                      /\ SchedulerStep \/ (\E t \in Threads : TaskBlocks(t))
                           => ShutdownBudget' # ShutdownBudget
    BY <1>1
  <2>1. IInv'
    BY <1>1, NextIInv
  <2>2. ShutdownBudget \in Nat
    BY <1>1, BudgetFacts
  <2>3. CASE LoopStep \/ \E i \in Items : SchedulerHandles(i)
    BY <1>1, <2>1, <2>2, <2>3, ShutdownRounds
  <2>4. ASSUME NEW t \in Threads, TaskBlocks(t)
        PROVE  ShutdownBudget' \in 0 .. ShutdownBudget - 1
    BY <1>1, <2>1, <2>4, ShutdownTasks DEF TaskStep
  <2>5. ASSUME NEW t \in Threads, TaskStep(t)
        PROVE  ShutdownBudget' \in 0 .. ShutdownBudget
    BY <1>1, <2>1, <2>5, ShutdownTasks
  <2>6. ASSUME NEW e \in Events, CallbackStep(e)
        PROVE  /\ ShutdownBudget' \in 0 .. ShutdownBudget
               /\ CallbackEnds(e) => ShutdownBudget' \in 0 .. ShutdownBudget - 1
    BY <1>1, <2>1, <2>6, ShutdownCallbacks
  <2>7. ~ControlCalls /\ ~Terminated
    BY Zenon DEF ControlCalls, Start, CallRunUntil, CallRunUntilNextTimePoint,
       CallShutdown, SimulateEvent, Idle, Terminated, Failures
  <2>8. ShutdownBudget' \in 0 .. ShutdownBudget
    BY <2>2, <2>3, <2>5, <2>6, <2>7 DEF Next, OtherSteps
  <2>9. ASSUME SchedulerStep \/ \E t \in Threads : TaskBlocks(t)
        PROVE  ShutdownBudget' \in 0 .. ShutdownBudget - 1
    <3>1. ASSUME NEW e \in Events, CallbackEnds(e)
          PROVE  ShutdownBudget' \in 0 .. ShutdownBudget - 1
      BY <2>6, <3>1 DEF CallbackStep
    <3>2. CASE LoopStep \/ \E i \in Items : SchedulerHandles(i)
      BY <1>1, <2>1, <3>2, ShutdownRounds
    <3>. QED BY <2>4, <2>9, <3>1, <3>2 DEF SchedulerStep
  <2>. QED BY <2>2, <2>8, <2>9
<1>. QED BY <1>1, SchedulerInvariant, PTL DEF Spec, ShutdownProgress
=============================================================================
