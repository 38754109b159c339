------------------------ MODULE SilRoundRobin_proofs ------------------------
(***************************************************************************)
(* The round robin of HandleNextItem is fair in every bracket, whatever    *)
(* its size and whichever of its items are ready.                          *)
(***************************************************************************)
EXTENDS SilRoundRobin, SilScheduler_proofs

(* Arithmetic modulo n within two turns of the ring. *)
LEMMA Wrap ==
  ASSUME NEW n \in Nat \ {0}, NEW x \in Nat, x < 2 * n
  PROVE  x % n = IF x < n THEN x ELSE x - n
OBVIOUS

(* The scan reaches place q from r after RingDistance steps, and no sooner. *)
RingDistance(n, q, r) == IF q >= r THEN q - r ELSE q - r + n

LEMMA ScanReaches ==
  ASSUME NEW n \in Nat \ {0}, NEW q \in 0 .. n - 1, NEW r \in 0 .. n - 1
  PROVE  /\ RingDistance(n, q, r) \in 0 .. n - 1
         /\ \A k \in 0 .. n - 1 : q = (k + r) % n <=> k = RingDistance(n, q, r)
<1>1. ASSUME NEW k \in 0 .. n - 1
      PROVE  q = (k + r) % n <=> k = RingDistance(n, q, r)
  <2> DEFINE x == k + r
  <2>1. x \in Nat /\ x < 2 * n
    OBVIOUS
  <2> HIDE DEF x
  <2>2. x % n = IF x < n THEN x ELSE x - n
    BY <2>1, Wrap
  <2>. QED BY <2>2 DEF RingDistance, x
<1>. QED BY <1>1 DEF RingDistance

(* Distance(i) is the ring distance from rr_idx to the item's place, and    *)
(* the only number of turns after which the scan gets there.                *)
ScanFacts ==
  \A i \in Items :
    LET n == BracketSize(ItemPrio(i))
        r == rr_idx[ItemPrio(i)]
    IN  /\ Pos[i] \in 0 .. n - 1 /\ r \in 0 .. n - 1
        /\ Distance(i) \in 0 .. n - 1
        /\ Distance(i) = RingDistance(n, Pos[i], r)
        /\ \A k \in 0 .. n - 1 : Pos[i] = (k + r) % n <=> k = Distance(i)

LEMMA ScanFactsHold == IInv => ScanFacts
<1> SUFFICES ASSUME IInv, NEW i \in Items
             PROVE  LET n == BracketSize(ItemPrio(i))
                        r == rr_idx[ItemPrio(i)]
                    IN  /\ Pos[i] \in 0 .. n - 1 /\ r \in 0 .. n - 1
                        /\ Distance(i) \in 0 .. n - 1
                        /\ Distance(i) = RingDistance(n, Pos[i], r)
                        /\ \A k \in 0 .. n - 1 : Pos[i] = (k + r) % n <=> k = Distance(i)
  BY DEF ScanFacts
<1> DEFINE p == ItemPrio(i)
           n == BracketSize(p)
<1>1. p \in Prios /\ i \in Bracket(p) /\ n \in Nat \ {0}
  BY Brackets
<1>2. Pos[i] \in 0 .. n - 1 /\ rr_idx[p] \in 0 .. n - 1
  BY <1>1, PosAssumption DEF IInv, TypeOK
<1>3. /\ RingDistance(n, Pos[i], rr_idx[p]) \in 0 .. n - 1
      /\ \A k \in 0 .. n - 1 : Pos[i] = (k + rr_idx[p]) % n
                               <=> k = RingDistance(n, Pos[i], rr_idx[p])
  BY <1>1, <1>2, ScanReaches
<1>4. Distance(i) = RingDistance(n, Pos[i], rr_idx[p])
  BY <1>3, Zenon DEF Distance
<1>. QED BY <1>2, <1>3, <1>4

(* After the bracket of item j has run once more, j is one turn closer to   *)
(* the start of the scan.                                                   *)
LEMMA DistanceSteps ==
  ASSUME IInv, IInv', NEW i \in Items, HandleNextItem(i),
         NEW j \in Items, ItemPrio(j) = ItemPrio(i), Distance(j) > 0
  PROVE  Distance(j)' = Distance(j) - 1
<1> DEFINE p == ItemPrio(j)
           n == BracketSize(p)
           r == rr_idx[p]
           s == rr_idx'[p]
<1>1. n \in Nat \ {0} /\ p \in Prios
  BY Brackets
<1>2. ScanFacts /\ ScanFacts'
  BY ScanFactsHold, PTL
<1>3. /\ Pos[j] \in 0 .. n - 1 /\ r \in 0 .. n - 1
      /\ Distance(j) = RingDistance(n, Pos[j], r)
      /\ Distance(j)' = RingDistance(n, Pos[j], s)
  BY <1>2 DEF ScanFacts
<1>4. s = (r + 1) % n
  BY <1>1 DEF HandleNextItem, IInv, TypeOK
<1>5. s = IF r + 1 < n THEN r + 1 ELSE 0
  <2> DEFINE x == r + 1
  <2>1. x \in Nat /\ x < 2 * n /\ x <= n
    BY <1>1, <1>3
  <2> HIDE DEF x, n
  <2>2. x % n = IF x < n THEN x ELSE x - n
    BY <1>1, <2>1, Wrap
  <2>. QED BY <1>1, <1>4, <2>1, <2>2 DEF x
<1> HIDE DEF n, r, s
<1>6. Distance(j) \in Int
  BY <1>1, <1>3 DEF RingDistance
<1>. QED BY <1>1, <1>3, <1>5 DEF RingDistance

(* A ready item that is passed over lies behind the item that runs.         *)
LEMMA PassedOverIsBehind ==
  ASSUME IInv, NEW i \in Items, IsNext(i), NEW j \in Items, ItemPrio(j) = ItemPrio(i),
         j # i, Ready(j)
  PROVE  Distance(j) > 0
<1> DEFINE p == ItemPrio(i)
           n == BracketSize(p)
<1>1. /\ i \in Bracket(p) /\ j \in Bracket(p) /\ p \in Prios /\ n \in Nat \ {0}
  BY Brackets
<1>2. PICK k \in 0 .. n - 1 :
        /\ Pos[i] = (k + rr_idx[p]) % n
        /\ \A l \in 0 .. k - 1 : Pos[j] # (l + rr_idx[p]) % n
  BY <1>1 DEF IsNext
<1>3. Pos[i] # Pos[j]
  BY <1>1, PosAssumption
<1>4. /\ Distance(j) \in 0 .. n - 1
      /\ Pos[j] = (Distance(j) + rr_idx[p]) % n
  BY ScanFactsHold DEF ScanFacts
<1>. QED BY <1>2, <1>3, <1>4
(***************************************************************************)
(* The history variable never outruns the budget.                          *)
(***************************************************************************)
RRInv == RRTypeOK /\ BypassBudget

LEMMA RRInitInv == RRInit => RRInv
<1> SUFFICES ASSUME RRInit PROVE RRInv
  OBVIOUS
<1>1. ScanFacts
  BY InitIInv, ScanFactsHold DEF RRInit
<1>2. ASSUME NEW i \in Items PROVE bypassed[i] + Distance(i) <= BracketSize(ItemPrio(i)) - 1
  BY <1>1, Brackets DEF RRInit, ScanFacts
<1>. QED BY <1>2 DEF RRInv, RRInit, RRTypeOK, BypassBudget

LEMMA RRStep ==
  ASSUME RRInv, IInv, IInv', NEW i \in Items, SchedulerHandles(i), CountBypass(i)
  PROVE  RRInv'
<1>1. HandleNextItem(i) /\ IsNext(i)
  BY DEF SchedulerHandles, RunUntilHandles, DrainHandles, ShutdownHandles, HandleNextItem
<1>2. ScanFacts /\ ScanFacts'
  BY ScanFactsHold, PTL
<1>3. RRTypeOK'
  BY DEF CountBypass, RRInv, RRTypeOK
<1>4. ASSUME NEW j \in Items
      PROVE  bypassed'[j] + Distance(j)' <= BracketSize(ItemPrio(j)) - 1
  <2> DEFINE n == BracketSize(ItemPrio(j))
  <2>1. /\ n \in Nat \ {0} /\ Distance(j) \in Int /\ Distance(j)' \in 0 .. n - 1
        /\ Distance(j) \in 0 .. n - 1 /\ bypassed[j] \in Nat
        /\ bypassed[j] + Distance(j) <= n - 1
    BY <1>2, Brackets DEF ScanFacts, RRInv, RRTypeOK, BypassBudget
  <2> HIDE DEF n
  <2>2. CASE ItemPrio(j) # ItemPrio(i)
    <3>1. bypassed'[j] = bypassed[j]
      BY <2>2 DEF CountBypass
    <3>2. rr_idx'[ItemPrio(j)] = rr_idx[ItemPrio(j)]
      BY <1>1, <2>2, Brackets DEF HandleNextItem, IInv, TypeOK
    <3>3. Distance(j)' = Distance(j)
      BY <3>2, Zenon DEF Distance
    <3>. QED BY <2>1, <3>1, <3>3 DEF n
  <2>3. CASE ItemPrio(j) = ItemPrio(i) /\ j # i /\ Ready(j)
    <3>1. bypassed'[j] = bypassed[j] + 1
      BY <2>3 DEF CountBypass
    <3>2. Distance(j)' = Distance(j) - 1
      BY <1>1, <2>3, PassedOverIsBehind, DistanceSteps
    <3>. QED BY <2>1, <3>1, <3>2 DEF n
  <2>4. CASE ItemPrio(j) = ItemPrio(i) /\ ~(j # i /\ Ready(j))
    <3>1. bypassed'[j] = 0
      BY <2>4 DEF CountBypass
    <3>. QED BY <2>1, <3>1 DEF n
  <2>. QED BY <2>2, <2>3, <2>4
<1>. QED BY <1>3, <1>4 DEF RRInv, BypassBudget

(* Every step with the history variable is a step of the scheduler.         *)
LEMMA RRNextIsNext == [RRNext]_rrVars => [Next]_vars
BY DEF RRNext, rrVars, Next

LEMMA OtherStepsKeep ==
  ASSUME RRInv, IInv, IInv', UNCHANGED <<rr_idx, bypassed>>
  PROVE  RRInv'
<1>1. \A j \in Items : Distance(j)' = Distance(j)
  BY Zenon DEF Distance
<1>. QED BY <1>1 DEF RRInv, RRTypeOK, BypassBudget

(* The index of a bracket moves only when an item of the bracket runs. *)
LEMMA OtherStepsLeaveIndex == OtherSteps => UNCHANGED rr_idx
<1>1. LoopStep => UNCHANGED itemVars
  BY Zenon DEF LoopStep, RunUntilAdvances, RunUntilReturns, DrainNowEnds, DrainNextEnds,
     ShutdownAdvances, ShutdownReturns, ShutdownThrows
<1>2. ControlCalls => UNCHANGED rr_idx \/ UNCHANGED itemVars
  BY Zenon DEF ControlCalls, Start, CallRunUntil, CallRunUntilNextTimePoint, CallShutdown,
     SimulateEvent
<1>3. ASSUME NEW t \in Threads, TaskStep(t) PROVE UNCHANGED rr_idx
  BY <1>3, Zenon DEF TaskStep, TaskBlocks, BlockCurrentThreadUntil, Wait, Block,
     BlockCurrentThreadUntilNextTimepoint, DeInitializeThread, SetBits, ClearBits,
     CheckSyncPrimitivePreemption, StartTransfer
<1>4. ASSUME NEW e \in Events, CallbackStep(e) PROVE UNCHANGED rr_idx
  BY <1>4, Zenon DEF CallbackStep, CallbackRegisters, CallbackEnds
<1>. QED BY <1>1, <1>2, <1>3, <1>4 DEF OtherSteps, Terminated, vars, itemVars

LEMMA RRInvariant == RRSpec => [](IInv /\ RRInv)
<1>1. RRInit => IInv /\ RRInv
  BY InitIInv, RRInitInv DEF RRInit
<1>2. IInv /\ RRInv /\ [RRNext]_rrVars => IInv' /\ RRInv'
  <2> SUFFICES ASSUME IInv, RRInv, [RRNext]_rrVars PROVE IInv' /\ RRInv'
    OBVIOUS
  <2>1. IInv'
    BY RRNextIsNext, NextIInv
  <2>2. ASSUME NEW i \in Items, SchedulerHandles(i), CountBypass(i) PROVE RRInv'
    BY <2>1, <2>2, RRStep
  <2>3. CASE OtherSteps /\ UNCHANGED bypassed
    BY <2>1, <2>3, OtherStepsKeep, OtherStepsLeaveIndex
  <2>4. CASE UNCHANGED rrVars
    <3>1. UNCHANGED <<rr_idx, bypassed>>
      BY <2>4 DEF rrVars, vars, itemVars
    <3>. QED BY <2>1, <3>1, OtherStepsKeep
  <2>. QED BY <2>1, <2>2, <2>3, <2>4 DEF RRNext
<1>. QED BY <1>1, <1>2, PTL DEF RRSpec

(* The closer a passed-over item is to the start of the scan the fewer      *)
(* times it can still be passed over.                                       *)
THEOREM BypassIsBudgeted == RRSpec => []BypassBudget
<1>1. RRInv => BypassBudget
  BY DEF RRInv
<1>. QED BY <1>1, RRInvariant, PTL

(* A ready item of a bracket of n items is passed over at most n - 1 times  *)
(* in a row: the round robin starves nobody.                                *)
THEOREM RoundRobinIsFair == RRSpec => []BoundedBypass
<1>1. IInv /\ RRInv => BoundedBypass
  <2> SUFFICES ASSUME IInv, RRInv, NEW i \in Items
               PROVE  bypassed[i] <= BracketSize(ItemPrio(i)) - 1
    BY DEF BoundedBypass
  <2>1. /\ BracketSize(ItemPrio(i)) \in Nat /\ Distance(i) \in 0 .. BracketSize(ItemPrio(i)) - 1
    BY ScanFactsHold, Brackets DEF ScanFacts
  <2>2. bypassed[i] \in Nat /\ bypassed[i] + Distance(i) <= BracketSize(ItemPrio(i)) - 1
    BY DEF RRInv, RRTypeOK, BypassBudget
  <2>. QED BY <2>1, <2>2
<1>. QED BY <1>1, RRInvariant, PTL

(***************************************************************************)
(* The scan of HandleNextItem: which item it finds.                        *)
(***************************************************************************)

(* Priorities are pairs of numbers, events before threads. *)
LEMMA PrioFacts ==
  ASSUME NEW i \in Items
  PROVE  \/ /\ i \in Threads /\ ThreadPrio[i] \in Nat
            /\ ItemPrio(i) = <<10, ThreadPrio[i]>>
         \/ /\ i \in Events \ Threads /\ EventPrio[i] \in Nat
            /\ ItemPrio(i) = <<1, EventPrio[i]>>
BY ConstantsAssumption DEF Items, ItemPrio, ThreadPriorityLevel, ExternalEventPriorityLevel

(* Of two items of which neither precedes the other, the priority is equal. *)
LEMMA PrioTotal ==
  ASSUME NEW i \in Items, NEW j \in Items,
         ~PrioLess(ItemPrio(i), ItemPrio(j)), ~PrioLess(ItemPrio(j), ItemPrio(i))
  PROVE  ItemPrio(i) = ItemPrio(j)
<1>1. CASE i \in Threads /\ j \in Threads
  BY <1>1, ConstantsAssumption DEF ItemPrio, PrioLess
<1>2. CASE i \notin Threads /\ j \notin Threads
  <2>1. EventPrio[i] \in Nat /\ EventPrio[j] \in Nat
    BY <1>2, PrioFacts
  <2>. QED BY <1>2, <2>1 DEF ItemPrio, PrioLess
<1>3. CASE ~(i \in Threads <=> j \in Threads)
  BY <1>3 DEF ItemPrio, PrioLess, ThreadPriorityLevel, ExternalEventPriorityLevel
<1>. QED BY <1>1, <1>2, <1>3

(* A non-empty set of items has one that none of the set precedes. *)
LEMMA FirstPriority ==
  ASSUME NEW R \in SUBSET Items, R # {}
  PROVE  \E i \in R : \A j \in R : ~PrioLess(ItemPrio(j), ItemPrio(i))
<1>1. CASE \E e \in R : e \notin Threads
  <2> DEFINE E == {e \in R : e \notin Threads}
             S == {EventPrio[e] : e \in E}
  <2>1. \A e \in E : EventPrio[e] \in Nat
    BY PrioFacts
  <2>2. S \in SUBSET Nat /\ S # {}
    BY <1>1, <2>1
  <2>3. PICK i \in E : Min(S) = EventPrio[i]
    BY <2>2, MinOfNats
  <2>4. \A j \in E : EventPrio[i] <= EventPrio[j]
    BY <2>2, <2>3, MinOfNats
  <2> HIDE DEF S
  <2>5. ASSUME NEW j \in R PROVE ~PrioLess(ItemPrio(j), ItemPrio(i))
    <3>1. CASE j \in E
      <4>1. /\ EventPrio[i] \in Nat /\ EventPrio[j] \in Nat /\ EventPrio[i] <= EventPrio[j]
            /\ i \notin Threads /\ j \notin Threads
        BY <2>1, <2>3, <2>4, <3>1
      <4>. QED BY <4>1 DEF ItemPrio, PrioLess, ExternalEventPriorityLevel
    <3>2. CASE j \in Threads
      BY <2>3, <3>2 DEF ItemPrio, PrioLess, ThreadPriorityLevel, ExternalEventPriorityLevel
    <3>. QED BY <3>1, <3>2
  <2>. QED BY <2>3, <2>5
<1>2. CASE R \subseteq Threads
  <2> DEFINE S == {ThreadPrio[t] : t \in R}
  <2>1. \A t \in R : ThreadPrio[t] \in Nat
    BY <1>2, ConstantsAssumption
  <2>2. S \in SUBSET Nat /\ S # {}
    BY <2>1
  <2>3. PICK i \in R : Min(S) = ThreadPrio[i]
    BY <2>2, MinOfNats
  <2>4. \A j \in R : ThreadPrio[i] <= ThreadPrio[j]
    BY <2>2, <2>3, MinOfNats
  <2> HIDE DEF S
  <2>5. ASSUME NEW j \in R PROVE ~PrioLess(ItemPrio(j), ItemPrio(i))
    <3>1. /\ ThreadPrio[i] \in Nat /\ ThreadPrio[j] \in Nat /\ ThreadPrio[i] <= ThreadPrio[j]
          /\ i \in Threads /\ j \in Threads
      BY <1>2, <2>1, <2>3, <2>4
    <3>. QED BY <3>1 DEF ItemPrio, PrioLess, ThreadPriorityLevel
  <2>. QED BY <2>3, <2>5
<1>. QED BY <1>1, <1>2

(* In the first bracket that has a ready item, the scan takes the ready one *)
(* nearest to rr_idx.                                                       *)
LEMMA NearestIsNext ==
  ASSUME IInv, NEW i \in Items, Ready(i),
         \A j \in Items : Ready(j) => ~PrioLess(ItemPrio(j), ItemPrio(i)),
         \A j \in Items : Ready(j) /\ ItemPrio(j) = ItemPrio(i) => Distance(i) <= Distance(j)
  PROVE  IsNext(i)
<1> DEFINE p == ItemPrio(i)
           n == BracketSize(p)
<1>1. n \in Nat \ {0}
  BY Brackets
<1>2. /\ Distance(i) \in 0 .. n - 1
      /\ Pos[i] = (Distance(i) + rr_idx[p]) % n
  BY ScanFactsHold DEF ScanFacts
<1>3. ASSUME NEW j \in Bracket(p), NEW l \in 0 .. Distance(i) - 1,
             Pos[j] = (l + rr_idx[p]) % n
      PROVE  ~Ready(j)
  <2>1. j \in Items /\ ItemPrio(j) = p
    BY DEF Bracket
  <2>2. l \in 0 .. n - 1
    BY <1>1, <1>2
  <2>3. l = Distance(j)
    BY <1>3, <2>1, <2>2, ScanFactsHold DEF ScanFacts
  <2>. QED BY <1>1, <1>2, <2>1, <2>3
<1>. QED BY <1>2, <1>3 DEF IsNext

(* The item that is found is the nearest ready one of its bracket. *)
LEMMA NextIsNearest ==
  ASSUME IInv, NEW i \in Items, IsNext(i),
         NEW j \in Items, Ready(j), ItemPrio(j) = ItemPrio(i)
  PROVE  Distance(i) <= Distance(j)
<1> DEFINE p == ItemPrio(i)
           n == BracketSize(p)
<1>1. n \in Nat \ {0} /\ j \in Bracket(p)
  BY Brackets
<1>2. PICK k \in 0 .. n - 1 :
        /\ Pos[i] = (k + rr_idx[p]) % n
        /\ \A l \in 0 .. k - 1 : Pos[j] # (l + rr_idx[p]) % n
  BY <1>1 DEF IsNext
<1>3. k = Distance(i)
  BY <1>2, ScanFactsHold DEF ScanFacts
<1>4. /\ Distance(j) \in 0 .. n - 1
      /\ Pos[j] = (Distance(j) + rr_idx[p]) % n
  BY ScanFactsHold DEF ScanFacts
<1>. QED BY <1>1, <1>2, <1>3, <1>4

(* Two items of a bracket that are as near are one. *)
LEMMA OneAtADistance ==
  ASSUME IInv, NEW i \in Items, NEW j \in Items,
         ItemPrio(i) = ItemPrio(j), Distance(i) = Distance(j)
  PROVE  i = j
<1>1. Pos[i] = Pos[j]
  BY ScanFactsHold DEF ScanFacts
<1>. QED BY <1>1, PosAssumption, Brackets

LEMMA ScanFound == IInv => ScanFindsOne
<1> SUFFICES ASSUME IInv PROVE ScanFindsOne
  OBVIOUS
<1> DEFINE R == {i \in Items : Ready(i)}
<1>1. ASSUME ~NothingReady PROVE \E i \in Items : IsNext(i)
  <2>1. PICK i \in R : \A j \in R : ~PrioLess(ItemPrio(j), ItemPrio(i))
    BY <1>1, FirstPriority DEF NothingReady
  <2> DEFINE B == {j \in R : ItemPrio(j) = ItemPrio(i)}
             S == {Distance(j) : j \in B}
  <2>2. \A j \in B : Distance(j) \in Nat
    <3>1. \A j \in Items : BracketSize(ItemPrio(j)) \in Nat
      BY Brackets
    <3>. QED BY <3>1, ScanFactsHold DEF ScanFacts
  <2>3. S \in SUBSET Nat /\ S # {}
    BY <2>2
  <2>4. PICK j \in B : Min(S) = Distance(j)
    BY <2>3, MinOfNats
  <2>5. \A k \in B : Distance(j) <= Distance(k)
    BY <2>3, <2>4, MinOfNats
  <2>. QED BY <2>1, <2>4, <2>5, NearestIsNext
<1>2. ASSUME NEW i \in Items, NEW j \in Items, IsNext(i), IsNext(j) PROVE i = j
  <2>1. Ready(i) /\ Ready(j) /\ ItemPrio(i) = ItemPrio(j)
    BY <1>2, PrioTotal DEF IsNext
  <2>2. Distance(i) <= Distance(j) /\ Distance(j) <= Distance(i)
    BY <1>2, <2>1, NextIsNearest
  <2>3. Distance(i) \in Nat /\ Distance(j) \in Nat
    BY Brackets, ScanFactsHold DEF ScanFacts
  <2>. QED BY <2>1, <2>2, <2>3, OneAtADistance
<1>. QED BY <1>1, <1>2 DEF ScanFindsOne

(* Whenever an item is ready HandleNextItem finds one, and only one: the    *)
(* order of the items is decided by the priorities and rr_idx alone.        *)
THEOREM ScanIsDecided == Spec => []ScanFindsOne
<1>. QED BY ScanFound, SchedulerInvariant, PTL
=============================================================================
