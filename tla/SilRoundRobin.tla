---------------------------- MODULE SilRoundRobin ----------------------------
(***************************************************************************)
(* SilScheduler with a history variable that observes how HandleNextItem   *)
(* shares the token among the items of one priority bracket.               *)
(*                                                                         *)
(* rr_idx moves by one per run of the bracket, whichever item ran; it is   *)
(* not set behind the item that ran.  bypassed[i] counts for how many runs *)
(* of its bracket in a row item i was ready and another item was taken.    *)
(***************************************************************************)
EXTENDS SilScheduler

VARIABLE bypassed

rrVars == <<vars, bypassed>>

RRTypeOK == bypassed \in [Items -> Nat]

RRInit == Init /\ bypassed = [i \in Items |-> 0]

(* Item i is handed the token: in its bracket the ready ones were passed    *)
(* over once more, the others start again.                                  *)
CountBypass(i) ==
  bypassed' = [j \in Items |->
                 IF ItemPrio(j) # ItemPrio(i) THEN bypassed[j]
                 ELSE IF j # i /\ Ready(j) THEN bypassed[j] + 1
                 ELSE 0]

RRNext ==
  \/ OtherSteps /\ UNCHANGED bypassed
  \/ \E i \in Items : SchedulerHandles(i) /\ CountBypass(i)

RRSpec == RRInit /\ [][RRNext]_rrVars

(* The number of turns the scan of HandleNextItem takes to reach item i.    *)
Distance(i) ==
  CHOOSE k \in 0 .. BracketSize(ItemPrio(i)) - 1 :
    Pos[i] = (k + rr_idx[ItemPrio(i)]) % BracketSize(ItemPrio(i))

(* The round robin is fair: in a bracket of n items, a ready item is passed *)
(* over at most n - 1 times in a row, although rr_idx does not follow the   *)
(* item that ran.                                                           *)
BoundedBypass ==
  \A i \in Items : bypassed[i] <= BracketSize(ItemPrio(i)) - 1

(* Why: an item that has been passed over k times is at least k turns       *)
(* closer to the start of the scan.                                         *)
BypassBudget ==
  \A i \in Items : bypassed[i] + Distance(i) <= BracketSize(ItemPrio(i)) - 1
=============================================================================
