--------------------------- MODULE SilSchedulerMC ---------------------------
(***************************************************************************)
(* Instances of SilScheduler: two tasks t1, t2, with equal or with         *)
(* distinct priorities, and the external event e1, or e1 and e2.           *)
(***************************************************************************)
EXTENDS SilScheduler, TLC

CONSTANTS t1, t2, e1, e2, b1, b2

EqualPrio    == [t \in Threads |-> 0]
DistinctPrio == (t1 :> 0) @@ (t2 :> 1)
OneEventPrio == [e \in Events |-> 0]
(* Both tasks share a bracket, the event is alone in its own. *)
SharedPos == (t1 :> 0) @@ (t2 :> 1) @@ (e1 :> 0)
(* Every task is alone in its bracket, the events share one. *)
EventsPos == (e2 :> 1) @@ [i \in Items |-> 0]

OneBitEvent   == [e \in Events |-> {b1}]
AnyClearing == {[bits |-> {b1}, all |-> FALSE, clear |-> TRUE]}
MixedWaits  == {[bits |-> {b1, b2}, all |-> TRUE, clear |-> TRUE],
                [bits |-> {b1}, all |-> FALSE, clear |-> FALSE]}

OneBitMask  == {{b1}}
OneOfTwo    == {{b2}}
NoMasks     == {}

(***************************************************************************)
(* Tasks and transfers that move on: whoever blocks or registers an action *)
(* does so for a later time than now.  (Nothing in the scheduler demands   *)
(* it; without it two tasks can keep an instant alive forever.)            *)
(***************************************************************************)
Punctual ==
  /\ \A t \in Threads : current = t /\ timeout'[t] # None => timeout'[t] > now
  /\ \A e \in Events : pending'[e] \notin {None, pending[e]} => pending'[e] > now

(* A task that checks StopRequested() whenever it runs: once the scheduler  *)
(* is stopping it returns instead of blocking again.  The test no longer    *)
(* answers in callbacks then.                                               *)
Cooperative ==
  state = "Stopping" =>
    /\ \A t \in Threads : current = t => ~running'[t]
    /\ current \in Events => \A f \in Events \ {current} : pending'[f] = pending[f]

Disciplined == Punctual /\ Cooperative

(* For runs with the ACTION_CONSTRAINT Disciplined, under which every step  *)
(* is one of Next /\ Disciplined.  (As a constraint it leaves the actions   *)
(* of Next visible to TLC's coverage.)                                      *)
DisciplinedSpec ==
  /\ Init /\ [][Next]_vars
  /\ WF_vars(SchedulerStep /\ Disciplined)
  /\ \A t \in Threads : WF_vars(TaskBlocks(t) /\ Disciplined)

(* If every task and every transfer moves on, RunUntil and                  *)
(* RunUntilNextTimePoint return: no instant goes on forever.                *)
RunsTerminate == call \in {"RunUntil", "DrainNow", "DrainNext"} ~> call = "Idle"

(* With cooperative tasks Shutdown wakes each task once.  Given as many     *)
(* wakeups as there are tasks and events it ends with all tasks stopped.    *)
ShutdownStopsTasks ==
  (call = "Shutdown" /\ limit >= Cardinality(Items))
    ~> (call = "Idle" /\ \A t \in Threads : ~running[t])
=============================================================================
