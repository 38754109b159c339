--------------------------- MODULE SilRoundRobinMC ---------------------------
(* Three tasks in one bracket, and an event that may release all of them.   *)
EXTENDS SilRoundRobin, TLC

CONSTANTS t1, t2, t3, e1, b1

EqualPrio    == [t \in Threads |-> 0]
OneEventPrio == [e \in Events |-> 0]
SharedPos    == (t1 :> 0) @@ (t2 :> 1) @@ (t3 :> 2) @@ (e1 :> 0)
OneBitEvent  == [e \in Events |-> {b1}]
KeepingWaits == {[bits |-> {b1}, all |-> FALSE, clear |-> FALSE]}
OneBitMask   == {{b1}}
=============================================================================
