------------------------- MODULE StateChartRunnerMC -------------------------
(***************************************************************************)
(* Instances of StateChartRunner: a chart with a state that ignores one of *)
(* the events and one that has two successors for it, two nested           *)
(* interrupts and two tasks.                                               *)
(***************************************************************************)
EXTENDS StateChartRunner, TLC

CONSTANTS i1, i2, t1, t2, s1, s2, e1, e2

Nested == (i1 :> 1) @@ (i2 :> 2)

OneLevel == [i \in Isrs |-> 1]

Table == (s1 :> ((e1 :> {s2}) @@ (e2 :> {}))) @@ (s2 :> ((e1 :> {s1, s2}) @@ (e2 :> {s1})))
=============================================================================
