---------------------------- MODULE EventMailbox ----------------------------
(***************************************************************************)
(* What a state chart with a mailbox promises to its callers: an event is  *)
(* either applied on the spot, or accepted and delivered later, exactly    *)
(* once and in the order of acceptance.  Besides the event that waits, one *)
(* may be on its way to the chart.                                         *)
(***************************************************************************)
CONSTANTS States, Initial, Events, JumpTable, None

VARIABLES chart, current, waiting

vars == <<chart, current, waiting>>

Init == chart = Initial /\ current = None /\ waiting = None

(* The chart takes a transition for event e, or ignores it. *)
Transit(e) ==
  \/ chart' \in JumpTable[chart][e]
  \/ JumpTable[chart][e] = {} /\ UNCHANGED chart

Accept(e) ==
  /\ waiting = None /\ waiting' = e
  /\ UNCHANGED <<chart, current>>

Take ==
  /\ current = None /\ waiting # None
  /\ current' = waiting /\ waiting' = None
  /\ UNCHANGED chart

Deliver ==
  /\ current # None /\ current' = None
  /\ Transit(current)
  /\ UNCHANGED waiting

(* Take and Deliver at once. *)
DeliverWaiting ==
  /\ current = None /\ waiting # None
  /\ waiting' = None
  /\ Transit(waiting)
  /\ UNCHANGED current

(* An event that was not enqueued does not come between an event on its way *)
(* and the chart.                                                           *)
Apply(e) ==
  /\ current = None
  /\ Transit(e)
  /\ UNCHANGED <<current, waiting>>

Next == \/ Take \/ Deliver \/ DeliverWaiting
        \/ \E e \in Events : Accept(e) \/ Apply(e)

Spec == Init /\ [][Next]_vars
=============================================================================
