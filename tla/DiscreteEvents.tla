--------------------------- MODULE DiscreteEvents ---------------------------
(***************************************************************************)
(* What a discrete-event simulation promises, whatever runs in it.         *)
(*                                                                         *)
(* Every item may have one planned occurrence.  Simulated time stands      *)
(* still while anything can happen, then jumps, never beyond the next      *)
(* planned occurrence.  An item acts only when its planned time has come   *)
(* or when the condition it waits for has been signalled, and only if no   *)
(* item that precedes it can act.  At most one item holds the turn.        *)
(***************************************************************************)
EXTENDS Integers

CONSTANTS Items, Precedes(_, _), None

VARIABLES
  clock,      \* simulated time
  due,        \* [Items -> Nat \cup {None}], the planned occurrences
  signalled,  \* the items whose condition holds
  turn        \* the item that acts, None in between

vars == <<clock, due, signalled, turn>>

CanAct(i) == due[i] = clock \/ i \in signalled

Quiet == turn = None /\ \A i \in Items : ~CanAct(i)

(* Nothing is ever planned for the past, and no plan of others is undone. *)
PlansOnly(S) ==
  /\ \A i \in Items \ S : due[i] # None => due'[i] = due[i]
  /\ \A i \in Items : due'[i] # due[i] /\ due'[i] # None => due'[i] >= clock

Init ==
  /\ clock = 0 /\ turn = None
  /\ due = [i \in Items |-> None]
  /\ signalled = {}

(* Time jumps, over no planned occurrence. *)
Tick ==
  /\ Quiet
  /\ clock' > clock
  /\ \A i \in Items : due[i] # None => clock' <= due[i]
  /\ UNCHANGED <<due, signalled, turn>>

(* An item starts acting: its turn has come. *)
Occur(i) ==
  /\ turn = None /\ CanAct(i)
  /\ \A j \in Items : CanAct(j) => ~Precedes(j, i)
  /\ due'[i] = None
  /\ i \notin signalled'
  /\ turn' = i
  /\ PlansOnly({i})
  /\ UNCHANGED clock

(* The item that acts signals others, plans, and ends its turn. *)
Act(i) ==
  /\ turn = i
  /\ turn' \in {i, None}
  /\ due[i] = None
  /\ turn' = i => due'[i] = None
  /\ PlansOnly({})
  /\ UNCHANGED clock

(* The world outside plans occurrences while nothing acts. *)
Plan ==
  /\ turn = None
  /\ PlansOnly({})
  /\ UNCHANGED <<clock, signalled, turn>>

Next == Tick \/ Plan \/ \E i \in Items : Occur(i) \/ Act(i)

Spec == Init /\ [][Next]_vars
=============================================================================
