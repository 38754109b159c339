---------------------------- MODULE SilScheduler ----------------------------
(***************************************************************************)
(* The discrete-event scheduler of the software-in-the-loop (SIL) build:   *)
(* sil::Scheduler with its ThreadItems and ExternalEventItems, and the     *)
(* rtos_sil event group whose Wait() blocks through it.                    *)
(*                                                                         *)
(* One control thread (the test program, through the C API or Python)      *)
(* calls Start, RunUntil, RunUntilNextTimePoint and Shutdown.  These call  *)
(* HandleNextItem, which hands the only execution token to a task thread   *)
(* (asynchronously: it waits until the task blocks again) or runs the      *)
(* callback of an external event itself.  The hand-over to a task, with    *)
(* its mutex, condition variables and flags, is module SilHandshake; here  *)
(* the token is the variable current.                                      *)
(***************************************************************************)
EXTENDS Integers, FiniteSets, FiniteSetsExt

CONSTANTS
  Threads,     \* the announced tasks
  Events,      \* the registered ExternalEventItems
  ThreadPrio,  \* [Threads -> Nat], the prio given to InitializeThread
  EventPrio,   \* [Events -> Nat], the prio given to RegisterExternalEvent
  Pos,         \* [Items -> Nat], place of an item within its bracket
  Bits,        \* the bits of the event groups (one group: a set of bits)
  EventBits,   \* [Events -> SUBSET Bits], set by the event's callback
  Waits,       \* the Wait() calls tasks make: bits, wait_for_all, clear_on_exit
  Masks,       \* the bit masks tasks pass to SetBits and ClearBits
  None,        \* std::nullopt, and the absence of a running task
  MaxTime,     \* bound: latest time point anything is scheduled at
  MaxWakeups   \* bound: largest max_wakeups passed to Shutdown

Items == Threads \cup Events
Time  == 0 .. MaxTime
Epoch == 0

(***************************************************************************)
(* Priorities are pairs compared lexicographically; a smaller pair is a    *)
(* higher priority, and every external event precedes every thread.        *)
(***************************************************************************)
ExternalEventPriorityLevel == 1
ThreadPriorityLevel        == 10

ItemPrio(i) == IF i \in Threads THEN <<ThreadPriorityLevel, ThreadPrio[i]>>
                                ELSE <<ExternalEventPriorityLevel, EventPrio[i]>>

PrioLess(p, q) == \/ p[1] < q[1]
                  \/ p[1] = q[1] /\ p[2] < q[2]

(***************************************************************************)
(* InitializePriorityBrackets groups the items by priority.  Within a      *)
(* bracket threads come in std::thread::id order and events in             *)
(* registration order: any order, hence the constant Pos.                  *)
(***************************************************************************)
Prios          == {ItemPrio(i) : i \in Items}
Bracket(p)     == {i \in Items : ItemPrio(i) = p}
BracketSize(p) == Cardinality(Bracket(p))

ASSUME ConstantsAssumption ==
  /\ IsFiniteSet(Threads) /\ IsFiniteSet(Events)
  /\ Threads \cap Events = {}
  /\ None \notin Items
  /\ ThreadPrio \in [Threads -> Nat] /\ EventPrio \in [Events -> Nat]
  /\ EventBits \in [Events -> SUBSET Bits]
  /\ Waits \subseteq [bits : SUBSET Bits, all : BOOLEAN, clear : BOOLEAN]
  /\ Masks \subseteq SUBSET Bits
  /\ MaxTime \in Nat /\ MaxWakeups \in Nat

ASSUME NoneAssumption == None \notin Nat /\ None \notin Waits

(* The positions of the items of a bracket are the indices of its deque. *)
ASSUME PosAssumption ==
  \A p \in Prios :
    /\ \A i \in Bracket(p) : Pos[i] \in 0 .. BracketSize(p) - 1
    /\ \A i, j \in Bracket(p) : Pos[i] = Pos[j] => i = j

VARIABLES
  now,        \* Scheduler::now
  state,      \* Scheduler::state
  rr_idx,     \* PriorityBracket::rr_idx, per priority
  running,    \* ThreadItem::running
  timeout,    \* ThreadItem::block_timeout_at
  sync,       \* ThreadItem::sync_primitive_block, the Wait() it is for
  pending,    \* ExternalEventItem::pending_action, its timestamp
  bits,       \* EventGroupState::bits
  current,    \* the item that runs: a task, or an event in its callback
  call,       \* the call the control thread is in
  limit,      \* its argument: time, upper_bound or max_wakeups
  inclusive,  \* RunUntil's second argument
  ran,        \* RunUntilNextTimePoint: an item ran during this call
  ret,        \* what RunUntilNextTimePoint returned last
  wakeups     \* Shutdown's counter

itemVars == <<running, timeout, sync, pending, bits, rr_idx>>
callVars == <<call, limit, inclusive, ran, ret, wakeups>>
vars     == <<now, state, itemVars, current, callVars>>

Failures == {"NoTimeoutLeft", "TooManyWakeups"}
Calls    == {"Idle", "RunUntil", "DrainNow", "DrainNext", "Shutdown"} \cup Failures

TypeOK ==
  /\ now \in Time
  /\ state \in {"Stopped", "Started", "Stopping"}
  /\ rr_idx \in [Prios -> Nat] /\ \A p \in Prios : rr_idx[p] < BracketSize(p)
  /\ running \in [Threads -> BOOLEAN]
  /\ timeout \in [Threads -> Time \cup {None}]
  /\ sync \in [Threads -> Waits \cup {None}]
  /\ pending \in [Events -> Time \cup {None}]
  /\ bits \in SUBSET Bits
  /\ current \in Items \cup {None}
  /\ call \in Calls
  /\ limit \in Nat
  /\ inclusive \in BOOLEAN /\ ran \in BOOLEAN /\ ret \in BOOLEAN
  /\ wakeups \in 0 .. MaxWakeups + 1

Init ==
  /\ now = Epoch /\ state = "Stopped"
  /\ rr_idx  = [p \in Prios |-> 0]
  /\ running = [t \in Threads |-> TRUE]
  /\ timeout = [t \in Threads |-> None]
  /\ sync    = [t \in Threads |-> None]
  /\ pending = [e \in Events |-> None]
  /\ bits = {} /\ current = None
  /\ call = "Idle" /\ limit = 0 /\ inclusive = FALSE
  /\ ran = FALSE /\ ret = FALSE /\ wakeups = 0

-----------------------------------------------------------------------------
(* Items as the scheduler sees them. *)

(* The predicate EventGroup::Wait hands to BlockOnSyncPrimitive, with the   *)
(* bits of the group it reads.                                              *)
CheckUnblock(w, set) == IF w.all THEN w.bits \subseteq set
                                 ELSE w.bits \cap set # {}

SyncUnblocked(t, set) == sync[t] # None /\ CheckUnblock(sync[t], set)

IsRunning(i)  == IF i \in Threads THEN running[i] ELSE pending[i] # None

GetTimeout(i) == IF i \in Threads THEN timeout[i] ELSE pending[i]

IsPending(i, set) == \/ GetTimeout(i) = now
                     \/ i \in Threads /\ SyncUnblocked(i, set)

(* HandleNextItem skips every other item. *)
Ready(i) == IsRunning(i) /\ IsPending(i, bits)

(* Mutated: an item that waits for bits is looked at when it times out.     *)
NothingReadyByTimeout == \A i \in Items : ~(IsRunning(i) /\ GetTimeout(i) = now)

NothingReady == \A i \in Items : ~Ready(i)

(***************************************************************************)
(* GetNextBlockTimeout considers the timeout of every item; with a minimum *)
(* priority it ignores those that are due now and of a lower priority.     *)
(* Timeouts is the set it takes the minimum of, for the default options.   *)
(***************************************************************************)
(* Mutated: only the tasks' timeouts count. *)
TimeoutsOfThreads == {GetTimeout(i) : i \in Threads} \ {None}

Timeouts == {GetTimeout(i) : i \in Items} \ {None}

TimeoutsSeenBy(t) ==
  {GetTimeout(i) : i \in {j \in Items :
     ~(GetTimeout(j) = now /\ PrioLess(ItemPrio(t), ItemPrio(j)))}} \ {None}

(* Mutated: any_of for all_of. *)
AnyThreadStopped == \E t \in Threads : ~running[t]

AllThreadsStopped == \A t \in Threads : ~running[t]

-----------------------------------------------------------------------------
(* HandleNextItem: brackets from high to low priority, and within a bracket *)
(* the first ready item from rr_idx on, cyclically.                         *)

(* Mutated: brackets in any order. *)
IsNextInBracket(i) ==
  LET p    == ItemPrio(i)
      n    == BracketSize(p)
      At(k, j) == Pos[j] = (k + rr_idx[p]) % n
  IN  /\ Ready(i)
      /\ \E k \in 0 .. n - 1 :
           /\ At(k, i)
           /\ \A j \in Bracket(p), l \in 0 .. k - 1 : At(l, j) => ~Ready(j)

IsNext(i) ==
  LET p    == ItemPrio(i)
      n    == BracketSize(p)
      At(k, j) == Pos[j] = (k + rr_idx[p]) % n
  IN  /\ Ready(i)
      /\ \A j \in Items : Ready(j) => ~PrioLess(ItemPrio(j), p)
      /\ \E k \in 0 .. n - 1 :
           /\ At(k, i)
           /\ \A j \in Bracket(p), l \in 0 .. k - 1 : At(l, j) => ~Ready(j)

(* Mutated: Wait() does not clear on exit. *)
RunThreadKeepsBits(t) ==
  /\ current' = t
  /\ timeout' = [timeout EXCEPT ![t] = None]
  /\ sync'    = [sync EXCEPT ![t] = None]
  /\ UNCHANGED <<bits, pending>>

(* ThreadItem::Run and the end of BlockUntilWoken on the woken thread.  A   *)
(* Wait() that clears on exit does so before it returns to the task.        *)
RunThread(t) ==
  /\ current' = t
  /\ timeout' = [timeout EXCEPT ![t] = None]
  /\ sync'    = [sync EXCEPT ![t] = None]
  /\ bits'    = IF SyncUnblocked(t, bits) /\ sync[t].clear
                THEN bits \ sync[t].bits
                ELSE bits
  /\ UNCHANGED pending

(* ExternalEventItem::Run: the callback runs while the action is pending.   *)
RunEvent(e) ==
  /\ current' = e
  /\ UNCHANGED <<bits, pending, timeout, sync>>

(* Mutated: rr_idx without the modulo, not moved, moved too far. *)
HandleNextItemNoWrap(i) ==
  /\ IsNext(i)
  /\ rr_idx' = [rr_idx EXCEPT ![ItemPrio(i)] = @ + 1]
  /\ IF i \in Threads THEN RunThread(i) ELSE RunEvent(i)
  /\ UNCHANGED <<running, state, now>>

HandleNextItemStays(i) ==
  /\ IsNext(i)
  /\ IF i \in Threads THEN RunThread(i) ELSE RunEvent(i)
  /\ UNCHANGED <<rr_idx, running, state, now>>

HandleNextItem(i) ==
  /\ IsNext(i)
  /\ rr_idx' = [rr_idx EXCEPT ![ItemPrio(i)] = (@ + 1) % BracketSize(ItemPrio(i))]
  /\ IF i \in Threads THEN RunThread(i) ELSE RunEvent(i)
  /\ UNCHANGED <<running, state, now>>

-----------------------------------------------------------------------------
(* The control thread. *)

Idle == current = None /\ call = "Idle"

Enter(c, arg, incl) ==
  /\ call' = c /\ limit' = arg /\ inclusive' = incl
  /\ ran' = FALSE /\ ret' = FALSE /\ wakeups' = 0

Return(c, value) ==
  /\ call' = c /\ limit' = 0 /\ inclusive' = FALSE
  /\ ran' = FALSE /\ ret' = value /\ wakeups' = 0

(* Start: past the latch every task waits for the epoch, then RunUntil.     *)
Start ==
  /\ Idle /\ state = "Stopped"
  /\ state' = "Started"
  /\ timeout' = [t \in Threads |-> Epoch]
  /\ Enter("RunUntil", Epoch, TRUE)
  /\ UNCHANGED <<now, rr_idx, running, sync, pending, bits, current>>

CallRunUntil(time, incl) ==
  /\ Idle /\ state # "Stopped"
  /\ Enter("RunUntil", time, incl)
  /\ UNCHANGED <<now, state, itemVars, current>>

InRunUntil == current = None /\ call = "RunUntil"

(* Mutated: inclusive is ignored. *)
RunUntilConditionExclusive == now < limit

RunUntilCondition == IF inclusive THEN now <= limit ELSE now < limit

RunUntilHandles(i) ==
  /\ InRunUntil /\ RunUntilCondition
  /\ HandleNextItem(i)
  /\ UNCHANGED callVars

RunUntilAdvances ==
  /\ InRunUntil /\ RunUntilCondition
  /\ NothingReady
  /\ IF Timeouts # {} /\ Min(Timeouts) <= limit
     THEN now' = Min(Timeouts) /\ UNCHANGED callVars
     ELSE now' = limit /\ Return("Idle", FALSE)
  /\ UNCHANGED <<state, itemVars, current>>

RunUntilReturns ==
  /\ InRunUntil /\ ~RunUntilCondition
  /\ Return("Idle", FALSE)
  /\ UNCHANGED <<now, state, itemVars, current>>

(* RunUntilNextTimePoint: DrainNow is its first loop, DrainNext its second. *)
(* Its callers pass a bound that is not in the past; the code relies on it. *)
CallRunUntilNextTimePoint(upper_bound) ==
  /\ Idle /\ state # "Stopped"
  /\ upper_bound >= now
  /\ Enter("DrainNow", upper_bound, FALSE)
  /\ UNCHANGED <<now, state, itemVars, current>>

DrainHandles(i) ==
  /\ current = None /\ call \in {"DrainNow", "DrainNext"}
  /\ HandleNextItem(i)
  /\ ran' = TRUE
  /\ UNCHANGED <<call, limit, inclusive, ret, wakeups>>

(* Mutated: the first loop stops before everything was handled. *)
DrainNowEndsEarly ==
  /\ current = None /\ call = "DrainNow"
  /\ IF ran THEN Return("Idle", TRUE) /\ UNCHANGED now
     ELSE IF Timeouts # {} /\ Min(Timeouts) <= limit
     THEN /\ now' = Min(Timeouts)
          /\ call' = "DrainNext"
          /\ UNCHANGED <<limit, inclusive, ran, ret, wakeups>>
     ELSE now' = limit /\ Return("Idle", FALSE)
  /\ UNCHANGED <<state, itemVars, current>>

DrainNowEnds ==
  /\ current = None /\ call = "DrainNow"
  /\ NothingReady
  /\ IF ran THEN Return("Idle", TRUE) /\ UNCHANGED now
     ELSE IF Timeouts # {} /\ Min(Timeouts) <= limit
     THEN /\ now' = Min(Timeouts)
          /\ call' = "DrainNext"
          /\ UNCHANGED <<limit, inclusive, ran, ret, wakeups>>
     ELSE now' = limit /\ Return("Idle", FALSE)
  /\ UNCHANGED <<state, itemVars, current>>

(* Mutated: the items of the next time point do not count. *)
DrainNextEndsFalse ==
  /\ current = None /\ call = "DrainNext"
  /\ NothingReady
  /\ Return("Idle", FALSE)
  /\ UNCHANGED <<now, state, itemVars, current>>

DrainNextEnds ==
  /\ current = None /\ call = "DrainNext"
  /\ NothingReady
  /\ Return("Idle", TRUE)
  /\ UNCHANGED <<now, state, itemVars, current>>

CallShutdown(max_wakeups) ==
  /\ Idle /\ state # "Stopped"
  /\ state' = "Stopping"
  /\ Enter("Shutdown", max_wakeups, FALSE)
  /\ UNCHANGED <<now, itemVars, current>>

InShutdown == current = None /\ call = "Shutdown" /\ wakeups <= limit

(* Mutated: wakeups are not counted. *)
ShutdownHandlesUncounted(i) ==
  /\ InShutdown /\ ~AllThreadsStopped
  /\ HandleNextItem(i)
  /\ UNCHANGED callVars

ShutdownHandles(i) ==
  /\ InShutdown /\ ~AllThreadsStopped
  /\ HandleNextItem(i)
  /\ wakeups' = wakeups + 1
  /\ UNCHANGED <<call, limit, inclusive, ran, ret>>

ShutdownAdvances ==
  /\ InShutdown /\ ~AllThreadsStopped
  /\ NothingReady
  /\ IF Timeouts # {} THEN now' = Min(Timeouts) /\ UNCHANGED callVars
                      ELSE Return("NoTimeoutLeft", FALSE) /\ UNCHANGED now
  /\ UNCHANGED <<state, itemVars, current>>

ShutdownReturns ==
  /\ InShutdown /\ AllThreadsStopped
  /\ Return("Idle", FALSE)
  /\ UNCHANGED <<now, state, itemVars, current>>

(* Thrown at the end of the iteration, once the woken task blocks again.    *)
ShutdownThrows ==
  /\ current = None /\ call = "Shutdown" /\ wakeups > limit
  /\ Return("TooManyWakeups", FALSE)
  /\ UNCHANGED <<now, state, itemVars, current>>

(* A peripheral registers an action for a test between two calls; like      *)
(* Uart::SimulateRx it refuses a time in the past and a second action.      *)
SimulateEvent(e, timestamp) ==
  /\ Idle
  /\ timestamp >= now /\ pending[e] = None
  /\ pending' = [pending EXCEPT ![e] = timestamp]
  /\ UNCHANGED <<now, state, rr_idx, running, timeout, sync, bits, current, callVars>>

-----------------------------------------------------------------------------
(* The callback of an external event, on the control thread. *)

(* A test that answers what it saw transmitted registers an action on       *)
(* another event.  (On this one RegisterPendingAction would throw: its      *)
(* action is still pending.)                                                *)
CallbackRegisters(e, f, timestamp) ==
  /\ current = e /\ f # e
  /\ timestamp >= now /\ pending[f] = None
  /\ pending' = [pending EXCEPT ![f] = timestamp]
  /\ UNCHANGED <<now, state, rr_idx, running, timeout, sync, bits, current, callVars>>

(* Mutated: no reset after the callback. *)
CallbackEndsPending(e) ==
  /\ current = e /\ current' = None
  /\ bits' = bits \cup EventBits[e]
  /\ UNCHANGED <<now, state, rr_idx, running, timeout, sync, pending, callVars>>

(* The callback ends by setting the event's bits; only then is the action   *)
(* reset.                                                                   *)
CallbackEnds(e) ==
  /\ current = e /\ current' = None
  /\ bits' = bits \cup EventBits[e]
  /\ pending' = [pending EXCEPT ![e] = None]
  /\ UNCHANGED <<now, state, rr_idx, running, timeout, sync, callVars>>

-----------------------------------------------------------------------------
(* The task that holds the token. *)

(* MarkCurrentItemBlocked, then waiting for the next Run of this item.      *)
Block(t, at, w) ==
  /\ current = t /\ current' = None
  /\ timeout' = [timeout EXCEPT ![t] = at]
  /\ sync'    = [sync EXCEPT ![t] = w]
  /\ UNCHANGED <<running, pending, rr_idx>>

BlockCurrentThreadUntil(t, time) ==
  /\ time >= now
  /\ Block(t, time, None)
  /\ UNCHANGED <<now, state, bits, callVars>>

(* EventGroup::Wait. *)
Wait(t, w, deadline) ==
  /\ deadline >= now
  /\ Block(t, deadline, w)
  /\ UNCHANGED <<now, state, bits, callVars>>

BlockCurrentThreadUntilNextTimepoint(t, upper_bound) ==
  /\ upper_bound >= now
  /\ LET seen == TimeoutsSeenBy(t)
     IN  IF seen = {} \/ Min(seen) > upper_bound THEN Block(t, upper_bound, None)
                                                 ELSE Block(t, Min(seen), None)
  /\ UNCHANGED <<now, state, bits, callVars>>

(***************************************************************************)
(* CheckSyncPrimitivePreemption, after bits changed: walk the brackets     *)
(* from the highest priority on, give up at the first one whose prio is    *)
(* <= that of the calling thread, yield if one before it holds a pending   *)
(* item.                                                                   *)
(***************************************************************************)
PreemptionWanted(t, set) ==
  \E i \in Items : /\ IsPending(i, set)
                   /\ \A p \in Prios : ~PrioLess(ItemPrio(i), p) =>
                                         PrioLess(ItemPrio(t), p)

CheckSyncPrimitivePreemption(t, set) ==
  IF PreemptionWanted(t, set) THEN Block(t, now, None)
  ELSE /\ current = t
       /\ UNCHANGED <<current, timeout, sync, running, pending, rr_idx>>

SetBits(t, mask) ==
  /\ bits' = bits \cup mask
  /\ CheckSyncPrimitivePreemption(t, bits \cup mask)
  /\ UNCHANGED <<now, state, callVars>>

ClearBits(t, mask) ==
  /\ bits' = bits \ mask
  /\ CheckSyncPrimitivePreemption(t, bits \ mask)
  /\ UNCHANGED <<now, state, callVars>>

(* A task starts a simulated transfer: RegisterPendingAction at Now() + d.  *)
StartTransfer(t, e, timestamp) ==
  /\ current = t
  /\ timestamp >= now /\ pending[e] = None
  /\ pending' = [pending EXCEPT ![e] = timestamp]
  /\ UNCHANGED <<now, state, rr_idx, running, timeout, sync, bits, current, callVars>>

(* The task's operator() returns: MarkStopped.                              *)
DeInitializeThread(t) ==
  /\ current = t /\ current' = None
  /\ running' = [running EXCEPT ![t] = FALSE]
  /\ UNCHANGED <<now, state, rr_idx, timeout, sync, pending, bits, callVars>>

-----------------------------------------------------------------------------
(* The specification. *)

(* One iteration of a loop of the control thread that runs an item. *)
SchedulerHandles(i) == \/ RunUntilHandles(i)
                       \/ DrainHandles(i)
                       \/ ShutdownHandles(i)

(* One that runs nothing: time advances, or the call ends. *)
LoopStep ==
  \/ RunUntilAdvances \/ RunUntilReturns
  \/ DrainNowEnds \/ DrainNextEnds
  \/ ShutdownAdvances \/ ShutdownReturns \/ ShutdownThrows

SchedulerStep == \/ LoopStep
                 \/ \E i \in Items : SchedulerHandles(i)
                 \/ \E e \in Events : CallbackEnds(e)

ControlCalls ==
  \/ Start
  \/ \E time \in Time, incl \in BOOLEAN : CallRunUntil(time, incl)
  \/ \E upper_bound \in Time : CallRunUntilNextTimePoint(upper_bound)
  \/ \E max_wakeups \in 0 .. MaxWakeups : CallShutdown(max_wakeups)
  \/ \E e \in Events, ts \in Time : SimulateEvent(e, ts)

(* A task gives the token back by blocking or by returning. *)
TaskBlocks(t) ==
  \/ \E time \in Time : BlockCurrentThreadUntil(t, time)
  \/ \E w \in Waits, deadline \in Time : Wait(t, w, deadline)
  \/ \E upper_bound \in Time :
       BlockCurrentThreadUntilNextTimepoint(t, upper_bound)
  \/ DeInitializeThread(t)

TaskStep(t) ==
  \/ TaskBlocks(t)
  \/ \E mask \in Masks : SetBits(t, mask) \/ ClearBits(t, mask)
  \/ \E e \in Events, ts \in Time : StartTransfer(t, e, ts)

(* An exception out of Shutdown ends the test program. *)
Terminated == call \in Failures /\ UNCHANGED vars

CallbackStep(e) == \/ CallbackEnds(e)
                   \/ \E f \in Events, ts \in Time : CallbackRegisters(e, f, ts)

(* Everything but the hand-over of the token to an item. *)
OtherSteps == \/ LoopStep \/ ControlCalls \/ Terminated
              \/ \E t \in Threads : TaskStep(t)
              \/ \E e \in Events : CallbackStep(e)

Next == OtherSteps \/ \E i \in Items : SchedulerHandles(i)

Spec == Init /\ [][Next]_vars

(***************************************************************************)
(* The control thread keeps executing inside a call, callbacks return, and *)
(* the code of a task reaches a blocking call or its end (it cannot be     *)
(* preempted, so otherwise the simulation hangs in it).  Nobody has to     *)
(* make a call.                                                            *)
(***************************************************************************)
Fairness == /\ WF_vars(SchedulerStep)
            /\ \A t \in Threads : WF_vars(TaskBlocks(t))

FairSpec == Spec /\ Fairness

-----------------------------------------------------------------------------
(* Properties. *)

(***************************************************************************)
(* IsPending compares for equality, so an item whose timeout is skipped    *)
(* would never run again.  No timeout is ever in the past.                 *)
(***************************************************************************)
NoMissedTimeout ==
  \A i \in Items : GetTimeout(i) # None => GetTimeout(i) >= now

(* A task that is blocked always has a timeout: Shutdown cannot run into    *)
(* its "no threads have a timeout set for unblocking" error.                *)
BlockedHaveTimeout ==
  /\ \A t \in Threads :
       state # "Stopped" /\ running[t] /\ current # t => timeout[t] # None
  /\ call # "NoTimeoutLeft"

(* No task waits for bits that are already set. *)
Quiescent == \A t \in Threads : ~SyncUnblocked(t, bits)

(* Between the calls of the control thread no task waits for bits that are  *)
(* already set: every call drains what its last events released.            *)
IdleQuiescent == Idle => Quiescent

(* Simulated time never goes back, and moves only when no item can run at   *)
(* the instant that is left.                                                *)
TimeAdvancesWhenDrained ==
  [][now' # now => now' > now /\ NothingReady]_vars

(* RunUntil(T) returns with everything before T simulated, with everything  *)
(* at T too if it is inclusive, and neither call moves time past its bound. *)
RunUntilContract ==
  [][/\ call = "RunUntil" /\ call' = "Idle" =>
          /\ now' >= limit
          /\ \A i \in Items : GetTimeout(i)' # None =>
               IF inclusive THEN GetTimeout(i)' > limit ELSE GetTimeout(i)' >= limit
     /\ call \in {"RunUntil", "DrainNow"} /\ now' # now => now' <= limit]_vars

(* RunUntilNextTimePoint returns whether any item was handled, and advances *)
(* time only if none was at the instant it was called in.                   *)
NextTimePointContract ==
  [][/\ call \in {"DrainNow", "DrainNext"} /\ call' = "Idle" => (ret' <=> ran)
     /\ call = "DrainNow" /\ now' # now => ~ran]_vars

(* A registered action runs at the time it was registered for, once: when   *)
(* its callback has run it is gone.  Nothing else takes it away or replaces *)
(* it, and the reset after a callback takes none away that the callback     *)
(* registered.                                                              *)
EventsRunOnTime ==
  [][\A e \in Events :
       /\ current # e /\ current' = e => pending[e] = now
       /\ current = e /\ current' # e => pending'[e] = None
       /\ pending[e] # None /\ pending'[e] # pending[e] =>
            current = e /\ current' # e]_vars

(* Bits that a Wait() with clear_on_exit was woken by wake nobody else: a   *)
(* second waiter for them stays blocked until they are set again.           *)
BitsWakeOneWaiter ==
  [][\A t, u \in Threads :
       (/\ current = None /\ current' = t /\ t # u
        /\ SyncUnblocked(t, bits) /\ sync[t].clear
        /\ sync[u] # None /\ sync[u].bits \in (SUBSET sync[t].bits) \ {{}})
       => sync'[u] = sync[u] /\ ~CheckUnblock(sync[u], bits')]_vars

(* The comment on CheckSyncPrimitivePreemption: a thread that changes bits  *)
(* can be preempted by higher-priority threads, so it does not keep the     *)
(* token past the change while one of them is ready.                        *)
SyncPreemption ==
  [][\A t \in Threads : current = t /\ current' = t /\ bits' # bits =>
       \A u \in Threads : PrioLess(ItemPrio(u), ItemPrio(t)) => ~Ready(u)']_vars

(* Shutdown ends, normally or with its error, whatever the tasks do.        *)
ShutdownTerminates == call = "Shutdown" ~> call # "Shutdown"

(* The scan of HandleNextItem finds exactly one item, or none when none is  *)
(* ready: which item runs is decided by the priorities and rr_idx alone.    *)
ScanFindsOne ==
  /\ NothingReady \/ \E i \in Items : IsNext(i)
  /\ \A i, j \in Items : IsNext(i) /\ IsNext(j) => i = j

(* What Shutdown still has to do: three steps for every wakeup it has left  *)
(* (advance time, hand over, wait for the item), and the rest of this round.*)
PresentWork == IF current # None THEN 2 ELSE IF NothingReady THEN 1 ELSE 0

ShutdownBudget == 3 * (limit + 1 - wakeups) + PresentWork

(* Until it ends every step of Shutdown's loop, every callback that ends    *)
(* and every task that gives the token back uses up part of that budget;    *)
(* nothing adds to it.                                                      *)
ShutdownProgress ==
  [][call = "Shutdown" /\ call' = "Shutdown" =>
       /\ ShutdownBudget' \in 0 .. ShutdownBudget
       /\ SchedulerStep \/ (\E t \in Threads : TaskBlocks(t))
            => ShutdownBudget' # ShutdownBudget]_vars

(* What has a planned occurrence: everything but the item that runs.        *)
Due(i) == IF current = i THEN None ELSE GetTimeout(i)

(* The scheduler implements a discrete-event simulation: a task or event    *)
(* has a planned occurrence while it has a timeout and its turn has not     *)
(* come, and is signalled while the bits it waits for are set.              *)
DE == INSTANCE DiscreteEvents WITH
        Items <- Items,
        Precedes <- LAMBDA i, j : PrioLess(ItemPrio(i), ItemPrio(j)),
        None <- None,
        clock <- now,
        due <- [i \in Items |-> Due(i)],
        signalled <- {t \in Threads : SyncUnblocked(t, bits)},
        turn <- current

DESpec == DE!Spec

-----------------------------------------------------------------------------
(* The inductive invariant behind the properties.                           *)

InLoop == call \in {"RunUntil", "DrainNow", "DrainNext", "Shutdown"}

(* What the calls keep about their arguments.  In the second loop of        *)
(* RunUntilNextTimePoint the item that time was advanced to runs first.     *)
CallInv ==
  /\ call \in {"RunUntil", "DrainNow", "DrainNext"} => limit \in Time
  /\ call = "Shutdown" => limit <= MaxWakeups /\ wakeups <= limit + 1
  /\ call = "DrainNow" => now <= limit
  /\ call = "DrainNext" /\ ~ran => current = None /\ ~NothingReady

(* Nothing happens before Start; an item runs only inside a call, an event  *)
(* at its time; a task that runs, or has returned, is blocked on nothing.   *)
TokenInv ==
  /\ state = "Stopped" =>
       /\ now = Epoch /\ call = "Idle" /\ current = None
       /\ \A t \in Threads : running[t] /\ timeout[t] = None /\ sync[t] = None
  /\ current # None => /\ IsRunning(current) /\ InLoop
                       /\ call = "RunUntil" => RunUntilCondition
  /\ current \in Events => pending[current] = now
  /\ \A t \in Threads : current = t \/ ~running[t] => timeout[t] = None /\ sync[t] = None

(* RunUntil leaves its loop with every released task served, also when it   *)
(* stops short of the items that are due at its exclusive bound.            *)
QuiescenceInv ==
  Idle \/ (call = "RunUntil" /\ ~RunUntilCondition) => Quiescent

IInv == /\ TypeOK /\ CallInv /\ TokenInv /\ QuiescenceInv
        /\ NoMissedTimeout /\ BlockedHaveTimeout
=============================================================================
