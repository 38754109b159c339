---------------------------- MODULE SilHandshake ----------------------------
(***************************************************************************)
(* How the control thread of the SIL scheduler and the task threads hand   *)
(* the execution token to each other: sys_mtx, the startup latch, one      *)
(* condition variable and wakeup_requested flag per task, and the flag     *)
(* running_thread_is_blocked.  SilScheduler takes the result for granted:  *)
(* one thread executes at a time.  Here every access to those objects is a *)
(* step of its own; times, priorities and bits are left out, so any task   *)
(* that still runs may be picked.                                          *)
(*                                                                         *)
(* The items' fields (block_timeout_at, sync_primitive_block, running) are *)
(* plain members: the control thread reads them without the mutex, and     *)
(* only the protocol keeps those reads apart from the tasks' writes.       *)
(***************************************************************************)
EXTENDS Integers, FiniteSets

CONSTANTS
  Threads,   \* the tasks, each of which announced itself
  Control,   \* the control thread
  None       \* nobody holds sys_mtx, nobody was picked

ASSUME ThreadsAssumption ==
  IsFiniteSet(Threads) /\ Control \notin Threads /\ None \notin Threads \cup {Control}

VARIABLES
  mtx,        \* holder of sys_mtx
  latch,      \* startup_latch's counter
  threads,    \* the keys of Scheduler::threads
  blocked,    \* running_thread_is_blocked
  wakeup,     \* ThreadItem::wakeup_requested, per task
  running,    \* ThreadItem::running, per task
  picked,     \* the item HandleNextItem runs
  cpc,        \* where the control thread is
  pc          \* where each task thread is

vars == <<mtx, latch, threads, blocked, wakeup, running, picked, cpc, pc>>

ControlLabels == {"boot", "latch", "relock", "setup", "scan", "run", "await", "event"}

TaskLabels == {"create", "emplace", "lookup", "lock", "initialize", "mark", "check",
               "sleep", "body", "stop", "leave", "done"}

TypeOK ==
  /\ mtx \in Threads \cup {Control, None}
  /\ latch \in Nat
  /\ threads \in SUBSET Threads
  /\ blocked \in BOOLEAN
  /\ wakeup \in [Threads -> BOOLEAN]
  /\ running \in [Threads -> BOOLEAN]
  /\ picked \in Threads \cup {None}
  /\ cpc \in ControlLabels
  /\ pc \in [Threads -> TaskLabels]

(* Mutated: one announcement more than there are tasks. *)
InitAnnouncedTooMany ==
  /\ mtx = Control
  /\ latch = Cardinality(Threads) + 1
  /\ threads = {}
  /\ blocked = FALSE
  /\ wakeup = [t \in Threads |-> FALSE]
  /\ running = [t \in Threads |-> TRUE]
  /\ picked = None
  /\ cpc = "boot"
  /\ pc = [t \in Threads |-> "create"]

(* The scheduler is constructed holding sys_mtx (sys_lk).                   *)
Init ==
  /\ mtx = Control
  /\ latch = Cardinality(Threads)
  /\ threads = {}
  /\ blocked = FALSE
  /\ wakeup = [t \in Threads |-> FALSE]
  /\ running = [t \in Threads |-> TRUE]
  /\ picked = None
  /\ cpc = "boot"
  /\ pc = [t \in Threads |-> "create"]

-----------------------------------------------------------------------------
(* The control thread: Start. *)

ControlGoes(from, to) == cpc = from /\ cpc' = to

(* The latch is created with the announced count, then sys_lk.unlock().     *)
CreateLatch ==
  /\ ControlGoes("boot", "latch")
  /\ mtx' = None
  /\ UNCHANGED <<latch, threads, blocked, wakeup, running, picked, pc>>

(* Mutated: Start does not wait for the latch. *)
SkipLatch ==
  /\ ControlGoes("latch", "relock")
  /\ UNCHANGED <<mtx, latch, threads, blocked, wakeup, running, picked, pc>>

AwaitLatch ==
  /\ ControlGoes("latch", "relock")
  /\ latch = 0
  /\ UNCHANGED <<mtx, latch, threads, blocked, wakeup, running, picked, pc>>

Relock ==
  /\ ControlGoes("relock", "setup")
  /\ mtx = None /\ mtx' = Control
  /\ UNCHANGED <<latch, threads, blocked, wakeup, running, picked, pc>>

(* InitializePriorityBrackets under the mutex, then unlock and RunUntil.    *)
SetUp ==
  /\ ControlGoes("setup", "scan")
  /\ mtx' = None
  /\ UNCHANGED <<latch, threads, blocked, wakeup, running, picked, pc>>

(* HandleNextItem: the scan reads the fields of the items, picks one that   *)
(* is running, and clears running_thread_is_blocked.                        *)
Pick(t) ==
  /\ ControlGoes("scan", "run")
  /\ running[t]
  /\ picked' = t
  /\ blocked' = FALSE
  /\ UNCHANGED <<mtx, latch, threads, wakeup, running, pc>>

(* ThreadItem::Run: wakeup_requested and notify_all, without the mutex.     *)
Run(t) ==
  /\ ControlGoes("run", "await")
  /\ picked = t
  /\ wakeup' = [wakeup EXCEPT ![t] = TRUE]
  /\ UNCHANGED <<mtx, latch, threads, blocked, running, picked, pc>>

(* Mutated: the control thread does not wait. *)
DoNotAwaitBlocked ==
  /\ ControlGoes("await", "scan")
  /\ picked' = None
  /\ UNCHANGED <<mtx, latch, threads, blocked, wakeup, running, pc>>

(* running_thread_is_blocked.wait(false). *)
AwaitBlocked ==
  /\ ControlGoes("await", "scan")
  /\ blocked
  /\ picked' = None
  /\ UNCHANGED <<mtx, latch, threads, blocked, wakeup, running, pc>>

(* An external event runs on the control thread itself (Synchronous).       *)
RunEvent ==
  /\ ControlGoes("scan", "event")
  /\ blocked' = FALSE
  /\ UNCHANGED <<mtx, latch, threads, wakeup, running, picked, pc>>

EventRan ==
  /\ ControlGoes("event", "scan")
  /\ blocked' = TRUE
  /\ UNCHANGED <<mtx, latch, threads, wakeup, running, picked, pc>>

-----------------------------------------------------------------------------
(* A task thread. *)

Goes(t, from, to) == pc[t] = from /\ pc' = [pc EXCEPT ![t] = to]

Acquire(t) == mtx = None /\ mtx' = t

(* InitializeThread: the scoped_lock around threads.emplace. *)
LockForEmplace(t) ==
  /\ Goes(t, "create", "emplace")
  /\ Acquire(t)
  /\ UNCHANGED <<latch, threads, blocked, wakeup, running, picked, cpc>>

Emplace(t) ==
  /\ Goes(t, "emplace", "lookup")
  /\ threads' = threads \cup {t}
  /\ mtx' = None
  /\ UNCHANGED <<latch, blocked, wakeup, running, picked, cpc>>

(* GetCurrentThread searches the map after the scoped_lock was released.    *)
Lookup(t) ==
  /\ Goes(t, "lookup", "lock")
  /\ t \in threads
  /\ UNCHANGED <<mtx, latch, threads, blocked, wakeup, running, picked, cpc>>

(* ThreadItem::Initialize. *)
LockForGood(t) ==
  /\ Goes(t, "lock", "initialize")
  /\ Acquire(t)
  /\ UNCHANGED <<latch, threads, blocked, wakeup, running, picked, cpc>>

CountDown(t) ==
  /\ Goes(t, "initialize", "mark")
  /\ latch' = latch - 1
  /\ UNCHANGED <<mtx, threads, blocked, wakeup, running, picked, cpc>>

(* Mutated: nobody is told that the item is blocked; every block counts     *)
(* the latch down.                                                          *)
MarkNothing(t) ==
  /\ Goes(t, "mark", "check")
  /\ UNCHANGED <<mtx, latch, threads, blocked, wakeup, running, picked, cpc>>

MarkAndCountDown(t) ==
  /\ Goes(t, "mark", "check")
  /\ blocked' = TRUE
  /\ latch' = latch - 1
  /\ UNCHANGED <<mtx, threads, wakeup, running, picked, cpc>>

(* BlockUntilWoken: MarkCurrentItemBlocked, still holding the mutex.        *)
MarkCurrentItemBlocked(t) ==
  /\ Goes(t, "mark", "check")
  /\ blocked' = TRUE
  /\ UNCHANGED <<mtx, latch, threads, wakeup, running, picked, cpc>>

(* Mutated: the flag is read, not exchanged. *)
WakeUpKeepsFlag(t) ==
  /\ Goes(t, "check", "body")
  /\ wakeup[t]
  /\ UNCHANGED <<mtx, latch, threads, blocked, wakeup, running, picked, cpc>>

(* wait_for evaluates its predicate under the mutex: exchange(false).  When *)
(* it holds the block fields are cleared and the task's code continues.     *)
WakeUp(t) ==
  /\ Goes(t, "check", "body")
  /\ wakeup[t]
  /\ wakeup' = [wakeup EXCEPT ![t] = FALSE]
  /\ UNCHANGED <<mtx, latch, threads, blocked, running, picked, cpc>>

FallAsleep(t) ==
  /\ Goes(t, "check", "sleep")
  /\ ~wakeup[t]
  /\ mtx' = None
  /\ UNCHANGED <<latch, threads, blocked, wakeup, running, picked, cpc>>

(* Notified, or 10 ms have passed: reacquire the mutex, check again.        *)
Poll(t) ==
  /\ Goes(t, "sleep", "check")
  /\ Acquire(t)
  /\ UNCHANGED <<latch, threads, blocked, wakeup, running, picked, cpc>>

(* The task's code reaches a blocking call, which writes the block fields.  *)
BodyBlocks(t) ==
  /\ Goes(t, "body", "mark")
  /\ UNCHANGED <<mtx, latch, threads, blocked, wakeup, running, picked, cpc>>

(* Or it returns: DeInitializeThread, MarkStopped in two steps.             *)
BodyReturns(t) ==
  /\ Goes(t, "body", "stop")
  /\ running' = [running EXCEPT ![t] = FALSE]
  /\ UNCHANGED <<mtx, latch, threads, blocked, wakeup, picked, cpc>>

ReleaseForGood(t) ==
  /\ Goes(t, "stop", "leave")
  /\ mtx' = None
  /\ UNCHANGED <<latch, threads, blocked, wakeup, running, picked, cpc>>

Leave(t) ==
  /\ Goes(t, "leave", "done")
  /\ blocked' = TRUE
  /\ UNCHANGED <<mtx, latch, threads, wakeup, running, picked, cpc>>

-----------------------------------------------------------------------------
ControlStep == \/ CreateLatch \/ AwaitLatch \/ Relock \/ SetUp
               \/ \E t \in Threads : Pick(t) \/ Run(t)
               \/ AwaitBlocked \/ RunEvent \/ EventRan

TaskStep(t) == \/ LockForEmplace(t) \/ Emplace(t) \/ Lookup(t)
               \/ LockForGood(t) \/ CountDown(t)
               \/ MarkCurrentItemBlocked(t)
               \/ WakeUp(t) \/ FallAsleep(t) \/ Poll(t)
               \/ BodyBlocks(t) \/ BodyReturns(t)
               \/ ReleaseForGood(t) \/ Leave(t)

(* Every task has returned and the control thread scans no more.            *)
Finished == /\ \A t \in Threads : pc[t] = "done"
            /\ cpc = "scan"
            /\ UNCHANGED vars

Next == ControlStep \/ Finished \/ \E t \in Threads : TaskStep(t)

Spec == Init /\ [][Next]_vars

(***************************************************************************)
(* Threads keep running.  sys_mtx is contended only by tasks that poll it  *)
(* every 10 ms and hold it for a few instructions, so a thread that keeps  *)
(* trying gets it: strong fairness for the acquisitions.                   *)
(***************************************************************************)
Fairness ==
  /\ WF_vars(ControlStep) /\ SF_vars(Relock)
  /\ \A t \in Threads :
       /\ WF_vars(TaskStep(t))
       /\ SF_vars(LockForEmplace(t)) /\ SF_vars(LockForGood(t)) /\ SF_vars(Poll(t))

FairSpec == Spec /\ Fairness

-----------------------------------------------------------------------------
(* Properties. *)

(* Labels at which a task reads or writes the plain fields of its item or   *)
(* runs its own code.                                                       *)
TouchesItem(t) == pc[t] \in {"initialize", "body", "stop"}

(* The control thread scans the items only while no task is in its own code *)
(* or changes its item, although the scan takes no lock.  A task that was   *)
(* woken but has not got the mutex yet counts: its item changes next.       *)
ScanIsExclusive ==
  cpc \in {"scan", "event"} => \A t \in Threads : ~TouchesItem(t) /\ ~wakeup[t]

(* Only the task that was picked runs, and only while the control thread    *)
(* waits for it: no stale wakeup, no second task.                           *)
OnlyPickedTaskRuns ==
  \A t \in Threads : pc[t] \in {"body", "stop", "leave"} =>
                       picked = t /\ cpc = "await" /\ ~blocked

(* When the brackets are built every task is registered and parked.         *)
BracketsAreComplete ==
  cpc \in {"setup", "scan"} =>
    threads = Threads /\ \A t \in Threads : pc[t] \in {"check", "sleep", "done"}

(* The comment on Scheduler: only one task is allowed to run at a time.     *)
(* Taken literally it covers InitializeThread, where a task searches the    *)
(* map of threads while another one inserts into it.                        *)
OneTaskAtATime ==
  \A t, u \in Threads :
    pc[t] \in {"emplace", "lookup", "initialize", "body"} /\ pc[u] \in {"emplace", "body"}
      => t = u

(* A task that is woken runs and gives the token back, even if notify_all   *)
(* comes before it sleeps: the flag and the 10 ms poll make up for it.      *)
HandOverCompletes == cpc = "run" ~> cpc = "scan"

(* All announced tasks get through InitializeThread and Start goes on.      *)
StartCompletes == <>(cpc = "scan")

-----------------------------------------------------------------------------
(* The inductive invariant: who holds the mutex, how far startup has come,  *)
(* and where the picked task is while the control thread waits for it.      *)

Holding == {"emplace", "initialize", "mark", "check", "body", "stop"}

NotCounted == {"create", "emplace", "lookup", "lock", "initialize"}

Parked(t) == pc[t] \in {"check", "sleep", "done"} /\ ~wakeup[t]

Starting == {"boot", "latch", "relock", "setup"}

MutexInv ==
  /\ \A t \in Threads : pc[t] \in Holding <=> mtx = t
  /\ cpc \in {"boot", "setup"} <=> mtx = Control

RegistryInv ==
  /\ \A t \in Threads : pc[t] \notin {"create", "emplace"} => t \in threads
  /\ \A t \in Threads : running[t] <=> pc[t] \notin {"stop", "leave", "done"}

StartupInv ==
  /\ cpc \in {"boot", "latch"} => latch = Cardinality({t \in Threads : pc[t] \in NotCounted})
  /\ cpc \notin {"boot", "latch"} => \A t \in Threads : pc[t] \notin NotCounted
  /\ cpc \in Starting =>
       \A t \in Threads : pc[t] \notin {"body", "stop", "leave", "done"} /\ ~wakeup[t]

(* The picked task t has been released and has not given the token back. *)
HasToken(t) == \/ wakeup[t] /\ pc[t] \in {"check", "sleep"}
               \/ ~wakeup[t] /\ pc[t] \in {"body", "mark", "stop", "leave"}

TokenInv ==
  /\ cpc \in {"setup", "scan", "run", "event"} =>
       \A t \in Threads : Parked(t)
  /\ cpc = "run" => picked \in Threads /\ running[picked] /\ ~blocked
  /\ cpc = "await" =>
       /\ picked \in Threads
       /\ \A t \in Threads \ {picked} : Parked(t)
       /\ IF blocked THEN Parked(picked) ELSE HasToken(picked)

IInv == TypeOK /\ MutexInv /\ RegistryInv /\ StartupInv /\ TokenInv

-----------------------------------------------------------------------------
(* The safety half of StartCompletes and HandOverCompletes.                 *)

(* Where a task can take a step: what its actions ask for. *)
CanStep(t) ==
  \/ pc[t] \in {"emplace", "initialize", "mark", "check", "body", "stop", "leave"}
  \/ pc[t] = "lookup" /\ t \in threads
  \/ pc[t] \in {"create", "lock", "sleep"} /\ mtx = None

(* It holds sys_mtx and gives it up by itself: it is not in a task's code.  *)
LetsGo(t) == /\ mtx = t
             /\ pc[t] \in {"emplace", "initialize", "mark", "check"} /\ ~wakeup[t]

(* Whatever the control thread waits for comes from a task that can go on,  *)
(* or from one kept only by a task that gives up the mutex by itself: no    *)
(* two threads wait for each other.                                         *)
NobodyIsStuck ==
  /\ cpc = "latch" =>
       /\ latch # 0 => \E t \in Threads : pc[t] \in NotCounted
       /\ \A t \in Threads : pc[t] \in NotCounted =>
            CanStep(t) \/ \E u \in Threads \ {t} : LetsGo(u)
  /\ cpc = "relock" => mtx = None \/ \E u \in Threads : LetsGo(u)
  /\ cpc = "await" /\ ~blocked =>
       CanStep(picked) \/ \E u \in Threads \ {picked} : LetsGo(u)

(* How many of its own steps the released task is from giving the token back. *)
StepsFrom == [sleep |-> 5, check |-> 4, body |-> 3, stop |-> 2, leave |-> 1, mark |-> 1]

StepsLeft == IF blocked THEN 0 ELSE StepsFrom[pc[picked]]

(* Every step of the released task brings the token closer to the control   *)
(* thread, and no step of another thread takes it further away.             *)
HandOverProgress ==
  [][cpc = "await" /\ cpc' = "await" =>
       /\ StepsLeft' \in 0 .. StepsLeft
       /\ ~blocked /\ TaskStep(picked) => StepsLeft' # StepsLeft]_vars
=============================================================================
