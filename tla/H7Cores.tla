------------------------------- MODULE H7Cores -------------------------------
(***************************************************************************)
(* The two cores of the STM32H7 (boot.h, hardware_semaphore.h,             *)
(* hardware_semaphore.cpp): the Cortex-M4 stops until the Cortex-M7 wakes  *)
(* it with a hardware semaphore; then the cores notify each other with a   *)
(* second one.                                                             *)
(***************************************************************************)
EXTENDS Naturals

VARIABLES
  use,      \* the program: how the M7 boots ("waits", "limited" or "rushes"),
            \* and how often each core notifies the other, a bound
  cm7,      \* where the M7 is
  cm4,      \* where the M4 is
  d2,       \* the domain of the M4, "on" or "stop"
  event,    \* the M4's event register
  holder,   \* the core that has taken the semaphore, or "none"
  isr,      \* the cores whose status flag of the semaphore is up
  ier,      \* the cores whose notification is enabled
  listens,  \* the cores that have enabled it once, as the other core knows
  sender,   \* where each core is in NotifyOtherCore
  serving,  \* the cores in the handler of the HSEM interrupt
  unseen,   \* notifications that the callback of a core has not followed
  posted    \* notifications of each core so far

bootVars == <<cm7, cm4, d2, event>>
hsemVars == <<holder, isr, ier, listens, sender, serving, unseen, posted>>
coreVars == <<use, bootVars, hsemVars>>

Cores == {"cm7", "cm4"}
Other(c) == IF c = "cm7" THEN "cm4" ELSE "cm7"

CoresInit(uses) ==
    /\ use \in uses
    /\ cm7 = "ready?" /\ cm4 = "reset" /\ d2 = "on" /\ event = FALSE
    /\ holder = "none" /\ isr = {} /\ ier = {} /\ listens = {} /\ serving = {}
    /\ sender = [c \in Cores |-> "idle"]
    /\ unseen = [c \in Cores |-> FALSE] /\ posted = [c \in Cores |-> 0]

Awake(c) == IF c = "cm7" THEN cm7 = "up" ELSE cm4 = "up"

-----------------------------------------------------------------------------
(* Mutants: the flag is read the other way; a time-out returns true.       *)
WaitUntilCortexM4On ==
    /\ cm7 = "ready?" /\ d2 = "on" /\ cm7' = "wake"
    /\ UNCHANGED <<use, cm4, d2, event, hsemVars>>
WaitForCortexM4InVain ==
    /\ cm7 = "ready?" /\ (d2 = "stop" \/ use.boots # "waits") /\ cm7' = "wake"
    /\ UNCHANGED <<use, cm4, d2, event, hsemVars>>

(* WaitUntilCortexM4Ready, with or without a limit on the cycles; a        *)
(* program that rushes does not call it or ignores its result.             *)
WaitUntilCortexM4Ready ==
    /\ cm7 = "ready?"
    /\ \/ d2 = "stop" /\ cm7' = "wake"
       \/ use.boots = "limited" /\ cm7' = "failed"
       \/ use.boots = "rushes" /\ cm7' = "wake"
    /\ UNCHANGED <<use, cm4, d2, event, hsemVars>>

(* WakeUpCortexM4: notify, then wait for the clock of the domain. *)
WakeUpCortexM4 ==
    /\ cm7 = "wake" /\ cm7' = "woken?"
    /\ event' = (event \/ cm4 # "reset")
    /\ UNCHANGED <<use, cm4, d2, hsemVars>>
CortexM4Woken ==
    /\ cm7 = "woken?"
    /\ \/ d2 = "on" /\ cm7' = "up"
       \/ use.boots = "limited" /\ cm7' = "failed"
    /\ UNCHANGED <<use, cm4, d2, event, hsemVars>>

(* WaitUntilWokenByCortexM7: EnableNotification, then                      *)
(* EnterStopModeUntilNotified, which forgets the events so far.            *)
BootNotification ==
    /\ cm4 = "reset" /\ cm4' = "armed"
    /\ UNCHANGED <<use, cm7, d2, event, hsemVars>>
ClearPendingEvent ==
    /\ cm4 = "armed" /\ cm4' = "cleared" /\ event' = FALSE
    /\ UNCHANGED <<use, cm7, d2, hsemVars>>
EnterStopMode ==
    /\ cm4 = "cleared"
    /\ IF event THEN cm4' = "woken" /\ event' = FALSE /\ d2' = d2
       ELSE cm4' = "stopped" /\ event' = event /\ d2' = "stop"
    /\ UNCHANGED <<use, cm7, hsemVars>>

(* The hardware restarts the clock of the domain, which the M7 sees; the   *)
(* M4 then has the rest of EnterStopModeUntilNotified before it.           *)
D2DomainWakes ==
    /\ cm4 = "stopped" /\ event
    /\ cm4' = "woken" /\ event' = FALSE /\ d2' = "on"
    /\ UNCHANGED <<use, cm7, hsemVars>>
LeaveStopMode ==
    /\ cm4 = "woken" /\ cm4' = "up"
    /\ UNCHANGED <<use, cm7, d2, event, hsemVars>>

-----------------------------------------------------------------------------
(* HsemInterruptImpl: the constructor and RegisterFreeCallback, then       *)
(* EnableNotification.                                                     *)
EnableNotification(c) ==
    /\ Awake(c) /\ use.notifies > 0 /\ c \notin listens
    /\ ier' = ier \union {c} /\ listens' = listens \union {c}
    /\ UNCHANGED <<use, bootVars, holder, isr, sender, serving, unseen, posted>>

(* NotifyOtherCore: HAL_HSEM_FastTake, which may fail, and HAL_HSEM_Release, *)
(* which the hardware ignores unless the core holds the semaphore.         *)
FastTake(c) ==
    /\ Awake(c) /\ Other(c) \in listens
    /\ sender[c] = "idle" /\ posted[c] < use.notifies
    /\ posted' = [posted EXCEPT ![c] = @ + 1]
    /\ unseen' = [unseen EXCEPT ![Other(c)] = TRUE]
    /\ holder' = IF holder = "none" THEN c ELSE holder
    /\ sender' = [sender EXCEPT ![c] = "taken"]
    /\ UNCHANGED <<use, bootVars, isr, ier, listens, serving>>
Release(c) ==
    /\ sender[c] = "taken"
    /\ sender' = [sender EXCEPT ![c] = "idle"]
    /\ IF holder = c THEN holder' = "none" /\ isr' = Cores
       ELSE UNCHANGED <<holder, isr>>
    /\ UNCHANGED <<use, bootVars, ier, listens, serving, unseen, posted>>

(* HAL_HSEM_IRQHandler disables the notification and clears the flag;      *)
(* FreeCallback enables it again before it calls back.                     *)
HsemIrqHandler(c) ==
    /\ c \in isr \cap ier /\ c \notin serving
    /\ isr' = isr \ {c} /\ ier' = ier \ {c} /\ serving' = serving \union {c}
    /\ UNCHANGED <<use, bootVars, holder, listens, sender, unseen, posted>>

(* Mutant: the callback comes first, then the notification is forgotten.   *)
FreeCallbackOnce(c) ==
    /\ c \in serving
    /\ serving' = serving \ {c} /\ unseen' = [unseen EXCEPT ![c] = FALSE]
    /\ UNCHANGED <<use, bootVars, holder, isr, ier, listens, sender, posted>>

FreeCallback(c) ==
    /\ c \in serving
    /\ ier' = ier \union {c}
    /\ serving' = serving \ {c} /\ unseen' = [unseen EXCEPT ![c] = FALSE]
    /\ UNCHANGED <<use, bootVars, holder, isr, listens, sender, posted>>

-----------------------------------------------------------------------------
CortexM4Boots ==
    \/ BootNotification \/ ClearPendingEvent \/ EnterStopMode
    \/ D2DomainWakes \/ LeaveStopMode
BootNext ==
    \/ WaitUntilCortexM4Ready \/ WakeUpCortexM4 \/ CortexM4Woken
    \/ CortexM4Boots
NotifyNext(c) ==
    EnableNotification(c) \/ FastTake(c) \/ Release(c) \/ HsemIrqHandler(c) \/ FreeCallback(c)
CoresNext == BootNext \/ \E c \in Cores : NotifyNext(c)

(* Cores run; interrupts are taken. *)
CoresFair ==
    /\ WF_coreVars(WaitUntilCortexM4Ready) /\ WF_coreVars(WakeUpCortexM4)
    /\ WF_coreVars(CortexM4Woken)
    /\ WF_coreVars(CortexM4Boots)
    /\ \A c \in Cores : /\ WF_coreVars(Release(c))
                        /\ WF_coreVars(HsemIrqHandler(c) \/ FreeCallback(c))

CoresSpec == CoresInit([boots : {"waits", "limited", "rushes"}, notifies : 0..2]) /\ [][CoresNext]_coreVars /\ CoresFair

(* The types of the cores. *)
CoresTypeOK ==
    /\ cm7 \in {"ready?", "wake", "woken?", "up", "failed"}
    /\ cm4 \in {"reset", "armed", "cleared", "stopped", "woken", "up"}
    /\ d2 \in {"on", "stop"} /\ event \in BOOLEAN
    /\ holder \in Cores \union {"none"}
    /\ {isr, ier, listens, serving} \subseteq SUBSET Cores
    /\ sender \in [Cores -> {"idle", "taken"}]
    /\ unseen \in [Cores -> BOOLEAN] /\ posted \in [Cores -> Nat]

(* A program on the M7 that waits for the M4 to be ready before it wakes   *)
(* it, as boot.h provides, brings both cores up.                           *)
CoresBoot == []<>(use.boots = "waits" => cm7 = "up" /\ cm4 = "up")

(* The wake-up of a program that has waited for the M4 to be ready is not  *)
(* lost, and when WakeUpCortexM4 has returned true the M4 runs again,      *)
(* though it may still be within WaitUntilWokenByCortexM7: the flag that   *)
(* the M7 looks at goes up before the M4 has gone on.                      *)
WokenMeansRunning ==
    use.boots # "rushes" =>
      /\ cm7 = "woken?" => (cm4 = "stopped" /\ event) \/ cm4 \in {"woken", "up"}
      /\ cm7 = "up" => cm4 \in {"woken", "up"}

(* A notification is followed by a callback on the other core, though the  *)
(* cores may notify each other at the same time with one semaphore, and    *)
(* while the handler runs.                                                 *)
NotificationSeen == \A c \in Cores : []<>~unseen[c]
=============================================================================
