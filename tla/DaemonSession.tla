---------------------------- MODULE DaemonSession ----------------------------
(***************************************************************************)
(* The session policy of the resident daemon (DaemonState of               *)
(* omawarden/src/daemon.rs): the timers, the strikes of quick unlock and   *)
(* the watchdog thread, against client requests served by other threads.   *)
(*                                                                         *)
(* Every mutex of DaemonState is taken for one read or write, so each is a *)
(* step here, and so is each call on the VaultManager, except a hard lock, *)
(* whose wipe and purge are apart, and a restore, whose commit is apart    *)
(* from its copy of the retained key.  VaultManager has the finer steps.   *)
(*                                                                         *)
(* An Instant is the age it has by now, counted up to one more than what   *)
(* any timeout tells apart.                                                *)
(***************************************************************************)
EXTENDS Integers, Desktop

CONSTANTS
  Clients,     \* threads that serve a client's request
  Dog,         \* the watchdog thread
  None,        \* Option::None, and nobody
  IdleMax,     \* auto_lock_duration, unless it is zero
  SessionMax,  \* max_session_lifetime
  MaxStrikes,  \* MAX_QUICK_UNLOCK_FAILURES
  MaxSuspends  \* bound: times the machine is suspended

Requests == {"unlock", "quick", "lock", "wipe", "enable", "disable",
             "activity", "sync", "auto_lock"}

ASSUME ThreadAssumption == Dog \notin Clients /\ None \notin Clients \cup {Dog}
ASSUME TimeoutAssumption == /\ IdleMax \in Nat /\ SessionMax \in Nat
                            /\ IdleMax <= SessionMax
                            /\ None \notin Nat
ASSUME StrikeAssumption == MaxStrikes \in Nat \ {0} /\ MaxSuspends \in Nat

VARIABLES
  unlocked,      \* the vault holds the decrypted session
  retained,      \* the vault retains a key for quick unlock
  copies,        \* clients whose restore has a copy no wipe has voided
  unlockedAt, anchor, lastActivity,   \* unlocked_at, session_anchor
  autoLock,      \* whether auto_lock_duration is not zero
  setting,       \* quick_unlock_setting
  failures,      \* quick_unlock_failures
  busy,          \* holder of quick_unlock_busy
  bootSeen,      \* last_boot_delta_secs
  bootDelta,     \* CLOCK_BOOTTIME minus CLOCK_MONOTONIC
  signal,        \* what the desktop would answer the lock detector
  pc,            \* where each thread is
  resume,        \* where the watchdog goes on after a lock
  (* history, for the properties: *)
  masterAge,     \* age of the last master password unlock
  denied,        \* denials since a key was retained or spent
  owed           \* the machine was suspended while the vault held a key

vault   == <<unlocked, retained, copies>>
timers  == <<unlockedAt, anchor, lastActivity>>
config  == <<autoLock, setting>>
strikes == <<failures, busy>>
clock   == <<bootSeen, bootDelta, signal>>
control == <<pc, resume>>
history == <<masterAge, denied, owed>>
still   == <<vault, timers, config, strikes, clock, history>>
vars    == <<still, control>>

Procs  == Clients \cup {Dog}
Ages   == 0..(SessionMax + 1)
Older(age) == IF age = None \/ age = SessionMax + 1 THEN age ELSE age + 1
Expired(age) == age # None /\ age > SessionMax

(* A daemon that has just started, or one in which an unlock(), or an      *)
(* unlock() and a soft_lock(), have returned and the watchdog has sampled  *)
(* the clocks.                                                             *)
Init ==
  /\ setting \in BOOLEAN /\ autoLock = TRUE
  /\ copies = {} /\ lastActivity = 0
  /\ failures = 0 /\ busy = None
  /\ bootDelta = 0 /\ signal = "none"
  /\ \/ /\ unlocked = FALSE /\ retained = FALSE /\ bootSeen = None
        /\ unlockedAt = None /\ anchor = None /\ masterAge = None
     \/ /\ unlocked = TRUE /\ retained = FALSE /\ bootSeen = 0
        /\ unlockedAt = 0 /\ anchor = 0 /\ masterAge = 0
     \/ /\ setting /\ unlocked = FALSE /\ retained = TRUE /\ bootSeen = 0
        /\ unlockedAt = None /\ anchor = 0 /\ masterAge = 0
  /\ pc = [p \in Procs |-> "idle"]
  /\ resume = "idle"
  /\ denied = 0 /\ owed = FALSE

-----------------------------------------------------------------------------
At(p, step)   == pc[p] = step
Goto(p, step) == pc' = [pc EXCEPT ![p] = step]
Go(p, step)   == Goto(p, step) /\ UNCHANGED resume

Holding == unlocked \/ retained

(* A suspension is settled once the vault holds no key. *)
Settles == owed' = (owed /\ Holding')

Request(c, r) ==
  /\ At(c, "idle")
  /\ Go(c, CASE r = "lock" -> "lockUnlockedAt"
             [] r = "wipe" -> "wipe"
             [] r = "quick" -> "quickGate"
             [] OTHER -> r)
  /\ UNCHANGED still

Touch(c) ==
  /\ At(c, "touch") /\ Go(c, "idle")
  /\ lastActivity' = 0
  /\ busy' = IF busy = c THEN None ELSE busy
  /\ UNCHANGED <<vault, unlockedAt, anchor, config, failures, clock,
                 history>>

(* Requests that only read the vault refresh the idle timer when they find *)
(* it unlocked.                                                            *)
Activity(c) ==
  /\ \/ At(c, "activity") /\ Go(c, IF unlocked THEN "touch" ELSE "idle")
     \/ At(c, "sync") /\ Go(c, IF unlocked THEN "syncTouch" ELSE "idle")
  /\ UNCHANGED still

(* So does a sync, before it starts and again if it succeeds.  If it finds *)
(* its credentials rejected it locks the vault, not by DaemonState::lock() *)
Sync(c) ==
  /\ At(c, "syncTouch")
  /\ \E next \in {"touch", "idle", "lockWipe"} : Go(c, next)
  /\ lastActivity' = 0
  /\ UNCHANGED <<vault, unlockedAt, anchor, config, strikes, clock, history>>

SetAutoLock(c) ==
  /\ At(c, "auto_lock") /\ Go(c, "idle")
  /\ autoLock' \in BOOLEAN
  /\ UNCHANGED <<vault, timers, setting, strikes, clock, history>>

(* The setting; turning it off also wipes the retained key. *)
SetQuickUnlock(c) ==
  /\ \/ At(c, "enable") /\ setting' = TRUE /\ Go(c, "idle")
     \/ At(c, "disable") /\ setting' = FALSE /\ Go(c, "wipe")
  /\ UNCHANGED <<vault, timers, autoLock, strikes, clock, history>>

Wipe(c) ==
  /\ At(c, "wipe") /\ Go(c, "idle")
  /\ retained' = FALSE /\ copies' = {}
  /\ UNCHANGED <<unlocked, timers, config, strikes, clock, masterAge, denied>>
  /\ Settles

-----------------------------------------------------------------------------
(* DaemonState::unlock(). *)
Unlock(c) ==
  /\ At(c, "unlock")
  /\ \/ /\ unlocked' = TRUE /\ masterAge' = 0
        /\ Go(c, "unlockUnlockedAt")
     \/ Go(c, "idle") /\ UNCHANGED <<unlocked, masterAge>>
  /\ UNCHANGED <<retained, copies, timers, config, strikes, clock, denied,
                 owed>>

UnlockUnlockedAt(c) ==
  /\ At(c, "unlockUnlockedAt") /\ Go(c, "unlockAnchor")
  /\ unlockedAt' = 0
  /\ UNCHANGED <<vault, anchor, lastActivity, config, strikes, clock,
                 history>>

UnlockAnchor(c) ==
  /\ At(c, "unlockAnchor") /\ Go(c, "unlockFailures")
  /\ anchor' = 0
  /\ UNCHANGED <<vault, unlockedAt, lastActivity, config, strikes, clock,
                 history>>

UnlockFailures(c) ==
  /\ At(c, "unlockFailures") /\ Go(c, "touch")
  /\ failures' = 0 /\ denied' = 0
  /\ UNCHANGED <<vault, timers, config, busy, clock, masterAge, owed>>

-----------------------------------------------------------------------------
(* perform_quick_unlock_with_timeout(). *)
QuickGate(c) ==
  /\ \/ At(c, "quickGate") /\ Go(c, IF setting THEN "quickLocked" ELSE "idle")
     \/ At(c, "quickLocked")
          /\ Go(c, IF unlocked THEN "idle" ELSE "quickAvailable")
     \/ At(c, "quickAvailable")
          /\ Go(c, IF retained THEN "quickBusy" ELSE "idle")
  /\ UNCHANGED still

(* Mutant: a second prompt is not refused. *)
QuickBusyStacking(c) ==
  /\ At(c, "quickBusy") /\ Go(c, "quickRecheck")
  /\ busy' = c
  /\ UNCHANGED <<vault, timers, config, failures, clock, history>>

QuickBusy(c) ==
  /\ At(c, "quickBusy")
  /\ IF busy = None THEN busy' = c /\ Go(c, "quickRecheck")
                    ELSE UNCHANGED busy /\ Go(c, "idle")
  /\ UNCHANGED <<vault, timers, config, failures, clock, history>>

(* Returning from here on releases quick_unlock_busy. *)
QuickReturn(c) == Go(c, "idle") /\ busy' = None

QuickRecheck(c) ==
  /\ At(c, "quickRecheck")
  /\ IF retained THEN Go(c, "quickPrompt") /\ UNCHANGED busy
                 ELSE QuickReturn(c)
  /\ UNCHANGED <<vault, timers, config, failures, clock, history>>

(* Mutant: a prompt that polkit could not show forgives earlier denials. *)
QuickPromptForgiving(c) ==
  /\ At(c, "quickPrompt")
  /\ \/ Go(c, "quickCopy") /\ UNCHANGED <<busy, denied, failures>>
     \/ /\ Go(c, "quickStrike") /\ UNCHANGED <<busy, failures>>
        /\ denied' = IF retained THEN denied + 1 ELSE denied
     \/ QuickReturn(c) /\ failures' = 0 /\ UNCHANGED denied
  /\ UNCHANGED <<vault, timers, config, clock, masterAge, owed>>

(* The outcome of polkit::check(). *)
QuickPrompt(c) ==
  /\ At(c, "quickPrompt")
  /\ \/ /\ "authorized" \in PolkitOutcomes
        /\ Go(c, "quickCopy") /\ UNCHANGED <<busy, denied>>
     \/ /\ "denied" \in PolkitOutcomes
        /\ Go(c, "quickStrike") /\ UNCHANGED busy
        /\ denied' = IF retained THEN denied + 1 ELSE denied
     \/ /\ "unavailable" \in PolkitOutcomes
        /\ QuickReturn(c) /\ UNCHANGED denied
  /\ UNCHANGED <<vault, timers, config, failures, clock, masterAge, owed>>

(* Mutant: the last strike is one too late. *)
QuickStrikeLate(c) ==
  /\ At(c, "quickStrike")
  /\ failures' = failures + 1
  /\ IF failures' > MaxStrikes THEN Go(c, "quickWipe") /\ UNCHANGED busy
                               ELSE QuickReturn(c)
  /\ UNCHANGED <<vault, timers, config, clock, history>>

QuickStrike(c) ==
  /\ At(c, "quickStrike")
  /\ failures' = failures + 1
  /\ IF failures' >= MaxStrikes THEN Go(c, "quickWipe") /\ UNCHANGED busy
                                ELSE QuickReturn(c)
  /\ UNCHANGED <<vault, timers, config, clock, history>>

QuickWipe(c) ==
  /\ At(c, "quickWipe") /\ Go(c, "quickForgive")
  /\ retained' = FALSE /\ copies' = {}
  /\ UNCHANGED <<unlocked, timers, config, strikes, clock, masterAge, denied>>
  /\ Settles

QuickForgive(c) ==
  /\ At(c, "quickForgive") /\ QuickReturn(c)
  /\ failures' = 0
  /\ UNCHANGED <<vault, timers, config, clock, history>>

QuickCopy(c) ==
  /\ At(c, "quickCopy")
  /\ IF retained
       THEN Go(c, "quickCommit") /\ copies' = copies \cup {c} /\ UNCHANGED busy
       ELSE QuickReturn(c) /\ UNCHANGED copies
  /\ UNCHANGED <<unlocked, retained, timers, config, failures, clock,
                 history>>

QuickCommit(c) ==
  /\ At(c, "quickCommit")
  /\ IF c \in copies
       THEN /\ unlocked' = TRUE /\ denied' = 0
            /\ Go(c, "quickFailures") /\ UNCHANGED busy
       ELSE QuickReturn(c) /\ UNCHANGED <<unlocked, denied>>
  /\ copies' = copies \ {c}
  /\ UNCHANGED <<retained, timers, config, failures, clock, masterAge, owed>>

QuickFailures(c) ==
  /\ At(c, "quickFailures") /\ Go(c, "quickUnlockedAt")
  /\ failures' = 0
  /\ UNCHANGED <<vault, timers, config, busy, clock, history>>

(* Mutant: quick unlock anchors the session anew. *)
QuickUnlockedAtAnchoring(c) ==
  /\ At(c, "quickUnlockedAt") /\ Go(c, "touch")
  /\ unlockedAt' = 0 /\ anchor' = 0
  /\ UNCHANGED <<vault, lastActivity, config, strikes, clock, history>>

QuickUnlockedAt(c) ==
  /\ At(c, "quickUnlockedAt") /\ Go(c, "touch")
  /\ unlockedAt' = 0
  /\ UNCHANGED <<vault, anchor, lastActivity, config, strikes, clock,
                 history>>

-----------------------------------------------------------------------------
(* DaemonState::lock(), by the watchdog or for a client, which then waits  *)
(* for its next request.                                                   *)
LockUnlockedAt(p) ==
  /\ At(p, "lockUnlockedAt") /\ Go(p, "lockAnchor")
  /\ unlockedAt' = None
  /\ UNCHANGED <<vault, anchor, lastActivity, config, strikes, clock,
                 history>>

LockAnchor(p) ==
  /\ At(p, "lockAnchor") /\ Go(p, "lockFailures")
  /\ anchor' = None
  /\ UNCHANGED <<vault, unlockedAt, lastActivity, config, strikes, clock,
                 history>>

LockFailures(p) ==
  /\ At(p, "lockFailures") /\ Go(p, "lockWipe")
  /\ failures' = 0
  /\ UNCHANGED <<vault, timers, config, busy, clock, history>>

(* VaultManager::hard_lock(): the wipe, then the purge. *)
LockWipe(p) ==
  /\ At(p, "lockWipe") /\ Go(p, "lockPurge")
  /\ retained' = FALSE /\ copies' = {}
  /\ UNCHANGED <<unlocked, timers, config, strikes, clock, masterAge, denied>>
  /\ Settles

LockPurge(p) ==
  /\ At(p, "lockPurge") /\ Go(p, IF p = Dog THEN resume ELSE "idle")
  /\ unlocked' = FALSE
  /\ UNCHANGED <<retained, copies, timers, config, strikes, clock, masterAge,
                 denied>>
  /\ Settles

(* DaemonState::soft_lock(), which only the watchdog calls. *)
SoftUnlockedAt ==
  /\ At(Dog, "softUnlockedAt") /\ Go(Dog, "softUsable")
  /\ unlockedAt' = None
  /\ UNCHANGED <<vault, anchor, lastActivity, config, strikes, clock,
                 history>>

SoftUsable ==
  /\ At(Dog, "softUsable")
  /\ Go(Dog, IF setting THEN "softRetain" ELSE "lockWipe")
  /\ UNCHANGED still

SoftRetain ==
  /\ At(Dog, "softRetain") /\ Go(Dog, resume)
  /\ retained' = (retained \/ unlocked)
  /\ unlocked' = FALSE
  /\ denied' = IF unlocked THEN 0 ELSE denied
  /\ UNCHANGED <<copies, timers, config, strikes, clock, masterAge, owed>>

-----------------------------------------------------------------------------
(* The watchdog: check_suspend_drift(), check_auto_lock() and              *)
(* check_screen_lock(), then sleep and again.                              *)
DogLocks(next) == Goto(Dog, "lockUnlockedAt") /\ resume' = next
DogSoftLocks(next) == Goto(Dog, "softUnlockedAt") /\ resume' = next

(* Mutant: a suspension matters to an unlocked vault only. *)
DogDriftUnlocked ==
  /\ At(Dog, "idle")
  /\ IF unlocked /\ bootSeen # None /\ bootDelta > bootSeen + 1
       THEN DogLocks("ceiling") ELSE Go(Dog, "ceiling")
  /\ bootSeen' = bootDelta
  /\ UNCHANGED <<vault, timers, config, strikes, bootDelta, signal,
                 history>>

DogDrift ==
  /\ At(Dog, "idle")
  /\ IF bootSeen # None /\ bootDelta > bootSeen + 1 THEN DogLocks("ceiling")
                                                    ELSE Go(Dog, "ceiling")
  /\ bootSeen' = bootDelta
  /\ UNCHANGED <<vault, timers, config, strikes, bootDelta, signal,
                 history>>

DogCeiling ==
  /\ At(Dog, "ceiling")
  /\ Go(Dog, IF Expired(anchor) THEN "ended" ELSE "lifetime")
  /\ UNCHANGED still

DogEnded ==
  /\ At(Dog, "ended")
  /\ IF Holding THEN DogLocks("screen") ELSE Go(Dog, "lifetime")
  /\ UNCHANGED still

DogLifetime ==
  /\ \/ At(Dog, "lifetime") /\ Go(Dog, IF unlocked THEN "opened" ELSE "screen")
     \/ At(Dog, "opened") /\ IF Expired(unlockedAt) THEN DogLocks("screen")
                                                    ELSE Go(Dog, "inactive")
  /\ UNCHANGED still

DogInactive ==
  /\ At(Dog, "inactive")
  /\ IF autoLock /\ lastActivity > IdleMax THEN DogSoftLocks("screen")
                                           ELSE Go(Dog, "screen")
  /\ UNCHANGED still

(* Mutant: the detector runs only while the vault is unlocked. *)
DogScreenUnlocked ==
  /\ \/ At(Dog, "screen") /\ Go(Dog, IF unlocked THEN "detect" ELSE "idle")
     \/ /\ At(Dog, "detect")
        /\ CASE signal = "sleep"  -> DogLocks("idle")
             [] signal = "screen" -> Go(Dog, "locker")
             [] OTHER             -> Go(Dog, "idle")
     \/ At(Dog, "locker") /\ IF unlocked THEN DogSoftLocks("idle")
                                         ELSE Go(Dog, "idle")
  /\ UNCHANGED still

DogScreen ==
  /\ \/ At(Dog, "screen") /\ Go(Dog, IF Holding THEN "detect" ELSE "idle")
     \/ /\ At(Dog, "detect")
        /\ CASE signal = "sleep"  -> DogLocks("idle")
             [] signal = "screen" -> Go(Dog, "locker")
             [] OTHER             -> Go(Dog, "idle")
     \/ At(Dog, "locker") /\ IF unlocked THEN DogSoftLocks("idle")
                                         ELSE Go(Dog, "idle")
  /\ UNCHANGED still

-----------------------------------------------------------------------------
(* Time passes; the machine is suspended for more than a second, and the   *)
(* clocks the ages are measured by stop meanwhile; the desktop locks.      *)
Tick ==
  /\ unlockedAt' = Older(unlockedAt)
  /\ anchor' = Older(anchor)
  /\ lastActivity' = Older(lastActivity)
  /\ masterAge' = Older(masterAge)
  /\ UNCHANGED <<vault, config, strikes, clock, control, denied, owed>>

Suspend ==
  /\ bootDelta < 2 * MaxSuspends
  /\ bootDelta' = bootDelta + 2
  /\ owed' = (owed \/ Holding)
  /\ UNCHANGED <<vault, timers, config, strikes, bootSeen, signal, control,
                 masterAge, denied>>

Signal ==
  /\ signal' \in LockSignals
  /\ UNCHANGED <<vault, timers, config, strikes, bootSeen, bootDelta, control,
                 history>>

ClientStep(c) ==
  \/ Touch(c) \/ Activity(c) \/ Sync(c) \/ SetAutoLock(c)
  \/ SetQuickUnlock(c) \/ Wipe(c) \/ Unlock(c)
  \/ UnlockUnlockedAt(c) \/ UnlockAnchor(c) \/ UnlockFailures(c)
  \/ QuickGate(c) \/ QuickBusy(c) \/ QuickRecheck(c) \/ QuickPrompt(c)
  \/ QuickStrike(c) \/ QuickWipe(c) \/ QuickForgive(c) \/ QuickCopy(c)
  \/ QuickCommit(c) \/ QuickFailures(c) \/ QuickUnlockedAt(c)
LockStep(p) == \/ LockUnlockedAt(p) \/ LockAnchor(p) \/ LockFailures(p)
               \/ LockWipe(p) \/ LockPurge(p)
DogStep == \/ SoftUnlockedAt \/ SoftUsable \/ SoftRetain \/ DogDrift
           \/ DogCeiling \/ DogEnded \/ DogLifetime \/ DogInactive \/ DogScreen

Step(p) == \/ LockStep(p)
           \/ p \in Clients /\ ClientStep(p)
           \/ p = Dog /\ DogStep

Next == \/ \E p \in Procs : Step(p)
        \/ \E c \in Clients, r \in Requests : Request(c, r)
        \/ Tick \/ Suspend \/ Signal

(* Threads go on, as the watchdog's sleep is bounded and a prompt times    *)
(* out.  No request and no event has to come; of the properties, only the  *)
(* ceiling, reached in any case, needs the clock to go on.                 *)
Fairness == \A p \in Procs : WF_vars(Step(p))

Spec     == Init /\ [][Next]_vars
FairSpec == Spec /\ Fairness

-----------------------------------------------------------------------------
Steps == {"idle", "unlock", "unlockUnlockedAt", "unlockAnchor",
          "unlockFailures", "touch", "activity", "sync", "syncTouch",
          "auto_lock", "enable", "disable", "wipe",
          "quickGate", "quickLocked", "quickAvailable", "quickBusy",
          "quickRecheck", "quickPrompt", "quickStrike", "quickWipe",
          "quickForgive", "quickCopy", "quickCommit", "quickFailures",
          "quickUnlockedAt", "lockUnlockedAt", "lockAnchor", "lockFailures",
          "lockWipe", "lockPurge", "softUnlockedAt", "softUsable",
          "softRetain", "ceiling", "ended", "lifetime", "opened", "inactive",
          "screen", "detect", "locker"}

(* The values of the state; a strike is never counted past the last. *)
TypeOK ==
  /\ unlocked \in BOOLEAN /\ retained \in BOOLEAN
  /\ copies \in SUBSET Clients
  /\ {unlockedAt, anchor, masterAge} \subseteq Ages \cup {None}
  /\ lastActivity \in Ages
  /\ autoLock \in BOOLEAN /\ setting \in BOOLEAN
  /\ failures \in 0..MaxStrikes /\ denied \in Nat
  /\ busy \in Clients \cup {None}
  /\ bootDelta \in Nat /\ bootSeen \in 0..bootDelta \cup {None}
  /\ signal \in {"none", "screen", "sleep"}
  /\ pc \in [Procs -> Steps] /\ resume \in {"idle", "ceiling", "screen"}
  /\ owed \in BOOLEAN

(* One prompt at a time: a thread between taking quick_unlock_busy and     *)
(* returning holds it, so dialogs do not stack and strikes do not race.    *)
Prompting(c) == pc[c] \in {"quickRecheck", "quickPrompt", "quickStrike",
                           "quickWipe", "quickForgive", "quickCopy",
                           "quickCommit", "quickFailures", "quickUnlockedAt"}
OnePrompt == \A c \in Clients : Prompting(c) => busy = c

(* Three denials in a row wipe the retained key: once no prompt and no     *)
(* lock is under way, none is left (ADR-0025).                             *)
ThreeStrikes ==
  /\ denied >= MaxStrikes
  /\ busy = None /\ \A p \in Procs : ~At(p, "lockWipe")
  => ~retained

(* The ceiling on a session's lifetime: if time goes on, once the last     *)
(* master password unlock is too old, the vault is locked and retains      *)
(* nothing, however often quick unlock reopened it since.                  *)
CeilingHolds ==
  WF_vars(Tick) => (Expired(masterAge) ~> (Expired(masterAge) => ~Holding))

(* A suspension of the machine leaves no key in the daemon: neither a      *)
(* session nor a retained key survives it for long.                        *)
SuspendWipes == owed ~> ~owed

(* Every reason to lock does so in the end (the watchdog's checks): an idle *)
(* vault is locked, quick unlock on or off; a screen that stays locked      *)
(* finds the vault locked; a machine that goes to sleep also has the        *)
(* retained key wiped, soft-locked or not.                                  *)
Unused == unlocked /\ autoLock /\ lastActivity > IdleMax
ReasonsLock ==
  /\ Unused ~> ~Unused
  /\ (unlocked /\ signal = "screen") ~> (signal = "screen" => ~unlocked)
  /\ (Holding /\ signal = "sleep") ~> (signal = "sleep" => ~Holding)
=============================================================================
