------------------------- MODULE DaemonSession_proofs -------------------------
(* Theorems about DaemonSession for every set of client threads and every  *)
(* timeout: its type invariant, that prompts exclude each other, and that  *)
(* three strikes wipe the retained key.                                    *)
EXTENDS DaemonSession, TLAPS

(* Why three strikes wipe: the count of failures is one short of the last  *)
(* strike, unless the wipe is under way; and no denial is missing from it, *)
(* except the one being counted, or while a lock is about to wipe.         *)
Striking ==
  /\ \/ failures < MaxStrikes
     \/ \E c \in Clients : At(c, "quickWipe") \/ At(c, "quickForgive")
  /\ retained =>
       \/ \E p \in Procs : At(p, "lockWipe")
       \/ denied <= failures
       \/ denied <= failures + 1 /\ \E c \in Clients : At(c, "quickStrike")
  /\ \A c \in Clients : At(c, "quickForgive") /\ retained => denied = 0
  /\ \A c \in Clients : At(c, "quickFailures") => denied = 0

Inv == TypeOK /\ OnePrompt /\ Striking

LEMMA TypedClient ==
  ASSUME Inv, NEW c \in Clients, ClientStep(c)
  PROVE  TypeOK'
<1> USE ThreadAssumption, TimeoutAssumption, StrikeAssumption
<1> USE DEF Inv, TypeOK, vault, timers, config, strikes, clock, history, still,
    control, Goto, Go, At, QuickReturn, Holding, DogLocks,
    DogSoftLocks, Procs, Steps, Ages, Older
<1>1. CASE Touch(c)
  BY <1>1 DEF Touch
<1>2. CASE Activity(c)
  BY <1>2 DEF Activity
<1>3. CASE Sync(c)
  BY <1>3 DEF Sync
<1>4. CASE SetAutoLock(c)
  BY <1>4 DEF SetAutoLock
<1>5. CASE SetQuickUnlock(c)
  <2>1. setting' \in BOOLEAN
    BY <1>5, ZenonT(30) DEF SetQuickUnlock
  <2>2. pc' \in [Procs -> Steps] /\ resume' \in {"idle", "ceiling", "screen"}
    BY <1>5 DEF SetQuickUnlock
  <2> QED BY <1>5, <2>1, <2>2 DEF SetQuickUnlock
<1>6. CASE Wipe(c)
  <2>1. owed' \in BOOLEAN
    BY <1>6, ZenonT(30) DEF Wipe, Settles
  <2>2. pc' \in [Procs -> Steps] /\ UNCHANGED resume
    BY <1>6 DEF Wipe
  <2>3. /\ retained' \in BOOLEAN /\ copies' \in SUBSET Clients
        /\ UNCHANGED <<unlocked, timers, config, strikes, clock, masterAge,
                       denied>>
    BY <1>6, Zenon DEF Wipe
  <2> QED BY <2>1, <2>2, <2>3
<1>7. CASE Unlock(c)
  <2>1. unlocked' \in BOOLEAN
    BY <1>7, ZenonT(30) DEF Unlock
  <2>2. pc' \in [Procs -> Steps] /\ resume' \in {"idle", "ceiling", "screen"}
    BY <1>7 DEF Unlock
  <2>3. masterAge' \in Ages \cup {None}
    BY <1>7, TimeoutAssumption DEF Unlock
  <2> QED BY <1>7, <2>1, <2>2, <2>3 DEF Unlock
<1>8. CASE UnlockUnlockedAt(c)
  BY <1>8 DEF UnlockUnlockedAt
<1>9. CASE UnlockAnchor(c)
  BY <1>9 DEF UnlockAnchor
<1>10. CASE UnlockFailures(c)
  BY <1>10 DEF UnlockFailures
<1>11. CASE QuickGate(c)
  BY <1>11 DEF QuickGate
<1>12. CASE QuickBusy(c)
  BY <1>12 DEF QuickBusy
<1>13. CASE QuickRecheck(c)
  BY <1>13 DEF QuickRecheck
<1>14. CASE QuickPrompt(c)
  BY <1>14 DEF QuickPrompt
<1>15. CASE QuickStrike(c)
  <2>1. failures < MaxStrikes
    BY <1>15 DEF QuickStrike, Striking, OnePrompt, Prompting
  <2>2. failures' \in 0..MaxStrikes
    BY <1>15, <2>1, StrikeAssumption DEF QuickStrike
  <2> QED BY <1>15, <2>2 DEF QuickStrike
<1>16. CASE QuickWipe(c)
  <2>1. owed' \in BOOLEAN
    BY <1>16, ZenonT(30) DEF QuickWipe, Settles
  <2>2. pc' \in [Procs -> Steps] /\ UNCHANGED resume
    BY <1>16 DEF QuickWipe
  <2>3. /\ retained' \in BOOLEAN /\ copies' \in SUBSET Clients
        /\ UNCHANGED <<unlocked, timers, config, strikes, clock, masterAge,
                       denied>>
    BY <1>16, Zenon DEF QuickWipe
  <2> QED BY <2>1, <2>2, <2>3
<1>17. CASE QuickForgive(c)
  BY <1>17 DEF QuickForgive
<1>18. CASE QuickCopy(c)
  BY <1>18 DEF QuickCopy
<1>19. CASE QuickCommit(c)
  <2>1. CASE c \in copies
    BY <1>19, <2>1 DEF QuickCommit
  <2>2. CASE ~c \in copies
    BY <1>19, <2>2 DEF QuickCommit
  <2> QED BY <2>1, <2>2
<1>20. CASE QuickFailures(c)
  BY <1>20 DEF QuickFailures
<1>21. CASE QuickUnlockedAt(c)
  BY <1>21 DEF QuickUnlockedAt
<1> QED
  BY <1>1, <1>2, <1>3, <1>4, <1>5, <1>6, <1>7, <1>8, <1>9, <1>10, <1>11, <1>12,
      <1>13, <1>14, <1>15, <1>16, <1>17, <1>18, <1>19, <1>20, <1>21 DEF
      ClientStep

LEMMA TypedLock ==
  ASSUME Inv, NEW p \in Procs, LockStep(p)
  PROVE  TypeOK'
<1> USE ThreadAssumption, TimeoutAssumption, StrikeAssumption
<1> USE DEF Inv, TypeOK, vault, timers, config, strikes, clock, history, still,
    control, Goto, Go, At, QuickReturn, Holding, DogLocks,
    DogSoftLocks, Procs, Steps, Ages, Older
<1>1. CASE LockUnlockedAt(p)
  BY <1>1 DEF LockUnlockedAt
<1>2. CASE LockAnchor(p)
  BY <1>2 DEF LockAnchor
<1>3. CASE LockFailures(p)
  BY <1>3 DEF LockFailures
<1>4. CASE LockWipe(p)
  <2>1. owed' \in BOOLEAN
    BY <1>4, ZenonT(30) DEF LockWipe, Settles
  <2>2. pc' \in [Procs -> Steps] /\ UNCHANGED resume
    BY <1>4 DEF LockWipe
  <2>3. /\ retained' \in BOOLEAN /\ copies' \in SUBSET Clients
        /\ UNCHANGED <<unlocked, timers, config, strikes, clock, masterAge,
                       denied>>
    BY <1>4, Zenon DEF LockWipe
  <2> QED BY <2>1, <2>2, <2>3
<1>5. CASE LockPurge(p)
  <2>1. owed' \in BOOLEAN
    BY <1>5, ZenonT(30) DEF LockPurge, Settles
  <2>2. pc' \in [Procs -> Steps] /\ UNCHANGED resume
    BY <1>5 DEF LockPurge
  <2>3. /\ unlocked' \in BOOLEAN
        /\ UNCHANGED <<retained, copies, timers, config, strikes, clock,
                       masterAge, denied>>
    BY <1>5, Zenon DEF LockPurge
  <2> QED BY <2>1, <2>2, <2>3
<1> QED
  BY <1>1, <1>2, <1>3, <1>4, <1>5 DEF LockStep

LEMMA TypedDog ==
  ASSUME Inv, DogStep
  PROVE  TypeOK'
<1> USE ThreadAssumption, TimeoutAssumption, StrikeAssumption
<1> USE DEF Inv, TypeOK, vault, timers, config, strikes, clock, history, still,
    control, Goto, Go, At, QuickReturn, Holding, DogLocks,
    DogSoftLocks, Procs, Steps, Ages, Older
<1>1. CASE SoftUnlockedAt
  BY <1>1 DEF SoftUnlockedAt
<1>2. CASE SoftUsable
  BY <1>2 DEF SoftUsable
<1>3. CASE SoftRetain
  <2>1. retained' \in BOOLEAN /\ unlocked' \in BOOLEAN
    BY <1>3, ZenonT(30) DEF SoftRetain
  <2>2. denied' \in Nat
    BY <1>3 DEF SoftRetain
  <2>3. pc' \in [Procs -> Steps] /\ UNCHANGED resume
    BY <1>3 DEF SoftRetain
  <2> QED BY <1>3, <2>1, <2>2, <2>3 DEF SoftRetain
<1>4. CASE DogDrift
  BY <1>4 DEF DogDrift
<1>5. CASE DogCeiling
  BY <1>5 DEF DogCeiling
<1>6. CASE DogEnded
  BY <1>6 DEF DogEnded
<1>7. CASE DogLifetime
  BY <1>7 DEF DogLifetime
<1>8. CASE DogInactive
  BY <1>8 DEF DogInactive
<1>9. CASE DogScreen
  BY <1>9 DEF DogScreen
<1> QED
  BY <1>1, <1>2, <1>3, <1>4, <1>5, <1>6, <1>7, <1>8, <1>9 DEF DogStep

LEMMA StrikesClient ==
  ASSUME Inv, NEW c \in Clients, ClientStep(c)
  PROVE  (OnePrompt /\ Striking)'
<1> USE ThreadAssumption, StrikeAssumption
<1> USE DEF Inv, Striking, TypeOK, OnePrompt, Prompting, Goto, Go, At,
    QuickReturn, DogLocks, DogSoftLocks, Procs, vault, strikes, history, still
<1>1. CASE Touch(c)
  BY <1>1 DEF Touch
<1>2. CASE Activity(c)
  BY <1>2 DEF Activity
<1>3. CASE Sync(c)
  BY <1>3 DEF Sync
<1>4. CASE SetAutoLock(c)
  BY <1>4 DEF SetAutoLock
<1>5. CASE SetQuickUnlock(c)
  BY <1>5 DEF SetQuickUnlock
<1>6. CASE Wipe(c)
  BY <1>6 DEF Wipe
<1>7. CASE Unlock(c)
  BY <1>7 DEF Unlock
<1>8. CASE UnlockUnlockedAt(c)
  BY <1>8 DEF UnlockUnlockedAt
<1>9. CASE UnlockAnchor(c)
  BY <1>9 DEF UnlockAnchor
<1>10. CASE UnlockFailures(c)
  BY <1>10 DEF UnlockFailures
<1>11. CASE QuickGate(c)
  BY <1>11 DEF QuickGate
<1>12. CASE QuickBusy(c)
  BY <1>12 DEF QuickBusy
<1>13. CASE QuickRecheck(c)
  BY <1>13 DEF QuickRecheck
<1>14. CASE QuickPrompt(c)
  BY <1>14 DEF QuickPrompt
<1>15. CASE QuickStrike(c)
  BY <1>15 DEF QuickStrike
<1>16. CASE QuickWipe(c)
  BY <1>16 DEF QuickWipe
<1>17. CASE QuickForgive(c)
  BY <1>17 DEF QuickForgive
<1>18. CASE QuickCopy(c)
  BY <1>18 DEF QuickCopy
<1>19. CASE QuickCommit(c)
  BY <1>19 DEF QuickCommit
<1>20. CASE QuickFailures(c)
  BY <1>20 DEF QuickFailures
<1>21. CASE QuickUnlockedAt(c)
  BY <1>21 DEF QuickUnlockedAt
<1> QED
  BY <1>1, <1>2, <1>3, <1>4, <1>5, <1>6, <1>7, <1>8, <1>9, <1>10, <1>11, <1>12,
      <1>13, <1>14, <1>15, <1>16, <1>17, <1>18, <1>19, <1>20, <1>21 DEF
      ClientStep

LEMMA StrikesLock ==
  ASSUME Inv, NEW p \in Procs, LockStep(p)
  PROVE  (OnePrompt /\ Striking)'
<1> USE ThreadAssumption, StrikeAssumption
<1> USE DEF Inv, Striking, TypeOK, OnePrompt, Prompting, Goto, Go, At,
    QuickReturn, DogLocks, DogSoftLocks, Procs, vault, strikes, history, still
<1>1. CASE LockUnlockedAt(p)
  BY <1>1 DEF LockUnlockedAt
<1>2. CASE LockAnchor(p)
  BY <1>2 DEF LockAnchor
<1>3. CASE LockFailures(p)
  BY <1>3 DEF LockFailures
<1>4. CASE LockWipe(p)
  BY <1>4 DEF LockWipe
<1>5. CASE LockPurge(p)
  BY <1>5 DEF LockPurge
<1> QED
  BY <1>1, <1>2, <1>3, <1>4, <1>5 DEF LockStep

LEMMA StrikesDog ==
  ASSUME Inv, DogStep
  PROVE  (OnePrompt /\ Striking)'
<1> USE ThreadAssumption, StrikeAssumption
<1> USE DEF Inv, Striking, TypeOK, OnePrompt, Prompting, Goto, Go, At,
    QuickReturn, DogLocks, DogSoftLocks, Procs, vault, strikes, history, still
<1>1. CASE SoftUnlockedAt
  BY <1>1 DEF SoftUnlockedAt
<1>2. CASE SoftUsable
  BY <1>2 DEF SoftUsable
<1>3. CASE SoftRetain
  BY <1>3 DEF SoftRetain
<1>4. CASE DogDrift
  BY <1>4 DEF DogDrift
<1>5. CASE DogCeiling
  BY <1>5 DEF DogCeiling
<1>6. CASE DogEnded
  BY <1>6 DEF DogEnded
<1>7. CASE DogLifetime
  BY <1>7 DEF DogLifetime
<1>8. CASE DogInactive
  BY <1>8 DEF DogInactive
<1>9. CASE DogScreen
  BY <1>9 DEF DogScreen
<1> QED
  BY <1>1, <1>2, <1>3, <1>4, <1>5, <1>6, <1>7, <1>8, <1>9 DEF DogStep
-----------------------------------------------------------------------------
LEMMA InvInit == Init => Inv
<1> SUFFICES ASSUME Init PROVE Inv
  OBVIOUS
<1>1. TypeOK
  <2>1. unlocked \in BOOLEAN /\ retained \in BOOLEAN
    BY ZenonT(30) DEF Init
  <2>2. /\ {unlockedAt, anchor, masterAge} \subseteq Ages \cup {None}
        /\ lastActivity \in Ages /\ bootSeen \in 0..bootDelta \cup {None}
    BY TimeoutAssumption DEF Init, Ages
  <2>3. autoLock \in BOOLEAN /\ setting \in BOOLEAN /\ owed \in BOOLEAN
    BY ZenonT(30) DEF Init
  <2>4. /\ copies \in SUBSET Clients /\ failures \in 0..MaxStrikes
        /\ denied \in Nat /\ busy \in Clients \cup {None} /\ bootDelta \in Nat
        /\ signal \in {"none", "screen", "sleep"}
    BY StrikeAssumption DEF Init
  <2>5. pc \in [Procs -> Steps] /\ resume \in {"idle", "ceiling", "screen"}
    BY DEF Init, Steps
  <2> QED
    BY <2>1, <2>2, <2>3, <2>4, <2>5 DEF TypeOK
<1>2. OnePrompt
  BY DEF Init, OnePrompt, Prompting, Procs
<1>3. Striking
  BY StrikeAssumption DEF Init, Striking, At, Procs
<1> QED BY <1>1, <1>2, <1>3 DEF Inv

(* What happens outside the daemon's steps touches none of it. *)
LEMMA InvElsewhere ==
  ASSUME Inv,
         \/ \E c \in Clients, r \in Requests : Request(c, r)
         \/ Tick \/ Suspend \/ Signal \/ UNCHANGED vars
  PROVE  Inv'
<1>1. CASE \E c \in Clients, r \in Requests : Request(c, r)
  <2>1. PICK c \in Clients, r \in Requests : Request(c, r)
    BY <1>1
  <2>2. TypeOK'
    BY <2>1 DEF Request, Requests, Go, Goto, At, Inv, TypeOK, Procs, Steps,
        vault, timers, config, strikes, clock, history, still
  <2>3. OnePrompt' /\ Striking'
    BY <2>1 DEF Request, Requests, Go, Goto, At, Inv, TypeOK, OnePrompt,
        Striking, Prompting, Procs, vault, strikes, history, still
  <2> QED BY <2>2, <2>3 DEF Inv
<1>2. CASE Tick
  <2>1. TypeOK'
    BY <1>2, TimeoutAssumption DEF Tick, Older, Ages, Inv, TypeOK, vault,
        config, strikes, clock, control
  <2>2. OnePrompt' /\ Striking'
    BY <1>2 DEF Tick, Inv, OnePrompt, Striking, Prompting, At, vault, strikes,
        control
  <2> QED BY <2>1, <2>2 DEF Inv
<1>3. CASE Suspend
  <2>1. TypeOK'
    <3>1. owed' \in BOOLEAN
      BY <1>3, ZenonT(30) DEF Suspend, Holding
    <3> QED
      BY <1>3, <3>1 DEF Suspend, Inv, TypeOK, vault, timers, config, strikes,
          control
  <2>2. OnePrompt' /\ Striking'
    BY <1>3 DEF Suspend, Inv, OnePrompt, Striking, Prompting, At, vault,
        strikes, control
  <2> QED BY <2>1, <2>2 DEF Inv
<1>4. CASE Signal
  <2>1. signal' \in {"none", "screen", "sleep"}
    BY <1>4 DEF Signal, LockSignals, SystemLockSignal
  <2> QED
    BY <1>4, <2>1 DEF Signal, history, Inv, TypeOK, OnePrompt, Striking,
        Prompting, At, vault, timers, config, strikes, clock, control
<1>5. CASE UNCHANGED vars
  BY <1>5 DEF vars, still, history, Inv, TypeOK, OnePrompt, Striking,
      Prompting, At, vault, timers, config, strikes, clock, control
<1> QED BY <1>1, <1>2, <1>3, <1>4, <1>5

LEMMA InvNext == Inv /\ [Next]_vars => Inv'
<1> SUFFICES ASSUME Inv, [Next]_vars PROVE Inv'
  OBVIOUS
<1>1. CASE \E p \in Procs : Step(p)
  <2>1. PICK p \in Procs : Step(p)
    BY <1>1
  <2>2. CASE LockStep(p)
    BY <2>2, TypedLock, StrikesLock DEF Inv
  <2>3. CASE p \in Clients /\ ClientStep(p)
    BY <2>3, TypedClient, StrikesClient DEF Inv
  <2>4. CASE DogStep
    BY <2>4, TypedDog, StrikesDog DEF Inv
  <2> QED BY <2>1, <2>2, <2>3, <2>4 DEF Step
<1>2. CASE ~ \E p \in Procs : Step(p)
  BY <1>2, InvElsewhere DEF Next
<1> QED BY <1>1, <1>2

LEMMA InvAlways == Spec => []Inv
<1> QED BY InvInit, InvNext, PTL DEF Spec

-----------------------------------------------------------------------------
(* The timers, the counts and the places of the threads keep their types,  *)
(* and the count of failures never passes the last strike.                 *)
THEOREM TypeCorrect == Spec => []TypeOK
<1>1. Inv => TypeOK
  BY DEF Inv
<1> QED BY <1>1, InvAlways, PTL

(* quick_unlock_busy lets one client prompt at a time, whatever else the   *)
(* clients and the watchdog do.                                            *)
THEOREM PromptsExclude == Spec => []OnePrompt
<1>1. Inv => OnePrompt
  BY DEF Inv
<1> QED BY <1>1, InvAlways, PTL

(* Three denials in a row leave no retained key, whatever unlocks, locks,  *)
(* wipes and soft locks the other threads interleave with them.            *)
THEOREM StrikesWipe == Spec => []ThreeStrikes
<1>1. Inv => ThreeStrikes
  BY StrikeAssumption, ThreadAssumption DEF Inv, TypeOK, OnePrompt, Prompting,
      Striking, ThreeStrikes, At
<1> QED BY <1>1, InvAlways, PTL
=============================================================================
