-------------------------- MODULE VaultManager_refines --------------------------
(* VaultManager implements QuickUnlock: however restores, locks, unlocks   *)
(* and wipes of any number of threads interleave, an attempt opens the     *)
(* session only with a copy of the retained key that no wipe has voided.   *)
EXTENDS VaultManager_proofs

(* The refinement mapping, named: the copy a thread may still open the     *)
(* session with, and the key of the session being written.                 *)
HoldSteps == RestoreSteps \ (CommitSteps \cup {"restoreTake"})

Held(t) == IF pc[t] \in HoldSteps /\ seen[t] = epoch THEN key[t] ELSE NoKey

held == [t \in Threads |-> Held(t)]

opening == IF Committing = {} THEN NoKey
                              ELSE key[CHOOSE t \in Committing : TRUE]

mapped == <<slot, held, opening>>

(* No thread has sampled an epoch that is still to come, so a wipe, which  *)
(* moves the epoch, voids every copy.                                      *)
SeenPast == \A t \in Threads : seen[t] <= epoch

Inv == Typed /\ GuardHeld /\ RestoreIsCurrent /\ SeenPast

-----------------------------------------------------------------------------
LEMMA SeenStep ==
  ASSUME Typed, NEW t \in Threads, Step(t)
  PROVE  /\ seen'[t] \in {seen[t], epoch, 0}
         /\ epoch' = epoch \/ epoch' = epoch + 1
<1> USE DEF Typed, TypeOK, Go, Goto, Return, locals, retention
<1>1. CASE UnlockStep(t)
  BY <1>1 DEF UnlockStep, UnlockLoad, UnlockItems, UnlockKey, UnlockSlot,
              UnlockFlag, UnlockStorage
<1>2. CASE RestoreStep(t)
  BY <1>2 DEF RestoreStep, RestoreSample, RestoreTake, RestoreLoad,
              RestoreCheck, RestorePrecheck, RestoreEnter, RestoreItems,
              RestoreKey, RestoreFlag, RestoreStorage
<1>3. CASE LockStep(t)
  BY <1>3 DEF LockStep, SoftEnter, SoftRetain, PurgeFlag, PurgeItems,
              PurgeKey, WipeEnter, WipeSlot
<1>4. CASE NetStep(t)
  BY <1>4 DEF NetStep, SyncAsk, CreateTake, Answered, Failed, Renew,
              RenewSave, SyncSave, SyncKey, SyncItems, SyncStorage,
              CreateSave, CreateItems
<1> QED BY <1>1, <1>2, <1>3, <1>4 DEF Step

LEMMA SeenNext == Typed /\ SeenPast /\ [Next]_vars => SeenPast'
<1> SUFFICES ASSUME Typed, SeenPast, [Next]_vars PROVE SeenPast'
  OBVIOUS
<1>1. ASSUME NEW t \in Threads, Step(t) PROVE SeenPast'
  <2>1. \A u \in Threads \ {t} : seen'[u] = seen[u]
    BY <1>1, OthersHold
  <2>2. /\ seen'[t] \in {seen[t], epoch, 0}
        /\ epoch' = epoch \/ epoch' = epoch + 1
    BY <1>1, SeenStep
  <2> QED BY <2>1, <2>2 DEF SeenPast, Typed, TypeOK
<1>2. CASE \/ \E t \in Threads, o \in Ops : Call(t, o)
           \/ Login \/ LoginUnsynced \/ Logout \/ UNCHANGED vars
  BY <1>2 DEF Call, Login, LoginUnsynced, Logout, vars, retention, locals,
     SeenPast
<1> QED BY <1>1, <1>2 DEF Next

LEMMA InvAlways == Spec => []Inv
<1>1. Init => SeenPast
  BY DEF Init, SeenPast
<1> QED BY <1>1, SeenNext, TypedAlways, GuardExcludes, RestoreCurrent, PTL
        DEF Spec, Inv

-----------------------------------------------------------------------------
(* What the mapped state says of a thread.                                 *)
LEMMA HoldKey ==
  ASSUME Inv, NEW t \in Threads
  PROVE  /\ pc[t] \in HoldSteps \cup CommitSteps \cup {"unlockSlot"}
              => key[t] \in Keys /\ key[t] # NoKey
         /\ pc[t] \in CommitSteps => pc[t] \notin HoldSteps
  BY DEF Inv, Typed, TypeOK, Local, HoldSteps, KeySteps, RestoreSteps,
     CommitSteps, UnlockSteps

(* While a restore commits, it holds the guard and no other one commits.   *)
LEMMA OneCommits ==
  ASSUME Inv, NEW t \in Threads
  PROVE  /\ pc[t] \in CommitSteps => guard = t /\ opening = key[t]
         /\ guard = NoThread => opening = NoKey
         /\ guard = t /\ pc[t] \notin CommitSteps => opening = NoKey
<1>1. \A u \in Threads : pc[u] \in CommitSteps => guard = u
  BY DEF Inv, GuardHeld, Holds
<1>2. ASSUME pc[t] \in CommitSteps PROVE opening = key[t]
  <2>1. Committing = {t}
    BY <1>1, <1>2 DEF Committing
  <2>2. (CHOOSE u \in Committing : TRUE) = t
    BY <2>1
  <2> QED BY <2>1, <2>2 DEF opening
<1>3. ASSUME \A u \in Threads : pc[u] \notin CommitSteps PROVE opening = NoKey
  BY <1>3 DEF opening, Committing
<1> QED BY <1>1, <1>2, <1>3, ThreadAssumption

(* A thread's step leaves the copies of the others alone.                  *)
LEMMA OthersKeep ==
  ASSUME Typed, NEW t \in Threads, NEW u \in Threads, u # t, Step(t)
  PROVE  key'[u] = key[u]
<1> USE DEF Typed, TypeOK, Go, Return, locals
<1>1. CASE UnlockStep(t)
  BY <1>1 DEF UnlockStep, UnlockLoad, UnlockItems, UnlockKey, UnlockSlot,
              UnlockFlag, UnlockStorage
<1>2. CASE RestoreStep(t)
  BY <1>2 DEF RestoreStep, RestoreSample, RestoreTake, RestoreLoad,
              RestoreCheck, RestorePrecheck, RestoreEnter, RestoreItems,
              RestoreKey, RestoreFlag, RestoreStorage
<1>3. CASE LockStep(t)
  BY <1>3 DEF LockStep, SoftEnter, SoftRetain, PurgeFlag, PurgeItems,
              PurgeKey, WipeEnter, WipeSlot
<1>4. CASE NetStep(t)
  BY <1>4 DEF NetStep, SyncAsk, CreateTake, Answered, Failed, Renew,
              RenewSave, SyncSave, SyncKey, SyncItems, SyncStorage,
              CreateSave, CreateItems
<1> QED BY <1>1, <1>2, <1>3, <1>4 DEF Step

LEMMA HeldFrame ==
  ASSUME Inv, NEW t \in Threads, Step(t), UNCHANGED epoch
  PROVE  held' = [held EXCEPT ![t] = Held(t)']
<1>1. \A u \in Threads \ {t} : Held(u)' = Held(u)
  BY OthersHold, OthersKeep DEF Held, Inv
<1> QED BY <1>1 DEF held

LEMMA OpenFrame ==
  ASSUME Inv, NEW t \in Threads, Step(t),
         pc'[t] \in CommitSteps <=> pc[t] \in CommitSteps,
         pc[t] \in CommitSteps => key'[t] = key[t]
  PROVE  opening' = opening
<1>1. Committing' = Committing
  BY OthersHold DEF Committing, Inv
<1>2. \A u \in Committing : key'[u] = key[u]
  BY OthersKeep DEF Committing, Inv
<1>3. CASE Committing = {}
  BY <1>1, <1>3 DEF opening
<1>4. CASE Committing # {}
  <2>1. (CHOOSE u \in Committing : TRUE) \in Committing
    BY <1>4
  <2> QED BY <1>1, <1>2, <1>4, <2>1 DEF opening
<1> QED BY <1>3, <1>4

-----------------------------------------------------------------------------
(* The steps of QuickUnlock on the mapped state.                           *)
Promised == Promise!Next \/ UNCHANGED mapped

LEMMA MapTake ==
  ASSUME NEW t \in Threads, slot # NoKey, held[t] = NoKey,
         held' = [held EXCEPT ![t] = slot], UNCHANGED <<slot, opening>>
  PROVE  Promised
<1>1. Promise!Take(t)
  BY DEF Promise!Take, held, Held, HoldSteps, opening
<1> QED BY <1>1 DEF Promised, Promise!Next

LEMMA MapGiveUp ==
  ASSUME NEW t \in Threads, held[t] # NoKey,
         held' = [held EXCEPT ![t] = NoKey], UNCHANGED <<slot, opening>>
  PROVE  Promised
<1>1. Promise!GiveUp(t)
  BY DEF Promise!GiveUp, held, Held, HoldSteps, opening
<1> QED BY <1>1 DEF Promised, Promise!Next

LEMMA MapOpen ==
  ASSUME NEW t \in Threads, held[t] # NoKey, opening = NoKey,
         opening' = held[t], held' = [held EXCEPT ![t] = NoKey],
         UNCHANGED slot
  PROVE  Promised
<1>1. Promise!Open(t)
  BY DEF Promise!Open, held, Held, HoldSteps, opening
<1> QED BY <1>1 DEF Promised, Promise!Next

LEMMA MapSlot ==
  ASSUME UNCHANGED <<held, opening>>,
         slot' \in Keys \/ (opening = NoKey /\ slot' = NoKey)
  PROVE  Promised
<1>1. Promise!Retain \/ Promise!Drop
  BY DEF Promise!Retain, Promise!Drop, held, Held, HoldSteps, opening
<1> QED BY <1>1 DEF Promised, Promise!Next

LEMMA MapRevoke ==
  ASSUME opening = NoKey, held' = [t \in Threads |-> NoKey],
         UNCHANGED <<slot, opening>>
  PROVE  Promised
<1>1. Promise!Revoke
  BY DEF Promise!Revoke, held, Held, HoldSteps, opening
<1> QED BY <1>1 DEF Promised, Promise!Next

LEMMA MapOpened ==
  ASSUME opening # NoKey, opening' = NoKey, UNCHANGED <<slot, held>>
  PROVE  Promised
<1>1. Promise!Opened
  BY DEF Promise!Opened, held, Held, HoldSteps, opening
<1> QED BY <1>1 DEF Promised, Promise!Next

(* A step of a thread that does not commit, before or after, and leaves    *)
(* the slot and the epoch alone, keeps its copy or gives it up.            *)
LEMMA MapIdle ==
  ASSUME Inv, NEW t \in Threads, Step(t), UNCHANGED <<slot, epoch>>,
         pc[t] \notin CommitSteps, pc'[t] \notin CommitSteps,
         Held(t)' \in {Held(t), NoKey}
  PROVE  Promised
<1>1. held' = [held EXCEPT ![t] = Held(t)'] /\ opening' = opening
  BY HeldFrame, OpenFrame
<1>2. held = [held EXCEPT ![t] = Held(t)] /\ held[t] = Held(t)
  BY DEF held
<1>3. CASE Held(t)' = Held(t)
  BY <1>1, <1>2, <1>3 DEF Promised, mapped
<1>4. CASE Held(t)' # Held(t)
  BY <1>1, <1>2, <1>4, MapGiveUp
<1> QED BY <1>3, <1>4

-----------------------------------------------------------------------------
LEMMA PromisedRestore ==
  ASSUME Inv, NEW t \in Threads, RestoreStep(t)
  PROVE  Promised
<1>1. Step(t) /\ UNCHANGED slot /\ UNCHANGED epoch
  BY DEF Step, RestoreStep, RestoreSample, RestoreTake, RestoreLoad,
         RestoreCheck, RestorePrecheck, RestoreEnter, RestoreItems,
         RestoreKey, RestoreFlag, RestoreStorage, retention
<1>2. TypeOK
  BY DEF Inv, Typed
<1>3. held[t] = Held(t) /\ held \in [Threads -> Keys \cup {NoKey}]
  BY HoldKey DEF held, Held
<1>4. CASE RestoreTake(t) /\ ~Return(t)
  <2>1. /\ slot # NoKey /\ pc[t] = "restoreTake" /\ pc'[t] = "restoreLoad"
        /\ key'[t] = slot /\ seen' = seen
    BY <1>2, <1>4 DEF RestoreTake, At, Goto, TypeOK
  <2>2. opening' = opening
    BY <1>1, <2>1, OpenFrame DEF CommitSteps
  <2>3. CASE seen[t] = epoch
    <3>1. Held(t) = NoKey /\ Held(t)' = slot
      BY <1>1, <2>1, <2>3 DEF Held, HoldSteps, RestoreSteps, CommitSteps
    <3> QED BY <1>1, <1>3, <2>1, <2>2, <3>1, HeldFrame, MapTake
  <2>4. CASE seen[t] # epoch
    <3>1. Held(t)' = NoKey
      BY <1>1, <2>1, <2>4 DEF Held
    <3> QED BY <1>1, <2>1, <3>1, MapIdle DEF CommitSteps
  <2> QED BY <2>3, <2>4
<1>5. CASE RestoreEnter(t) /\ ~Return(t)
  <2>1. /\ guard = NoThread /\ epoch = seen[t]
        /\ pc[t] = "restoreEnter" /\ pc'[t] = "restoreItems"
        /\ guard' = t /\ key' = key /\ seen' = seen
    BY <1>2, <1>5 DEF RestoreEnter, At, Go, Goto, TypeOK, locals
  <2>2. Held(t) = key[t] /\ key[t] # NoKey /\ Held(t)' = NoKey
    BY <2>1, HoldKey DEF Held, HoldSteps, RestoreSteps, CommitSteps
  <2>3. opening = NoKey
    BY <2>1, OneCommits
  <2>4. opening' = key[t]
    <3>1. \A u \in Threads : pc[u] \notin CommitSteps
      BY <2>1, ThreadAssumption DEF Inv, GuardHeld, Holds
    <3>2. Committing' = {t}
      BY <1>1, <2>1, <3>1, OthersHold DEF Committing, Inv, CommitSteps
    <3>3. (CHOOSE u \in Committing' : TRUE) = t
      BY <3>2
    <3> QED BY <2>1, <3>2, <3>3 DEF opening
  <2> QED BY <1>1, <1>3, <2>2, <2>3, <2>4, HeldFrame, MapOpen
<1>6. CASE RestoreStorage(t)
  <2>1. /\ pc[t] = "restoreStorage" /\ pc'[t] = "idle"
        /\ Held(t)' = NoKey /\ Held(t) = NoKey
    BY <1>2, <1>6 DEF RestoreStorage, At, Return, Goto, TypeOK, Held, HoldSteps,
       RestoreSteps, CommitSteps
  <2>2. opening # NoKey /\ guard = t
    BY <2>1, OneCommits, HoldKey DEF CommitSteps
  <2>3. opening' = NoKey
    <3>1. \A u \in Threads \ {t} : pc[u] \notin CommitSteps
      BY <2>2 DEF Inv, GuardHeld, Holds
    <3>2. Committing' = {}
      BY <1>1, <2>1, <3>1, OthersHold DEF Committing, Inv, CommitSteps
    <3> QED BY <3>2 DEF opening
  <2>4. held' = held
    BY <1>1, <1>3, <2>1, HeldFrame
  <2> QED BY <1>1, <2>2, <2>3, <2>4, MapOpened
<1>7. CASE RestoreItems(t) \/ RestoreKey(t) \/ RestoreFlag(t)
  <2>1. /\ pc[t] \in CommitSteps /\ pc'[t] \in CommitSteps /\ key' = key
        /\ Held(t)' = NoKey /\ Held(t) = NoKey
    BY <1>2, <1>7 DEF RestoreItems, RestoreKey, RestoreFlag, At, Go, Goto,
       TypeOK, locals, Held, HoldSteps, RestoreSteps, CommitSteps
  <2>2. held' = held /\ opening' = opening
    BY <1>1, <1>3, <2>1, HeldFrame, OpenFrame
  <2> QED BY <1>1, <2>2 DEF Promised, mapped
<1>8. CASE Return(t) /\ ~RestoreStorage(t)
  <2>1. pc'[t] = "idle"
    BY <1>2, <1>8 DEF Return, Goto, TypeOK
  <2>2. Held(t)' = NoKey /\ pc'[t] \notin CommitSteps
    BY <2>1 DEF Held, HoldSteps, RestoreSteps, CommitSteps
  <2>3. pc[t] \notin CommitSteps
    BY <1>8, <2>1, <1>2 DEF RestoreStep, RestoreSample, RestoreTake, RestoreLoad,
       RestoreCheck, RestorePrecheck, RestoreEnter, RestoreItems, RestoreKey,
       RestoreFlag, At, Go, Goto, TypeOK, CommitSteps
  <2> QED BY <1>1, <2>2, <2>3, MapIdle
<1>9. CASE ~Return(t) /\ (RestoreSample(t) \/ RestoreLoad(t) \/ RestoreCheck(t)
                            \/ RestorePrecheck(t))
  <2>1. /\ pc[t] \notin CommitSteps /\ pc'[t] \notin CommitSteps
        /\ Held(t)' \in {Held(t), NoKey}
    BY <1>1, <1>2, <1>9 DEF RestoreSample, RestoreLoad, RestoreCheck,
       RestorePrecheck, At, Go, Goto, TypeOK, locals, Held, HoldSteps,
       RestoreSteps, CommitSteps
  <2> QED BY <1>1, <2>1, MapIdle
<1> QED BY <1>4, <1>5, <1>6, <1>7, <1>8, <1>9 DEF RestoreStep
(* Steps outside a restore: a wipe revokes and drops, a soft lock and an   *)
(* unlock retain, and the others do not touch what is promised.            *)
LEMMA MapOutside ==
  ASSUME Inv, NEW t \in Threads, Step(t), UNCHANGED epoch,
         pc[t] \notin RestoreSteps, pc'[t] \notin RestoreSteps
  PROVE  UNCHANGED <<held, opening>>
<1>1. Held(t) = NoKey /\ Held(t)' = NoKey
  BY DEF Held, HoldSteps
<1>2. opening' = opening
  BY OpenFrame DEF RestoreSteps
<1>3. held' = held
  BY <1>1, HeldFrame DEF held
<1> QED BY <1>2, <1>3

LEMMA PromisedLock ==
  ASSUME Inv, NEW t \in Threads, LockStep(t)
  PROVE  Promised
<1>1. Step(t)
  BY DEF Step
<1>2. TypeOK
  BY DEF Inv, Typed
<1>3. CASE ~WipeEnter(t)
  <2>1. /\ epoch' = epoch
        /\ pc[t] \notin RestoreSteps /\ pc'[t] \notin RestoreSteps
    BY <1>2, <1>3 DEF LockStep, SoftEnter, SoftRetain, PurgeFlag, PurgeItems,
       PurgeKey, WipeSlot, At, Go, Goto, Return, TypeOK, retention,
       RestoreSteps, CommitSteps
  <2>2. UNCHANGED <<held, opening>>
    BY <1>1, <2>1, MapOutside
  <2>3. slot' \in Keys \/ slot' = slot \/ WipeSlot(t)
    BY <1>2, <1>3 DEF LockStep, SoftEnter, SoftRetain, PurgeFlag, PurgeItems,
       PurgeKey, TypeOK, retention
  <2>4. CASE slot' \in Keys
    BY <2>2, <2>4, MapSlot
  <2>5. CASE slot' = slot
    BY <2>2, <2>5 DEF Promised, mapped
  <2>6. CASE WipeSlot(t)
    <3>1. pc[t] = "wipeSlot" /\ slot' = NoKey
      BY <2>6 DEF WipeSlot, At
    <3>2. guard = t /\ pc[t] \notin CommitSteps
      BY <3>1 DEF Inv, GuardHeld, Holds, CommitSteps
    <3> QED BY <2>2, <3>1, <3>2, OneCommits, MapSlot
  <2> QED BY <2>3, <2>4, <2>5, <2>6
<1>4. CASE WipeEnter(t)
  <2>1. /\ guard = NoThread /\ pc[t] = "wipeEnter" /\ pc'[t] = "wipeSlot"
        /\ epoch' = epoch + 1 /\ seen' = seen /\ slot' = slot
    BY <1>2, <1>4 DEF WipeEnter, At, Go, Goto, TypeOK, locals
  <2>2. \A u \in Threads : seen[u] # epoch'
    BY <1>2, <2>1 DEF Inv, SeenPast, TypeOK
  <2>3. held' = [u \in Threads |-> NoKey]
    BY <2>1, <2>2 DEF held, Held
  <2>4. opening = NoKey
    BY <2>1, OneCommits
  <2>5. opening' = opening
    BY <1>1, <2>1, OpenFrame DEF CommitSteps
  <2> QED BY <2>1, <2>3, <2>4, <2>5, MapRevoke
<1> QED BY <1>3, <1>4

LEMMA PromisedUnlock ==
  ASSUME Inv, NEW t \in Threads, UnlockStep(t)
  PROVE  Promised
<1>1. TypeOK /\ Step(t)
  BY DEF Inv, Typed, Step
<1>2. /\ epoch' = epoch
      /\ pc[t] \notin RestoreSteps /\ pc'[t] \notin RestoreSteps
  BY <1>1 DEF UnlockStep, UnlockLoad, UnlockItems, UnlockKey, UnlockSlot,
     UnlockFlag, UnlockStorage, At, Go, Goto, Return, TypeOK, retention,
     RestoreSteps, CommitSteps
<1>3. UNCHANGED <<held, opening>>
  BY <1>1, <1>2, MapOutside
<1>4. slot' = slot \/ slot' \in Keys
  <2>1. CASE UnlockSlot(t)
    BY <2>1, HoldKey DEF UnlockSlot, At
  <2>2. CASE ~UnlockSlot(t)
    BY <2>2 DEF UnlockStep, UnlockLoad, UnlockItems, UnlockKey, UnlockFlag,
       UnlockStorage, retention
  <2> QED BY <2>1, <2>2
<1> QED BY <1>3, <1>4, MapSlot DEF Promised, mapped

LEMMA PromisedNet ==
  ASSUME Inv, NEW t \in Threads, NetStep(t)
  PROVE  Promised
<1>1. TypeOK /\ Step(t)
  BY DEF Inv, Typed, Step
<1>2. /\ UNCHANGED slot /\ UNCHANGED epoch
      /\ pc[t] \notin RestoreSteps /\ pc'[t] \notin RestoreSteps
  BY <1>1 DEF NetStep, SyncAsk, CreateTake, Answered, Failed, Renew, RenewSave,
     SyncSave, SyncKey, SyncItems, SyncStorage, CreateSave, CreateItems,
     Asking, At, Go, Goto, Return, TypeOK, retention, RestoreSteps, CommitSteps
<1>3. UNCHANGED <<held, opening>>
  BY <1>1, <1>2, MapOutside
<1> QED BY <1>2, <1>3 DEF Promised, mapped

(* A call that begins, and what other processes do to data.json.           *)
LEMMA PromisedElsewhere ==
  ASSUME Inv,
         \/ \E t \in Threads, o \in Ops : Call(t, o)
         \/ Login \/ LoginUnsynced \/ Logout \/ UNCHANGED vars
  PROVE  Promised
<1>1. UNCHANGED <<slot, epoch, key, seen>>
  BY DEF Call, Login, LoginUnsynced, Logout, vars, retention, locals
<1>2. ASSUME NEW u \in Threads
      PROVE  /\ pc'[u] \in CommitSteps <=> pc[u] \in CommitSteps
             /\ pc'[u] \in HoldSteps <=> pc[u] \in HoldSteps
  <2>1. CASE \E t \in Threads, o \in Ops : Call(t, o)
    <3>1. PICK t \in Threads, o \in Ops : Call(t, o)
      BY <2>1
    <3>2. pc[t] = "idle" /\ pc' = [pc EXCEPT ![t] = Entry[o]]
      BY <3>1 DEF Call, At, Goto
    <3>3. Entry[o] \notin HoldSteps /\ Entry[o] \notin CommitSteps
      BY DEF Entry, Ops, HoldSteps, RestoreSteps, CommitSteps
    <3> QED
      BY <3>2, <3>3 DEF Inv, Typed, TypeOK, HoldSteps, RestoreSteps, CommitSteps
  <2>2. CASE Login \/ LoginUnsynced \/ Logout \/ UNCHANGED vars
    BY <2>2 DEF Login, LoginUnsynced, Logout, vars
  <2> QED BY <2>1, <2>2
<1>3. held' = held
  BY <1>1, <1>2 DEF held, Held
<1>4. Committing' = Committing
  BY <1>2 DEF Committing
<1>5. opening' = opening
  BY <1>1, <1>4 DEF opening
<1> QED BY <1>1, <1>3, <1>5 DEF Promised, mapped

LEMMA PromisedNext == Inv /\ [Next]_vars => Promised
<1> SUFFICES ASSUME Inv, [Next]_vars PROVE Promised
  OBVIOUS
<1>1. ASSUME NEW t \in Threads, Step(t) PROVE Promised
  BY <1>1, PromisedUnlock, PromisedRestore, PromisedLock, PromisedNet DEF Step
<1>2. CASE \/ \E t \in Threads, o \in Ops : Call(t, o)
           \/ Login \/ LoginUnsynced \/ Logout \/ UNCHANGED vars
  BY <1>2, PromisedElsewhere
<1> QED BY <1>1, <1>2 DEF Next

(* An attempt at quick unlock opens the session only with a copy of the    *)
(* retained key that no wipe has voided since, and no wipe runs while the  *)
(* session is written: every step of the daemon's threads is one of the    *)
(* promise, or changes nothing it speaks of.                               *)
THEOREM Refinement == Spec => KeepsPromise
<1>1. Init => Promise!Init
  <2> SUFFICES ASSUME Init PROVE Promise!Init
    OBVIOUS
  <2>1. \A t \in Threads : pc[t] = "idle"
    BY DEF Init
  <2>2. held = [t \in Threads |-> NoKey] /\ opening = NoKey
    BY <2>1 DEF held, Held, HoldSteps, opening, Committing, RestoreSteps,
       CommitSteps
  <2>3. slot \in Keys \cup {NoKey}
    BY TypedInit DEF Typed, TypeOK
  <2> QED BY <2>2, <2>3 DEF Promise!Init, held, Held, HoldSteps, opening
<1>2. Inv /\ [Next]_vars => [Promise!Next]_(Promise!vars)
  BY PromisedNext DEF Promised, Promise!vars, mapped, held, Held, HoldSteps,
     opening
<1> QED BY <1>1, <1>2, InvAlways, PTL DEF Spec, KeepsPromise, Promise!Spec
=============================================================================
