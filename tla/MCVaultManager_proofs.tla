------------------------- MODULE MCVaultManager_proofs -------------------------
(* Theorems about the calls that may run together, for every set of        *)
(* threads, keys and scopes: which of them leave a locked vault empty, an  *)
(* unlocked one usable, a hard lock complete and a restored key in its     *)
(* place.                                                                  *)
EXTENDS MCVaultManager, VaultManager_proofs

(* Only calls of the scope are under way, and their steps are their own.   *)
Called(t) ==
  /\ op[t] # "none" => op[t] \in scope.calls
  /\ pc[t] \in {"unlockLoad"} \cup UnlockSteps => op[t] = "unlock"
  /\ pc[t] \in PurgeSteps => op[t] \in {"soft", "lock", "sync", "create"}
  /\ pc[t] \in {"wipeEnter", "wipeSlot"}
       => op[t] \in {"lock", "wipe", "restore", "sync", "create"}

Base == Typed /\ GuardHeld /\ \A t \in Threads : Called(t)

LEMMA ScopedIsNext ==
  ASSUME [ScopedNext]_scopedVars
  PROVE  [Next]_vars /\ scope' = scope
  BY DEF ScopedNext, ScopedLogin, Next, Step, scopedVars

LEMMA CalledStep ==
  ASSUME Typed, NEW t \in Threads, Called(t), Step(t), UNCHANGED scope
  PROVE  Called(t)'
<1> USE DEF Called, Typed, TypeOK, Local, Go, Goto, Return, At, locals,
        UnlockSteps, PurgeSteps, RestoreSteps, CommitSteps, NetSteps
<1>1. CASE UnlockStep(t)
  BY <1>1 DEF UnlockStep, UnlockLoad, UnlockItems, UnlockKey, UnlockSlot,
              UnlockFlag, UnlockStorage
<1>2. CASE RestoreStep(t)
  BY <1>2 DEF RestoreStep, RestoreSample, RestoreTake, RestoreLoad,
              RestoreCheck, RestorePrecheck, RestoreEnter, RestoreItems,
              RestoreKey, RestoreFlag, RestoreStorage
<1>3. CASE LockStep(t)
  BY <1>3 DEF LockStep, SoftEnter, SoftRetain, PurgeFlag, PurgeItems,
              PurgeKey, WipeEnter, WipeSlot
<1>4. CASE NetStep(t)
  BY <1>4 DEF NetStep, Asking, SyncAsk, CreateTake, Answered, Failed, Renew,
              RenewSave, SyncSave, SyncKey, SyncItems, SyncStorage,
              CreateSave, CreateItems
<1> QED BY <1>1, <1>2, <1>3, <1>4 DEF Step

(* The other threads keep their locals.                                    *)
LEMMA OthersKey ==
  ASSUME Typed, NEW t \in Threads, NEW u \in Threads, u # t, Step(t)
  PROVE  key'[u] = key[u] /\ snap'[u] = snap[u]
<1> USE DEF Typed, TypeOK, Go, Goto, Return, locals
<1>1. CASE UnlockStep(t)
  BY <1>1 DEF UnlockStep, UnlockLoad, UnlockItems, UnlockKey, UnlockSlot,
              UnlockFlag, UnlockStorage
<1>2. CASE RestoreStep(t)
  BY <1>2 DEF RestoreStep, RestoreSample, RestoreTake, RestoreLoad,
              RestoreCheck, RestorePrecheck, RestoreEnter, RestoreItems,
              RestoreKey, RestoreFlag, RestoreStorage
<1>3. CASE LockStep(t)
  BY <1>3 DEF LockStep, SoftEnter, SoftRetain, PurgeFlag, PurgeItems,
              PurgeKey, WipeEnter, WipeSlot
<1>4. CASE NetStep(t)
  BY <1>4 DEF NetStep, SyncAsk, CreateTake, Answered, Failed, Renew,
              RenewSave, SyncSave, SyncKey, SyncItems, SyncStorage,
              CreateSave, CreateItems
<1> QED BY <1>1, <1>2, <1>3, <1>4 DEF Step

LEMMA BaseNext == Base /\ [ScopedNext]_scopedVars => Base'
<1> SUFFICES ASSUME Base, [ScopedNext]_scopedVars PROVE Base'
  OBVIOUS
<1>1. [Next]_vars /\ scope' = scope
  BY ScopedIsNext
<1>2. Typed' /\ GuardHeld'
  BY <1>1, TypedNext, GuardNext DEF Base
<1>3. ASSUME NEW u \in Threads PROVE Called(u)'
  <2>1. ASSUME NEW t \in Threads, Step(t) PROVE Called(u)'
    <3>1. CASE u = t
      BY <1>1, <2>1, <3>1, CalledStep DEF Base
    <3>2. CASE u # t
      BY <1>1, <2>1, <3>2, OthersHold DEF Base, Called
    <3> QED BY <3>1, <3>2
  <2>2. ASSUME NEW t \in Threads, NEW o \in Ops \cap scope.calls, Call(t, o)
        PROVE  Called(u)'
    <3>1. CASE u = t
      <4>1. pc'[t] = Entry[o] /\ op'[t] = o
        BY <2>2 DEF Base, Typed, TypeOK, Call, Goto
      <4> QED
        BY <1>1, <3>1, <4>1 DEF Ops, Entry, Called, UnlockSteps, PurgeSteps
    <3>2. CASE u # t
      BY <1>1, <2>2, <3>2 DEF Base, Typed, TypeOK, Call, Goto, Called
    <3> QED BY <3>1, <3>2
  <2>3. CASE ScopedLogin \/ Logout \/ UNCHANGED scopedVars
    BY <1>1, <2>3 DEF ScopedLogin, Login, LoginUnsynced, Logout, scopedVars,
       vars, locals, Base, Called
  <2> QED BY <2>1, <2>2, <2>3 DEF ScopedNext, Step
<1> QED BY <1>2, <1>3 DEF Base

LEMMA BaseAlways == ScopedSpec => []Base
<1>1. ScopedInit => Base
  <2>1. ScopedInit => Init
    BY DEF ScopedInit
  <2>2. Init => Typed /\ GuardHeld
    BY TypedInit, ThreadAssumption DEF Init, GuardHeld, Holds, CommitSteps,
       PurgeSteps
  <2>3. Init => \A t \in Threads : Called(t)
    BY DEF Init, Called, UnlockSteps, PurgeSteps
  <2> QED BY <2>1, <2>2, <2>3 DEF Base
<1> QED BY <1>1, BaseNext, PTL DEF ScopedSpec

-----------------------------------------------------------------------------
(* Without soft locks a wiped slot stays empty while the lock that wiped   *)
(* it purges the session.                                                  *)
Wiped ==
  Without({"soft"}) =>
    \A t \in Threads : pc[t] \in PurgeSteps /\ op[t] = "lock" => slot = NoKey

(* No call but a soft lock fills an empty slot.                            *)
LEMMA SlotStaysEmpty ==
  ASSUME Base, Without({"soft"}), NEW t \in Threads, Step(t), slot = NoKey
  PROVE  slot' = NoKey
<1>1. ~SoftRetain(t)
  BY DEF Base, Called, Typed, Local, Without, SoftRetain, At
<1> USE DEF retention
<1>2. CASE UnlockStep(t)
  BY <1>2 DEF UnlockStep, UnlockLoad, UnlockItems, UnlockKey, UnlockSlot,
              UnlockFlag, UnlockStorage
<1>3. CASE RestoreStep(t)
  BY <1>3 DEF RestoreStep, RestoreSample, RestoreTake, RestoreLoad,
              RestoreCheck, RestorePrecheck, RestoreEnter, RestoreItems,
              RestoreKey, RestoreFlag, RestoreStorage
<1>4. CASE LockStep(t)
  BY <1>1, <1>4 DEF LockStep, SoftEnter, PurgeFlag, PurgeItems, PurgeKey,
                    WipeEnter, WipeSlot
<1>5. CASE NetStep(t)
  BY <1>5 DEF NetStep, SyncAsk, CreateTake, Answered, Failed, Renew,
              RenewSave, SyncSave, SyncKey, SyncItems, SyncStorage,
              CreateSave, CreateItems
<1> QED BY <1>2, <1>3, <1>4, <1>5 DEF Step

(* A hard lock comes to its purge by its wipe alone.                       *)
LEMMA PurgeEntered ==
  ASSUME Base, NEW t \in Threads, Step(t),
         pc'[t] \in PurgeSteps, op'[t] = "lock"
  PROVE  (pc[t] \in PurgeSteps /\ op[t] = "lock") \/ slot' = NoKey
<1> USE DEF Base, Called, Typed, TypeOK, Local, Go, Goto, Return, At, locals,
        PurgeSteps
<1>1. CASE UnlockStep(t)
  BY <1>1 DEF UnlockStep, UnlockLoad, UnlockItems, UnlockKey, UnlockSlot,
              UnlockFlag, UnlockStorage
<1>2. CASE RestoreStep(t)
  BY <1>2 DEF RestoreStep, RestoreSample, RestoreTake, RestoreLoad,
              RestoreCheck, RestorePrecheck, RestoreEnter, RestoreItems,
              RestoreKey, RestoreFlag, RestoreStorage
<1>3. CASE LockStep(t)
  BY <1>3 DEF LockStep, SoftEnter, SoftRetain, PurgeFlag, PurgeItems,
              PurgeKey, WipeEnter, WipeSlot
<1>4. CASE NetStep(t)
  BY <1>4 DEF NetStep, SyncAsk, CreateTake, Answered, Failed, Renew,
              RenewSave, SyncSave, SyncKey, SyncItems, SyncStorage,
              CreateSave, CreateItems
<1> QED BY <1>1, <1>2, <1>3, <1>4 DEF Step

(* What other processes do, and a call that begins, do not matter to the   *)
(* session, the slot and the calls that are past their entry.              *)
LEMMA Elsewhere ==
  ASSUME Base, [ScopedNext]_scopedVars, ~ \E t \in Threads : Step(t)
  PROVE  /\ UNCHANGED <<session, retention, locks, key, snap, scope>>
         /\ \A u \in Threads :
              \/ pc'[u] = pc[u] /\ op'[u] = op[u]
              \/ pc[u] = "idle" /\ \E o \in Ops : pc'[u] = Entry[o]
<1>1. ASSUME NEW t \in Threads, NEW o \in Ops, Call(t, o), scope' = scope
      PROVE  /\ UNCHANGED <<session, retention, locks, key, snap, scope>>
             /\ \A u \in Threads :
                  \/ pc'[u] = pc[u] /\ op'[u] = op[u]
                  \/ pc[u] = "idle" /\ \E p \in Ops : pc'[u] = Entry[p]
  BY <1>1 DEF Call, At, Goto, Base, Typed, TypeOK
<1>2. CASE ScopedLogin \/ Logout \/ UNCHANGED scopedVars
  BY <1>2, ScopedIsNext DEF ScopedLogin, Login, LoginUnsynced, Logout,
     scopedVars, vars, locals
<1> QED BY <1>1, <1>2 DEF ScopedNext, Step

LEMMA WipedNext == Base /\ Wiped /\ [ScopedNext]_scopedVars => Wiped'
<1> SUFFICES ASSUME Base, Wiped, [ScopedNext]_scopedVars, Without({"soft"})',
                    NEW u \in Threads, pc'[u] \in PurgeSteps, op'[u] = "lock"
             PROVE  slot' = NoKey
  BY DEF Wiped
<1>1. Without({"soft"})
  BY ScopedIsNext DEF Without
<1>2. ASSUME NEW t \in Threads, Step(t) PROVE slot' = NoKey
  <2>1. CASE u = t
    BY <1>1, <1>2, <2>1, PurgeEntered, SlotStaysEmpty DEF Wiped
  <2>2. CASE u # t
    BY <1>1, <1>2, <2>2, OthersHold, SlotStaysEmpty DEF Wiped, Base
  <2> QED BY <2>1, <2>2
<1>3. CASE ~ \E t \in Threads : Step(t)
  <2>1. pc'[u] = pc[u] /\ op'[u] = op[u]
    BY <1>3, Elsewhere DEF Entry, Ops, PurgeSteps
  <2> QED BY <1>1, <1>3, <2>1, Elsewhere DEF Wiped, retention
<1> QED BY <1>2, <1>3

(* In the absence of soft locks, no key is retained when a hard lock       *)
(* returns, whatever unlocks, restores, syncs and wipes it raced.          *)
THEOREM HardLockWiped == ScopedSpec => HardLockStaysWiped
<1>1. ScopedInit => Wiped
  BY DEF ScopedInit, Init, Wiped, PurgeSteps
<1>2. Base /\ Wiped /\ [ScopedNext]_scopedVars
        => [Without({"soft"}) => LockWipes]_scopedVars
  BY DEF Wiped, LockWipes, PurgeKey, At, PurgeSteps, retention
<1> QED BY <1>1, <1>2, WipedNext, BaseAlways, PTL DEF ScopedSpec,
           HardLockStaysWiped

-----------------------------------------------------------------------------
(* Without syncs and creations, what a locked vault still holds, some      *)
(* thread is about to clear or to flag as unlocked.                        *)
ItemSteps == {"unlockKey", "unlockSlot", "unlockFlag", "restoreKey",
              "restoreFlag", "purgeItems"}
HeldSteps == {"unlockSlot", "unlockFlag", "restoreFlag", "purgeItems",
              "purgeKey"}
Emptied ==
  Without({"sync", "create"}) /\ ~unlocked =>
    /\ items = {} \/ \E t \in Threads : pc[t] \in ItemSteps
    /\ userKey = NoKey \/ \E t \in Threads : pc[t] \in HeldSteps

(* A call that asks the server is a sync or a creation.                    *)
LEMMA NoNetStep ==
  ASSUME Base, Without({"sync", "create"}), NEW t \in Threads
  PROVE  ~NetStep(t)
<1>1. pc[t] \notin NetSteps
  BY DEF Base, Called, Typed, Local, Without
<1> QED
  BY <1>1 DEF NetStep, Asking, SyncAsk, CreateTake, Answered, Failed, Renew,
              RenewSave, SyncSave, SyncKey, SyncItems, SyncStorage,
              CreateSave, CreateItems, At, NetSteps

LEMMA NoUnlockStep ==
  ASSUME Base, Without({"unlock"}), NEW t \in Threads
  PROVE  ~UnlockStep(t)
<1>1. pc[t] \notin {"unlockLoad"} \cup UnlockSteps
  BY DEF Base, Called, Without
<1> QED
  BY <1>1 DEF UnlockStep, UnlockLoad, UnlockItems, UnlockKey, UnlockSlot,
              UnlockFlag, UnlockStorage, At, UnlockSteps

LEMMA EmptiedStep ==
  ASSUME Base, NEW t \in Threads, Step(t), ~NetStep(t), ~unlocked'
  PROVE  /\ \/ items' = {} \/ pc'[t] \in ItemSteps
            \/ ~unlocked /\ items' = items /\ pc[t] \notin ItemSteps
         /\ \/ userKey' = NoKey \/ pc'[t] \in HeldSteps
            \/ ~unlocked /\ userKey' = userKey /\ pc[t] \notin HeldSteps
<1> USE DEF Base, Typed, TypeOK, Go, Goto, Return, At, session, ItemSteps,
        HeldSteps
<1>1. CASE UnlockStep(t)
  BY <1>1 DEF UnlockStep, UnlockLoad, UnlockItems, UnlockKey, UnlockSlot,
              UnlockFlag, UnlockStorage
<1>2. CASE RestoreStep(t)
  BY <1>2 DEF RestoreStep, RestoreSample, RestoreTake, RestoreLoad,
              RestoreCheck, RestorePrecheck, RestoreEnter, RestoreItems,
              RestoreKey, RestoreFlag, RestoreStorage
<1>3. CASE LockStep(t)
  BY <1>3 DEF LockStep, SoftEnter, SoftRetain, PurgeFlag, PurgeItems,
              PurgeKey, WipeEnter, WipeSlot
<1> QED BY <1>1, <1>2, <1>3 DEF Step

LEMMA EmptiedNext == Base /\ Emptied /\ [ScopedNext]_scopedVars => Emptied'
<1> SUFFICES ASSUME Base, Emptied, [ScopedNext]_scopedVars,
                    Without({"sync", "create"})', ~unlocked'
             PROVE  /\ items' = {} \/ \E u \in Threads : pc'[u] \in ItemSteps
                    /\ userKey' = NoKey
                       \/ \E u \in Threads : pc'[u] \in HeldSteps
  BY DEF Emptied
<1>1. Without({"sync", "create"})
  BY ScopedIsNext DEF Without
<1>2. ASSUME NEW t \in Threads, Step(t)
      PROVE  /\ items' = {} \/ \E u \in Threads : pc'[u] \in ItemSteps
             /\ userKey' = NoKey
                \/ \E u \in Threads : pc'[u] \in HeldSteps
  <2>1. \A u \in Threads : u # t => pc'[u] = pc[u]
    BY <1>2, OthersHold DEF Base
  <2>2. ~NetStep(t)
    BY <1>1, NoNetStep
  <2> QED BY <1>1, <1>2, <2>1, <2>2, EmptiedStep DEF Emptied
<1>3. CASE ~ \E t \in Threads : Step(t)
  <2>1. \A u \in Threads : pc[u] \in ItemSteps \cup HeldSteps => pc'[u] = pc[u]
    BY <1>3, Elsewhere DEF ItemSteps, HeldSteps
  <2>2. items' = items /\ userKey' = userKey /\ unlocked' = unlocked
    BY <1>3, Elsewhere DEF session
  <2> QED BY <1>1, <2>1, <2>2 DEF Emptied
<1> QED BY <1>2, <1>3

(* A vault that is locked when no call is under way holds no items and no  *)
(* key, whatever unlocks, restores, locks and wipes have crossed.          *)
THEOREM LockedEmpty == ScopedSpec => []LockedStaysEmpty
<1>1. ScopedInit => Emptied
  BY DEF ScopedInit, Init, Emptied
<1>2. Emptied => LockedStaysEmpty
  BY DEF Emptied, LockedStaysEmpty, LockedIsEmpty, Quiet, At, ItemSteps,
     HeldSteps
<1> QED BY <1>1, <1>2, EmptiedNext, BaseAlways, PTL DEF ScopedSpec

-----------------------------------------------------------------------------
(* Without unlocks, hard locks, syncs and creations, the session is in     *)
(* between only at steps that hold restore_guard; what it is there.        *)
Others    == {"unlock", "lock", "sync", "create"}
MidSteps  == {"restoreKey", "restoreFlag"} \cup PurgeSteps
Between(t) ==
  /\ pc[t] = "restoreKey" => items = {key[t]}
  /\ pc[t] = "restoreFlag" => items = {key[t]} /\ userKey = key[t]
  /\ pc[t] \in {"purgeItems", "purgeKey"} => ~unlocked
Usable ==
  Without(Others) =>
    /\ \A t \in Threads : Between(t)
    /\ unlocked /\ (\A t \in Threads : pc[t] \notin MidSteps)
         => userKey # NoKey /\ items = {userKey}

LEMMA GuardedBetween ==
  ASSUME Base, Without(Others), NEW t \in Threads,
         pc[t] \in MidSteps \cup {"restoreItems", "softRetain"}
  PROVE  guard = t
  BY DEF Base, GuardHeld, Holds, Called, Without, Others, MidSteps,
     PurgeSteps, CommitSteps


LEMMA UsableStep ==
  ASSUME Base, Without(Others), NEW t \in Threads, Between(t), Step(t)
  PROVE  \/ /\ UNCHANGED <<unlocked, items, userKey>>
            /\ pc[t] \notin MidSteps /\ pc'[t] \notin MidSteps
         \/ /\ pc[t] \in MidSteps \cup {"restoreItems", "softRetain"}
            /\ Between(t)'
            /\ \/ pc'[t] \in MidSteps
               \/ ~unlocked'
               \/ userKey' # NoKey /\ items' = {userKey'}
<1>1. pc[t] \in RestoreSteps \ {"restoreTake"} => key[t] # NoKey
  BY DEF Base, Typed, Local, KeySteps
<1>2. ~NetStep(t)
  BY NoNetStep DEF Without, Others
<1>3. op[t] \notin Others
  BY DEF Base, Called, Without, Others
<1>4. ~UnlockStep(t)
  BY NoUnlockStep DEF Without, Others
<1> USE DEF Base, Typed, TypeOK, Go, Goto, Return, At, locals, session,
        MidSteps, PurgeSteps, Between
<1>5. CASE RestoreStep(t)
  BY <1>1, <1>5 DEF RestoreStep, RestoreSample, RestoreTake, RestoreLoad,
     RestoreCheck, RestorePrecheck, RestoreEnter, RestoreItems, RestoreKey,
     RestoreFlag, RestoreStorage, RestoreSteps, CommitSteps
<1>6. CASE LockStep(t)
  BY <1>3, <1>6 DEF LockStep, SoftEnter, SoftRetain, PurgeFlag, PurgeItems,
     PurgeKey, WipeEnter, WipeSlot, Others, Called, Local
<1> QED BY <1>2, <1>4, <1>5, <1>6 DEF Step

LEMMA UsableNext == Base /\ Usable /\ [ScopedNext]_scopedVars => Usable'
<1> SUFFICES ASSUME Base, Usable, [ScopedNext]_scopedVars, Without(Others)'
             PROVE  /\ \A u \in Threads : Between(u)'
                    /\ unlocked' /\ (\A u \in Threads : pc'[u] \notin MidSteps)
                         => userKey' # NoKey /\ items' = {userKey'}
  BY DEF Usable
<1>1. Without(Others)
  BY ScopedIsNext DEF Without
<1>2. ASSUME NEW t \in Threads, Step(t)
      PROVE  /\ \A u \in Threads : Between(u)'
             /\ unlocked' /\ (\A u \in Threads : pc'[u] \notin MidSteps)
                  => userKey' # NoKey /\ items' = {userKey'}
  <2>1. \A u \in Threads : u # t => pc'[u] = pc[u] /\ key'[u] = key[u]
    BY <1>2, OthersHold, OthersKey DEF Base
  <2>2. CASE /\ UNCHANGED <<unlocked, items, userKey>>
             /\ pc[t] \notin MidSteps /\ pc'[t] \notin MidSteps
    BY <1>1, <2>1, <2>2 DEF Usable, Between, MidSteps, PurgeSteps
  <2>3. CASE /\ pc[t] \in MidSteps \cup {"restoreItems", "softRetain"}
             /\ Between(t)'
             /\ \/ pc'[t] \in MidSteps
                \/ ~unlocked'
                \/ userKey' # NoKey /\ items' = {userKey'}
    <3>1. \A u \in Threads : u # t => pc'[u] \notin MidSteps
      BY <1>1, <2>1, <2>3, GuardedBetween
    <3> QED
      BY <2>3, <3>1 DEF Between, MidSteps, PurgeSteps
  <2> QED BY <1>1, <1>2, <2>2, <2>3, UsableStep DEF Usable
<1>3. CASE ~ \E t \in Threads : Step(t)
  <2>1. UNCHANGED <<unlocked, items, userKey, key>>
    BY <1>3, Elsewhere DEF session
  <2>2. ASSUME NEW u \in Threads
        PROVE  \/ pc'[u] = pc[u]
               \/ pc[u] \notin MidSteps /\ pc'[u] \notin MidSteps
    BY <1>3, Elsewhere DEF Entry, Ops, MidSteps, PurgeSteps
  <2> QED BY <1>1, <2>1, <2>2 DEF Usable, Between, MidSteps, PurgeSteps
<1> QED BY <1>2, <1>3

(* A vault that is unlocked when no call is under way has a user key and   *)
(* items under it, whatever restores, soft locks and wipes have crossed.   *)
THEOREM UnlockedUsable == ScopedSpec => []UnlockedStaysUsable
<1>1. ScopedInit => Usable
  <2> SUFFICES ASSUME Init PROVE Usable
    BY DEF ScopedInit
  <2>1. unlocked => userKey # NoKey /\ items = {userKey}
    BY KeyAssumption, WrapAssumption DEF Init, Logins, Disk, LoggedOut
  <2> QED BY <2>1 DEF Init, Usable, Between
<1>2. Usable => UnlockedStaysUsable
  BY DEF Usable, UnlockedStaysUsable, UnlockedIsUsable, Quiet, At, MidSteps,
     PurgeSteps, Others
<1> QED BY <1>1, <1>2, UsableNext, BaseAlways, PTL DEF ScopedSpec

-----------------------------------------------------------------------------
(* Without unlocks, syncs, creations and unsynced logins.                  *)
Mixers == {"unlock", "sync", "create", "login_unsynced"}

(* What decides about a key in data.json is under the key it wraps.        *)
Pure(d) == d.wrap # NoWrap => d.proof \subseteq {KeyOf[d.wrap]}

(* No call brings in another key than the one the daemon first had.        *)
OnlyKey(k) ==
  /\ slot \in {k, NoKey} /\ userKey \in {k, NoKey}
  /\ \A t \in Threads : key[t] \in {k, NoKey}

ProvenSteps == {"restorePrecheck", "restoreEnter"} \cup CommitSteps
Fitting(t) ==
  /\ pc[t] = "restoreCheck" => snap[t].wrap # NoWrap /\ Pure(snap[t])
  /\ pc[t] \in ProvenSteps => key[t] = KeyOf[snap[t].wrap]
  /\ pc[t] = "softRetain" => snap[t].wrap = memWrap

(* Recorded with a key is the wrapping that unlocks to it, or none.        *)
Recorded ==
  /\ slotWrap # NoWrap => slot = KeyOf[slotWrap]
  /\ \/ \E t \in Threads : pc[t] \in {"restoreFlag", "restoreStorage"}
     \/ memWrap # NoWrap => userKey \in {NoKey, KeyOf[memWrap]}

Fits ==
  Without(Mixers) =>
    /\ Pure(disk)
    /\ \E k \in Keys \cup {NoKey} : OnlyKey(k)
    /\ \A t \in Threads : Fitting(t)
    /\ Recorded

LEMMA KeysMove ==
  ASSUME Base, NEW t \in Threads, RestoreStep(t) \/ LockStep(t)
  PROVE  /\ slot' \in {slot, userKey, NoKey}
         /\ userKey' \in {userKey, key[t], NoKey}
         /\ key'[t] \in {key[t], slot, NoKey}
         /\ disk' = disk
<1> USE DEF Base, Typed, TypeOK, Go, Goto, Return, At, locals, session,
        retention
<1>1. CASE RestoreStep(t)
  BY <1>1 DEF RestoreStep, RestoreSample, RestoreTake, RestoreLoad,
     RestoreCheck, RestorePrecheck, RestoreEnter, RestoreItems, RestoreKey,
     RestoreFlag, RestoreStorage
<1>2. CASE LockStep(t)
  BY <1>2 DEF LockStep, SoftEnter, SoftRetain, PurgeFlag, PurgeItems,
     PurgeKey, WipeEnter, WipeSlot
<1> QED BY <1>1, <1>2

(* A key passes the check only if it is the one the loaded storage wraps.  *)
LEMMA ProvenFits ==
  ASSUME Base, NEW t \in Threads, NEW k, OnlyKey(k), Fitting(t),
         Recorded, pc[t] = "restoreCheck", Proven(t)
  PROVE  key[t] = KeyOf[snap[t].wrap]
<1>1. key[t] = k
  BY DEF Base, Typed, Local, KeySteps, RestoreSteps, OnlyKey
<1>2. CASE snap[t].proof # {}
  BY <1>2 DEF Proven, Fitting, Pure
<1>3. CASE snap[t].proof = {}
  <2>1. slotWrap = snap[t].wrap /\ slot = KeyOf[slotWrap]
    BY <1>3 DEF Proven, Fitting, Recorded
  <2>2. slot # NoKey
    BY <2>1, KeyAssumption, WrapAssumption DEF Fitting, Base, Typed, TypeOK, Disk
  <2> QED BY <1>1, <2>1, <2>2 DEF OnlyKey
<1> QED BY <1>2, <1>3

LEMMA FittingStep ==
  ASSUME Base, NEW t \in Threads, NEW k, OnlyKey(k), Fitting(t),
         Recorded, Pure(disk), RestoreStep(t) \/ LockStep(t)
  PROVE  Fitting(t)'
<1> USE DEF Base, Typed, TypeOK, Go, Goto, Return, At, locals, session,
        ProvenSteps, CommitSteps
<1>1. CASE RestoreStep(t)
  <2>1. CASE RestoreLoad(t)
    BY <2>1 DEF RestoreLoad, Fitting, Pure
  <2>2. CASE RestoreCheck(t)
    BY <2>2, ProvenFits DEF RestoreCheck, Fitting
  <2> QED
    BY <1>1, <2>1, <2>2 DEF RestoreStep, RestoreSample, RestoreTake,
       RestorePrecheck, RestoreEnter, RestoreItems, RestoreKey, RestoreFlag,
       RestoreStorage, Fitting
<1>2. CASE LockStep(t)
  BY <1>2 DEF LockStep, SoftEnter, SoftRetain, PurgeFlag, PurgeItems,
     PurgeKey, WipeEnter, WipeSlot, Fitting, Disk
<1> QED BY <1>1, <1>2

(* What a step does to the two records of a wrapping.                      *)
LEMMA RecordsMove ==
  ASSUME Base, NEW t \in Threads, RestoreStep(t) \/ LockStep(t)
  PROVE  /\ \/ UNCHANGED <<slot, slotWrap>>
            \/ slot' = NoKey /\ slotWrap' = NoWrap
            \/ /\ pc[t] = "softRetain" /\ slot' = userKey
               /\ \/ slotWrap' = NoWrap
                  \/ userKey # NoKey /\ slotWrap' = snap[t].wrap
         /\ \/ pc'[t] \in {"restoreFlag", "restoreStorage"}
            \/ /\ pc[t] = "restoreStorage"
               /\ memWrap' = snap[t].wrap /\ userKey' = userKey
            \/ /\ pc[t] \notin {"restoreFlag", "restoreStorage"}
               /\ memWrap' = memWrap /\ userKey' \in {userKey, NoKey}
         /\ memWrap' = memWrap \/ pc[t] = "restoreStorage"
<1> USE DEF Base, Typed, TypeOK, Go, Goto, Return, At, locals, session,
        retention
<1>1. CASE RestoreStep(t)
  BY <1>1 DEF RestoreStep, RestoreSample, RestoreTake, RestoreLoad,
     RestoreCheck, RestorePrecheck, RestoreEnter, RestoreItems, RestoreKey,
     RestoreFlag, RestoreStorage
<1>2. CASE LockStep(t)
  BY <1>2 DEF LockStep, SoftEnter, SoftRetain, PurgeFlag, PurgeItems,
     PurgeKey, WipeEnter, WipeSlot
<1> QED BY <1>1, <1>2

LEMMA RecordedStep ==
  ASSUME Base, NEW t \in Threads, NEW k, OnlyKey(k), Fitting(t),
         Recorded, Step(t), RestoreStep(t) \/ LockStep(t)
  PROVE  Recorded'
<1>1. slotWrap' # NoWrap => slot' = KeyOf[slotWrap']
  <2>1. CASE pc[t] = "softRetain" /\ userKey # NoKey
    <3>1. \A u \in Threads : pc[u] \notin {"restoreFlag", "restoreStorage"}
      BY <2>1, ThreadAssumption DEF Base, GuardHeld, Holds, CommitSteps
    <3>2. memWrap # NoWrap => userKey = KeyOf[memWrap]
      BY <2>1, <3>1 DEF Recorded
    <3> QED BY <2>1, <3>2, RecordsMove DEF Fitting, Recorded
  <2> QED BY <2>1, RecordsMove DEF Recorded
<1>2. \/ \E u \in Threads : pc'[u] \in {"restoreFlag", "restoreStorage"}
      \/ memWrap' # NoWrap => userKey' \in {NoKey, KeyOf[memWrap']}
  <2>1. CASE /\ pc[t] = "restoreStorage"
             /\ memWrap' = snap[t].wrap /\ userKey' = userKey
    <3>1. key[t] = k /\ key[t] = KeyOf[snap[t].wrap]
      BY <2>1 DEF Base, Typed, Local, KeySteps, RestoreSteps, CommitSteps,
         OnlyKey, Fitting, ProvenSteps
    <3> QED BY <2>1, <3>1 DEF OnlyKey
  <2>2. CASE /\ pc[t] \notin {"restoreFlag", "restoreStorage"}
             /\ memWrap' = memWrap /\ userKey' \in {userKey, NoKey}
    BY <2>2, OthersHold DEF Base, Recorded
  <2> QED BY <2>1, <2>2, RecordsMove
<1> QED BY <1>1, <1>2 DEF Recorded

LEMMA FitsStep ==
  ASSUME Base, Fits, Without(Mixers), NEW t \in Threads, Step(t)
  PROVE  /\ Pure(disk)'
         /\ \E k \in Keys \cup {NoKey} : OnlyKey(k)'
         /\ \A u \in Threads : Fitting(u)'
         /\ Recorded'
<1>1. RestoreStep(t) \/ LockStep(t)
  BY NoNetStep, NoUnlockStep DEF Without, Mixers, Step
<1>2. PICK k \in Keys \cup {NoKey} : OnlyKey(k)
  BY DEF Fits
<1>3. Pure(disk)'
  BY <1>1, KeysMove DEF Fits, Pure
<1>4. OnlyKey(k)'
  BY <1>1, <1>2, KeysMove, OthersKey DEF OnlyKey, Base
<1>5. ASSUME NEW u \in Threads PROVE Fitting(u)'
  <2>1. CASE u = t
    BY <1>1, <1>2, <2>1, FittingStep DEF Fits
  <2>2. CASE u # t
    <3>1. pc[u] = "softRetain" => memWrap' = memWrap
      BY <1>1, <2>2, RecordsMove, ThreadAssumption
         DEF Base, GuardHeld, Holds, CommitSteps
    <3>2. pc'[u] = pc[u] /\ key'[u] = key[u] /\ snap'[u] = snap[u]
      BY <2>2, OthersHold, OthersKey DEF Base
    <3> QED BY <3>1, <3>2 DEF Fits, Fitting, Pure
  <2> QED BY <2>1, <2>2
<1> QED BY <1>1, <1>2, <1>3, <1>4, <1>5, RecordedStep DEF Fits

LEMMA FitsNext == Base /\ Fits /\ [ScopedNext]_scopedVars => Fits'
<1> SUFFICES ASSUME Base, Fits, [ScopedNext]_scopedVars, Without(Mixers)'
             PROVE  /\ Pure(disk)'
                    /\ \E k \in Keys \cup {NoKey} : OnlyKey(k)'
                    /\ \A u \in Threads : Fitting(u)'
                    /\ Recorded'
  BY DEF Fits
<1>1. Without(Mixers)
  BY ScopedIsNext DEF Without
<1>2. CASE \E t \in Threads : Step(t)
  BY <1>1, <1>2, FitsStep
<1>3. CASE ~ \E t \in Threads : Step(t)
  <2>1. disk' = disk \/ disk' \in Logins
    BY <1>1, <1>3 DEF ScopedNext, ScopedLogin, Login, Logout, Call, Step,
       scopedVars, vars, Without, Mixers, Logins
  <2>2. Pure(disk)'
    BY <1>1, <2>1 DEF Fits, Pure, Logins, LoggedOut
  <2>3. UNCHANGED <<slot, slotWrap, userKey, memWrap, key, snap>>
    BY <1>3, Elsewhere DEF session, retention
  <2>4. ASSUME NEW u \in Threads
        PROVE  \/ pc'[u] = pc[u]
               \/ pc[u] = "idle" /\ pc'[u] \notin RestoreSteps \cup {"softRetain"}
    BY <1>3, Elsewhere DEF Entry, Ops, RestoreSteps, CommitSteps
  <2>5. \A u \in Threads : Fitting(u)'
    BY <1>1, <2>3, <2>4 DEF Fits, Fitting, Pure, ProvenSteps, RestoreSteps,
       CommitSteps
  <2>6. Recorded'
    BY <1>1, <2>3, <2>4 DEF Fits, Recorded
  <2> QED BY <1>1, <2>2, <2>3, <2>5, <2>6 DEF Fits, OnlyKey
<1> QED BY <1>2, <1>3

(* A restore commits the key that the storage it loaded wraps, whatever    *)
(* soft locks, hard locks, wipes, logins and logouts of other accounts     *)
(* have crossed it.                                                        *)
THEOREM RestoredFits == ScopedSpec => []RestoredKeyFits
<1>1. ScopedInit => Fits
  <2> SUFFICES ASSUME Init PROVE Fits
    BY DEF ScopedInit
  <2>1. Pure(disk)
    BY DEF Init, Logins, LoggedOut, Pure
  <2>2. \E k \in Keys \cup {NoKey} : OnlyKey(k)
    <3>1. \A t \in Threads : key[t] = NoKey
      BY DEF Init
    <3>2. CASE slot = NoKey /\ userKey = NoKey
      BY <3>1, <3>2 DEF OnlyKey
    <3>3. CASE disk.wrap # NoWrap
      <4>1. disk \in Disk
        BY LoggedOutDisk DEF Init, Logins
      <4>2. OnlyKey(KeyOf[disk.wrap])
        BY <3>1, <3>3 DEF Init, OnlyKey
      <4> QED BY <3>3, <4>1, <4>2, WrapAssumption DEF Disk
    <3> QED BY <3>2, <3>3 DEF Init
  <2>3. \A t \in Threads : Fitting(t)
    BY DEF Init, Fitting, ProvenSteps, CommitSteps
  <2>4. Recorded
    BY DEF Init, Recorded
  <2> QED BY <2>1, <2>2, <2>3, <2>4 DEF Fits
<1>2. Fits => RestoredKeyFits
  BY DEF Fits, Fitting, ProvenSteps, RestoredKeyFits, RestoreKeyFits, Without,
     Mixers
<1> QED BY <1>1, <1>2, FitsNext, BaseAlways, PTL DEF ScopedSpec
=============================================================================
