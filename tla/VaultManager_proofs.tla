------------------------- MODULE VaultManager_proofs -------------------------
(* Theorems about VaultManager for every set of threads and keys: its type *)
(* invariant, what restore_guard excludes, and that a restore commits only *)
(* if no wipe has begun since it started.                                  *)
EXTENDS VaultManager, TLAPS

(* The steps at which the local key of a thread is a key. *)
KeySteps == UnlockSteps \cup (RestoreSteps \ {"restoreTake"})
              \cup (NetSteps \ {"syncAsk", "createTake", "syncStorage"})

(* What the place of a thread in its call says of its locals. *)
Local(t) ==
  /\ pc[t] \in NetSteps => op[t] \in {"sync", "create"}
  /\ pc[t] \in {"restoreSample"} \cup RestoreSteps => op[t] = "restore"
  /\ pc[t] \in {"softEnter", "softRetain"} => op[t] = "soft"
  /\ pc[t] \in {"wipeEnter", "wipeSlot"} => op[t] # "soft"
  /\ pc[t] \in KeySteps => key[t] # NoKey
  /\ pc[t] \in PurgeSteps \cup {"wipeEnter", "wipeSlot"}
       /\ op[t] \in {"sync", "create"} => key[t] # NoKey

Typed == TypeOK /\ \A t \in Threads : Local(t)

LEMMA LoggedOutDisk == LoggedOut \in Disk
  BY DEF LoggedOut, Disk

(* Returning keeps the types of the locals, and leaves none to speak of. *)
LEMMA ReturnTyped ==
  ASSUME Typed, NEW t \in Threads, Return(t)
  PROVE  /\ pc' \in [Threads -> Steps]
         /\ op' \in [Threads -> Ops \cup {"none"}]
         /\ key' \in [Threads -> Keys \cup {NoKey}]
         /\ snap' \in [Threads -> Disk]
         /\ seen' \in [Threads -> Nat]
         /\ renewals' \in [Threads -> 0..MaxRenewals]
         /\ \A u \in Threads : Local(u)'
<1>1. /\ pc' \in [Threads -> Steps]
      /\ op' \in [Threads -> Ops \cup {"none"}]
      /\ key' \in [Threads -> Keys \cup {NoKey}]
      /\ snap' \in [Threads -> Disk]
      /\ seen' \in [Threads -> Nat]
      /\ renewals' \in [Threads -> 0..MaxRenewals]
  BY LoggedOutDisk, BoundAssumption DEF Return, Goto, Typed, TypeOK, Steps
<1>2. ASSUME NEW u \in Threads PROVE Local(u)'
  <2>1. CASE u = t
    BY <2>1 DEF Return, Goto, Typed, TypeOK, Local, UnlockSteps, CommitSteps,
                RestoreSteps, PurgeSteps, NetSteps, KeySteps
  <2>2. CASE u # t
    BY <2>2 DEF Return, Goto, Typed, TypeOK, Local
  <2> QED BY <2>1, <2>2
<1> QED BY <1>1, <1>2

-----------------------------------------------------------------------------
LEMMA TypedInit == Init => Typed
<1> SUFFICES ASSUME Init PROVE Typed
  OBVIOUS
<1>1. disk \in Disk /\ (disk.wrap # NoWrap => KeyOf[disk.wrap] \in Keys)
  BY WrapAssumption, LoggedOutDisk DEF Init, Logins, Disk
<1>2. TypeOK
  <2>1. /\ unlocked \in BOOLEAN
        /\ items \in SUBSET Keys
        /\ userKey \in Keys \cup {NoKey}
        /\ memWrap \in Wraps \cup {NoWrap}
        /\ slot \in Keys \cup {NoKey}
        /\ slotWrap \in Wraps \cup {NoWrap}
    BY <1>1 DEF Init, Disk
  <2>2. /\ epoch \in Nat /\ lockGen \in Nat
        /\ guard \in Threads \cup {NoThread}
        /\ reading \in SUBSET Threads
        /\ pc \in [Threads -> Steps]
        /\ op \in [Threads -> Ops \cup {"none"}]
        /\ key \in [Threads -> Keys \cup {NoKey}]
        /\ seen \in [Threads -> Nat]
        /\ snap \in [Threads -> Disk]
        /\ renewals \in [Threads -> 0..MaxRenewals]
    BY BoundAssumption, LoggedOutDisk DEF Init, Steps
  <2> QED BY <1>1, <2>1, <2>2 DEF TypeOK
<1>3. ASSUME NEW t \in Threads PROVE Local(t)
  BY DEF Init, Local, UnlockSteps, CommitSteps, RestoreSteps, PurgeSteps,
         NetSteps, KeySteps
<1> QED BY <1>2, <1>3 DEF Typed

LEMMA TypedUnlock ==
  ASSUME Typed, NEW t \in Threads, UnlockStep(t)
  PROVE  Typed'
<1> USE DEF Typed, Local, session, retention, locks, locals, Goto, Go, At, Steps,
            UnlockSteps, CommitSteps, RestoreSteps, PurgeSteps, NetSteps,
            KeySteps
<1>1. CASE UnlockLoad(t)
  <2>1. CASE Return(t)
    BY <1>1, <2>1, ReturnTyped DEF UnlockLoad, TypeOK, Disk
  <2>2. CASE ~Return(t)
    <3>1. KeyOf[disk.wrap] \in Keys /\ disk \in Disk
      BY <1>1, <2>2, WrapAssumption DEF UnlockLoad, TypeOK, Disk
    <3>2. TypeOK'
      BY <1>1, <2>2, <3>1 DEF UnlockLoad, TypeOK
    <3>3. ASSUME NEW u \in Threads PROVE Local(u)'
      BY <1>1, <2>2, <3>1, KeyAssumption DEF UnlockLoad, TypeOK
    <3> QED BY <3>2, <3>3
  <2> QED BY <2>1, <2>2
<1>2. CASE UnlockItems(t)
  BY <1>2, WrapAssumption, KeyAssumption DEF UnlockItems, TypeOK, Disk
<1>3. CASE UnlockKey(t)
  BY <1>3, WrapAssumption, KeyAssumption DEF UnlockKey, TypeOK, Disk
<1>4. CASE UnlockSlot(t)
  BY <1>4, WrapAssumption, KeyAssumption DEF UnlockSlot, TypeOK, Disk
<1>5. CASE UnlockFlag(t)
  BY <1>5, WrapAssumption, KeyAssumption DEF UnlockFlag, TypeOK, Disk
<1>6. CASE UnlockStorage(t)
  BY <1>6, ReturnTyped DEF UnlockStorage, TypeOK, Disk
<1> QED BY <1>1, <1>2, <1>3, <1>4, <1>5, <1>6 DEF UnlockStep

LEMMA TypedRestore ==
  ASSUME Typed, NEW t \in Threads, RestoreStep(t)
  PROVE  Typed'
<1> USE DEF Typed, Local, session, retention, locks, locals, Goto, Go, At, Steps,
            UnlockSteps, CommitSteps, RestoreSteps, PurgeSteps, NetSteps,
            KeySteps
<1>1. CASE RestoreSample(t)
  <2>1. TypeOK'
    BY <1>1, WrapAssumption DEF RestoreSample, TypeOK, Disk
  <2>2. ASSUME NEW u \in Threads PROVE Local(u)'
    BY <1>1 DEF RestoreSample, TypeOK
  <2> QED BY <2>1, <2>2
<1>2. CASE RestoreTake(t)
  <2>1. CASE Return(t)
    BY <1>2, <2>1, ReturnTyped DEF RestoreTake, TypeOK, Disk
  <2>2. CASE ~Return(t)
    <3>1. TypeOK'
      BY <1>2, <2>2 DEF RestoreTake, TypeOK
    <3>2. ASSUME NEW u \in Threads PROVE Local(u)'
      BY <1>2, <2>2 DEF RestoreTake, TypeOK
    <3> QED BY <3>1, <3>2
  <2> QED BY <2>1, <2>2
<1>3. CASE RestoreLoad(t)
  <2>1. CASE Return(t)
    BY <1>3, <2>1, ReturnTyped DEF RestoreLoad, TypeOK, Disk
  <2>2. CASE ~Return(t)
    <3>1. TypeOK'
      BY <1>3, <2>2, WrapAssumption DEF RestoreLoad, TypeOK, Disk
    <3>2. ASSUME NEW u \in Threads PROVE Local(u)'
      BY <1>3, <2>2, WrapAssumption, KeyAssumption DEF RestoreLoad, TypeOK, Disk
    <3> QED BY <3>1, <3>2
  <2> QED BY <2>1, <2>2
<1>4. CASE RestoreCheck(t)
  BY <1>4, WrapAssumption, KeyAssumption DEF RestoreCheck, Proven, TypeOK, Disk
<1>5. CASE RestorePrecheck(t)
  <2>1. CASE Return(t)
    BY <1>5, <2>1, ReturnTyped DEF RestorePrecheck, TypeOK, Disk
  <2>2. CASE ~Return(t)
    <3>1. TypeOK'
      BY <1>5, <2>2, WrapAssumption DEF RestorePrecheck, TypeOK, Disk
    <3>2. ASSUME NEW u \in Threads PROVE Local(u)'
      BY <1>5, <2>2, WrapAssumption, KeyAssumption DEF RestorePrecheck, TypeOK, Disk
    <3> QED BY <3>1, <3>2
  <2> QED BY <2>1, <2>2
<1>6. CASE RestoreEnter(t)
  <2>1. CASE Return(t)
    BY <1>6, <2>1, ReturnTyped DEF RestoreEnter, TypeOK, Disk
  <2>2. CASE ~Return(t)
    BY <1>6, <2>2, WrapAssumption, KeyAssumption DEF RestoreEnter, TypeOK, Disk
  <2> QED BY <2>1, <2>2
<1>7. CASE RestoreItems(t)
  BY <1>7, WrapAssumption, KeyAssumption DEF RestoreItems, TypeOK, Disk
<1>8. CASE RestoreKey(t)
  BY <1>8, WrapAssumption, KeyAssumption DEF RestoreKey, TypeOK, Disk
<1>9. CASE RestoreFlag(t)
  BY <1>9, WrapAssumption, KeyAssumption DEF RestoreFlag, TypeOK, Disk
<1>10. CASE RestoreStorage(t)
  BY <1>10, ReturnTyped DEF RestoreStorage, TypeOK, Disk
<1> QED BY <1>1, <1>2, <1>3, <1>4, <1>5, <1>6, <1>7, <1>8, <1>9, <1>10 DEF RestoreStep

LEMMA TypedLock ==
  ASSUME Typed, NEW t \in Threads, LockStep(t)
  PROVE  Typed'
<1> USE DEF Typed, Local, session, retention, locks, locals, Goto, Go, At, Steps,
            UnlockSteps, CommitSteps, RestoreSteps, PurgeSteps, NetSteps,
            KeySteps
<1>1. CASE SoftEnter(t)
  <2>1. snap' \in [Threads -> Disk]
    BY <1>1 DEF SoftEnter, TypeOK, Disk
  <2>2. TypeOK'
    BY <1>1, <2>1 DEF SoftEnter, TypeOK
  <2>3. ASSUME NEW u \in Threads PROVE Local(u)'
    BY <1>1 DEF SoftEnter, TypeOK
  <2> QED BY <2>2, <2>3
<1>2. CASE SoftRetain(t)
  <2>1. slot' \in Keys \cup {NoKey} /\ slotWrap' \in Wraps \cup {NoWrap}
    BY <1>2 DEF SoftRetain, TypeOK, Disk
  <2>2. TypeOK'
    BY <1>2, <2>1 DEF SoftRetain, TypeOK
  <2>3. ASSUME NEW u \in Threads PROVE Local(u)'
    BY <1>2 DEF SoftRetain, TypeOK
  <2> QED BY <2>2, <2>3
<1>3. CASE PurgeFlag(t)
  <2>1. TypeOK'
    <3>1. unlocked' = FALSE /\ (lockGen' = lockGen \/ lockGen' = lockGen + 1)
      BY <1>3, Zenon DEF PurgeFlag
    <3>2. lockGen' \in Nat
      BY <3>1 DEF TypeOK
    <3>3. pc' \in [Threads -> Steps]
      BY <1>3 DEF PurgeFlag, TypeOK
    <3> QED BY <1>3, <3>1, <3>2, <3>3, Zenon DEF PurgeFlag, TypeOK
  <2>2. ASSUME NEW u \in Threads PROVE Local(u)'
    BY <1>3 DEF PurgeFlag, TypeOK
  <2> QED BY <2>1, <2>2
<1>4. CASE PurgeItems(t)
  BY <1>4, WrapAssumption, KeyAssumption DEF PurgeItems, TypeOK, Disk
<1>5. CASE PurgeKey(t)
  <2>1. CASE Return(t)
    BY <1>5, <2>1, ReturnTyped DEF PurgeKey, TypeOK, Disk
  <2>2. CASE ~Return(t)
    BY <1>5, <2>2, WrapAssumption, KeyAssumption DEF PurgeKey, TypeOK, Disk
  <2> QED BY <2>1, <2>2
<1>6. CASE WipeEnter(t)
  BY <1>6, WrapAssumption, KeyAssumption DEF WipeEnter, TypeOK, Disk
<1>7. CASE WipeSlot(t)
  <2>1. CASE Return(t)
    BY <1>7, <2>1, ReturnTyped DEF WipeSlot, TypeOK, Disk
  <2>2. CASE ~Return(t)
    BY <1>7, <2>2, WrapAssumption, KeyAssumption DEF WipeSlot, TypeOK, Disk
  <2> QED BY <2>1, <2>2
<1> QED BY <1>1, <1>2, <1>3, <1>4, <1>5, <1>6, <1>7 DEF LockStep

LEMMA TypedNet ==
  ASSUME Typed, NEW t \in Threads, NetStep(t)
  PROVE  Typed'
<1> USE DEF Typed, Local, session, retention, locks, locals, Goto, Go, At, Steps,
            UnlockSteps, CommitSteps, RestoreSteps, PurgeSteps, NetSteps,
            KeySteps
<1>1. CASE SyncAsk(t)
  <2>1. CASE Return(t)
    BY <1>1, <2>1, ReturnTyped DEF SyncAsk, TypeOK, Disk
  <2>2. CASE ~Return(t)
    <3>1. TypeOK'
      BY <1>1, <2>2, WrapAssumption DEF SyncAsk, TypeOK, Disk
    <3>2. ASSUME NEW u \in Threads PROVE Local(u)'
      BY <1>1, <2>2, WrapAssumption, KeyAssumption DEF SyncAsk, TypeOK, Disk
    <3> QED BY <3>1, <3>2
  <2> QED BY <2>1, <2>2
<1>2. CASE CreateTake(t)
  <2>1. CASE Return(t)
    BY <1>2, <2>1, ReturnTyped DEF CreateTake, TypeOK, Disk
  <2>2. CASE ~Return(t)
    <3>1. TypeOK'
      BY <1>2, <2>2 DEF CreateTake, TypeOK
    <3>2. ASSUME NEW u \in Threads PROVE Local(u)'
      BY <1>2, <2>2 DEF CreateTake, TypeOK
    <3> QED BY <3>1, <3>2
  <2> QED BY <2>1, <2>2
<1>3. CASE Answered(t)
  BY <1>3, WrapAssumption, KeyAssumption DEF Answered, Asking, TypeOK, Disk
<1>4. CASE Failed(t)
  BY <1>4, ReturnTyped DEF Failed, Asking, TypeOK, Disk
<1>5. CASE Renew(t)
  <2>1. TypeOK'
    BY <1>5, BoundAssumption DEF Renew, Asking, TypeOK
  <2>2. ASSUME NEW u \in Threads PROVE Local(u)'
    BY <1>5 DEF Renew, Asking, TypeOK
  <2> QED BY <2>1, <2>2
<1>6. CASE RenewSave(t)
  <2>1. TypeOK'
    BY <1>6, LoggedOutDisk DEF RenewSave, TypeOK
  <2>2. ASSUME NEW u \in Threads PROVE Local(u)'
    BY <1>6 DEF RenewSave, TypeOK
  <2> QED BY <2>1, <2>2
<1>7. CASE SyncSave(t)
  <2>1. CASE Return(t)
    BY <1>7, <2>1, ReturnTyped DEF SyncSave, TypeOK, Disk
  <2>2. CASE ~Return(t)
    <3>1. TypeOK'
      <4>1. key[t] \in Keys
        BY <1>7 DEF SyncSave, TypeOK
      <4>2. PICK p \in SUBSET Keys : snap' = [snap EXCEPT ![t].proof = p]
        <5>1. snap[t].proof \in SUBSET Keys
          BY DEF TypeOK, Disk
        <5> QED BY <1>7, <2>2, <4>1, <5>1 DEF SyncSave
      <4>3. snap' \in [Threads -> Disk] /\ snap'[t] \in Disk
        <5>1. snap[t] \in Disk /\ snap \in [Threads -> Disk]
          BY DEF TypeOK
        <5>2. [snap[t] EXCEPT !.proof = p] \in Disk
          BY <5>1 DEF Disk
        <5> QED BY <4>2, <5>1, <5>2
      <4> QED BY <1>7, <2>2, <4>3 DEF SyncSave, TypeOK
    <3>2. ASSUME NEW u \in Threads PROVE Local(u)'
      BY <1>7, <2>2, WrapAssumption, KeyAssumption DEF SyncSave, TypeOK, Disk
    <3> QED BY <3>1, <3>2
  <2> QED BY <2>1, <2>2
<1>8. CASE SyncKey(t)
  <2>1. TypeOK'
    BY <1>8 DEF SyncKey, TypeOK
  <2>2. ASSUME NEW u \in Threads PROVE Local(u)'
    BY <1>8 DEF SyncKey, TypeOK
  <2> QED BY <2>1, <2>2
<1>9. CASE SyncItems(t)
  BY <1>9, WrapAssumption, KeyAssumption DEF SyncItems, TypeOK, Disk
<1>10. CASE SyncStorage(t)
  <2>1. memWrap' \in Wraps \cup {NoWrap}
    BY <1>10 DEF SyncStorage, TypeOK, Disk
  <2> QED BY <1>10, <2>1, ReturnTyped DEF SyncStorage, TypeOK
<1>11. CASE CreateSave(t)
  <2>1. key[t] \in Keys
    BY <1>11 DEF CreateSave, TypeOK
  <2>2. disk' \in Disk
    BY <1>11, <2>1 DEF CreateSave, TypeOK, Disk
  <2>3. TypeOK'
    BY <1>11, <2>2 DEF CreateSave, TypeOK
  <2>4. ASSUME NEW u \in Threads PROVE Local(u)'
    BY <1>11 DEF CreateSave, TypeOK
  <2> QED BY <2>3, <2>4
<1>12. CASE CreateItems(t)
  <2>1. key[t] \in Keys
    BY <1>12 DEF CreateItems, TypeOK
  <2> QED BY <1>12, <2>1, ReturnTyped DEF CreateItems, TypeOK
<1> QED BY <1>1, <1>2, <1>3, <1>4, <1>5, <1>6, <1>7, <1>8, <1>9, <1>10, <1>11, <1>12 DEF NetStep

LEMMA TypedCall ==
  ASSUME Typed, NEW t \in Threads, NEW o \in Ops, Call(t, o)
  PROVE  Typed'
<1>1. Entry[o] \in Steps
  BY DEF Entry, Ops, Steps, NetSteps
<1>2. TypeOK'
  BY <1>1 DEF Typed, TypeOK, Call, Goto, session, retention, locks
<1>3. ASSUME NEW u \in Threads PROVE Local(u)'
  <2>1. CASE u = t
    <3>1. pc'[t] = Entry[o] /\ op'[t] = o
      BY DEF Typed, TypeOK, Call, Goto
    <3> QED
      BY <2>1, <3>1 DEF Ops, Entry, Local, KeySteps, UnlockSteps, CommitSteps,
                        RestoreSteps, PurgeSteps, NetSteps
  <2>2. CASE u # t
    BY <2>2 DEF Typed, TypeOK, Call, Goto, Local
  <2> QED BY <2>1, <2>2
<1> QED BY <1>2, <1>3 DEF Typed

LEMMA TypedElsewhere ==
  ASSUME Typed, Login \/ LoginUnsynced \/ Logout
  PROVE  Typed'
<1>1. disk' \in Disk
  <2>1. CASE Login
    BY <2>1 DEF Login, Logins
  <2>2. CASE LoginUnsynced
    BY <2>2 DEF LoginUnsynced, Typed, TypeOK, Disk
  <2>3. CASE Logout
    BY <2>3, LoggedOutDisk DEF Logout
  <2> QED BY <2>1, <2>2, <2>3
<1>2. UNCHANGED <<session, retention, lockGen, locks, pc, locals>>
  BY DEF Login, LoginUnsynced, Logout
<1>3. TypeOK'
  BY <1>1, <1>2 DEF Typed, TypeOK, session, retention, locks, locals
<1>4. ASSUME NEW u \in Threads PROVE Local(u)'
  BY <1>2 DEF Typed, Local, locals
<1> QED BY <1>3, <1>4 DEF Typed

LEMMA TypedNext == Typed /\ [Next]_vars => Typed'
<1> SUFFICES ASSUME Typed, [Next]_vars PROVE Typed'
  OBVIOUS
<1>1. ASSUME NEW t \in Threads, Step(t) PROVE Typed'
  BY <1>1, TypedUnlock, TypedRestore, TypedLock, TypedNet DEF Step
<1>2. ASSUME NEW t \in Threads, NEW o \in Ops, Call(t, o) PROVE Typed'
  BY <1>2, TypedCall
<1>3. CASE Login \/ LoginUnsynced \/ Logout
  BY <1>3, TypedElsewhere
<1>4. CASE UNCHANGED vars
  BY <1>4 DEF Typed, TypeOK, Local, vars, session, retention, locks, locals
<1> QED BY <1>1, <1>2, <1>3, <1>4 DEF Next

LEMMA TypedAlways == Spec => []Typed
  BY TypedInit, TypedNext, PTL DEF Spec

(* The variables of the daemon's vault keep their types in every behaviour *)
(* of every number of threads, calls and accounts.                         *)
THEOREM TypeCorrect == Spec => []TypeOK
<1>1. Typed => TypeOK
  BY DEF Typed
<1> QED BY <1>1, TypedAlways, PTL

-----------------------------------------------------------------------------
(* restore_guard.  A step of a thread changes what that thread holds and   *)
(* the guard together, and leaves what every other thread holds alone.     *)
LEMMA OthersHold ==
  ASSUME Typed, NEW t \in Threads, NEW u \in Threads, u # t, Step(t)
  PROVE  pc'[u] = pc[u] /\ op'[u] = op[u] /\ seen'[u] = seen[u]
<1> USE DEF Typed, TypeOK, Go, Goto, Return, locals
<1>1. CASE UnlockStep(t)
  BY <1>1 DEF UnlockStep, UnlockLoad, UnlockItems, UnlockKey, UnlockSlot,
              UnlockFlag, UnlockStorage
<1>2. CASE RestoreStep(t)
  BY <1>2 DEF RestoreStep, RestoreSample, RestoreTake, RestoreLoad,
              RestoreCheck, RestorePrecheck, RestoreEnter, RestoreItems,
              RestoreKey, RestoreFlag, RestoreStorage
<1>3. CASE LockStep(t)
  BY <1>3 DEF LockStep, SoftEnter, SoftRetain, PurgeFlag, PurgeItems,
              PurgeKey, WipeEnter, WipeSlot
<1>4. CASE NetStep(t)
  BY <1>4 DEF NetStep, SyncAsk, CreateTake, Answered, Failed, Renew,
              RenewSave, SyncSave, SyncKey, SyncItems, SyncStorage,
              CreateSave, CreateItems
<1> QED BY <1>1, <1>2, <1>3, <1>4 DEF Step

(* The guard is taken by the one that finds it free, and given back by its *)
(* holder, or stays with it.                                               *)
LEMMA OwnHold ==
  ASSUME Typed, GuardHeld, NEW t \in Threads, Step(t)
  PROVE  \/ guard = NoThread /\ guard' = t /\ Holds(t)'
         \/ guard = t /\ guard' = NoThread /\ ~Holds(t)'
         \/ guard' = guard /\ (Holds(t)' <=> guard = t)
<1> USE ThreadAssumption DEF Typed, TypeOK, GuardHeld, Holds, Local, Go, Goto,
        Return, At, locks, locals, CommitSteps, RestoreSteps, PurgeSteps
<1>1. CASE UnlockStep(t)
  BY <1>1 DEF UnlockStep, UnlockLoad, UnlockItems, UnlockKey, UnlockSlot,
              UnlockFlag, UnlockStorage
<1>2. CASE RestoreStep(t)
  BY <1>2 DEF RestoreStep, RestoreSample, RestoreTake, RestoreLoad,
              RestoreCheck, RestorePrecheck, RestoreEnter, RestoreItems,
              RestoreKey, RestoreFlag, RestoreStorage
<1>3. CASE LockStep(t)
  <2>1. CASE SoftEnter(t)
    BY <2>1 DEF SoftEnter, retention
  <2>2. CASE SoftRetain(t)
    BY <2>2 DEF SoftRetain, retention
  <2>3. CASE PurgeFlag(t)
    BY <2>3 DEF PurgeFlag, retention
  <2>4. CASE PurgeItems(t)
    BY <2>4 DEF PurgeItems, retention
  <2>5. CASE PurgeKey(t)
    BY <2>5 DEF PurgeKey, retention
  <2>6. CASE WipeEnter(t)
    BY <2>6 DEF WipeEnter, retention
  <2>7. CASE WipeSlot(t)
    BY <2>7 DEF WipeSlot, retention
  <2> QED BY <1>3, <2>1, <2>2, <2>3, <2>4, <2>5, <2>6, <2>7 DEF LockStep
<1>4. CASE NetStep(t)
  BY <1>4 DEF NetStep, Asking, SyncAsk, CreateTake, Answered, Failed, Renew,
              RenewSave, SyncSave, SyncKey, SyncItems, SyncStorage,
              CreateSave, CreateItems
<1> QED BY <1>1, <1>2, <1>3, <1>4 DEF Step
LEMMA GuardNext == Typed /\ GuardHeld /\ [Next]_vars => GuardHeld'
<1> SUFFICES ASSUME Typed, GuardHeld, [Next]_vars PROVE GuardHeld'
  OBVIOUS
<1>1. ASSUME NEW t \in Threads, Step(t) PROVE GuardHeld'
  <2>1. ASSUME NEW u \in Threads, u # t PROVE Holds(u)' <=> Holds(u)
    BY <1>1, <2>1, OthersHold DEF Holds
  <2> QED BY <1>1, <2>1, OwnHold, ThreadAssumption DEF GuardHeld
<1>2. ASSUME NEW t \in Threads, NEW o \in Ops, Call(t, o) PROVE GuardHeld'
  <2>1. guard' = guard
    BY <1>2 DEF Call, locks
  <2>2. ASSUME NEW u \in Threads PROVE Holds(u)' <=> Holds(u)
    <3>1. CASE u = t
      BY <1>2, <3>1 DEF Call, At, Goto, Typed, TypeOK, Holds, Ops, Entry,
                        CommitSteps, PurgeSteps
    <3>2. CASE u # t
      BY <1>2, <3>2 DEF Call, Goto, Typed, TypeOK, Holds
    <3> QED BY <3>1, <3>2
  <2> QED BY <2>1, <2>2 DEF GuardHeld
<1>3. CASE Login \/ LoginUnsynced \/ Logout
  BY <1>3 DEF Login, LoginUnsynced, Logout, GuardHeld, Holds, locks, locals
<1>4. CASE UNCHANGED vars
  BY <1>4 DEF vars, GuardHeld, Holds, locks, locals
<1> QED BY <1>1, <1>2, <1>3, <1>4 DEF Next

(* restore_guard is held exactly while a restore commits, a wipe or a soft *)
(* lock is under way, so at most one of them is, whatever the number of    *)
(* threads.                                                                *)
THEOREM GuardExcludes == Spec => []GuardHeld
<1>1. Init => GuardHeld
  BY ThreadAssumption DEF Init, GuardHeld, Holds, CommitSteps, PurgeSteps
<1> QED BY <1>1, GuardNext, TypedAlways, PTL DEF Spec

-----------------------------------------------------------------------------
(* The epoch moves only when the guard was free, so never during a commit. *)
LEMMA EpochStep ==
  ASSUME NEW t \in Threads, Step(t)
  PROVE  epoch' = epoch \/ guard = NoThread
<1> USE DEF retention
<1>1. CASE UnlockStep(t)
  BY <1>1 DEF UnlockStep, UnlockLoad, UnlockItems, UnlockKey, UnlockSlot,
              UnlockFlag, UnlockStorage
<1>2. CASE RestoreStep(t)
  BY <1>2 DEF RestoreStep, RestoreSample, RestoreTake, RestoreLoad,
              RestoreCheck, RestorePrecheck, RestoreEnter, RestoreItems,
              RestoreKey, RestoreFlag, RestoreStorage
<1>3. CASE LockStep(t)
  BY <1>3 DEF LockStep, SoftEnter, SoftRetain, PurgeFlag, PurgeItems,
              PurgeKey, WipeEnter, WipeSlot
<1>4. CASE NetStep(t)
  BY <1>4 DEF NetStep, SyncAsk, CreateTake, Answered, Failed, Renew,
              RenewSave, SyncSave, SyncKey, SyncItems, SyncStorage,
              CreateSave, CreateItems
<1> QED BY <1>1, <1>2, <1>3, <1>4 DEF Step

(* A thread enters the commit only with the epoch it sampled.              *)
LEMMA CommitStep ==
  ASSUME Typed, RestoreIsCurrent, NEW t \in Threads, Step(t),
         pc'[t] \in CommitSteps
  PROVE  seen'[t] = epoch /\ epoch' = epoch
<1> USE DEF Typed, TypeOK, RestoreIsCurrent, Go, Goto, Return, At, locals,
            retention, CommitSteps
<1>1. CASE UnlockStep(t)
  BY <1>1 DEF UnlockStep, UnlockLoad, UnlockItems, UnlockKey, UnlockSlot,
              UnlockFlag, UnlockStorage
<1>2. CASE RestoreStep(t)
  BY <1>2 DEF RestoreStep, RestoreSample, RestoreTake, RestoreLoad,
              RestoreCheck, RestorePrecheck, RestoreEnter, RestoreItems,
              RestoreKey, RestoreFlag, RestoreStorage
<1>3. CASE LockStep(t)
  BY <1>3 DEF LockStep, SoftEnter, SoftRetain, PurgeFlag, PurgeItems,
              PurgeKey, WipeEnter, WipeSlot
<1>4. CASE NetStep(t)
  BY <1>4 DEF NetStep, SyncAsk, CreateTake, Answered, Failed, Renew,
              RenewSave, SyncSave, SyncKey, SyncItems, SyncStorage,
              CreateSave, CreateItems
<1> QED BY <1>1, <1>2, <1>3, <1>4 DEF Step

LEMMA CurrentNext ==
  Typed /\ GuardHeld /\ RestoreIsCurrent /\ [Next]_vars => RestoreIsCurrent'
<1> SUFFICES ASSUME Typed, GuardHeld, RestoreIsCurrent, [Next]_vars,
                    NEW u \in Threads, pc'[u] \in CommitSteps
             PROVE  seen'[u] = epoch'
  BY DEF RestoreIsCurrent
<1>1. ASSUME NEW t \in Threads, Step(t) PROVE seen'[u] = epoch'
  <2>1. CASE u = t
    BY <1>1, <2>1, CommitStep
  <2>2. CASE u # t
    <3>1. pc[u] \in CommitSteps /\ seen'[u] = seen[u]
      BY <1>1, <2>2, OthersHold
    <3>2. guard = u
      BY <3>1 DEF GuardHeld, Holds
    <3>3. epoch' = epoch
      BY <1>1, <3>2, EpochStep, ThreadAssumption
    <3> QED BY <3>1, <3>3 DEF RestoreIsCurrent
  <2> QED BY <2>1, <2>2
<1>2. ASSUME NEW t \in Threads, NEW o \in Ops, Call(t, o)
      PROVE  seen'[u] = epoch'
  <2>1. u # t
    BY <1>2 DEF Call, Goto, Typed, TypeOK, Entry, Ops, CommitSteps
  <2> QED BY <1>2, <2>1 DEF Call, Goto, Typed, TypeOK, retention,
                            RestoreIsCurrent
<1>3. CASE Login \/ LoginUnsynced \/ Logout
  BY <1>3 DEF Login, LoginUnsynced, Logout, RestoreIsCurrent, retention,
              locals
<1>4. CASE UNCHANGED vars
  BY <1>4 DEF vars, RestoreIsCurrent, retention, locals
<1> QED BY <1>1, <1>2, <1>3, <1>4 DEF Next

(* However many locks, wipes and restores race, a restore writes unlocked  *)
(* state only if no wipe has begun since it sampled the epoch.             *)
THEOREM RestoreCurrent == Spec => []RestoreIsCurrent
<1>1. Init => RestoreIsCurrent
  BY DEF Init, RestoreIsCurrent, CommitSteps
<1> QED BY <1>1, CurrentNext, GuardExcludes, TypedAlways, PTL DEF Spec

-----------------------------------------------------------------------------
(* What a step may do to a retained key: an unlock and a soft lock only    *)
(* replace it by another key.                                              *)
LEMMA SlotStep ==
  ASSUME Typed, NEW t \in Threads, Step(t), slot # NoKey, slot' = NoKey
  PROVE  At(t, "wipeSlot")
<1> USE DEF retention
<1>1. CASE UnlockStep(t)
  <2>1. At(t, "unlockSlot") => key[t] # NoKey
    BY DEF Typed, Local, KeySteps, UnlockSteps, At
  <2> QED BY <1>1, <2>1 DEF UnlockStep, UnlockLoad, UnlockItems, UnlockKey,
                            UnlockSlot, UnlockFlag, UnlockStorage
<1>2. CASE RestoreStep(t)
  BY <1>2 DEF RestoreStep, RestoreSample, RestoreTake, RestoreLoad,
              RestoreCheck, RestorePrecheck, RestoreEnter, RestoreItems,
              RestoreKey, RestoreFlag, RestoreStorage
<1>3. CASE LockStep(t)
  BY <1>3 DEF LockStep, SoftEnter, SoftRetain, PurgeFlag, PurgeItems,
              PurgeKey, WipeEnter, WipeSlot
<1>4. CASE NetStep(t)
  BY <1>4 DEF NetStep, SyncAsk, CreateTake, Answered, Failed, Renew,
              RenewSave, SyncSave, SyncKey, SyncItems, SyncStorage,
              CreateSave, CreateItems
<1> QED BY <1>1, <1>2, <1>3, <1>4 DEF Step

(* A retained key leaves the slot only by a wipe: whatever else runs, a    *)
(* soft-locked vault stays ready for quick unlock until it is hard-locked. *)
THEOREM OnlyWipes == Spec => OnlyWipeDrops
<1>1. ASSUME Typed, [Next]_vars, slot # NoKey, slot' = NoKey
      PROVE  \E t \in Threads : At(t, "wipeSlot")
  <2>1. CASE \E t \in Threads : Step(t)
    BY <1>1, <2>1, SlotStep
  <2>2. CASE \E t \in Threads, o \in Ops : Call(t, o)
    BY <1>1, <2>2 DEF Call, retention
  <2>3. CASE Login \/ LoginUnsynced \/ Logout
    BY <1>1, <2>3 DEF Login, LoginUnsynced, Logout, retention
  <2>4. CASE UNCHANGED vars
    BY <1>1, <2>4 DEF vars, retention
  <2> QED BY <1>1, <2>1, <2>2, <2>3, <2>4 DEF Next
<1>2. Typed /\ [Next]_vars
        => [slot # NoKey /\ slot' = NoKey
              => \E t \in Threads : At(t, "wipeSlot")]_vars
  BY <1>1
<1> QED BY <1>2, TypedAlways, PTL DEF Spec, OnlyWipeDrops
=============================================================================
