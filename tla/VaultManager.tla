---------------------------- MODULE VaultManager ----------------------------
(***************************************************************************)
(* The shared state of the resident daemon's VaultManager                  *)
(* (omawarden/src/vault.rs) and the calls that connection threads and the  *)
(* watchdog make on it concurrently.                                       *)
(*                                                                         *)
(* Every RwLock of the struct is taken for one read or write at a time, so *)
(* one critical section is one step here.  Two locks are held across       *)
(* steps and are modelled as such: restore_guard (guard) and the read lock *)
(* that sync keeps on user_key while it decrypts (reading).                *)
(*                                                                         *)
(* Data is abstracted to what the properties tell apart: a user key is a   *)
(* value of Keys, the enc_user_key string of data.json is a value of Wraps *)
(* (one per account and master password) and KeyOf says which key it       *)
(* wraps; decrypted items are the set of keys they were decrypted under;   *)
(* of the ciphers and the wrapped private key, the keys they accept.       *)
(***************************************************************************)
EXTENDS Integers, FiniteSets

CONSTANTS
  Threads,     \* threads of the daemon that may be inside a call
  Keys,        \* user keys
  Wraps,       \* enc_user_key strings
  KeyOf,       \* the user key each of them wraps
  NoKey, NoWrap, NoThread,
  MaxRenewals, \* renewals of the session one call may try (2 in the code)
  MaxEpoch,    \* bound: no wiping call starts once epoch reaches it
  MaxGen       \* bound: no unlocking call starts once lockGen reaches it

Ops == {"unlock", "restore", "soft", "lock", "wipe", "sync", "create"}

ASSUME KeyAssumption    == NoKey \notin Keys /\ NoWrap \notin Wraps
ASSUME WrapAssumption   == KeyOf \in [Wraps -> Keys]
ASSUME ThreadAssumption == NoThread \notin Threads
ASSUME BoundAssumption  == MaxRenewals \in Nat /\ MaxEpoch \in Nat /\ MaxGen \in Nat

VARIABLES
  disk,       \* data.json: its enc_user_key, and the keys that decrypt its
              \* private key (or else one of its personal ciphers)
  unlocked, items, userKey, memWrap,   \* is_unlocked, decrypted_items,
              \* user_key, and enc_user_key of the in-memory storage
  slot, slotWrap, epoch,   \* quick_unlock_key, _user_key_wrap, _epoch
  lockGen,    \* lock_generation
  guard,      \* thread that holds restore_guard
  reading,    \* threads that hold the read lock of user_key
  pc, op,     \* where each thread is, and in which call
  key, snap, seen,   \* locals: the key, the loaded storage, epoch_before,
  renewals           \* and the session renewals the call has tried

session   == <<unlocked, items, userKey, memWrap>>
retention == <<slot, slotWrap, epoch>>
locks     == <<guard, reading>>
locals    == <<op, key, snap, seen, renewals>>
vars == <<disk, session, retention, lockGen, locks, pc, locals>>

Disk == [wrap : Wraps \cup {NoWrap}, proof : SUBSET Keys]
LoggedOut == [wrap |-> NoWrap, proof |-> {}]

UnlockSteps  == {"unlockItems", "unlockKey", "unlockSlot", "unlockFlag",
                 "unlockStorage"}
CommitSteps  == {"restoreItems", "restoreKey", "restoreFlag",
                 "restoreStorage"}
RestoreSteps == {"restoreTake", "restoreLoad", "restoreCheck",
                 "restorePrecheck", "restoreEnter"} \cup CommitSteps
PurgeSteps   == {"purgeFlag", "purgeItems", "purgeKey"}
NetSteps     == {"syncAsk", "syncNet", "syncSave", "syncKey", "syncItems",
                 "syncStorage", "createTake", "createNet", "createSave",
                 "createItems", "renewSave"}
Steps == {"idle", "unlockLoad", "restoreSample", "softEnter", "softRetain",
          "wipeEnter", "wipeSlot"}
           \cup UnlockSteps \cup RestoreSteps \cup PurgeSteps \cup NetSteps

Entry == [o \in Ops |->
            CASE o = "unlock"  -> "unlockLoad"
              [] o = "restore" -> "restoreSample"
              [] o = "soft"    -> "softEnter"
              [] o = "sync"    -> "syncAsk"
              [] o = "create"  -> "createTake"
              [] OTHER         -> "wipeEnter"]

(* data.json as a login (or an empty directory) leaves it. *)
Logins == {LoggedOut} \cup {d \in Disk : /\ d.wrap # NoWrap
                                        /\ d.proof \in {{KeyOf[d.wrap]}, {}}}

(* A daemon that has just started, or one in which an unlock(), or an      *)
(* unlock() and a soft_lock(), have already returned.                      *)
Init ==
  /\ disk \in Logins
  /\ memWrap = disk.wrap
  /\ \/ /\ unlocked = FALSE /\ items = {} /\ userKey = NoKey
        /\ slot = NoKey /\ slotWrap = NoWrap
     \/ /\ disk.wrap # NoWrap
        /\ unlocked = TRUE /\ items = {KeyOf[memWrap]}
        /\ userKey = KeyOf[memWrap]
        /\ slot = NoKey /\ slotWrap = NoWrap
     \/ /\ disk.wrap # NoWrap
        /\ unlocked = FALSE /\ items = {} /\ userKey = NoKey
        /\ slot = KeyOf[memWrap] /\ slotWrap = memWrap
  /\ epoch = 0 /\ lockGen = 0
  /\ guard = NoThread /\ reading = {}
  /\ pc = [t \in Threads |-> "idle"]
  /\ op = [t \in Threads |-> "none"]
  /\ key = [t \in Threads |-> NoKey]
  /\ seen = [t \in Threads |-> 0]
  /\ snap = [t \in Threads |-> LoggedOut]
  /\ renewals = [t \in Threads |-> 0]

-----------------------------------------------------------------------------
At(t, step)   == pc[t] = step
Goto(t, step) == pc' = [pc EXCEPT ![t] = step]
Go(t, step)   == Goto(t, step) /\ UNCHANGED locals

(* A call returns: its locals go out of scope. *)
Return(t) ==
  /\ Goto(t, "idle")
  /\ op' = [op EXCEPT ![t] = "none"]
  /\ key' = [key EXCEPT ![t] = NoKey]
  /\ snap' = [snap EXCEPT ![t] = LoggedOut]
  /\ seen' = [seen EXCEPT ![t] = 0]
  /\ renewals' = [renewals EXCEPT ![t] = 0]

(* The bounds: they stop new calls, never a call already made. *)
Within(o) ==
  /\ o \in {"lock", "wipe", "restore", "sync", "create"} => epoch < MaxEpoch
  /\ o \in {"unlock", "restore"} => lockGen < MaxGen

Call(t, o) ==
  /\ At(t, "idle") /\ Within(o)
  /\ op' = [op EXCEPT ![t] = o]
  /\ Goto(t, Entry[o])
  /\ UNCHANGED <<disk, session, retention, lockGen, locks, key, snap, seen,
                 renewals>>

(* unlock(password) returns at once if the account is logged out or the    *)
(* password is wrong.                                                      *)
UnlockLoad(t) ==
  /\ At(t, "unlockLoad")
  /\ \/ /\ disk.wrap # NoWrap
        /\ snap' = [snap EXCEPT ![t] = disk]
        /\ key' = [key EXCEPT ![t] = KeyOf[disk.wrap]]
        /\ Goto(t, "unlockItems")
        /\ UNCHANGED <<op, seen, renewals>>
     \/ Return(t)
  /\ UNCHANGED <<disk, session, retention, lockGen, locks>>

UnlockItems(t) ==
  /\ At(t, "unlockItems") /\ Go(t, "unlockKey")
  /\ items' = {key[t]}
  /\ UNCHANGED <<disk, unlocked, userKey, memWrap, retention, lockGen, locks>>

UnlockKey(t) ==
  /\ At(t, "unlockKey") /\ Go(t, "unlockSlot")
  /\ reading = {}
  /\ userKey' = key[t]
  /\ UNCHANGED <<disk, unlocked, items, memWrap, retention, lockGen, locks>>

(* Mutant: the key is written to the slot whether or not one was retained. *)
UnlockSlotAlways(t) ==
  /\ At(t, "unlockSlot") /\ Go(t, "unlockFlag")
  /\ slot' = key[t] /\ slotWrap' = snap[t].wrap
  /\ UNCHANGED <<disk, session, epoch, lockGen, locks>>

(* A key retained earlier is replaced by the one now in use. *)
UnlockSlot(t) ==
  /\ At(t, "unlockSlot") /\ Go(t, "unlockFlag")
  /\ IF slot # NoKey
       THEN slot' = key[t] /\ slotWrap' = snap[t].wrap
       ELSE UNCHANGED <<slot, slotWrap>>
  /\ UNCHANGED <<disk, session, epoch, lockGen, locks>>

UnlockFlag(t) ==
  /\ At(t, "unlockFlag") /\ Go(t, "unlockStorage")
  /\ unlocked' = TRUE
  /\ UNCHANGED <<disk, items, userKey, memWrap, retention, lockGen, locks>>

UnlockStorage(t) ==
  /\ At(t, "unlockStorage") /\ Return(t)
  /\ memWrap' = snap[t].wrap
  /\ UNCHANGED <<disk, unlocked, items, userKey, retention, lockGen, locks>>

-----------------------------------------------------------------------------
(* quick_unlock_restore(): sample the epoch, copy the key, load data.json, *)
(* prove that the key belongs to it, and commit under restore_guard if no  *)
(* wipe has moved the epoch.                                               *)
RestoreSample(t) ==
  /\ At(t, "restoreSample") /\ Goto(t, "restoreTake")
  /\ seen' = [seen EXCEPT ![t] = epoch]
  /\ UNCHANGED <<disk, session, retention, lockGen, locks, op, key, snap,
                 renewals>>

(* Mutant: an empty slot is not noticed. *)
RestoreTakeAny(t) ==
  /\ At(t, "restoreTake") /\ Goto(t, "restoreLoad")
  /\ key' = [key EXCEPT ![t] = slot]
  /\ UNCHANGED <<disk, session, retention, lockGen, locks, op, snap, seen,
                 renewals>>

RestoreTake(t) ==
  /\ At(t, "restoreTake")
  /\ IF slot = NoKey
       THEN Return(t)
       ELSE /\ key' = [key EXCEPT ![t] = slot]
            /\ Goto(t, "restoreLoad")
            /\ UNCHANGED <<op, snap, seen, renewals>>
  /\ UNCHANGED <<disk, session, retention, lockGen, locks>>

RestoreLoad(t) ==
  /\ At(t, "restoreLoad")
  /\ IF disk.wrap = NoWrap
       THEN Return(t)
       ELSE /\ snap' = [snap EXCEPT ![t] = disk]
            /\ Goto(t, "restoreCheck")
            /\ UNCHANGED <<op, key, seen, renewals>>
  /\ UNCHANGED <<disk, session, retention, lockGen, locks>>

(* Mutant: an empty vault accepts any key. *)
ProvenIfEmpty(t) == snap[t].proof = {} \/ key[t] \in snap[t].proof

(* The private key or a personal cipher decides; an empty vault falls back *)
(* to the wrapping recorded when the key was retained.                     *)
Proven(t) ==
  IF snap[t].proof # {} THEN key[t] \in snap[t].proof
                        ELSE slotWrap = snap[t].wrap

RestoreCheck(t) ==
  /\ At(t, "restoreCheck")
  /\ Go(t, IF Proven(t) THEN "restorePrecheck" ELSE "wipeEnter")
  /\ UNCHANGED <<disk, session, retention, lockGen, locks>>

RestorePrecheck(t) ==
  /\ At(t, "restorePrecheck")
  /\ IF epoch = seen[t] THEN Go(t, "restoreEnter") ELSE Return(t)
  /\ UNCHANGED <<disk, session, retention, lockGen, locks>>

(* Mutant: the epoch is not checked again under the guard. *)
RestoreEnterUnchecked(t) ==
  /\ At(t, "restoreEnter") /\ guard = NoThread
  /\ guard' = t /\ Go(t, "restoreItems")
  /\ UNCHANGED <<disk, session, retention, lockGen, reading>>

(* Mutant: a restore that comes too late wipes, with the guard in hand. *)
RestoreEnterWiping(t) ==
  /\ At(t, "restoreEnter") /\ guard = NoThread
  /\ guard' = t
  /\ Go(t, IF epoch = seen[t] THEN "restoreItems" ELSE "wipeEnter")
  /\ UNCHANGED <<disk, session, retention, lockGen, reading>>

RestoreEnter(t) ==
  /\ At(t, "restoreEnter") /\ guard = NoThread
  /\ IF epoch = seen[t] THEN guard' = t /\ Go(t, "restoreItems")
                        ELSE UNCHANGED guard /\ Return(t)
  /\ UNCHANGED <<disk, session, retention, lockGen, reading>>

RestoreItems(t) ==
  /\ At(t, "restoreItems") /\ Go(t, "restoreKey")
  /\ items' = {key[t]}
  /\ UNCHANGED <<disk, unlocked, userKey, memWrap, retention, lockGen, locks>>

RestoreKey(t) ==
  /\ At(t, "restoreKey") /\ Go(t, "restoreFlag")
  /\ reading = {}
  /\ userKey' = key[t]
  /\ UNCHANGED <<disk, unlocked, items, memWrap, retention, lockGen, locks>>

RestoreFlag(t) ==
  /\ At(t, "restoreFlag") /\ Go(t, "restoreStorage")
  /\ unlocked' = TRUE
  /\ UNCHANGED <<disk, items, userKey, memWrap, retention, lockGen, locks>>

RestoreStorage(t) ==
  /\ At(t, "restoreStorage") /\ Return(t)
  /\ memWrap' = snap[t].wrap
  /\ guard' = NoThread
  /\ UNCHANGED <<disk, unlocked, items, userKey, retention, lockGen, reading>>

-----------------------------------------------------------------------------
(* Mutant: soft_lock() does not wait for a restore to commit. *)
SoftEnterUnguarded(t) ==
  /\ At(t, "softEnter") /\ Goto(t, "softRetain")
  /\ snap' = [snap EXCEPT ![t].wrap = memWrap]
  /\ UNCHANGED <<disk, session, retention, lockGen, locks, op, key, seen,
                 renewals>>

(* soft_lock(): the key moves to the slot and the session is purged, all   *)
(* under restore_guard.  The in-memory wrapping is read first.             *)
SoftEnter(t) ==
  /\ At(t, "softEnter") /\ Goto(t, "softRetain")
  /\ guard = NoThread /\ guard' = t
  /\ snap' = [snap EXCEPT ![t].wrap = memWrap]
  /\ UNCHANGED <<disk, session, retention, lockGen, reading, op, key, seen,
                 renewals>>

(* Mutant: whatever the session holds, or does not, goes to the slot. *)
SoftRetainAlways(t) ==
  /\ At(t, "softRetain") /\ Go(t, "purgeFlag")
  /\ reading = {}
  /\ userKey' = NoKey
  /\ slot' = userKey
  /\ slotWrap' = IF userKey # NoKey THEN snap[t].wrap ELSE NoWrap
  /\ UNCHANGED <<disk, unlocked, items, memWrap, epoch, lockGen, locks>>

SoftRetain(t) ==
  /\ At(t, "softRetain") /\ Go(t, "purgeFlag")
  /\ reading = {}
  /\ userKey' = NoKey
  /\ IF userKey # NoKey \/ slot = NoKey
       THEN /\ slot' = userKey
            /\ slotWrap' = IF userKey # NoKey THEN snap[t].wrap ELSE NoWrap
       ELSE UNCHANGED <<slot, slotWrap>>
  /\ UNCHANGED <<disk, unlocked, items, memWrap, epoch, lockGen, locks>>

(* purge_decrypted_state(): the flag and the generation, the items, the    *)
(* key.  soft_lock() holds the guard meanwhile, lock() does not.  A sync   *)
(* or a creation that locked because its session could not be renewed      *)
(* fails, or goes on with the token that could not be stored.              *)
PurgeFlag(t) ==
  /\ At(t, "purgeFlag") /\ Go(t, "purgeItems")
  /\ unlocked' = FALSE
  /\ lockGen' = IF unlocked THEN lockGen + 1 ELSE lockGen
  /\ UNCHANGED <<disk, items, userKey, memWrap, retention, locks>>

(* Mutant: the items are not cleared. *)
PurgeItemsNot(t) ==
  /\ At(t, "purgeItems") /\ Go(t, "purgeKey")
  /\ UNCHANGED <<disk, session, retention, lockGen, locks>>

(* Mutant: soft_lock() gives the guard back before the purge has ended. *)
PurgeItemsReleasing(t) ==
  /\ At(t, "purgeItems") /\ Go(t, "purgeKey")
  /\ items' = {}
  /\ guard' = IF guard = t THEN NoThread ELSE guard
  /\ UNCHANGED <<disk, unlocked, userKey, memWrap, retention, lockGen, reading>>

PurgeItems(t) ==
  /\ At(t, "purgeItems") /\ Go(t, "purgeKey")
  /\ items' = {}
  /\ UNCHANGED <<disk, unlocked, userKey, memWrap, retention, lockGen, locks>>

PurgeKey(t) ==
  /\ At(t, "purgeKey")
  /\ reading = {}
  /\ userKey' = NoKey
  /\ guard' = IF guard = t THEN NoThread ELSE guard
  /\ \/ Return(t)
     \/ op[t] = "sync" /\ Go(t, "syncNet")
     \/ op[t] = "create" /\ Go(t, "createNet")
  /\ UNCHANGED <<disk, unlocked, items, memWrap, retention, lockGen, reading>>

(* Mutant: a wipe does not wait for a restore that is committing. *)
WipeEnterUnguarded(t) ==
  /\ At(t, "wipeEnter") /\ Go(t, "wipeSlot")
  /\ guard' = t
  /\ epoch' = epoch + 1
  /\ UNCHANGED <<disk, session, slot, slotWrap, lockGen, reading>>

(* wipe_quick_unlock(), alone or as the first half of lock(). *)
WipeEnter(t) ==
  /\ At(t, "wipeEnter") /\ Go(t, "wipeSlot")
  /\ guard = NoThread /\ guard' = t
  /\ epoch' = epoch + 1
  /\ UNCHANGED <<disk, session, slot, slotWrap, lockGen, reading>>

WipeSlot(t) ==
  /\ At(t, "wipeSlot")
  /\ slot' = NoKey /\ slotWrap' = NoWrap
  /\ guard' = NoThread
  /\ IF op[t] \in {"wipe", "restore"} THEN Return(t) ELSE Go(t, "purgeFlag")
  /\ UNCHANGED <<disk, session, epoch, lockGen, reading>>

-----------------------------------------------------------------------------
(* sync_with_client() and create_ssh_key_with_client().  A call that has   *)
(* no usable token, or whose request is refused, renews the session, at    *)
(* most twice in all; then data.json is loaded again and rewritten.  What  *)
(* the server sends is under the key of the account the call asked for.    *)
SyncAsk(t) ==
  /\ At(t, "syncAsk")
  /\ IF disk.wrap = NoWrap
       THEN Return(t)
       ELSE /\ key' = [key EXCEPT ![t] = KeyOf[disk.wrap]]
            /\ Goto(t, "syncNet")
            /\ UNCHANGED <<op, snap, seen, renewals>>
  /\ UNCHANGED <<disk, session, retention, lockGen, locks>>

CreateTake(t) ==
  /\ At(t, "createTake")
  /\ IF userKey = NoKey
       THEN Return(t)
       ELSE /\ key' = [key EXCEPT ![t] = userKey]
            /\ Goto(t, "createNet")
            /\ UNCHANGED <<op, snap, seen, renewals>>
  /\ UNCHANGED <<disk, session, retention, lockGen, locks>>

Asking(t) == pc[t] \in {"syncNet", "createNet"}

Answered(t) ==
  /\ Asking(t)
  /\ snap' = [snap EXCEPT ![t] = disk]
  /\ Goto(t, IF At(t, "syncNet") THEN "syncSave" ELSE "createSave")
  /\ UNCHANGED <<disk, session, retention, lockGen, locks, op, key, seen,
                 renewals>>

Failed(t) ==
  /\ Asking(t) /\ Return(t)
  /\ UNCHANGED <<disk, session, retention, lockGen, locks>>

Renew(t) ==
  /\ Asking(t) /\ renewals[t] < MaxRenewals
  /\ renewals' = [renewals EXCEPT ![t] = @ + 1]
  /\ snap' = [snap EXCEPT ![t] = disk]
  /\ Goto(t, "renewSave")
  /\ UNCHANGED <<disk, session, retention, lockGen, locks, op, key, seen>>

(* New tokens are stored and the call asks again, or the credentials are   *)
(* purged and the vault is locked; either way data.json is written back,   *)
(* unless the write fails, which nobody notices.                           *)
RenewSave(t) ==
  /\ At(t, "renewSave")
  /\ disk' \in {disk, snap[t]}
  /\ snap' = [snap EXCEPT ![t] = LoggedOut]
  /\ Goto(t, IF op[t] = "sync" THEN "syncNet" ELSE "createNet")
       \/ Goto(t, "wipeEnter")
  /\ UNCHANGED <<session, retention, lockGen, locks, op, key, seen, renewals>>

(* A sync may fill or empty the vault; a failed write ends the call. *)
SyncSave(t) ==
  /\ At(t, "syncSave")
  /\ \/ /\ \E p \in {snap[t].proof, {key[t]}, {}} :
             snap' = [snap EXCEPT ![t].proof = p]
        /\ disk' = snap'[t]
        /\ Goto(t, "syncKey")
        /\ UNCHANGED <<op, key, seen, renewals>>
     \/ Return(t) /\ UNCHANGED disk
  /\ UNCHANGED <<session, retention, lockGen, locks>>

SyncKey(t) ==
  /\ At(t, "syncKey")
  /\ key' = [key EXCEPT ![t] = userKey]
  /\ IF userKey = NoKey
       THEN UNCHANGED reading /\ Goto(t, "syncStorage")
       ELSE reading' = reading \cup {t} /\ Goto(t, "syncItems")
  /\ UNCHANGED <<disk, session, retention, lockGen, guard, op, snap, seen,
                 renewals>>

SyncItems(t) ==
  /\ At(t, "syncItems") /\ Go(t, "syncStorage")
  /\ items' = {key[t]}
  /\ reading' = reading \ {t}
  /\ UNCHANGED <<disk, unlocked, userKey, memWrap, retention, lockGen, guard>>

SyncStorage(t) ==
  /\ At(t, "syncStorage") /\ Return(t)
  /\ memWrap' = snap[t].wrap
  /\ UNCHANGED <<disk, unlocked, items, userKey, retention, lockGen, locks>>

(* The new cipher may become one of those that decide; a failed write goes *)
(* unnoticed here too.  The item is added unless it cannot be decrypted.   *)
CreateSave(t) ==
  /\ At(t, "createSave") /\ Go(t, "createItems")
  /\ disk' \in {disk, snap[t], [snap[t] EXCEPT !.proof = @ \cup {key[t]}]}
  /\ UNCHANGED <<session, retention, lockGen, locks>>

CreateItems(t) ==
  /\ At(t, "createItems") /\ Return(t)
  /\ items' \in {items, items \cup {key[t]}}
  /\ UNCHANGED <<disk, unlocked, userKey, memWrap, retention, lockGen, locks>>

-----------------------------------------------------------------------------
(* Other processes of the user rewrite data.json: `auth login`, maybe of   *)
(* another account; a login whose first sync failed, which keeps the       *)
(* ciphers of before, and they decide if the account has no private key;   *)
(* and `auth logout` or a change of server.                                *)
Login ==
  /\ disk' \in Logins \ {LoggedOut}
  /\ UNCHANGED <<session, retention, lockGen, locks, pc, locals>>

LoginUnsynced ==
  /\ \E w \in Wraps : disk' = [disk EXCEPT !.wrap = w]
  /\ UNCHANGED <<session, retention, lockGen, locks, pc, locals>>

Logout ==
  /\ disk' = LoggedOut
  /\ UNCHANGED <<session, retention, lockGen, locks, pc, locals>>

UnlockStep(t)  == \/ UnlockLoad(t) \/ UnlockItems(t) \/ UnlockKey(t)
                  \/ UnlockSlot(t) \/ UnlockFlag(t) \/ UnlockStorage(t)
RestoreStep(t) == \/ RestoreSample(t) \/ RestoreTake(t) \/ RestoreLoad(t)
                  \/ RestoreCheck(t) \/ RestorePrecheck(t) \/ RestoreEnter(t)
                  \/ RestoreItems(t) \/ RestoreKey(t) \/ RestoreFlag(t)
                  \/ RestoreStorage(t)
LockStep(t)    == \/ SoftEnter(t) \/ SoftRetain(t) \/ PurgeFlag(t)
                  \/ PurgeItems(t) \/ PurgeKey(t) \/ WipeEnter(t)
                  \/ WipeSlot(t)
NetStep(t)     == \/ SyncAsk(t) \/ CreateTake(t) \/ Answered(t) \/ Failed(t)
                  \/ Renew(t) \/ RenewSave(t) \/ SyncSave(t) \/ SyncKey(t)
                  \/ SyncItems(t) \/ SyncStorage(t) \/ CreateSave(t)
                  \/ CreateItems(t)

Step(t) == UnlockStep(t) \/ RestoreStep(t) \/ LockStep(t) \/ NetStep(t)

Next ==
  \/ \E t \in Threads : Step(t) \/ (\E o \in Ops : Call(t, o))
  \/ Login \/ LoginUnsynced \/ Logout

Fairness == \A t \in Threads : WF_vars(Step(t))

Spec     == Init /\ [][Next]_vars
FairSpec == Spec /\ Fairness

-----------------------------------------------------------------------------
(* The values of the state. *)
TypeOK ==
  /\ disk \in Disk
  /\ unlocked \in BOOLEAN
  /\ items \in SUBSET Keys
  /\ userKey \in Keys \cup {NoKey}
  /\ memWrap \in Wraps \cup {NoWrap}
  /\ slot \in Keys \cup {NoKey}
  /\ slotWrap \in Wraps \cup {NoWrap}
  /\ epoch \in Nat /\ lockGen \in Nat
  /\ guard \in Threads \cup {NoThread}
  /\ reading \in SUBSET Threads
  /\ pc \in [Threads -> Steps]
  /\ op \in [Threads -> Ops \cup {"none"}]
  /\ key \in [Threads -> Keys \cup {NoKey}]
  /\ seen \in [Threads -> Nat]
  /\ snap \in [Threads -> Disk]
  /\ renewals \in [Threads -> 0..MaxRenewals]

(* restore_guard is held by the commit of a restore, the whole of          *)
(* wipe_quick_unlock() and the whole of soft_lock(), its purge included:   *)
(* they exclude each other, and nothing else holds it.                     *)
Holds(t) == \/ pc[t] \in CommitSteps \cup {"softRetain", "wipeSlot"}
            \/ pc[t] \in PurgeSteps /\ op[t] = "soft"
GuardHeld == \A t \in Threads : Holds(t) <=> guard = t

(* A restore writes the session only while no wipe has begun since it      *)
(* sampled the epoch (restore_guard and the check repeated under it).      *)
RestoreIsCurrent == \A t \in Threads : pc[t] \in CommitSteps => seen[t] = epoch

(* A restore never writes the session after the retained key was wiped: a  *)
(* hard lock racing it is never overridden (doc of quick_unlock_epoch).    *)
CommitHoldsRetained ==
  \A t \in Threads : pc[t] \in CommitSteps => slot # NoKey

Committing == {t \in Threads : pc[t] \in CommitSteps}

(* What quick unlock promises: an attempt opens the session only with a    *)
(* copy of the key that no wipe has voided, and no wipe runs meanwhile.    *)
Promise == INSTANCE QuickUnlock WITH
  Attempts <- Threads,
  retained <- slot,
  held     <- [t \in Threads |->
                 IF pc[t] \in RestoreSteps \ (CommitSteps \cup {"restoreTake"})
                      /\ seen[t] = epoch
                   THEN key[t] ELSE NoKey],
  opening  <- IF Committing = {} THEN NoKey
                                 ELSE key[CHOOSE t \in Committing : TRUE]
KeepsPromise == Promise!Spec

(* The key a restore commits is the one that the storage it commits with   *)
(* wraps, so nothing is written later under a key that a master password   *)
(* unlock cannot read (comment on the empty-vault fallback).               *)
RestoreKeyFits ==
  \A t \in Threads : pc[t] \in CommitSteps => key[t] = KeyOf[snap[t].wrap]

Quiet == \A t \in Threads : At(t, "idle")

(* When no call is under way, a vault that says it is locked holds neither *)
(* decrypted items nor the user key: locking purges the decrypted state.   *)
LockedIsEmpty == Quiet /\ ~unlocked => items = {} /\ userKey = NoKey

(* When no call is under way, an unlocked vault has a user key and items   *)
(* decrypted under it: soft_lock() and a restore never leave the vault     *)
(* flagged unlocked with no items and no user key.                         *)
UnlockedIsUsable == Quiet /\ unlocked => userKey # NoKey /\ items = {userKey}

(* When lock() returns, no key is retained for quick unlock.               *)
LockWipes == \A t \in Threads : (op[t] = "lock" /\ PurgeKey(t)) => slot' = NoKey
HardLockWipes == [][LockWipes]_vars

(* A retained key is dropped by a wipe alone: not by a second soft lock,   *)
(* nor by a restore, which leaves the slot untouched.                      *)
OnlyWipeDrops ==
  [][slot # NoKey /\ slot' = NoKey => \E t \in Threads : At(t, "wipeSlot")]_vars

(* Once no more calls come in, every call returns: no order of taking      *)
(* restore_guard and the read lock of user_key blocks its callers.         *)
CallsReturn ==
  <>[][\A t \in Threads, o \in Ops : ~Call(t, o)]_vars => <>[]Quiet
=============================================================================
