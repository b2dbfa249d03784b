--------------------------- MODULE MCVaultManager ---------------------------
(* Instances of VaultManager for TLC.  One run explores several scopes:    *)
(* which calls are made, how many at once, and by which accounts.  A       *)
(* property that some call breaks is checked in the scopes without it.     *)
EXTENDS VaultManager, TLC

CONSTANTS t1, t2, t3,   \* threads
          kA, kB,       \* user keys of two accounts
          wA, wB,       \* and the wrappings of them
          Scopes        \* the scopes explored

VARIABLE scope

OneThread    == {t1}
TwoThreads   == {t1, t2}
ThreeThreads == {t1, t2, t3}

TwoKeys   == {kA, kB}
TwoWraps  == {wA, wB}
TwoKeysOf == wA :> kA @@ wB :> kB

ThreadSymmetry == Permutations(Threads)

Scope(atOnce, accounts, calls) ==
  [atOnce |-> atOnce, accounts |-> accounts, calls |-> calls]
Logs == {"login", "login_unsynced", "logout"}

CallScopes ==
  {Scope(2, {wA}, Ops),
   Scope(2, {wA}, {"unlock", "restore", "sync", "create"} \cup Logs),
   Scope(3, {wA}, {"restore", "soft", "wipe"}),
   Scope(3, {wA}, {"unlock", "restore", "lock", "wipe"}),
   Scope(2, {wA, wB}, {"restore", "soft", "lock", "login", "logout"}),
   Scope(2, {wA, wB}, {"unlock", "restore", "soft", "lock", "login"})}
WipeGapScope == {Scope(2, {wA}, {"restore", "lock"})}
SyncScope    == {Scope(2, {wA}, {"sync", "lock"})}
ForeignScope == {Scope(2, {wA, wB}, {"restore", "soft", "sync", "login"})}

scopedVars == <<vars, scope>>

ScopedInit ==
  /\ Init
  /\ scope \in Scopes
  /\ disk.wrap \in scope.accounts \cup {NoWrap}

Calling == Cardinality({t \in Threads : ~At(t, "idle")})

ScopedLogin ==
  /\ \/ "login" \in scope.calls /\ Login
     \/ "login_unsynced" \in scope.calls /\ LoginUnsynced
  /\ disk'.wrap \in scope.accounts

ScopedNext ==
  \/ \E t \in Threads : UnlockStep(t) /\ UNCHANGED scope
  \/ \E t \in Threads : RestoreStep(t) /\ UNCHANGED scope
  \/ \E t \in Threads : LockStep(t) /\ UNCHANGED scope
  \/ \E t \in Threads : NetStep(t) /\ UNCHANGED scope
  \/ \E t \in Threads, o \in Ops \cap scope.calls :
       Calling < scope.atOnce /\ Call(t, o) /\ UNCHANGED scope
  \/ ScopedLogin /\ UNCHANGED scope
  \/ "logout" \in scope.calls /\ Logout /\ UNCHANGED scope

ScopedSpec == ScopedInit /\ [][ScopedNext]_scopedVars

Without(calls) == scope.calls \cap calls = {}

(* A locked vault is empty (LockedIsEmpty), unless a sync or a creation,   *)
(* which write the items without looking at the flag, may cross the lock.  *)
LockedStaysEmpty == Without({"sync", "create"}) => LockedIsEmpty

(* An unlocked vault is usable (UnlockedIsUsable), whatever restores, soft *)
(* locks and wipes cross: what restore_guard is for.                       *)
UnlockedStaysUsable ==
  Without({"unlock", "lock", "sync", "create"}) => UnlockedIsUsable

(* A hard lock leaves nothing retained (LockWipes), unless a soft lock may *)
(* come between its wipe and its purge.                                    *)
HardLockStaysWiped == [][Without({"soft"}) => LockWipes]_scopedVars

(* A restore commits the key of the account it loaded (RestoreKeyFits),    *)
(* unless an unlock or a sync may change the recorded wrapping under it,   *)
(* or a creation or an unsynced login leave data.json with ciphers that    *)
(* another account's key decrypts.                                         *)
RestoredKeyFits ==
  Without({"unlock", "sync", "create", "login_unsynced"}) => RestoreKeyFits
=============================================================================
