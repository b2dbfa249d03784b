--------------------------- MODULE MCDaemonSession ---------------------------
(* Instances of DaemonSession for TLC.  One run explores several scopes:   *)
(* which requests and events come, and how many requests at once.          *)
EXTENDS DaemonSession, FiniteSets, TLC

CONSTANTS c1, c2,   \* client threads
          Scopes    \* the scopes explored

VARIABLE scope

OneClient  == {c1}
TwoClients == {c1, c2}

ClientSymmetry == Permutations(Clients)

Scope(atOnce, calls) == [atOnce |-> atOnce, calls |-> calls]

SafetyScopes ==
  {Scope(1, Requests \cup {"suspend"}),
   Scope(1, {"unlock", "quick", "lock", "disable", "signal"}),
   Scope(2, {"unlock", "quick", "lock", "wipe", "sync"})}
LiveScopes ==
  {Scope(1, {"unlock", "quick", "disable", "sync"}),
   Scope(1, {"quick", "lock", "suspend"}),
   Scope(1, {"unlock", "suspend"}),
   Scope(1, {"quick", "signal"}),
   Scope(1, {"unlock", "activity", "signal"})}
LockScope == {Scope(1, {"lock"})}

scopedVars == <<vars, scope>>

ScopedInit == Init /\ scope \in Scopes

Calling == Cardinality({c \in Clients : ~At(c, "idle")})

(* A suspension before the watchdog has sampled the clocks once goes       *)
(* unnoticed (README): here the machine is suspended only after.           *)
ScopedNext ==
  \/ \E p \in Procs : LockStep(p) /\ UNCHANGED scope
  \/ \E c \in Clients : ClientStep(c) /\ UNCHANGED scope
  \/ DogStep /\ UNCHANGED scope
  \/ \E c \in Clients, r \in Requests \cap scope.calls :
       Calling < scope.atOnce /\ Request(c, r) /\ UNCHANGED scope
  \/ Tick /\ UNCHANGED scope
  \/ "suspend" \in scope.calls /\ bootSeen # None /\ Suspend /\ UNCHANGED scope
  \/ "signal" \in scope.calls /\ Signal /\ UNCHANGED scope

ScopedSpec     == ScopedInit /\ [][ScopedNext]_scopedVars
ScopedFairSpec == ScopedSpec /\ Fairness

(* A session past its ceiling ends (CeilingHolds), unless a client's lock  *)
(* may clear the anchor while the watchdog retains the key.                *)
CeilingHoldsUnlocked ==
  WF_vars(Tick) =>
    (("lock" \notin scope.calls /\ Expired(masterAge))
       ~> (Expired(masterAge) => ~Holding))
=============================================================================
