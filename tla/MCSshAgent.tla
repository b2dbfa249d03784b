----------------------------- MODULE MCSshAgent -----------------------------
(* Instances of SshAgent for TLC.  One run explores several scopes: which  *)
(* requests and events come, and how many requests at once.                *)
EXTENDS SshAgent, SequencesExt, TLC

CONSTANTS c1, c2,   \* connections
          git,      \* a client program
          k1,       \* an SSH key
          Scopes    \* the scopes explored

VARIABLES scope,
          waits   \* in PatientScope, the threads that wait, the first one first

TwoConns == {c1, c2}
OnePeer  == {git}
OneKey   == {k1}

ConnSymmetry == Permutations(Conns)

Scope(atOnce, events) == [atOnce |-> atOnce, events |-> events]

(* One request at a time meets every event, two race each other: signing   *)
(* while the settings change, waiting while the vault locks and unlocks.   *)
AgentScopes ==
  {Scope(1, {"list", "lock", "configure"}),
   Scope(1, {"sign", "bind", "lock"}),
   Scope(2, {"sign", "bind", "configure"}),
   Scope(2, {"list", "lock"})}
PatientScope == Scope(2, {"list"})
WaitScope    == {PatientScope}

scopedVars == <<vars, scope, waits>>

(* Without locks the vault is unlocked, or waited for.                     *)
ScopedInit ==
  /\ Init /\ scope \in Scopes /\ waits = <<>>
  /\ "sign" \in scope.events /\ "lock" \notin scope.events
       => unlocked /\ vaultKeys = Keys
  /\ "sign" \notin scope.events => vaultKeys = {} /\ confirm = "never"

Calling == Cardinality({c \in Conns : pc[c] \notin {"closed", "idle"}})

(* Opens, binds and sends its request only if the scope has it.            *)
Comes(c) ==
  \/ Connect(c)
  \/ Close(c)
  \/ "bind" \in scope.events /\ Bind(c)
  \/ Calling < scope.atOnce /\ Request(c) /\ op'[c] \in scope.events

(* Every wait takes 60 s, and the steps before it at most the 15 s of the  *)
(* dialog of quick unlock.  In PatientScope the threads give up in the     *)
(* order in which they began to wait, and none while another is at those   *)
(* steps: its behaviours are possible with these times.                    *)
Waits(c) == At(c, "waiting")
Patient ==
  IF scope # PatientScope
    THEN UNCHANGED waits
    ELSE /\ waits' = SelectSeq(waits, LAMBDA c : Waits(c)')
                       \o SetToSeq({c \in Conns : Waits(c)' /\ ~Waits(c)})
         /\ \A c \in Conns :
              Waits(c) /\ pc'[c] = "gaveUp"
                => c = Head(waits) /\ \A d \in Conns \ {c} :
                     pc[d] \in {"closed", "idle", "waiting"}

ScopedNext ==
  \/ \E c \in Conns : WaitStep(c) /\ Patient /\ UNCHANGED scope
  \/ \E c \in Conns : SignStep(c) /\ UNCHANGED <<scope, waits>>
  \/ \E c \in Conns : Comes(c) /\ UNCHANGED <<scope, waits>>
  \/ NoticeCloses /\ UNCHANGED <<scope, waits>>
  \/ Reply /\ UNCHANGED <<scope, waits>>
  \/ "lock" \in scope.events /\ Lock /\ UNCHANGED <<scope, waits>>
  \/ Unlock /\ UNCHANGED <<scope, waits>>
  \/ "configure" \in scope.events /\ Configure /\ UNCHANGED <<scope, waits>>

ScopedSpec == ScopedInit /\ [][ScopedNext]_scopedVars

(* A client that retries while the person is away gets one notification    *)
(* for each lock (ssh_agent.rs:652), if no two requests wait at once.      *)
NotifiedOnce ==
  scope.atOnce = 1 => \A g \in 0..MaxLocks : posts[g] <= 1
=============================================================================
