----------------------------- MODULE QuickUnlock -----------------------------
(* What quick unlock promises (ADR-0025), without the daemon's threads: a  *)
(* key may be retained; an attempt to restore the session takes a copy of  *)
(* it; revoking the retained key voids every copy taken before, except one *)
(* whose session is already being written, for which the revocation waits. *)
CONSTANTS Attempts, Keys, NoKey

VARIABLES
  retained,   \* the key in the slot
  held,       \* the copy each attempt may still open the session with
  opening     \* the key of the session being written

vars == <<retained, held, opening>>

Init ==
  /\ retained \in Keys \cup {NoKey}
  /\ held = [a \in Attempts |-> NoKey]
  /\ opening = NoKey

Retain ==
  /\ retained' \in Keys
  /\ UNCHANGED <<held, opening>>

Take(a) ==
  /\ retained # NoKey /\ held[a] = NoKey
  /\ held' = [held EXCEPT ![a] = retained]
  /\ UNCHANGED <<retained, opening>>

GiveUp(a) ==
  /\ held[a] # NoKey
  /\ held' = [held EXCEPT ![a] = NoKey]
  /\ UNCHANGED <<retained, opening>>

Open(a) ==
  /\ held[a] # NoKey /\ opening = NoKey
  /\ opening' = held[a]
  /\ held' = [held EXCEPT ![a] = NoKey]
  /\ UNCHANGED retained

Opened ==
  /\ opening # NoKey /\ opening' = NoKey
  /\ UNCHANGED <<retained, held>>

(* Revoking voids the copies, and then empties the slot. *)
Revoke ==
  /\ opening = NoKey
  /\ held' = [a \in Attempts |-> NoKey]
  /\ UNCHANGED <<retained, opening>>

Drop ==
  /\ opening = NoKey
  /\ retained' = NoKey
  /\ UNCHANGED <<held, opening>>

Next == \/ Retain \/ Opened \/ Revoke \/ Drop
        \/ \E a \in Attempts : Take(a) \/ GiveUp(a) \/ Open(a)

Spec == Init /\ [][Next]_vars
=============================================================================
