-------------------------------- MODULE Desktop --------------------------------
(***************************************************************************)
(* What the desktop tells the daemon: the outcome of a polkit check        *)
(* (omawarden/src/polkit.rs) and the lock detector of                      *)
(* omawarden/src/daemon.rs, which asks logind, the shell and the table of  *)
(* processes.  A question that fails counts as answered in the negative.   *)
(***************************************************************************)
(* How a check ends: pkcheck exits, or it is not started, or has to be     *)
(* killed.                                                                 *)
PolkitEnds == {"exit 0", "exit 1", "exit 2", "exit 3", "exit 127",
               "no subject", "no pkcheck", "timed out"}

(* polkit::check(): dismissing the dialog is a denial too. *)
Outcome(end) ==
  IF end = "exit 0" THEN "authorized"
  ELSE IF end \in {"exit 1", "exit 3"} THEN "denied" ELSE "unavailable"
PolkitOutcomes == {Outcome(end) : end \in PolkitEnds}

-----------------------------------------------------------------------------
(* A desktop by what it would answer the detector. *)
Desktops == [preparingForSleep : BOOLEAN, lockedHint : BOOLEAN,
             omarchyShell : BOOLEAN,      \* omarchy-shell is found
             isLocked : BOOLEAN,          \* what omarchy-shell says
             pgrep : BOOLEAN, proc : BOOLEAN]   \* who sees a screen locker

LogindLockSignal(d) == IF d.preparingForSleep THEN "sleep"
                       ELSE IF d.lockedHint THEN "screen" ELSE "none"

IsOmarchyLocked(d) == d.omarchyShell /\ d.isLocked

IsScreenLockerRunning(d) == d.pgrep \/ d.proc

SystemLockSignal(d) ==
  IF LogindLockSignal(d) = "sleep" THEN "sleep"
  ELSE IF \/ IsOmarchyLocked(d) \/ IsScreenLockerRunning(d)
          \/ LogindLockSignal(d) = "screen"
         THEN "screen" ELSE "none"

LockSignals == {SystemLockSignal(d) : d \in Desktops}
================================================================================
