----------------------------- MODULE Clipboard -----------------------------
(* Secrets on the Wayland clipboard (clipboard.rs).  A sensitive copy sets  *)
(* a timer that clears the clipboard, unless the generation file says that  *)
(* something happened since.  Each process makes a manager of its own: its  *)
(* count of generations starts afresh.  A copy by the command line leaves a *)
(* worker process behind, one by the daemon a thread of the daemon.         *)
EXTENDS Naturals, Sequences, SequencesExt

CONSTANTS Copiers,   \* processes and requests that use the clipboard once
          Empty      \* nothing on the clipboard

VARIABLES
  use,         \* what each copier does, and where it runs
  step,        \* how far it got
  clip,        \* whose text the clipboard holds
  genFile,     \* the generation file, 0 when there is none
  writable,    \* the runtime directory takes the file
  timers       \* the timers set, in the order they end (one duration)

clipVars == <<use, step, clip, genFile, writable, timers>>

(* "secret" and "text" are copied, with and without the sensitive mark;     *)
(* "clear" is asked for, or done by a lock; "other" is another program.     *)
Uses == [does : {"secret", "text", "clear", "other"}, in : {"cli", "daemon"}]

ClipInit(uses) ==
  /\ use \in uses
  /\ step = [c \in Copiers |-> "idle"]
  /\ clip = Empty /\ genFile \in {0, 2} /\ writable \in BOOLEAN /\ timers = <<>>

ClipGoto(c, s) == step' = [step EXCEPT ![c] = s]

(* next_generation of a manager made by this process: one, and one more.    *)
FreshGeneration == 1
NextGeneration == FreshGeneration + 1
SaveGeneration == genFile' = IF writable THEN NextGeneration ELSE genFile

(* wl-copy may be missing or fail; nothing is recorded then.                *)
Copy(c) ==
  /\ step[c] = "idle" /\ use[c].does # "clear"
  /\ \/ clip' = c /\ ClipGoto(c, IF use[c].does = "secret" THEN "copied" ELSE "done")
     \/ UNCHANGED clip /\ ClipGoto(c, "done")
  /\ UNCHANGED <<use, genFile, writable, timers>>

(* schedule_auto_clear: a new generation, then the timer that expects it.   *)
StampCopy(c) ==
  /\ step[c] = "copied"
  /\ SaveGeneration /\ ClipGoto(c, "stamped")
  /\ UNCHANGED <<use, clip, writable, timers>>

SetTimer(c) ==
  /\ step[c] = "stamped"
  /\ timers' = Append(timers, c) /\ ClipGoto(c, "timed")
  /\ UNCHANGED <<use, clip, genFile, writable>>

(* Mutant: the generation file is not read.                                 *)
CountedGeneration(c) ==
  IF use[c].in = "daemon" THEN NextGeneration ELSE FreshGeneration

(* A timer ends and reads the generation: the worker falls back on a fresh  *)
(* manager's, the daemon's thread on the one its copy made.                 *)
CurrentGeneration(c) ==
  IF genFile # 0 THEN genFile
  ELSE IF use[c].in = "daemon" THEN NextGeneration ELSE FreshGeneration

TimerEnds(c) ==
  /\ timers # <<>> /\ c = Head(timers) /\ step[c] = "timed"
  /\ timers' = Tail(timers)
  /\ ClipGoto(c, IF CurrentGeneration(c) = NextGeneration THEN "ended" ELSE "done")
  /\ UNCHANGED <<use, clip, genFile, writable>>

(* clear: a new generation, then wl-copy --clear, which may be missing or   *)
(* fail: nobody tries again.  The daemon's thread only does the second.     *)
StampClear(c) ==
  /\ \/ step[c] = "idle" /\ use[c].does = "clear"
     \/ step[c] = "ended" /\ use[c].in = "cli"
  /\ SaveGeneration /\ ClipGoto(c, "clearing")
  /\ UNCHANGED <<use, clip, writable, timers>>

ClearClip(c) ==
  /\ \/ step[c] = "clearing"
     \/ step[c] = "ended" /\ use[c].in = "daemon"
  /\ \/ clip' = Empty /\ ClipGoto(c, "done")
     \/ UNCHANGED clip /\ ClipGoto(c, "failed")
  /\ UNCHANGED <<use, genFile, writable, timers>>

ClipStep(c) == \/ Copy(c) \/ StampCopy(c) \/ SetTimer(c)
               \/ TimerEnds(c) \/ StampClear(c) \/ ClearClip(c)
ClipNext == \E c \in Copiers : ClipStep(c)

(***************************************************************************)
(* Properties                                                              *)
(***************************************************************************)
ClipTypeOK ==
  /\ use \in [Copiers -> Uses]
  /\ clip \in Copiers \cup {Empty} /\ genFile \in {0, NextGeneration}
  /\ ToSet(timers) \subseteq {c \in Copiers : use[c].does = "secret" /\ step[c] = "timed"}

(* A secret goes from the clipboard by its timer, whatever other copies and *)
(* clears come between (schedule_auto_clear), where the generation file can *)
(* be written: without it a worker finds a fresh generation and leaves.  It *)
(* stays when the clearing itself, by its own timer, fails.                 *)
SecretShown ==
  clip # Empty /\ use[clip].does = "secret" /\ writable /\ step[clip] # "failed"
SecretGoes  == SecretShown ~> ~SecretShown
=============================================================================
