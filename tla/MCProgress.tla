----------------------------- MODULE MCProgress -----------------------------
(* What must come to an end, under the fairness of the system's scheduler: *)
(* the commands, daemons and overlay of MCCommands, on smaller instances,  *)
(* and the calls of VaultManager.                                          *)
EXTENDS MCCommands

CONSTANTS t1, t2, kA, wA,   \* threads, a user key and its wrapping
          Threads, Keys, Wraps, KeyOf, NoKey, NoWrap, NoThread,
          MaxRenewals, MaxEpoch, MaxGen

VARIABLES disk, vaultUnlocked, items, vaultKey, memWrap, slot, slotWrap, epoch,
          lockGen, guard, reading, vaultPc, op, key, snap, seen, renewals

Vault == INSTANCE VaultManager
           WITH unlocked <- vaultUnlocked, userKey <- vaultKey, pc <- vaultPc

vaultVars == <<disk, vaultUnlocked, items, vaultKey, memWrap, slot, slotWrap, epoch,
               lockGen, guard, reading, vaultPc, op, key, snap, seen, renewals>>

TwoThreads == {t1, t2}
OneKey     == {kA}
OneWrap    == {wA}
(* A wipe is a part of a lock, and a creation waits where a sync does.     *)
VaultCalls == Vault!Ops \ {"wipe", "create"}
OneKeyOf   == wA :> kA

ProgressScopes ==
  {Part(n) : n \in {"sign in", "daemons", "clipboard", "attachments", "command line", "vault", "overlay"}}

ProgressInit ==
  /\ ScopedInit
  /\ In("daemons") => /\ command \in {Given3("unlock", "unlock", "stop"),
                                      Given3("unlock", "ensure", "none")}
                      /\ build[c2] = "old" /\ setting
  /\ In("sign in") => account.key # "mute" /\ (account.honest \/ account.methods = <<1, 7>>)
  /\ In("attachments") => files = NoFiles /\ copies /\ want[k1].att.id # "z"
                            /\ want[k2] = [want[k1] EXCEPT !.mode = "preview"]
  /\ In("overlay") => plan.atOnce = 1
  /\ Vault!Init
  /\ ~In("vault") => disk = Vault!LoggedOut

ProgressNext ==
  \/ ScopedNext /\ UNCHANGED vaultVars
  \/ /\ In("vault") /\ UNCHANGED partVars
     /\ \E t \in Threads : Vault!Step(t) \/ (\E o \in VaultCalls : Vault!Call(t, o))

(* The scheduler's fairness: every process and thread that can go on does.  *)
ProgressFair ==
  /\ WF_signVars(In("sign in") /\ SignNext)
  /\ \A d \in Daemons :
       WF_lifeVars(In("daemons") /\ (BootStep(d) \/ ApplyStep(d)))
  /\ \A c \in Clients :
       WF_lifeVars(In("daemons") /\ (ClientStep(c) \/ ServeStep(c) \/ ApplyStep(c)))
  /\ WF_clipVars(In("clipboard") /\ ClipNext)
  /\ \A k \in Askers : WF_attVars(In("attachments") /\ GetAttachment(k))
  /\ \A s \in Shells : WF_cmdVars(In("command line") /\ CmdStep(s))
  /\ WF_windowVars(In("overlay") /\ Overlay!StatusStep)
  /\ WF_windowVars(In("overlay") /\ Overlay!CardStep)
  /\ \A t \in Threads : WF_vaultVars(In("vault") /\ Vault!Step(t))

ProgressSpec ==
  /\ ProgressInit /\ [][ProgressNext]_<<partVars, vaultVars>>
  /\ ProgressFair

(* Every command ends: a sign-in (auth.rs), a search for a daemon          *)
(* (daemon.rs), a request for an attachment (attachment.rs) and the        *)
(* commands that read and create (main.rs).                                *)
EveryCommandEnds == <>(SignInEnded /\ CommandsEnded /\ AttachmentsEnded /\ CommandLineEnded)

(* An open overlay ends up showing a lock of the vault (lockSyncTimer),    *)
(* and closing it denies the prompt it shows (sshDenyingOnClose).          *)
LockIsShown   == Overlay!LockIsShown
ClosingDenies == Overlay!ClosingDenies

(* Once no more calls come in, every call of VaultManager returns (vault.rs*)
(* restore_guard and the read lock of user_key block nobody for good).     *)
CallsReturn == Vault!CallsReturn
=============================================================================
