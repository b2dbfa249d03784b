------------------------------ MODULE Overlay ------------------------------
(* The overlay (OmarchyBitwarden.qml): its picture of the vault, kept by    *)
(* helper processes whose answers come late, and the card that asks for the *)
(* SSH agent's signatures.  QML runs one handler at a time; each is a step. *)
(* A helper that runs is not started again: Quickshell ignores it.          *)
EXTENDS Integers, FiniteSets, FiniteSetsExt

CONSTANTS Prompts,    \* numbers of the agent's prompts, in the order it gives them
          NoPrompt

VARIABLES
  daemon,      \* the vault: "unlocked", "locked", or "none" when logged out
  status,      \* authState.status
  shown,       \* what the overlay holds of the vault
  opened,
  helper,      \* of each helper process: "idle", "running", or its answer
  plan,        \* what the person does, how they log in, and how many helpers run
               \* at most when they start another
  waiting,     \* the agent's prompts without a decision
  posted,      \* the prompts so far
  card,        \* sshApprovalPrompt
  cardOnly, denying,   \* sshApprovalOnly, sshDenyingOnClose
  query,       \* sshPendingProc: state, and the prompt it answers with
  reply,       \* sshReplyProc: state, prompt, decision
  closedOn     \* the prompt shown when the window was last closed

vaultPart == <<daemon, status, helper>>
cardPart  == <<waiting, posted, card, cardOnly, denying, query, reply, closedOn>>
overlayVars == <<vaultPart, shown, opened, plan, cardPart>>

Helpers == {"status", "unlock", "login", "lock", "logout", "sync", "list", "preview"}
Statuses == {"unlocked", "locked", "none"}
Answers == [status |-> Statuses \cup {"failed"}, unlock |-> {"ok", "refused"},
            login |-> {"unlocked", "locked", "refused"}, lock |-> {"done"}, logout |-> {"done"},
            sync |-> {"ok", "failed", "expired"}, list |-> {"items", "error"},
            preview |-> {"preview", "failed"}]

(* A list that could not be had is an object in place of the items.         *)
Secrets == {"items", "preview"}
NoItems == shown \cap {"items", "error"} = {}

OverlayInit(plans) ==
  /\ plan \in plans
  /\ daemon = "locked" /\ status = "none" /\ shown = {} /\ opened = FALSE
  /\ helper = [h \in Helpers |-> "idle"]
  /\ waiting = {} /\ posted = {} /\ card = NoPrompt
  /\ cardOnly = FALSE /\ denying = FALSE /\ closedOn = NoPrompt
  /\ query = [state |-> "idle", first |-> NoPrompt]
  /\ reply = [state |-> "idle", prompt |-> NoPrompt, allow |-> FALSE]

(***************************************************************************)
(* Helpers                                                                 *)
(***************************************************************************)
Running(hs)      == [h \in Helpers |-> IF h \in hs /\ helper[h] = "idle" THEN "running" ELSE helper[h]]
After(h, hs)     == [Running(hs) EXCEPT ![h] = "idle"]
InFlight         == {h \in Helpers : helper[h] # "idle"}

(* refreshAuthStatus, loadVaultItems; a background sync waits out a cooldown*)
(* unless forced.                                                           *)
Load == {"list", "sync"}
LoadMaybe == {Load, {"list"}}

(* What a command finds and does, by the daemon's answer to it.  A lock or  *)
(* logout that does not reach the daemon answers alike.                     *)
Effects(h) ==
  CASE h = "status" -> {[answer |-> a, daemon |-> daemon] : a \in {daemon, "failed"}}
    [] h = "unlock" -> {[answer |-> "refused", daemon |-> daemon]}
                       \cup {[answer |-> "ok", daemon |-> "unlocked"] : x \in {daemon} \ {"none"}}
    [] h = "login"  -> {[answer |-> "refused", daemon |-> daemon],
                        IF plan.login = "password" THEN [answer |-> "unlocked", daemon |-> "unlocked"]
                        ELSE [answer |-> "locked",
                              daemon |-> IF daemon = "none" THEN "locked" ELSE daemon]}
    [] h = "lock"   -> {[answer |-> "done", daemon |-> d] :
                          d \in {daemon, IF daemon = "unlocked" THEN "locked" ELSE daemon}}
    [] h = "logout" -> {[answer |-> "done", daemon |-> d] : d \in {daemon, "none"}}
    [] h = "sync"   -> {[answer |-> a, daemon |-> daemon] :
                          a \in {"failed", "expired"} \cup {"ok" : x \in {daemon} \cap {"unlocked"}}}
    [] h = "list"   -> {[answer |-> IF daemon = "unlocked" THEN "items" ELSE "error", daemon |-> daemon]}
    [] h = "preview" -> {[answer |-> a, daemon |-> daemon] :
                           a \in {"failed"} \cup {"preview" : x \in {daemon} \cap {"unlocked"}}}

Work(h) ==
  /\ helper[h] = "running"
  /\ \E e \in Effects(h) :
       /\ daemon' = e.daemon
       /\ helper' = [helper EXCEPT ![h] = e.answer]
  /\ UNCHANGED <<status, shown, opened, plan, cardPart>>

(* Others lock, unlock, log in and out, and the daemon locks by itself.     *)
Elsewhere ==
  /\ plan.acts = "vault" /\ daemon' \in Statuses \ {daemon}
  /\ UNCHANGED <<status, shown, opened, helper, plan, cardPart>>

(***************************************************************************)
(* Answers                                                                 *)
(***************************************************************************)
Now(s, holds) == status' = s /\ shown' = holds

(* Mutant: a failed query leaves the picture as it is.                      *)
StatusAnswerKeeping ==
  \/ /\ helper["status"] = "failed"
     /\ UNCHANGED <<status, shown>> /\ helper' = After("status", {})
  \/ /\ helper["status"] \in {"locked", "none"}
     /\ Now(helper["status"], {}) /\ helper' = After("status", {})
  \/ /\ helper["status"] = "unlocked"
     /\ Now("unlocked", shown)
     /\ IF status # "unlocked" \/ NoItems THEN \E hs \in LoadMaybe : helper' = After("status", hs)
        ELSE helper' = After("status", {})

StatusAnswer ==
  \/ /\ helper["status"] \in {"failed", "locked", "none"}
     /\ Now(IF helper["status"] = "failed" THEN "none" ELSE helper["status"], {})
     /\ helper' = After("status", {})
  \/ /\ helper["status"] = "unlocked"
     /\ Now("unlocked", shown)
     /\ IF status # "unlocked" \/ NoItems THEN \E hs \in LoadMaybe : helper' = After("status", hs)
        ELSE helper' = After("status", {})

UnlockAnswer ==
  \/ helper["unlock"] = "ok" /\ Now("unlocked", shown)
     /\ helper' = After("unlock", Load \cup {"status"})
  \/ helper["unlock"] = "refused" /\ UNCHANGED <<status, shown>> /\ helper' = After("unlock", {})

LoginAnswer ==
  \/ helper["login"] = "unlocked" /\ Now("unlocked", shown)
     /\ helper' = After("login", Load \cup {"status"})
  \/ helper["login"] = "locked" /\ Now("locked", shown) /\ helper' = After("login", {"status"})
  \/ helper["login"] = "refused" /\ UNCHANGED <<status, shown>> /\ helper' = After("login", {})

LockAnswer ==
  /\ helper["lock"] = "done" /\ Now("locked", {}) /\ helper' = After("lock", {"status"})
LogoutAnswer ==
  /\ helper["logout"] = "done" /\ Now("none", {}) /\ helper' = After("logout", {"status"})

SyncAnswer ==
  \/ helper["sync"] = "failed" /\ UNCHANGED <<status, shown>> /\ helper' = After("sync", {})
  \/ helper["sync"] = "expired" /\ Now("none", {}) /\ helper' = After("sync", {})
  \/ /\ helper["sync"] = "ok" /\ UNCHANGED status
     /\ IF status = "unlocked" THEN UNCHANGED shown /\ helper' = After("sync", {"list"})
        ELSE shown' = {} /\ helper' = After("sync", {})

(* Mutant: the items of a list are taken whatever the status is by now.     *)
ListAnswerLate ==
  /\ helper["list"] \in Answers.list /\ UNCHANGED status
  /\ shown' = (shown \ {"items", "error", "preview"}) \cup {helper["list"]}
  /\ helper' = After("list", {})

(* A list selects an item anew, which closes the preview; the same text     *)
(* again, or one that cannot be read, changes nothing.                      *)
ListAnswer ==
  /\ helper["list"] \in Answers.list /\ UNCHANGED status
  /\ \/ /\ status = "unlocked"
        /\ shown' = (shown \ {"items", "error", "preview"}) \cup {helper["list"]}
     \/ status = "unlocked" /\ UNCHANGED shown
     \/ status # "unlocked" /\ shown' = {}
  /\ helper' = After("list", {})

(* attachmentProc                                                           *)
PreviewAnswer ==
  /\ helper["preview"] \in Answers.preview /\ UNCHANGED status
  /\ shown' = IF status # "unlocked" THEN shown \ {"preview"}
              ELSE shown \cup ({helper["preview"]} \ {"failed"})
  /\ helper' = After("preview", {})

Answer ==
  /\ \/ StatusAnswer \/ UnlockAnswer \/ LoginAnswer \/ LockAnswer \/ LogoutAnswer
     \/ SyncAnswer \/ ListAnswer \/ PreviewAnswer
  /\ UNCHANGED <<daemon, opened, plan, cardPart>>

(***************************************************************************)
(* The window                                                              *)
(***************************************************************************)
(* refreshSshApprovals                                                      *)
Asking == IF query.state = "idle" THEN [query EXCEPT !.state = "running"] ELSE query

(* open: a summons for a prompt on an open window only looks for prompts.   *)
Open(forPrompt) ==
  /\ ~(forPrompt /\ opened)
  /\ opened' = TRUE /\ denying' = FALSE /\ closedOn' = NoPrompt
  /\ cardOnly' = (forPrompt \/ cardOnly)
  /\ query' = IF forPrompt THEN Asking ELSE query
  /\ shown' = IF status = "unlocked" THEN shown \ {"preview"} ELSE {}
  /\ helper' = Running({"status"})
  /\ UNCHANGED <<daemon, status, plan, waiting, posted, card, reply>>

Summoned ==
  /\ opened /\ query' = Asking
  /\ UNCHANGED <<vaultPart, shown, opened, plan, waiting, posted, card, cardOnly, denying,
                 reply, closedOn>>

Refuse(p) ==
  IF reply.state = "idle" THEN /\ card' = NoPrompt
                               /\ reply' = [state |-> "running", prompt |-> p, allow |-> FALSE]
  ELSE card' = p /\ UNCHANGED reply

(* close: leaving a prompt unanswered denies it.                            *)
CloseWindow ==
  /\ opened' = FALSE /\ cardOnly' = FALSE
  /\ shown' = shown \ {"preview"}
  /\ UNCHANGED <<vaultPart, plan, waiting, posted>>

Close ==
  /\ opened /\ CloseWindow /\ UNCHANGED query
  /\ closedOn' = card
  /\ IF card = NoPrompt THEN UNCHANGED <<denying, card, reply>>
     ELSE denying' = TRUE /\ Refuse(card)

(* lockSyncTimer                                                            *)
Poll ==
  /\ opened /\ status = "unlocked" /\ helper["status"] = "idle"
  /\ helper' = Running({"status"})
  /\ UNCHANGED <<daemon, status, shown, opened, plan, cardPart>>

(* The person: doUnlock, doQuickUnlock, doLoginPassword, doLoginApiKey,     *)
(* doLock, doLogout, syncVault, viewAttachment; selecting an item.          *)
Start(h, allowed) ==
  /\ allowed /\ helper' = Running({h}) /\ UNCHANGED <<status, shown>>
Leave(h, s, allowed) ==
  /\ allowed /\ Now(s, {}) /\ helper' = Running({h})
Select ==
  /\ "items" \in shown /\ shown' = shown \ {"preview"} /\ UNCHANGED <<status, helper>>
Person ==
  /\ plan.acts = "vault" /\ opened /\ Cardinality(InFlight) < plan.atOnce
  /\ \/ Start("unlock", status = "locked")
     \/ Start("login", status = "none")
     \/ Start("sync", status # "none")
     \/ Start("preview", status = "unlocked" /\ "items" \in shown)
     \/ Leave("lock", "locked", status = "unlocked")
     \/ Leave("logout", "none", status = "locked")
     \/ Select
  /\ UNCHANGED <<daemon, opened, plan, cardPart>>

(***************************************************************************)
(* The card                                                                *)
(***************************************************************************)
(* The agent posts a prompt and summons the overlay, which may not come.    *)
Post ==
  /\ plan.acts = "card" /\ posted # Prompts
  /\ LET p == Min(Prompts \ posted) IN posted' = posted \cup {p} /\ waiting' = waiting \cup {p}
  /\ UNCHANGED <<vaultPart, shown, opened, plan, card, cardOnly, denying, query, reply, closedOn>>

(* It runs out of time, or is answered elsewhere.                           *)
Withdrawn ==
  /\ \E p \in waiting : waiting' = waiting \ {p}
  /\ UNCHANGED <<vaultPart, shown, opened, plan, posted, card, cardOnly, denying, query, reply,
                 closedOn>>

(* An answer that is empty or cannot be read is taken for no prompts.       *)
QueryWork ==
  /\ query.state = "running"
  /\ query' \in {[state |-> "answered", first |-> IF waiting = {} THEN NoPrompt ELSE Min(waiting)],
                 [state |-> "failed", first |-> NoPrompt]}
  /\ UNCHANGED <<vaultPart, shown, opened, plan, waiting, posted, card, cardOnly, denying, reply,
                 closedOn>>

NoQuery == [state |-> "idle", first |-> NoPrompt]

(* Mutant: a prompt found after the window closed is kept for the next one. *)
QueryAnswerForgetting ==
  /\ query.state \in {"answered", "failed"} /\ query' = NoQuery
  /\ card' = query.first /\ UNCHANGED <<denying, reply>>
  /\ IF query.first = NoPrompt /\ cardOnly /\ opened THEN CloseWindow /\ closedOn' = NoPrompt
     ELSE UNCHANGED <<vaultPart, shown, opened, plan, waiting, posted, cardOnly, closedOn>>

QueryAnswer ==
  /\ query.state \in {"answered", "failed"} /\ query' = NoQuery
  /\ \/ /\ denying
        /\ IF query.first = NoPrompt THEN card' = NoPrompt /\ denying' = FALSE /\ UNCHANGED reply
           ELSE Refuse(query.first) /\ UNCHANGED denying
        /\ UNCHANGED <<vaultPart, shown, opened, plan, waiting, posted, cardOnly, closedOn>>
     \/ /\ ~denying /\ card' = query.first /\ UNCHANGED <<denying, reply>>
        /\ IF query.first = NoPrompt /\ cardOnly /\ opened THEN CloseWindow /\ closedOn' = NoPrompt
           ELSE UNCHANGED <<vaultPart, shown, opened, plan, waiting, posted, cardOnly, closedOn>>

(* replySshApproval by the card's buttons                                   *)
AnswerCard ==
  /\ opened /\ card # NoPrompt /\ reply.state = "idle"
  /\ card' = NoPrompt
  /\ \E a \in BOOLEAN : reply' = [state |-> "running", prompt |-> card, allow |-> a]
  /\ UNCHANGED <<vaultPart, shown, opened, plan, waiting, posted, cardOnly, denying, query, closedOn>>

ReplyWork ==
  /\ reply.state = "running"
  /\ \/ reply' = [reply EXCEPT !.state = "answered"] /\ waiting' = waiting \ {reply.prompt}
     \/ reply' = [reply EXCEPT !.state = "failed"] /\ UNCHANGED waiting
  /\ UNCHANGED <<vaultPart, shown, opened, plan, posted, card, cardOnly, denying, query, closedOn>>

ReplyExits ==
  /\ reply.state \in {"answered", "failed"}
  /\ reply' = [state |-> "idle", prompt |-> NoPrompt, allow |-> FALSE] /\ query' = Asking
  /\ UNCHANGED <<vaultPart, shown, opened, plan, waiting, posted, card, cardOnly, denying, closedOn>>

CardTimer ==
  /\ opened /\ card # NoPrompt /\ query.state = "idle" /\ query' = Asking
  /\ UNCHANGED <<vaultPart, shown, opened, plan, waiting, posted, card, cardOnly, denying, reply,
                 closedOn>>

CardStep == QueryWork \/ QueryAnswer \/ ReplyWork \/ ReplyExits
StatusStep ==
  \/ Poll \/ Work("status")
  \/ StatusAnswer /\ UNCHANGED <<daemon, opened, plan, cardPart>>
OverlayNext ==
  \/ \E h \in Helpers : Work(h)
  \/ Elsewhere \/ Answer \/ Poll \/ Person \/ Close \/ Open(FALSE)
  \/ plan.acts = "card" /\ posted # {} /\ (Open(TRUE) \/ Summoned)
  \/ Post \/ Withdrawn \/ AnswerCard \/ CardTimer \/ CardStep

(***************************************************************************)
(* Properties                                                              *)
(***************************************************************************)
OverlayTypeOK ==
  /\ daemon \in Statuses /\ status \in Statuses
  /\ shown \subseteq Secrets \cup {"error"} /\ {"items", "error"} \cap shown # {"items", "error"}
  /\ \A h \in Helpers : helper[h] \in {"idle", "running"} \cup Answers[h]
  /\ waiting \subseteq posted /\ posted \subseteq Prompts
  /\ {card, query.first, reply.prompt, closedOn} \subseteq posted \cup {NoPrompt}
  /\ reply.prompt = NoPrompt <=> reply.state = "idle"

(* The overlay holds nothing of a vault it shows as locked or logged out,   *)
(* however late its helpers answer (clearSensitiveState and the guards of   *)
(* OmarchyBitwarden.qml's answers).  An API key's login answers "locked"    *)
(* without clearing.                                                        *)
LockedShowsNothing ==
  (plan.login = "password" /\ status # "unlocked") => shown = {}

(* A window that stays open over a locked vault shows it so in the end and  *)
(* goes on doing so, whatever answers from before the lock still come       *)
(* (lockSyncTimer).                                                         *)
LockIsShown ==
  <>[](daemon # "unlocked" /\ opened) => <>[](status # "unlocked" /\ shown = {})

(* Closing the window denies the prompt it shows, also while a reply or a   *)
(* query is under way (close, sshDenyingOnClose), unless it opens again or  *)
(* a query or a reply fails.                                                *)
ClosingDenies ==
  \A p \in Prompts :
    (denying /\ closedOn = p)
      ~> (closedOn # p \/ p \notin waiting \/ "failed" \in {query.state, reply.state})
=============================================================================
