------------------------------- MODULE SshAgent -------------------------------
(***************************************************************************)
(* The SSH agent of the daemon (omawarden/src/ssh_agent.rs): a thread per  *)
(* connection that waits for the vault to be unlocked, asks for a          *)
(* confirmation and signs.                                                 *)
(*                                                                         *)
(* A peer is the client's executable together with the app it runs in,     *)
(* Nobody when its executable cannot be read.  What the person was shown   *)
(* is a card, in the overlay or a notification; it may be answered late,   *)
(* more than once, and after its request has given up.  A wait or a prompt *)
(* may time out at any time.  Locking and unlocking are one step here.     *)
(***************************************************************************)
EXTENDS Integers, FiniteSets

CONSTANTS
  Conns,       \* connections, each with its thread
  Peers,       \* client programs
  Nobody,      \* a client that cannot be told apart
  Keys,        \* SSH keys
  None,
  MaxPrompts,  \* bound: no signing request comes once that many prompts were posted
  MaxLocks     \* bound: times the vault locks

Policies == {"always", "first-use", "never"}

ASSUME PeerAssumption == Nobody \notin Peers
ASSUME NoneAssumption == None \notin Int \cup Keys \cup {"approve", "deny"}
ASSUME BoundAssumption == MaxPrompts \in Nat /\ MaxLocks \in Nat

VARIABLES
  unlocked, lockGen,   \* of the vault
  vaultKeys,   \* SSH keys among its items
  confirm,     \* ssh_agent_confirm
  running,
  pending, nextId, approvals, prompted, lastNotified,   \* of SshAgent
  pc, peer, forwarded,   \* of each connection
  op, key,     \* its request: what for, and the key it names
  rule, id,    \* the policy it read, and the prompt it posted
  gen, copied, \* lock generations: read by wait_for_unlock(), and that of
               \* the copy of the private key
  notices,     \* open "Vault locked" notifications
  cards,       \* prompts shown to the person
  (* history, for the properties: *)
  answers,     \* the person's first answer to a card, and the generation then
  posts,       \* "Vault locked" notifications posted in each generation
  openers      \* threads whose unlock prompt is on the screen

vault   == <<unlocked, lockGen, vaultKeys, confirm>>
prompts == <<pending, nextId, approvals>>
flags   == <<prompted, lastNotified, notices, posts, openers>>
locals  == <<op, key, rule, id, gen, copied>>
conn    == <<peer, forwarded>>
person  == <<cards, answers>>
vars    == <<vault, running, prompts, flags, pc, conn, locals, person>>

Prompt  == [id : Nat, peer : Peers \cup {Nobody}, key : Keys,
            forwarded : BOOLEAN, remembered : BOOLEAN]
Decisions == {"approve", "deny"}
Answer  == [prompt : Prompt, decision : Decisions, gen : Nat]
Pending == [id : Nat, decision : Decisions \cup {None}]

Init ==
  /\ unlocked \in BOOLEAN /\ lockGen = 0
  /\ vaultKeys \in SUBSET Keys /\ confirm \in Policies
  /\ running = TRUE
  /\ pending = {} /\ nextId = 1 /\ approvals = {}
  /\ prompted = FALSE /\ lastNotified = None
  /\ notices = 0 /\ posts = [g \in 0..MaxLocks |-> 0] /\ openers = {}
  /\ pc = [c \in Conns |-> "closed"]
  /\ peer = [c \in Conns |-> Nobody] /\ forwarded = [c \in Conns |-> FALSE]
  /\ op = [c \in Conns |-> "none"] /\ key = [c \in Conns |-> None]
  /\ rule = [c \in Conns |-> "never"] /\ id = [c \in Conns |-> 0]
  /\ gen = [c \in Conns |-> 0] /\ copied = [c \in Conns |-> None]
  /\ cards = {} /\ answers = {}

-----------------------------------------------------------------------------
At(c, step)   == pc[c] = step
Goto(c, step) == pc' = [pc EXCEPT ![c] = step]
Go(c, step)   == Goto(c, step) /\ UNCHANGED locals

Return(c) ==
  /\ Goto(c, "idle")
  /\ op' = [op EXCEPT ![c] = "none"]
  /\ key' = [key EXCEPT ![c] = None]
  /\ rule' = [rule EXCEPT ![c] = "never"]
  /\ id' = [id EXCEPT ![c] = 0]
  /\ gen' = [gen EXCEPT ![c] = 0]
  /\ copied' = [copied EXCEPT ![c] = None]

(* wait_for_unlock() returns; listing the keys changes nothing. *)
Unlocked(c) == IF op[c] = "sign" THEN Go(c, "find") ELSE Return(c)

Connect(c) ==
  /\ At(c, "closed") /\ Goto(c, "idle")
  /\ running
  /\ peer' \in [Conns -> Peers \cup {Nobody}]
  /\ \A d \in Conns \ {c} : peer'[d] = peer[d]
  /\ forwarded' = [forwarded EXCEPT ![c] = FALSE]
  /\ UNCHANGED <<vault, running, prompts, flags, locals, person>>

Close(c) ==
  /\ At(c, "idle") /\ Go(c, "closed")
  /\ UNCHANGED <<vault, running, prompts, flags, conn, person>>

(* A verified session-bind; being forwarded is sticky. *)
Bind(c) ==
  /\ At(c, "idle") /\ running
  /\ \E f \in BOOLEAN : forwarded' = [forwarded EXCEPT ![c] = @ \/ f]
  /\ UNCHANGED <<vault, running, prompts, flags, pc, locals, peer, person>>

Signing == {c \in Conns : op[c] = "sign"}

Request(c) ==
  /\ At(c, "idle") /\ running
  /\ Goto(c, "waitCheck")
  /\ \/ op' = [op EXCEPT ![c] = "list"] /\ UNCHANGED key
     \/ /\ nextId + Cardinality(Signing) <= MaxPrompts
        /\ op' = [op EXCEPT ![c] = "sign"]
        /\ \E k \in Keys : key' = [key EXCEPT ![c] = k]
  /\ UNCHANGED <<vault, running, prompts, flags, conn, rule, id, gen, copied,
                 person>>

-----------------------------------------------------------------------------
(* wait_for_unlock(). *)
WaitCheck(c) ==
  /\ At(c, "waitCheck")
  /\ IF unlocked THEN Unlocked(c) ELSE Go(c, "waitSwap")
  /\ UNCHANGED <<vault, running, prompts, flags, conn, person>>

WaitSwap(c) ==
  /\ At(c, "waitSwap")
  /\ Go(c, IF prompted THEN "waiting" ELSE "quick")
  /\ prompted' = TRUE
  /\ openers' = IF prompted THEN openers ELSE openers \cup {c}
  /\ UNCHANGED <<vault, running, prompts, lastNotified, notices, posts, conn,
                 person>>

(* Quick unlock refuses a vault that is unlocked by now, or may refuse for *)
(* reasons of its own; else the person is asked.                           *)
Quick(c) ==
  /\ At(c, "quick")
  /\ \/ ~unlocked /\ Go(c, "polkit")
     \/ Go(c, "summoned")
  /\ UNCHANGED <<vault, running, prompts, flags, conn, person>>

(* It opens the vault, or does not and the overlay is summoned.            *)
Polkit(c) ==
  /\ At(c, "polkit")
  /\ \/ unlocked' = TRUE /\ Go(c, "quickStore")
     \/ UNCHANGED unlocked /\ Go(c, "summoned")
  /\ UNCHANGED <<lockGen, vaultKeys, confirm, running, prompts, flags, conn,
                 person>>

QuickStore(c) ==
  /\ At(c, "quickStore") /\ Go(c, "quickCheck")
  /\ prompted' = FALSE /\ openers' = openers \ {c}
  /\ UNCHANGED <<vault, running, prompts, lastNotified, notices, posts, conn,
                 person>>

QuickCheck(c) ==
  /\ At(c, "quickCheck")
  /\ IF unlocked THEN Unlocked(c) ELSE Go(c, "waiting")
  /\ UNCHANGED <<vault, running, prompts, flags, conn, person>>

Summoned(c) ==
  /\ At(c, "summoned") /\ Goto(c, "notify")
  /\ gen' = [gen EXCEPT ![c] = lockGen]
  /\ UNCHANGED <<vault, running, prompts, flags, conn, op, key, rule, id,
                 copied, person>>

(* Mutant: the notification is posted whatever was posted before.          *)
NotifyAlways(c) ==
  /\ At(c, "notify")
  /\ \/ /\ Go(c, "notified")
        /\ notices' = notices + 1
        /\ posts' = [posts EXCEPT ![gen[c]] = @ + 1]
     \/ Go(c, "unnotified") /\ UNCHANGED <<notices, posts>>
  /\ UNCHANGED <<vault, running, prompts, prompted, lastNotified, openers, conn,
                 person>>

(* One notification per lock generation, if notify-send can be started. *)
Notify(c) ==
  /\ At(c, "notify")
  /\ \/ lastNotified = gen[c] /\ Go(c, "notified") /\ UNCHANGED <<notices, posts>>
     \/ /\ lastNotified # gen[c] /\ Go(c, "notified")
        /\ notices' = notices + 1
        /\ posts' = [posts EXCEPT ![gen[c]] = @ + 1]
     \/ lastNotified # gen[c] /\ Go(c, "unnotified") /\ UNCHANGED <<notices, posts>>
  /\ UNCHANGED <<vault, running, prompts, prompted, lastNotified, openers, conn,
                 person>>

Notified(c) ==
  /\ Go(c, "waiting")
  /\ \/ At(c, "notified") /\ lastNotified' = gen[c] /\ UNCHANGED <<prompted, openers>>
     \/ /\ At(c, "unnotified") /\ prompted' = FALSE /\ UNCHANGED lastNotified
        /\ openers' = openers \ {c}
  /\ UNCHANGED <<vault, running, prompts, notices, posts, conn, person>>

(* The vault is found unlocked, or the time is up. *)
Waiting(c) ==
  /\ At(c, "waiting")
  /\ \/ unlocked /\ Go(c, "opened")
     \/ Go(c, "gaveUp")
  /\ UNCHANGED <<vault, running, prompts, flags, conn, person>>

(* Mutant: giving up leaves unlock_prompted to the notification.           *)
WaitedLeaving(c) ==
  /\ \/ At(c, "opened") /\ Unlocked(c) /\ prompted' = FALSE
     \/ At(c, "gaveUp") /\ Return(c) /\ UNCHANGED prompted
  /\ openers' = openers \ {c}
  /\ UNCHANGED <<vault, running, prompts, lastNotified, notices, posts, conn,
                 person>>

Waited(c) ==
  /\ \/ At(c, "opened") /\ Unlocked(c)
     \/ At(c, "gaveUp") /\ Return(c)
  /\ prompted' = FALSE /\ openers' = openers \ {c}
  /\ UNCHANGED <<vault, running, prompts, lastNotified, notices, posts, conn,
                 person>>

(* A "Vault locked" notification is clicked, dismissed or expires: what is *)
(* still on the screen no longer counts as a prompt.                       *)
NoticeCloses ==
  /\ notices > 0
  /\ notices' = notices - 1
  /\ prompted' = FALSE /\ openers' = {}
  /\ UNCHANGED <<vault, running, prompts, lastNotified, posts, pc, conn,
                 locals, person>>

-----------------------------------------------------------------------------
(* sign(). *)
Find(c) ==
  /\ At(c, "find")
  /\ IF unlocked /\ key[c] \in vaultKeys
       THEN /\ copied' = [copied EXCEPT ![c] = lockGen] /\ Goto(c, "policy")
            /\ UNCHANGED <<op, key, rule, id, gen>>
       ELSE Return(c)
  /\ UNCHANGED <<vault, running, prompts, flags, conn, person>>

Policy(c) ==
  /\ At(c, "policy") /\ Goto(c, "confirm")
  /\ rule' = [rule EXCEPT ![c] = confirm]
  /\ UNCHANGED <<vault, running, prompts, flags, conn, op, key, id, gen,
                 copied, person>>

(* Mutant: forwarded requests are remembered as well.                      *)
RemembersForwarded(c) == rule[c] = "first-use" /\ peer[c] # Nobody

Remembers(c) ==
  rule[c] = "first-use" /\ ~forwarded[c] /\ peer[c] # Nobody

Triple(c) == <<key[c], peer[c]>>

NeedsPrompt(c) ==
  \/ forwarded[c]
  \/ rule[c] = "always"
  \/ rule[c] = "first-use" /\ ~(Remembers(c) /\ Triple(c) \in approvals)

Confirm(c) ==
  /\ At(c, "confirm")
  /\ Go(c, IF NeedsPrompt(c) THEN "post" ELSE "sign")
  /\ UNCHANGED <<vault, running, prompts, flags, conn, person>>

Card(c, i) == [id |-> i, peer |-> peer[c], key |-> key[c],
               forwarded |-> forwarded[c], remembered |-> Remembers(c)]

(* Mutant: the number is that of the next prompt.                          *)
PostAhead(c) ==
  /\ At(c, "post") /\ Goto(c, "asking")
  /\ nextId' = nextId + 1
  /\ id' = [id EXCEPT ![c] = nextId']
  /\ pending' = pending \cup {[id |-> nextId', decision |-> None]}
  /\ cards' = cards \cup {Card(c, nextId')}
  /\ UNCHANGED <<vault, running, approvals, flags, conn, op, key, rule, gen,
                 copied, answers>>

(* ask(): the prompt is posted and shown. *)
Post(c) ==
  /\ At(c, "post") /\ Goto(c, "asking")
  /\ nextId' = nextId + 1
  /\ id' = [id EXCEPT ![c] = nextId]
  /\ pending' = pending \cup {[id |-> nextId, decision |-> None]}
  /\ cards' = cards \cup {Card(c, nextId)}
  /\ UNCHANGED <<vault, running, approvals, flags, conn, op, key, rule, gen,
                 copied, answers>>

(* Mutant: a prompt that times out stays among the pending ones.           *)
AskedLeaving(c) ==
  /\ At(c, "asking")
  /\ \E p \in pending :
       /\ p.id = id[c]
       /\ IF p.decision = "approve" THEN Go(c, "recheck") ELSE Return(c)
       /\ pending' = IF p.decision = None THEN pending ELSE pending \ {p}
  /\ UNCHANGED <<vault, running, nextId, approvals, flags, conn, person>>

(* The prompt goes with its answer, or with none when its time is up; an   *)
(* answer that has come counts, however late the thread wakes up.          *)
Asked(c) ==
  /\ At(c, "asking")
  /\ \E p \in pending :
       /\ p.id = id[c]
       /\ IF p.decision = "approve" THEN Go(c, "recheck") ELSE Return(c)
       /\ pending' = pending \ {p}
  /\ UNCHANGED <<vault, running, nextId, approvals, flags, conn, person>>

Recheck(c) ==
  /\ At(c, "recheck")
  /\ IF unlocked THEN Go(c, "refetch") ELSE Return(c)
  /\ UNCHANGED <<vault, running, prompts, flags, conn, person>>

(* Mutant: signs with the copy made before the prompt.                     *)
RefetchNot(c) ==
  /\ At(c, "refetch")
  /\ IF unlocked /\ key[c] \in vaultKeys THEN Go(c, "remember") ELSE Return(c)
  /\ UNCHANGED <<vault, running, prompts, flags, conn, person>>

Refetch(c) ==
  /\ At(c, "refetch")
  /\ IF unlocked /\ key[c] \in vaultKeys
       THEN /\ copied' = [copied EXCEPT ![c] = lockGen] /\ Goto(c, "remember")
            /\ UNCHANGED <<op, key, rule, id, gen>>
       ELSE Return(c)
  /\ UNCHANGED <<vault, running, prompts, flags, conn, person>>

Remember(c) ==
  /\ At(c, "remember") /\ Go(c, "sign")
  /\ approvals' = IF Remembers(c) THEN approvals \cup {Triple(c)}
                                  ELSE approvals
  /\ UNCHANGED <<vault, running, pending, nextId, flags, conn, person>>

Sign(c) ==
  /\ At(c, "sign") /\ Return(c)
  /\ UNCHANGED <<vault, running, prompts, flags, conn, person>>

-----------------------------------------------------------------------------
(* reply(), from the overlay or a notification: the first answer counts.   *)
Answered(k) == \E a \in answers : a.prompt = k

Reply ==
  /\ \E k \in cards, d \in Decisions :
       LET open == [id |-> k.id, decision |-> None]
       IN /\ answers' = IF Answered(k)
                          THEN answers
                          ELSE answers \cup {[prompt |-> k, decision |-> d,
                                             gen |-> lockGen]}
          /\ pending' = IF open \in pending
                          THEN (pending \ {open})
                                 \cup {[id |-> k.id, decision |-> d]}
                          ELSE pending
  /\ UNCHANGED <<vault, running, nextId, approvals, flags, pc, conn, locals,
                 cards>>

(* The vault and the settings change; the agent is turned on or off. *)
Lock ==
  /\ unlocked /\ lockGen < MaxLocks
  /\ unlocked' = FALSE /\ lockGen' = lockGen + 1
  /\ UNCHANGED <<vaultKeys, confirm, running, prompts, flags, pc, conn,
                 locals, person>>

Unlock ==
  /\ ~unlocked /\ unlocked' = TRUE
  /\ UNCHANGED <<lockGen, vaultKeys, confirm, running, prompts, flags, pc,
                 conn, locals, person>>

Configure ==
  /\ \/ vaultKeys' \in SUBSET Keys /\ UNCHANGED <<confirm, running>>
     \/ confirm' \in Policies /\ UNCHANGED <<vaultKeys, running>>
     \/ running' \in BOOLEAN /\ UNCHANGED <<vaultKeys, confirm>>
  /\ UNCHANGED <<unlocked, lockGen, prompts, flags, pc, conn, locals, person>>

WaitStep(c) == \/ WaitCheck(c) \/ WaitSwap(c) \/ Quick(c) \/ Polkit(c)
               \/ QuickStore(c) \/ QuickCheck(c) \/ Summoned(c)
               \/ Notify(c) \/ Notified(c) \/ Waiting(c) \/ Waited(c)
SignStep(c) == \/ Find(c) \/ Policy(c) \/ Confirm(c) \/ Post(c) \/ Asked(c)
               \/ Recheck(c) \/ Refetch(c) \/ Remember(c) \/ Sign(c)
Step(c) == WaitStep(c) \/ SignStep(c)
Come(c) == Connect(c) \/ Close(c) \/ Bind(c) \/ Request(c)

Next == \/ \E c \in Conns : Step(c) \/ Come(c)
        \/ NoticeCloses \/ Reply \/ Lock \/ Unlock \/ Configure

Spec == Init /\ [][Next]_vars

-----------------------------------------------------------------------------
(* Properties.                                                             *)

WaitSteps == {"waitCheck", "waitSwap", "quick", "polkit", "quickStore",
              "quickCheck", "summoned", "notify", "notified", "unnotified",
              "waiting", "opened", "gaveUp"}
SignSteps == {"find", "policy", "confirm", "post", "asking", "recheck",
              "refetch", "remember", "sign"}

(* Types; prompts are numbered below next_id, generations do not run ahead *)
(* of the vault's.                                                         *)
TypeOK ==
  /\ unlocked \in BOOLEAN /\ lockGen \in 0..MaxLocks
  /\ vaultKeys \subseteq Keys /\ confirm \in Policies
  /\ running \in BOOLEAN
  /\ nextId \in Nat \ {0}
  /\ pending \subseteq Pending /\ \A p \in pending : p.id \in 1..(nextId - 1)
  /\ approvals \subseteq Keys \X Peers
  /\ prompted \in BOOLEAN /\ lastNotified \in (0..lockGen) \cup {None}
  /\ notices \in Nat /\ posts \in [0..MaxLocks -> Nat]
  /\ openers \subseteq Conns
  /\ pc \in [Conns -> {"closed", "idle"} \cup WaitSteps \cup SignSteps]
  /\ peer \in [Conns -> Peers \cup {Nobody}]
  /\ forwarded \in [Conns -> BOOLEAN]
  /\ op \in [Conns -> {"none", "list", "sign"}]
  /\ key \in [Conns -> Keys \cup {None}]
  /\ rule \in [Conns -> Policies]
  /\ id \in [Conns -> 0..(nextId - 1)]
  /\ gen \in [Conns -> 0..lockGen]
  /\ copied \in [Conns -> (0..lockGen) \cup {None}]
  /\ cards \subseteq Prompt /\ answers \subseteq Answer

(* What the person must have agreed to before the request of c is signed.  *)
ApprovedNow(c) ==
  \E a \in answers :
    /\ a.decision = "approve" /\ a.prompt.id = id[c]
    /\ a.prompt.key = key[c] /\ a.prompt.peer = peer[c]
    /\ a.prompt.forwarded = forwarded[c]

ApprovedBefore(c) ==
  /\ rule[c] = "first-use" /\ ~forwarded[c] /\ peer[c] # Nobody
  /\ \E a \in answers :
       /\ a.decision = "approve" /\ a.prompt.remembered /\ ~a.prompt.forwarded
       /\ a.prompt.key = key[c] /\ a.prompt.peer = peer[c]

(* A signature goes out only with the confirmation its policy asks for:    *)
(* none under "never" for a client that is not forwarded; the person's     *)
(* approval, as their first answer, of a prompt that showed this request;  *)
(* or under "first-use" an earlier approval, of a prompt that said it      *)
(* would be remembered, for this key and this program, neither request     *)
(* being forwarded.                                                        *)
SignedWithConsent ==
  \A c \in Conns :
    At(c, "sign") => \/ rule[c] = "never" /\ ~forwarded[c]
                     \/ ApprovedNow(c)
                     \/ ApprovedBefore(c)

(* A request that was confirmed signs with the key as it is in the vault   *)
(* after the approval, not with a copy from before a lock ("don't sign     *)
(* with a key copied before the vault locked", ssh_agent.rs:755).          *)
FreshKey ==
  \A c \in Conns, a \in answers :
    At(c, "sign") /\ a.prompt.id = id[c] => copied[c] >= a.gen

(* Each open prompt is that of one thread that waits for its answer, and   *)
(* each waiting thread has its prompt: a prompt goes away with its request *)
(* whether answered or not, and no two requests share an answer.           *)
PromptsMatchRequests ==
  /\ \A p, q \in pending : p.id = q.id => p = q
  /\ \A p \in pending : \E c \in Conns : At(c, "asking") /\ id[c] = p.id
  /\ \A c \in Conns : At(c, "asking") => \E p \in pending : p.id = id[c]
  /\ \A c, d \in Conns : id[c] = id[d] /\ id[c] # 0 => c = d

Prompting(c) == pc[c] \in WaitSteps \ {"waitCheck", "waitSwap", "quickCheck"}

(* unlock_prompted is set only while some thread is still due to clear it: *)
(* whoever gives up, the next request can open the unlock prompt again     *)
(* (ssh_agent.rs:685).                                                     *)
UnlockPromptOwned == prompted => \E c \in Conns : Prompting(c)

(* One unlock prompt at a time, however many ssh processes are waiting     *)
(* (ssh_agent.rs:642): while the system's dialog, the overlay or the       *)
(* notification a thread has opened is there, no other thread opens one.   *)
OneUnlockPrompt == \A c, d \in openers : c = d

=============================================================================
