---------------------------- MODULE AccountStore ----------------------------
(* What says who is logged in: data.json (storage.rs), the tokens in the    *)
(* system keyring (keyring.rs), config.json (config.rs) and the account the *)
(* daemon holds unlocked.  Every command is a process of its own that       *)
(* loads, changes and saves them one at a time and without a lock (auth.rs, *)
(* config.rs, and the renewals of vault.rs and attachment.rs).  A file or   *)
(* keyring operation may fail, and a process may be killed between two.     *)
EXTENDS Naturals, FiniteSets, TLC

CONSTANTS
  Accounts, Servers,
  ServerOf,    \* the server of each account
  Jobs,        \* processes
  None,        \* no account, no server
  ClientId,    \* an API client's id, standing where an email should
  DefaultConf  \* Config::default()

VARIABLES
  file,        \* data.json
  ring,        \* the keyring's items of this service
  conf,        \* config.json
  opened,      \* the account the daemon holds unlocked
  job,         \* what each process is doing, with what it has loaded
  trouble      \* failures and kills still to come, and whom they have struck

Confs == [server : Servers, email : Accounts \cup {None, ClientId}, remember : BOOLEAN]

ASSUME StoreAssumption ==
  /\ ServerOf \in [Accounts -> Servers] /\ DefaultConf \in Confs
  /\ None \notin Accounts \cup Servers /\ ClientId \notin Accounts \cup {None}

accountVars == <<file, ring, conf, opened, job, trouble>>

(* VaultStorage: whose email, user key, items and API client it holds, and  *)
(* the tokens a file of an older version still carries.                     *)
Blank == [server |-> None, user |-> None, key |-> None, items |-> None,
          client |-> None, oldAccess |-> None, oldRefresh |-> None]

(* save never writes the tokens (skip_serializing).                         *)
Serialized(st) == [st EXCEPT !.oldAccess = None, !.oldRefresh = None]

EmptyRing == [access |-> [s \in Servers |-> None],
              refresh |-> [s \in Servers |-> None], secrets |-> {}]

Idle == [op |-> "none", at |-> "idle", acct |-> None, st |-> Blank, cf |-> None,
         tok |-> None, res |-> "none", alone |-> TRUE]

Busy(p) == job[p].at # "idle"
At(p, place) == job[p].at = place
Do(p, changes) ==
  job' = [job EXCEPT ![p] =
            [f \in DOMAIN @ |-> IF f \in DOMAIN changes THEN changes[f] ELSE @[f]]]
End(p, res) == Do(p, [at |-> "idle", st |-> Blank, tok |-> None, res |-> res])

NoFault == UNCHANGED trouble
Fault(p, kind) ==   \* of a "file", of the "ring", of a "reply" of the server
  /\ trouble.left > 0 /\ kind \in trouble.kinds
  /\ trouble' = [trouble EXCEPT !.left = @ - 1, !.struck = @ \cup {p}]

(* atomic_write_file: a temporary file renamed into place, so a write that  *)
(* fails, or a process killed meanwhile, leaves the old file.               *)
AtomicWrite(p, old, new, then) ==
  \/ then = new /\ NoFault
  \/ then = old /\ Fault(p, "file")

(* The server address an operation works with: that of data.json, or the    *)
(* configured one while data.json names none.                               *)
Url(st, p) == IF st.server # None THEN st.server ELSE job[p].cf.server

(* get_token and get_session: the item of this server, else any item of     *)
(* that kind, an un-scoped lookup made for older versions.                  *)
Found(kind, s) ==
  LET others == {ring[kind][x] : x \in Servers} \ {None}
  IN IF ring[kind][s] # None THEN {ring[kind][s]}
     ELSE IF others = {} THEN {None} ELSE others

Store(kind, s, a) == ring' = [ring EXCEPT ![kind][s] = a]
ClearBoth(s) == ring' = [ring EXCEPT !.access[s] = None, !.refresh[s] = None]

AccountInit(files, rings, confs, troubles) ==
  /\ file \in files /\ ring \in rings /\ conf \in confs
  /\ opened = None
  /\ \E t \in troubles : trouble = [left |-> t.left, kinds |-> t.kinds, struck |-> {}]
  /\ job = [p \in Jobs |-> Idle]

(* A command starts: main has loaded config.json.                           *)
Starts == {"login", "apikey", "unlock", "lock", "logout", "status", "server",
           "renew", "attach"}
Begin(p, op, a) ==
  /\ ~Busy(p)
  /\ op \in {"login", "apikey"} => ServerOf[a] = conf.server
  /\ LET others == {q \in Jobs : Busy(q)}
     IN job' = [q \in Jobs |->
                 IF q = p THEN [Idle EXCEPT !.op = op, !.at = op, !.acct = a, !.cf = conf,
                            !.alone = others = {}]
                 ELSE IF q \in others THEN [job[q] EXCEPT !.alone = FALSE] ELSE job[q]]
  /\ trouble' = [trouble EXCEPT !.struck = @ \ {p}]
  /\ UNCHANGED <<file, ring, conf, opened>>

(* load: a file that is missing or cannot be read is a logged-out account.  *)
Loaded(p, st) ==
  \/ st = file /\ NoFault
  \/ st = Blank /\ file # Blank /\ Fault(p, "file")

(***************************************************************************)
(* Login.  The tokens go to the keyring first, one at a time, and are taken *)
(* back when a later one cannot be stored; data.json follows the first      *)
(* sync, and a sync that fails leaves the items that were there.            *)
(***************************************************************************)
Granted(p) ==       \* the server accepted the password or the API key
  /\ At(p, "login") \/ At(p, "apikey")
  /\ \/ Do(p, [at |-> "load"]) /\ NoFault
     \/ End(p, "error") /\ Fault(p, "reply")
  /\ UNCHANGED <<file, ring, conf, opened>>

ByApi(p) == job[p].op = "apikey"

LoginLoad(p) ==
  LET a == job[p].acct IN
  /\ At(p, "load")
  /\ \E st \in {file, Blank} :
       /\ Loaded(p, st)
       /\ Do(p, [at |-> "store access",
                 st |-> [st EXCEPT !.server = ServerOf[a], !.key = a,
                                   !.user = IF ByApi(p) THEN @ ELSE a,
                                   !.client = IF ByApi(p) THEN a ELSE @]])
  /\ UNCHANGED <<file, ring, conf, opened>>

StoreAccess(p) ==
  LET a == job[p].acct IN
  /\ At(p, "store access")
  /\ \/ /\ Store("access", ServerOf[a], a) /\ NoFault
        /\ \E next \in {"store refresh", IF ByApi(p) THEN "store secret" ELSE "first sync"} :
             Do(p, [at |-> next])           \* a refresh token came, or none
     \/ End(p, "error") /\ Fault(p, "ring") /\ UNCHANGED ring
  /\ UNCHANGED <<file, conf, opened>>

StoreRefresh(p) ==
  LET a == job[p].acct IN
  /\ At(p, "store refresh")
  /\ \/ /\ Store("refresh", ServerOf[a], a) /\ NoFault
        /\ Do(p, [at |-> IF ByApi(p) THEN "store secret" ELSE "first sync"])
     \/ Do(p, [at |-> "undo access"]) /\ Fault(p, "ring") /\ UNCHANGED ring
  /\ UNCHANGED <<file, conf, opened>>

StoreSecret(p) ==
  LET a == job[p].acct IN
  /\ At(p, "store secret")
  /\ \/ /\ ring' = [ring EXCEPT !.secrets = @ \cup {a}] /\ NoFault
        /\ Do(p, [at |-> "first sync"])
     \/ Do(p, [at |-> "undo both"]) /\ Fault(p, "ring") /\ UNCHANGED ring
  /\ UNCHANGED <<file, conf, opened>>

UndoAccess(p) ==
  /\ At(p, "undo access")
  /\ Store("access", ServerOf[job[p].acct], None)
  /\ End(p, "error") /\ UNCHANGED <<file, conf, opened, trouble>>

(* Mutant: a refresh token stored with the access token stays.              *)
UndoOne(p) ==
  /\ At(p, "undo both")
  /\ Store("access", ServerOf[job[p].acct], None)
  /\ End(p, "error") /\ UNCHANGED <<file, conf, opened, trouble>>

UndoBoth(p) ==      \* clear_token twice
  /\ At(p, "undo both")
  /\ ClearBoth(ServerOf[job[p].acct])
  /\ End(p, "error") /\ UNCHANGED <<file, conf, opened, trouble>>

FirstSync(p) ==
  LET a == job[p].acct
      st == job[p].st
      synced == [st EXCEPT !.items = a, !.user = a]
  IN /\ At(p, "first sync")
     /\ \/ Do(p, [at |-> "save", st |-> synced]) /\ NoFault
        \/ /\ Do(p, [at |-> "save",
                     st |-> IF st.user = None THEN [st EXCEPT !.user = ClientId] ELSE st])
           /\ Fault(p, "reply")
     /\ UNCHANGED <<file, ring, conf, opened>>

(* save, whose failure nobody hears of (let _ = save).                      *)
Saves(p, st) == AtomicWrite(p, file, Serialized(st), file')

LoginSave(p) ==
  /\ At(p, "save")
  /\ Saves(p, job[p].st) /\ Do(p, [at |-> "load email"])
  /\ UNCHANGED <<ring, conf, opened>>

(* config.json that is missing or cannot be read is the default one.        *)
LoadedConf(p, cf) ==
  \/ cf = conf /\ NoFault
  \/ cf = DefaultConf /\ conf # DefaultConf /\ Fault(p, "file")

LoadEmail(p) ==
  /\ At(p, "load email")
  /\ \E cf \in {conf, DefaultConf} :
       LoadedConf(p, cf) /\ Do(p, [at |-> "save email", cf |-> cf])
  /\ UNCHANGED <<file, ring, conf, opened>>

(* The password login remembers the email when the setting says so, the API *)
(* login only where none is remembered; then the daemon is asked to unlock. *)
SaveEmail(p) ==
  LET cf == job[p].cf
      remembers == cf.remember /\ (ByApi(p) => cf.email = None)
  IN /\ At(p, "save email")
     /\ IF remembers
        THEN AtomicWrite(p, conf, [cf EXCEPT !.email = job[p].st.user], conf')
        ELSE UNCHANGED conf /\ NoFault
     /\ IF ByApi(p) THEN End(p, "ok") ELSE Do(p, [at |-> "open"])
     /\ UNCHANGED <<file, ring, opened>>

(* The daemon's unlock: its own load, and the password against that file.   *)
Opens(a) == opened' = IF file.key = a /\ file.user = a THEN a ELSE opened

OpenDaemon(p) ==
  /\ At(p, "open") /\ Opens(job[p].acct)
  /\ \/ End(p, "ok")
     \/ job[p].op = "login" /\ Do(p, [at |-> "remember"])  \* --remember-email
  /\ UNCHANGED <<file, ring, conf, trouble>>

(* main then does as --remember-email says, to config.json as it is by now. *)
RememberLoads(p) ==
  /\ At(p, "remember")
  /\ \E cf \in {conf, DefaultConf} :
       LoadedConf(p, cf) /\ Do(p, [at |-> "save remember", cf |-> cf])
  /\ UNCHANGED <<file, ring, conf, opened>>

RememberSaves(p) ==
  /\ At(p, "save remember")
  /\ \E should \in BOOLEAN :
       LET email == IF should THEN job[p].acct ELSE None
       IN AtomicWrite(p, conf, [job[p].cf EXCEPT !.remember = should, !.email = email], conf')
  /\ End(p, "ok") /\ UNCHANGED <<file, ring, opened>>

(***************************************************************************)
(* Unlock, lock, log out, status                                           *)
(***************************************************************************)
(* The password is checked against data.json, the token found is stored     *)
(* once more, and the daemon unlocks.                                       *)
UnlockLoads(p) ==
  /\ At(p, "unlock")
  /\ \E st \in {file, Blank} :
       /\ Loaded(p, st)
       /\ IF st.key = None \/ st.key # job[p].acct \/ st.user # job[p].acct
          THEN End(p, "error")
          ELSE Do(p, [at |-> "find token", st |-> st])
  /\ UNCHANGED <<file, ring, conf, opened>>

FindToken(p) ==
  LET st == job[p].st IN
  /\ At(p, "find token")
  /\ \E t \in Found("access", Url(st, p)) :
       Do(p, [at |-> "restore token", tok |-> IF t # None THEN t ELSE st.oldAccess])
  /\ UNCHANGED <<file, ring, conf, opened, trouble>>

RestoreToken(p) ==
  /\ At(p, "restore token")
  /\ IF job[p].tok = None THEN UNCHANGED ring /\ NoFault
     ELSE \/ Store("access", Url(job[p].st, p), job[p].tok) /\ NoFault
          \/ UNCHANGED ring /\ Fault(p, "ring")
  /\ Do(p, [at |-> "open"])
  /\ UNCHANGED <<file, conf, opened>>

(* main locks the daemon first, for a lock and for a logout.                *)
LockDaemon(p) ==
  /\ opened' = None
  /\ \/ At(p, "lock")   /\ Do(p, [at |-> "clear session"])
     \/ At(p, "logout") /\ Do(p, [at |-> "clear all"])
  /\ UNCHANGED <<file, ring, conf, trouble>>

(* auth lock: the session's item, and the access token with it.             *)
ClearSession(p) ==
  /\ At(p, "clear session")
  /\ \E st \in {file, Blank} :
       Loaded(p, st) /\ Store("access", Url(st, p), None)
  /\ Do(p, [at |-> "close"])
  /\ UNCHANGED <<file, conf, opened>>

CloseDaemon(p) ==
  /\ At(p, "close") /\ opened' = None
  /\ End(p, "ok") /\ UNCHANGED <<file, ring, conf, trouble>>

(* Logout: every item of the service (when that fails, perhaps the access   *)
(* token alone), data.json, and the daemon once more.                       *)
ClearAll(p) ==
  /\ At(p, "clear all")
  /\ \/ ring' = EmptyRing /\ NoFault
     \/ (UNCHANGED ring \/ Store("access", Url(file, p), None)) /\ Fault(p, "ring")
  /\ Do(p, [at |-> "erase"])
  /\ UNCHANGED <<file, conf, opened>>

(* Mutant: a logout drops the account's key but keeps its items.            *)
EraseKeepsItems(p) ==
  /\ At(p, "erase")
  /\ Saves(p, [Blank EXCEPT !.items = file.items]) /\ Do(p, [at |-> "close"])
  /\ UNCHANGED <<ring, conf, opened>>

Erase(p) ==
  /\ At(p, "erase")
  /\ Saves(p, Blank) /\ Do(p, [at |-> "close"])
  /\ UNCHANGED <<ring, conf, opened>>

(* get_status: tokens of an older version's file move to the keyring; the   *)
(* file is saved once one of them is there.                                 *)
StatusLoads(p) ==
  /\ At(p, "status")
  /\ \E st \in {file, Blank} :
       /\ Loaded(p, st)
       /\ IF st.oldAccess = None /\ st.oldRefresh = None
          THEN Do(p, [at |-> "judge", st |-> st])
          ELSE Do(p, [at |-> "migrate access", st |-> st])
  /\ UNCHANGED <<file, ring, conf, opened>>

Migrate(p, kind, field, from, to) ==
  LET st == job[p].st IN
  /\ At(p, from)
  /\ \/ /\ st[field] = None                           \* nothing to store
        /\ Do(p, [at |-> to, res |-> "stored"])
        /\ UNCHANGED ring /\ NoFault
     \/ /\ st[field] # None
        /\ Store(kind, Url(st, p), st[field]) /\ NoFault
        /\ Do(p, [at |-> to, res |-> "stored", st |-> [st EXCEPT ![field] = None]])
     \/ /\ st[field] # None
        /\ Do(p, [at |-> to]) /\ UNCHANGED ring /\ Fault(p, "ring")
  /\ UNCHANGED <<file, conf, opened>>

MigrateAccess(p)  == Migrate(p, "access", "oldAccess", "migrate access", "migrate refresh")
MigrateRefresh(p) == Migrate(p, "refresh", "oldRefresh", "migrate refresh", "scrub")

Scrub(p) ==
  /\ At(p, "scrub")
  /\ IF job[p].res = "stored" THEN Saves(p, job[p].st) ELSE UNCHANGED file /\ NoFault
  /\ Do(p, [at |-> "judge"])
  /\ UNCHANGED <<ring, conf, opened>>

(* A token that has expired and cannot be renewed is given up, the file     *)
(* saved, the daemon locked; otherwise the status is only told.             *)
HasSecret(c, s) ==    \* get_api_secret
  c # None /\ c \in ring.secrets /\ ServerOf[c] = s

Renewable(st, s) ==
  \/ Found("refresh", s) # {None} \/ st.oldRefresh # None
  \/ HasSecret(st.client, s)

Judge(p) ==
  LET st == job[p].st
      s == Url(st, p)
  IN /\ At(p, "judge")
     /\ \/ End(p, "told") /\ UNCHANGED ring
        \/ /\ st.user # None \/ st.client # None
           /\ Found("access", s) # {None} \/ st.oldAccess # None
           /\ ~Renewable(st, s)
           /\ Store("access", s, None)
           /\ Do(p, [at |-> "give up"])
     /\ UNCHANGED <<file, conf, opened, trouble>>

GiveUp(p) ==
  /\ At(p, "give up")
  /\ Saves(p, job[p].st) /\ Do(p, [at |-> "close"])
  /\ UNCHANGED <<ring, conf, opened>>

(***************************************************************************)
(* Another server (update_config): data.json, the keyring and the daemon    *)
(* are emptied before config.json names the new server.                     *)
(***************************************************************************)
NewServer(p) == ServerOf[job[p].acct]

(* Mutant: config.json is saved before the rest is emptied.                 *)
SaveConfFirst(p) ==
  /\ At(p, "server")
  /\ conf' = [job[p].cf EXCEPT !.server = NewServer(p)]
  /\ IF job[p].cf.server = NewServer(p)
     THEN UNCHANGED file /\ Do(p, [at |-> "save conf"])
     ELSE file' = Blank /\ Do(p, [at |-> "purge"])
  /\ UNCHANGED <<ring, opened, trouble>>

RemoveFile(p) ==
  /\ At(p, "server")
  /\ IF job[p].cf.server = NewServer(p)
     THEN UNCHANGED file /\ NoFault /\ Do(p, [at |-> "save conf"])
     ELSE /\ (file' = Blank /\ NoFault) \/ (UNCHANGED file /\ Fault(p, "file"))
          /\ Do(p, [at |-> "purge"])
  /\ UNCHANGED <<ring, conf, opened>>

PurgeRing(p) ==
  /\ At(p, "purge")
  /\ (ring' = EmptyRing /\ NoFault) \/ (UNCHANGED ring /\ Fault(p, "ring"))
  /\ Do(p, [at |-> "stop"])
  /\ UNCHANGED <<file, conf, opened>>

StopDaemon(p) ==    \* wipe_quick_unlock, then stop
  /\ At(p, "stop") /\ opened' = None
  /\ Do(p, [at |-> "save conf"])
  /\ UNCHANGED <<file, ring, conf, trouble>>

SaveConf(p) ==
  /\ At(p, "save conf")
  /\ AtomicWrite(p, conf, [job[p].cf EXCEPT !.server = NewServer(p)], conf')
  /\ End(p, IF trouble' = trouble THEN "ok" ELSE "error")
  /\ UNCHANGED <<file, ring, opened>>

(***************************************************************************)
(* Renewal, by the daemon ("renew") or by an attachment command ("attach"): *)
(* the refresh token first, then the API secret of data.json's client; what *)
(* is granted is stored under the server data.json names by then.           *)
(***************************************************************************)
RenewLoads(p) ==
  /\ At(p, "renew") \/ At(p, "attach")
  /\ \E st \in {file, Blank} :
       Loaded(p, st) /\ Do(p, [at |-> "ask refresh", st |-> st])
  /\ UNCHANGED <<file, ring, conf, opened>>

ByDaemon(p) == job[p].op = "renew"

AskRefresh(p) ==
  LET st == job[p].st IN
  /\ At(p, "ask refresh")
  /\ \E found \in Found("refresh", Url(st, p)) :
       LET t == IF found # None THEN found ELSE st.oldRefresh
       IN \/ /\ t # None /\ ServerOf[t] = Url(st, p) /\ NoFault
             /\ Do(p, [at |-> "keep access", tok |-> t])
          \/ /\ IF t = None \/ ServerOf[t] # Url(st, p) THEN NoFault ELSE Fault(p, "reply")
             /\ Do(p, [at |-> "ask secret"])
  /\ UNCHANGED <<file, ring, conf, opened>>

AskSecret(p) ==
  LET c == job[p].st.client
      has == HasSecret(c, Url(job[p].st, p))
  IN /\ At(p, "ask secret")
     /\ \/ /\ has /\ NoFault
           /\ Do(p, [at |-> "keep access", tok |-> c])
        \/ /\ IF has THEN Fault(p, "reply") ELSE NoFault
           /\ \/ ByDaemon(p) /\ Do(p, [at |-> "drop tokens"])   \* none, or rejected
              \/ End(p, "error")                              \* unreachable
     /\ UNCHANGED <<file, ring, conf, opened>>

KeepAccess(p) ==
  /\ At(p, "keep access")
  /\ \E st \in {file, Blank} :
       /\ Loaded(p, st)
       /\ Store("access", Url(st, p), job[p].tok)
       /\ Do(p, [at |-> "keep refresh", st |-> st])
  /\ UNCHANGED <<file, conf, opened>>

(* A grant without a refresh token clears the old one.                      *)
KeepRefresh(p) ==
  LET s == Url(job[p].st, p) IN
  /\ At(p, "keep refresh")
  /\ \/ /\ \E t \in {job[p].tok, None} : Store("refresh", s, t)
        /\ NoFault /\ Do(p, [at |-> "keep file"])
     \/ /\ UNCHANGED ring /\ Fault(p, "ring")
        /\ Do(p, [at |-> IF ByDaemon(p) THEN "drop tokens" ELSE "keep file"])
  /\ UNCHANGED <<file, conf, opened>>

KeepFile(p) ==
  /\ At(p, "keep file")
  /\ Saves(p, job[p].st) /\ End(p, "ok")
  /\ UNCHANGED <<ring, conf, opened>>

(* purge_credentials_and_lock                                               *)
DropTokens(p) ==
  /\ At(p, "drop tokens")
  /\ \E st \in {file, Blank} :
       /\ Loaded(p, st) /\ ClearBoth(Url(st, p))
       /\ Do(p, [at |-> "drop file", st |-> st])
  /\ UNCHANGED <<file, conf, opened>>

DropFile(p) ==
  /\ At(p, "drop file")
  /\ Saves(p, job[p].st) /\ opened' = None /\ End(p, "error")
  /\ UNCHANGED <<ring, conf>>

(* The process is killed between two operations.                            *)
Kill(p) ==
  /\ Busy(p) /\ End(p, "killed") /\ Fault(p, "kill")
  /\ UNCHANGED <<file, ring, conf, opened>>

LoginStep(p) ==
  \/ Granted(p) \/ LoginLoad(p) \/ StoreAccess(p) \/ StoreRefresh(p) \/ StoreSecret(p)
  \/ UndoAccess(p) \/ UndoBoth(p) \/ FirstSync(p) \/ LoginSave(p) \/ LoadEmail(p)
  \/ SaveEmail(p) \/ OpenDaemon(p) \/ RememberLoads(p) \/ RememberSaves(p)
SessionStep(p) ==
  \/ UnlockLoads(p) \/ FindToken(p) \/ RestoreToken(p)
  \/ LockDaemon(p) \/ ClearSession(p) \/ CloseDaemon(p) \/ ClearAll(p) \/ Erase(p)
  \/ StatusLoads(p) \/ MigrateAccess(p) \/ MigrateRefresh(p) \/ Scrub(p) \/ Judge(p)
  \/ GiveUp(p)
ServerStep(p) ==
  RemoveFile(p) \/ PurgeRing(p) \/ StopDaemon(p) \/ SaveConf(p)
RenewStep(p) ==
  \/ RenewLoads(p) \/ AskRefresh(p) \/ AskSecret(p) \/ KeepAccess(p) \/ KeepRefresh(p)
  \/ KeepFile(p) \/ DropTokens(p) \/ DropFile(p)
AccountStep(p) == LoginStep(p) \/ SessionStep(p) \/ ServerStep(p) \/ RenewStep(p)

(***************************************************************************)
(* Properties                                                              *)
(***************************************************************************)
AccountTypeOK ==
  LET Owner == Accounts \cup {None} IN
  /\ file \in [server : Servers \cup {None}, user : Owner \cup {ClientId}, key : Owner,
               items : Owner, client : Owner, oldAccess : Owner, oldRefresh : Owner]
  /\ ring \in [access : [Servers -> Owner], refresh : [Servers -> Owner],
               secrets : SUBSET Accounts]
  /\ conf.server \in Servers /\ conf.email \in Owner \cup {ClientId}
  /\ opened \in Owner /\ trouble.left \in Nat
  /\ \A p \in Jobs : /\ job[p].op \in Starts \cup {"none"} /\ job[p].acct \in Owner
                      /\ job[p].alone \in BOOLEAN

Secrets(r) == {r.access[s] : s \in Servers} \cup {r.refresh[s] : s \in Servers}
                \cup r.secrets

AllIdle == \A p \in Jobs : ~Busy(p)

(* A login that fails leaves no token or secret of its account in the       *)
(* keyring, whichever of the stores failed (the clearing does not fail too, *)
(* and nothing killed it).                                                  *)
FailedLoginLeavesNothing ==
  [][\A p \in Jobs :
       (job[p].op \in {"login", "apikey"} /\ Busy(p) /\ job'[p].res = "error") =>
         job[p].acct \notin Secrets(ring')]_accountVars

(* What the keyring and data.json hold belongs to one account, and the      *)
(* daemon holds no other: no command reads one account's file and renews or *)
(* syncs with another's tokens.                                             *)
Owners == ({file.user, file.key, file.items, file.client} \cup Secrets(ring)
             \cup {opened}) \ {None, ClientId}
OneAccount == AllIdle => Cardinality(Owners) <= 1

(* config.json never names a server while the keyring or data.json holds    *)
(* anything of another, even when the process that changes it dies midway.  *)
CleanServer ==
  AllIdle => /\ \A a \in Owners : ServerOf[a] = conf.server
             /\ file.server \in {None, conf.server}

(* After a logout that nothing overlapped, and that did not fail, nothing   *)
(* of the account is left, wherever the account came from.                  *)
LogoutLeavesNothing ==
  [][\A p \in Jobs :
       (job[p].op = "logout" /\ job[p].alone /\ p \notin trouble.struck
          /\ Busy(p) /\ job'[p].res = "ok") => Owners' = {}]_accountVars
=============================================================================
