----------------------------- MODULE MCCommands -----------------------------
(* Instances for TLC of the components around the daemon's session.  One   *)
(* run explores them all, each in a scope of its own in which the others   *)
(* rest; the scope says which instance of its component is explored.       *)
EXTENDS SignIn, AccountStore, DaemonLifecycle, Clipboard, Attachments,
        CommandLine, VaultKeys, Endpoints, TLC

CONSTANTS a1, a2, b1, s1, s2, p1, p2,   \* accounts, servers, processes
          c1, c2, c3, d1, d2, d3, d4,   \* clients, daemons
          k1, k2, k3,                   \* copiers, askers, shells
          Scopes                        \* the scopes explored

VARIABLES scope,
          begun,  \* calls of the account's commands so far
          daemon, status, display, windowOpen, helper, plan, waiting, posted, card,
          cardOnly, denying, cardQuery, cardReply, closedOn   \* of the overlay

scopeVars == <<scope, begun>>

NoPrompt   == 0
TwoPrompts == {1, 2}
Overlay == INSTANCE Overlay WITH opened <- windowOpen, shown <- display,
                                 query <- cardQuery, reply <- cardReply,
                                 Prompts <- TwoPrompts
windowVars == <<daemon, status, display, windowOpen, helper, plan, waiting, posted, card,
                cardOnly, denying, cardQuery, cardReply, closedOn>>

(***************************************************************************)
(* Signing in: a wrong or wayward user against every account, an honest    *)
(* one against every single demand.                                        *)
(***************************************************************************)
Account(methods, devices, keys, passwords, faults, ttys, honest) ==
  [methods : methods, device : devices, key : keys, password : passwords,
   cloud : {TRUE}, faults : faults, tty : ttys, honest : honest]
SignAccounts ==
  Account({<<>>, <<7>>, <<1, 7>>, <<3, 0, 1>>}, BOOLEAN, {"holds", "mute"}, {TRUE},
          BOOLEAN, {FALSE}, {FALSE})
  \cup Account({<<>>, <<0>>, <<1>>, <<3>>, <<7>>, <<0, 7>>, <<1, 7>>, <<1, 3>>, <<3, 0, 1>>},
               BOOLEAN, {"absent", "holds"}, {TRUE}, {FALSE}, {TRUE}, {TRUE})
  \cup Account({<<>>, <<1, 7>>}, BOOLEAN, {"other"}, BOOLEAN, BOOLEAN, {TRUE}, {FALSE})
  \cup {[methods |-> <<0>>, device |-> FALSE, key |-> "absent", password |-> TRUE,
         cloud |-> FALSE, faults |-> TRUE, tty |-> TRUE, honest |-> FALSE]}

SignRests ==
  /\ account \in {a \in SignAccounts : ~a.cloud} /\ mailed = FALSE
  /\ pc = "done" /\ call = NoCall /\ form = NoCall
  /\ round = 0 /\ refused = {} /\ outcome = Pending

(***************************************************************************)
(* The account's commands: alone with a failing reply, with a failing      *)
(* keyring, with a kill, and two at once.                                  *)
(***************************************************************************)
ManyAccounts == {a1, a2, b1}
ManyServers  == {s1, s2}
ManyJobs     == {p1, p2}
ServersOf    == a1 :> s1 @@ a2 :> s1 @@ b1 :> s2

DefaultConfOf == [server |-> s2, email |-> None, remember |-> TRUE]
Conf     == [server |-> s1, email |-> None, remember |-> TRUE]
LoggedIn == [Blank EXCEPT !.server = s1, !.user = a1, !.key = a1, !.items = a1]
OldFile  == [LoggedIn EXCEPT !.oldAccess = a1, !.oldRefresh = a1]
Tokens   == s1 :> a1 @@ s2 :> None
RingOfA1 == [EmptyRing EXCEPT !.access = Tokens, !.refresh = Tokens]

AccountScope(ops, atOnce, calls, faults) ==
  [part |-> "account", ops |-> ops, atOnce |-> atOnce, calls |-> calls,
   left |-> IF faults = {} THEN 0 ELSE 1, kinds |-> faults]
AccountScopes ==
  {AccountScope({"login", "apikey", "unlock", "lock", "logout", "status", "renew", "attach"},
                1, 3, {"reply"}),
   AccountScope({"login", "apikey", "logout", "status", "unlock"}, 1, 2, {"ring", "reply", "file"}),
   AccountScope({"server", "login", "logout", "apikey"}, 1, 3, {"kill"}),
   AccountScope({"logout", "lock", "renew", "status", "unlock", "attach", "server", "login"},
                2, 2, {})}

AccountBegins ==
  /\ begun = 0
  /\ LET troubles == {[left |-> scope.left, kinds |-> scope.kinds]}
     IN \/ AccountInit({Blank, OldFile}, {EmptyRing}, {Conf}, troubles)
        \/ AccountInit({LoggedIn}, {RingOfA1}, {Conf}, troubles)
AccountRests == begun = 0 /\ AccountInit({Blank}, {EmptyRing}, {Conf},
                                         {[left |-> 0, kinds |-> {}]})

(* A login comes to a logged-out account (README: over another one it      *)
(* keeps what it does not replace).                                        *)
AccountBegin(p, op, a) ==
  /\ begun < scope.calls /\ begun' = begun + 1
  /\ Cardinality({q \in Jobs : Busy(q)}) < scope.atOnce
  /\ scope.atOnce = 1 => p = p1
  /\ op \notin {"login", "apikey", "unlock", "server"} => a = a1
  /\ op \in {"login", "apikey"} => file = Blank
  /\ Begin(p, op, a)

(***************************************************************************)
(* Daemons: one command that looks for a daemon beside others that change  *)
(* its settings, lock and stop it; and several that look for one.          *)
(***************************************************************************)
ThreeClients == {c1, c2, c3}
FourDaemons  == {d1, d2, d3, d4}
Given3(x, y, z) == c1 :> x @@ c2 :> y @@ c3 :> z
BuildsOf == {c1 :> "new" @@ c2 :> b @@ c3 :> "new" @@ [d \in FourDaemons |-> "old"] : b \in Builds}
OneStarter   == [starters |-> "one", boot |-> "prompt"]
ManyStarters == [starters |-> "many", boot |-> "slow"]

LifeBegins ==
  \/ LifeInit({Given3("unlock", "unlock", z) : z \in {"set", "lock", "stop"}}
                \cup {Given3("unlock", "set", z) : z \in {"lock", "stop"}}, BuildsOf, {OneStarter})
  \/ LifeInit({Given3("unlock", "ensure", "none")}, BuildsOf, {ManyStarters})
LifeRests ==
  /\ LifeInit({Given3("none", "none", "none")}, {[p \in Clients \cup Daemons |-> "new"]}, {OneStarter})
  /\ sock = Nobody /\ ~setting

(***************************************************************************)
(* The clipboard, attachments, command lines                               *)
(***************************************************************************)
ThreeCopiers == {k1, k2, k3}
Secret == [does |-> "secret", in |-> "cli"]
ClipUses ==
  {f \in [Copiers -> Uses] : f[k1] = Secret /\ f[k3].does \in {"secret", "clear"}}
ClipRests ==
  /\ use = [c \in Copiers |-> Secret] /\ step = [c \in Copiers |-> "done"]
  /\ clip = Empty /\ genFile = 0 /\ writable = FALSE /\ timers = <<>>

TwoAskers == {k1, k2}
Att(id, i, name, odd, known, sized, kind) ==
  [id |-> id, item |-> i, name |-> name, odd |-> odd, known |-> known, sized |-> sized,
   kind |-> kind]
SomeAttachments ==
  {Att("x", "item 1", "name 1", FALSE, FALSE, TRUE, "text"),
   Att("y", "item 1", "name 2", TRUE, TRUE, FALSE, "image"),
   Att("z", "item 2", "name 1", FALSE, FALSE, FALSE, "other")}
Wants == [att : SomeAttachments, mode : Modes]
NoFiles == [p \in Paths |-> NoFile]
Leftovers == {NoFiles} \cup {[NoFiles EXCEPT ![Preview(a)] = Content(a, f)] :
                               a \in SomeAttachments, f \in {"plain", "cipher"}}
AttRests ==
  /\ want \in [Askers -> {w \in Wants : w.att.id = "x" /\ w.mode = "preview"}]
  /\ stage = [k \in Askers |-> "failed"] /\ reply = [k \in Askers |-> NoReply] /\ bytes = [k \in Askers |-> NoFile]
  /\ files = NoFiles /\ vaultLocked = FALSE /\ clearing = FALSE /\ copies = TRUE

OneShell == {k1}
SomeMoments == {0, 29, 30, 44, 75}
Seed(period) == [reads |-> TRUE, period |-> period]
Item(name, type, has, seed) ==
  [name |-> name, type |-> type, has |-> has, seed |-> seed, favorite |-> name = "github"]
SomeItems ==
  <<Item("github", "login", {"login.password", "login.totp"}, Seed(30)),
    Item("git", "login", {"login.username", "login.password", "login.totp", "notes"}, Seed(15)),
    Item("deploy git", "ssh_key", {"ssh.public", "ssh.private"}, NoSeed),
    Item("visa", "card", {"card.number", "card.code"}, NoSeed),
    Item("memo", "note", {"notes"}, NoSeed)>>
Query(words, exact, within, seed) ==
  [words |-> words, exact |-> exact, within |-> within, seed |-> seed]
Word(matches) == [n \in Names |-> IF n \in DOMAIN matches THEN matches[n] ELSE "no"]
Git    == Word("github" :> "starts" @@ "git" :> "exact" @@ "deploy git" :> "within"
                 @@ "memo" :> "text" @@ "visa" :> "fuzzy")
Deploy == Word("deploy git" :> "starts" @@ "github" :> "sub" @@ "git" :> "subStarts")
Queries ==
  {Query(<<Git>>, "git", {"github", "git", "deploy git"}, NoSeed),
   Query(<<Word(<<>>)>>, "none", {}, Seed(60)), Query(<<Word(<<>>)>>, "none", {}, Seed(0)),
   Query(<<Deploy, Git>>, "deploy git", {"deploy git"}, NoSeed)}
Option(length, sets, numbers, special) ==
  [length |-> length, sets |-> sets, numbers |-> numbers, special |-> special, words |-> 0]
Words(n) == [Option(4, CharSets, 1, 1) EXCEPT !.words = n]
Options ==
  {Words(1), Words(2), Words(3), Words(4)} \cup
  {Option(4, CharSets, 1, 1), Option(4, CharSets, 5, 1), Option(2, CharSets, 1, 1),
   Option(3, {"upper"}, 1, 1), Option(3, {}, 1, 1), Option(5, CharSets \ {"special"}, 2, 0)}
Line(cmd, query, flag, options) ==
  [cmd |-> cmd, query |-> query, flag |-> flag, options |-> options]
NoQuery == Query(<<>>, "none", {}, NoSeed)
Usual   == Option(4, CharSets, 1, 1)
Lines ==
  {Line(c, q, "none", Usual) : c \in {"list", "search", "totp", "export"}, q \in Queries}
  \cup {Line("copy", q, f, Usual) : q \in Queries,
          f \in {"none", "username", "password", "totp", "notes", "public_key", "private_key"}}
  \cup {Line("totp", q, "stdin", Usual) : q \in Queries}
  \cup {Line("export", q, f, Usual) : q \in Queries, f \in {"stdout", "stdout public"}}
  \cup {Line(c, NoQuery, "none", Usual) : c \in {"create", "import"}}
  \cup {Line("generate", NoQuery, "none", o) : o \in Options}
ASSUME LineAssumption == \A l \in Lines : IsLine(l)
CmdRests ==
  /\ asked = [s \in Shells |-> Line("create", NoQuery, "none", Usual)]
  /\ phase = [s \in Shells |-> "done"] /\ item = [s \in Shells |-> NoItem]
  /\ told = [s \in Shells |-> Silence] /\ made = [s \in Shells |-> 0]
  /\ lost = [s \in Shells |-> FALSE] /\ calm = [s \in Shells |-> TRUE]
  /\ daemonIs = "absent"

(***************************************************************************)
(* Keys: every way an account's keys can hang together, for one type of    *)
(* item; the same with parts that have no MAC; and every type of item, for *)
(* a plain account.                                                        *)
(***************************************************************************)
KeyAccounts ==
  [password : BOOLEAN, iterations : {5000, 100000}, mac : BOOLEAN, old : BOOLEAN,
   rsa : {"none", "whole", "damaged"}, org : {"none", "rsa", "user", "missing"},
   itemKey : {"none", "base", "user", "damaged"}, field : BOOLEAN,
   fileKey : {"none", "item", "user"}, file : {"whole"}, layout : {"header", "bare"},
   twoFirst : {FALSE}, deleted : {FALSE}, type : {1}, bare : {{}}]
BareAccounts ==
  [password : {TRUE}, iterations : {100000}, mac : BOOLEAN, old : {FALSE},
   rsa : {"whole", "damaged"}, org : {"none", "rsa", "user"},
   itemKey : {"none", "base", "user", "damaged"}, field : BOOLEAN,
   fileKey : {"none", "item", "user"}, file : {"whole"}, layout : {"header"},
   twoFirst : {FALSE}, deleted : {FALSE}, type : {1},
   bare : {BareParts, {"field"}, {"rsa", "org"}, {"item", "file"}}]
PlainAccounts ==
  [password : {TRUE}, iterations : {100000}, mac : {TRUE}, old : {FALSE},
   rsa : {"whole"}, org : {"none", "rsa"}, itemKey : {"base"}, field : {TRUE},
   fileKey : {"item"}, file : {"whole", "damaged", "empty"}, layout : {"header", "bare"},
   twoFirst : BOOLEAN, deleted : BOOLEAN, type : 1..6, bare : {{}}]
KeysRest == KeysInit({CHOOSE a \in PlainAccounts : a.type = 1 /\ ~a.deleted})

(***************************************************************************)
(* Addresses                                                               *)
(***************************************************************************)
Sso == Https("sso.vault.example")
SsoAddresses == {Sso, [Sso EXCEPT !.scheme = "none", !.path = <<"connect/token">>]}
SsoServer    == "sso.vault.example" :> "vault.example"
ServerAddresses ==
  {Https("vault.example"), Address("https", "vault.example", <<>>, TRUE),
   Address("none", "vault.example", <<"api">>, FALSE),
   Address("http", "localhost", <<>>, FALSE), Address("http", "other.example", <<>>, FALSE),
   Https("other.example"), Https("bitwarden.eu")}
StorageAddresses ==
  {Address("http", "cdn.example", <<>>, FALSE), Https("other.example"),
   Address("https", "vault.example", <<"attachments">>, FALSE)}
Installed == [server |-> Https("vault.bitwarden.com"), identity |-> NoUrl,
              cert |-> NoCert, origin |-> NoUrl, setFor |-> NoUrl]
SomeCertificates ==
  {NoCert, Certificate(TRUE, FALSE, FALSE, {"strong"}), Certificate(TRUE, FALSE, FALSE, {"strong", "weak"}),
   Certificate(TRUE, TRUE, FALSE, {"strong"})}

(***************************************************************************)
(* The overlay: a vault that is locked and unlocked, by a person who logs  *)
(* in either way; and two prompts for signatures over a locked one.        *)
(***************************************************************************)
Plan(acts, login, n) == [acts |-> acts, login |-> login, atOnce |-> n]
Plans == {Plan("vault", "password", 2), Plan("vault", "apikey", 1), Plan("card", "password", 1)}

(***************************************************************************)
(* The scopes                                                              *)
(***************************************************************************)
Part(name) == [part |-> name]
CommandScopes ==
  AccountScopes \cup {Part(n) : n \in {"sign in", "daemons", "clipboard", "attachments",
                                       "command line", "keys", "end points", "overlay"}}
AddressScopes == {Part("end points")}

In(name) == scope.part = name

ScopedInit ==
  /\ scope \in Scopes
  /\ IF In("sign in") THEN SignInit(SignAccounts) ELSE SignRests
  /\ IF In("account") THEN AccountBegins ELSE AccountRests
  /\ IF In("daemons") THEN LifeBegins ELSE LifeRests
  /\ IF In("clipboard") THEN ClipInit(ClipUses) ELSE ClipRests
  /\ IF In("attachments") THEN AttInit(Wants, Leftovers, BOOLEAN) ELSE AttRests
  /\ IF In("command line") THEN CmdInit(Lines) ELSE CmdRests
  /\ IF In("keys") THEN KeysInit(KeyAccounts \cup BareAccounts \cup PlainAccounts) ELSE KeysRest
  /\ EndpointInit({Installed})
  /\ Overlay!OverlayInit(IF In("overlay") THEN Plans ELSE {Plan("card", "password", 1)})

OnlySignIn   == In("sign in") /\ UNCHANGED <<scopeVars, accountVars, lifeVars, clipVars,
                                             attVars, cmdVars, keyVars, endpointVars, windowVars>>
OnlyAccount  == In("account") /\ UNCHANGED <<scope, signVars, lifeVars, clipVars,
                                             attVars, cmdVars, keyVars, endpointVars, windowVars>>
OnlyDaemons  == In("daemons") /\ UNCHANGED <<scopeVars, signVars, accountVars, clipVars,
                                             attVars, cmdVars, keyVars, endpointVars, windowVars>>
OnlyClip     == In("clipboard") /\ UNCHANGED <<scopeVars, signVars, accountVars, lifeVars,
                                               attVars, cmdVars, keyVars, endpointVars, windowVars>>
OnlyAtt      == In("attachments") /\ UNCHANGED <<scopeVars, signVars, accountVars, lifeVars,
                                                 clipVars, cmdVars, keyVars, endpointVars, windowVars>>
OnlyCmd      == In("command line") /\ UNCHANGED <<scopeVars, signVars, accountVars, lifeVars,
                                                  clipVars, attVars, keyVars, endpointVars, windowVars>>
OnlyKeys     == In("keys") /\ UNCHANGED <<scopeVars, signVars, accountVars, lifeVars,
                                          clipVars, attVars, cmdVars, endpointVars, windowVars>>
OnlyAddresses == In("end points") /\ UNCHANGED <<scopeVars, signVars, accountVars, lifeVars,
                                                 clipVars, attVars, cmdVars, keyVars,
                                                 windowVars>>
OnlyOverlay  == In("overlay") /\ UNCHANGED <<scopeVars, signVars, accountVars, lifeVars, clipVars,
                                              attVars, cmdVars, keyVars, endpointVars>>

ScopedNext ==
  \/ OnlySignIn /\ SignNext
  \/ OnlyAccount /\ UNCHANGED begun /\ \E p \in Jobs : AccountStep(p)
  \/ OnlyAccount /\ UNCHANGED begun /\ \E p \in Jobs : Kill(p)
  \/ OnlyAccount /\ \E p \in Jobs, op \in scope.ops, a \in Accounts : AccountBegin(p, op, a)
  \/ OnlyDaemons /\ LifeNext
  \/ OnlyClip /\ ClipNext
  \/ OnlyAtt /\ AttNext
  \/ OnlyCmd /\ CmdNext
  \/ OnlyKeys /\ KeysNext
  \/ OnlyOverlay /\ Overlay!OverlayNext
  \/ OnlyAddresses /\ EndpointNext(ServerAddresses, SomeCertificates, StorageAddresses)

partVars == <<scopeVars, signVars, accountVars, lifeVars, clipVars, attVars, cmdVars,
              keyVars, endpointVars, windowVars>>
ScopedSpec == ScopedInit /\ [][ScopedNext]_partVars

(***************************************************************************)
(* Properties                                                              *)
(***************************************************************************)
(* Every component's variables have their types.                           *)
TypesOK ==
  /\ AccountTypeOK /\ LifeTypeOK /\ ClipTypeOK /\ AttTypeOK /\ CmdTypeOK
  /\ KeysTypeOK /\ EndpointTypeOK /\ Overlay!OverlayTypeOK

(* For one command at a time: the keyring, data.json and the daemon hold   *)
(* one account though its requests may fail (OneAccount), and nothing of   *)
(* another server stays though it may be killed (CleanServer).  (A failed  *)
(* clearing of the keyring leaves tokens for the next login to mix with.)  *)
AccountsApart ==
  /\ (In("account") /\ scope.kinds = {"reply"}) => OneAccount
  /\ (In("account") /\ "kill" \in scope.kinds) => CleanServer

(* The overlay holds nothing of a vault it shows as locked (Overlay).      *)
LockedShowsNothing == Overlay!LockedShowsNothing
=============================================================================
