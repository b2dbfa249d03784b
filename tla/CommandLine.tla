---------------------------- MODULE CommandLine ----------------------------
(* The commands that read the vault, create keys in it and make passwords   *)
(* (main.rs).  Each asks the daemon, which others lock and unlock meanwhile *)
(* and which may die before it answers; when the vault is locked, most take *)
(* the master password and read data.json themselves.                       *)
EXTENDS Naturals, Sequences, SequencesExt, FiniteSets

CONSTANTS Shells,   \* processes of the command line
          Items,    \* the vault, in its order: [name, type, has, seed, favorite]
          NoItem,
          Moments   \* what the clock may say, in seconds

VARIABLES
  asked,      \* the command line of each process
  phase,      \* how far it got
  item,       \* the item it found
  told,       \* what it printed: [ok, value]
  made,       \* keys on the server that each process created
  lost,       \* the server's or the daemon's answer to a creation was lost
  calm,       \* no lock and no death of the daemon since the status was read
  daemonIs    \* "locked", "unlocked" or "absent"

cmdVars == <<asked, phase, item, told, made, lost, calm, daemonIs>>

(* A query is what its words match in each item: words, a sequence of       *)
(* functions from names to classes; exact and within, of the whole text;    *)
(* seed, the text taken for a TOTP seed.                                    *)
Names == {i.name : i \in ToSet(Items)}
Score == [exact |-> 2000, starts |-> 1000, within |-> 500, subStarts |-> 400,
          sub |-> 300, text |-> 100, fuzzy |-> 80]
Seeds == [reads : BOOLEAN, period : Nat]

Silence == [ok |-> FALSE, value |-> {}]
Reading == {"list", "search", "copy", "totp", "export"}

(* The halves of a key pair made or read here: the public one is derived    *)
(* from the private one, or given beside it.                                *)
Pair(public) == [public |-> public]
Pairs == {Pair("derived"), Pair("given")}

ASSUME ItemAssumption ==
  /\ Items \in Seq(ToSet(Items)) /\ NoItem \notin ToSet(Items) \cup Pairs
  /\ \A i \in ToSet(Items) : i.favorite \in BOOLEAN /\ i.seed \in Seeds
ASSUME MomentAssumption == Moments \subseteq Nat

CmdInit(lines) ==
  /\ asked \in [Shells -> lines]
  /\ phase = [s \in Shells |-> "idle"] /\ item = [s \in Shells |-> NoItem]
  /\ told = [s \in Shells |-> Silence] /\ made = [s \in Shells |-> 0]
  /\ lost = [s \in Shells |-> FALSE] /\ calm = [s \in Shells |-> TRUE]
  /\ daemonIs \in {"locked", "unlocked", "absent"}

CmdGoto(s, p) == phase' = [phase EXCEPT ![s] = p]
Say(s, v)  == CmdGoto(s, "done") /\ told' = [told EXCEPT ![s] = [ok |-> TRUE, value |-> v]]
Refuse(s)  == CmdGoto(s, "done") /\ told' = told

(* The first item of one of these names; an export looks at keys only.      *)
FirstNamed(c, names) ==
  LET hits == {n \in 1..Len(Items) : /\ c = "export" => Items[n].type = "ssh_key"
                                     /\ Items[n].name \in names}
  IN IF hits = {} THEN NoItem ELSE Items[Min(hits)]

(* find_item and find_ssh_key: an exact name before one that contains it.   *)
FindItem(c, q) ==
  LET exact == FirstNamed(c, {q.exact})
  IN IF exact # NoItem THEN exact ELSE FirstNamed(c, q.within)

(* The search of the command line itself: the first name of either sort.    *)
FindLocally(c, q) == FirstNamed(c, q.within)

(***************************************************************************)
(* Reading                                                                 *)
(***************************************************************************)
(* The daemon's status.  A locked one ends a list or a search.              *)
ReadStatus(s) ==
  /\ phase[s] = "idle" /\ asked[s].cmd \in Reading /\ asked[s].flag # "stdin"
  /\ \/ daemonIs = "unlocked" /\ CmdGoto(s, "asking") /\ UNCHANGED told
     \/ daemonIs # "unlocked" /\ asked[s].cmd \notin {"list", "search"}
          /\ CmdGoto(s, "password") /\ UNCHANGED told
     \/ daemonIs # "unlocked" /\ asked[s].cmd \in {"list", "search"} /\ Refuse(s)
  /\ calm' = [calm EXCEPT ![s] = TRUE]
  /\ UNCHANGED <<asked, item, made, lost, daemonIs>>

(* search: every word matches; the best scores first, else the vault's order. *)
Scored(q) ==
  LET hits == {n \in 1..Len(Items) : \A w \in ToSet(q.words) : w[Items[n].name] # "no"}
      score(n) == (IF Items[n].favorite THEN 100 ELSE 0)
                  + SumFunction([w \in DOMAIN q.words |-> Score[q.words[w][Items[n].name]]])
      before(m, n) == score(m) > score(n) \/ (score(m) = score(n) /\ m < n)
  IN {<<Cardinality({m \in hits : before(m, n)}) + 1, Items[n].name>> : n \in hits}
Everything == [words |-> <<>>]

(* A locked daemon refuses, or shows nothing if it locks after its check;   *)
(* without an answer the empty vault of this process is shown.              *)
ListAndSearch(s) ==
  /\ phase[s] = "asking" /\ asked[s].cmd \in {"list", "search"}
  /\ \/ daemonIs = "unlocked"
         /\ Say(s, Scored(IF asked[s].cmd = "list" THEN Everything ELSE asked[s].query))
     \/ daemonIs = "locked" /\ Refuse(s)
     \/ daemonIs # "unlocked" /\ Say(s, {})
  /\ UNCHANGED <<asked, item, made, lost, calm, daemonIs>>

GetItem(s) ==
  /\ phase[s] = "asking" /\ asked[s].cmd \in {"copy", "totp", "export"}
  /\ item' = [item EXCEPT ![s] = IF daemonIs = "unlocked"
                                 THEN FindItem(asked[s].cmd, asked[s].query) ELSE NoItem]
  /\ CmdGoto(s, "item")
  /\ UNCHANGED <<asked, told, made, lost, calm, daemonIs>>

(* ensure_unlocked_user_key: the password unlocks data.json for this        *)
(* process, and the daemon is told.                                         *)
EnsureUnlockedUserKey(s) ==
  /\ phase[s] = "password"
  /\ \/ /\ CmdGoto(s, "local") /\ UNCHANGED told
        /\ daemonIs' \in IF daemonIs = "locked" THEN {"locked", "unlocked"} ELSE {daemonIs}
     \/ /\ IF asked[s].cmd = "totp" THEN CmdGoto(s, "item") /\ UNCHANGED told ELSE Refuse(s)
        /\ UNCHANGED daemonIs
  /\ UNCHANGED <<asked, item, made, lost, calm>>

ReadLocally(s) ==
  /\ phase[s] = "local" /\ asked[s].cmd \in {"copy", "totp", "export"}
  /\ item' = [item EXCEPT ![s] = FindLocally(asked[s].cmd, asked[s].query)]
  /\ CmdGoto(s, "item")
  /\ UNCHANGED <<asked, told, made, lost, calm, daemonIs>>

(* The field copied: the first of these that the item has.                  *)
Candidates(flag, type) ==
  CASE flag = "username" -> <<"login.username", "identity.username", "identity.email">>
    [] flag = "notes"    -> <<"notes">>
    [] flag = "public_key"  -> <<"ssh.public", "card.number">>
    [] flag = "private_key" -> <<"ssh.private", "card.code">>
    [] flag = "password" -> <<"login.password">>
    [] flag = "totp"     -> <<"login.totp">>
    [] flag = "none"     -> CASE type = "ssh_key" -> <<"ssh.private">>
                              [] type = "card"    -> <<"card.number">>
                              [] type = "note"    -> <<"notes">>
                              [] OTHER            -> <<"login.password">>

FieldOf(flag, i) ==
  LET fields == Candidates(flag, i.type)
      held == {n \in 1..Len(fields) : fields[n] \in i.has}
  IN IF held = {} THEN "empty" ELSE fields[Min(held)]

(* parse_totp_params: a seed, its period, 30 seconds where none is given.   *)
NoSeed == [reads |-> FALSE, period |-> 30]
TotpParams(seed) == IF seed.reads THEN {[period |-> seed.period]} ELSE {}

(* generate_totp: the code is of a step of time, and lasts to the step's    *)
(* end.  A period of 0 kills the process, or the daemon's thread.           *)
GenerateTotp(seed, now) ==
  {[step |-> now \div p.period, ttl |-> p.period - (now % p.period)] :
     p \in {q \in TotpParams(seed) : q.period > 0}}
Shows(name, seed) ==
  UNION {{[of |-> name, at |-> now, code |-> c] : c \in GenerateTotp(seed, now)} :
           now \in Moments}

CopyField(s) ==
  LET i == item[s]
      field == FieldOf(asked[s].flag, i)
  IN
  /\ phase[s] = "item" /\ asked[s].cmd = "copy"
  /\ \/ /\ i # NoItem /\ field # "empty"
        /\ field = "login.totp" => Shows(i.name, i.seed) # {}
        /\ Say(s, {<<i.name, field>>})
     \/ Refuse(s)
  /\ UNCHANGED <<asked, item, made, lost, calm, daemonIs>>

SayCode(s, codes) == IF codes = {} THEN Refuse(s) ELSE \E c \in codes : Say(s, {c})

(* No item: the query itself is taken for the seed.                         *)
ShowTotp(s) ==
  LET i == item[s]
      q == asked[s].query
  IN
  /\ phase[s] = "item" /\ asked[s].cmd = "totp"
  /\ SayCode(s, IF i # NoItem THEN Shows(i.name, i.seed) ELSE Shows("query", q.seed))
  /\ UNCHANGED <<asked, item, made, lost, calm, daemonIs>>

(* totp --stdin: a query goes to the daemon alone, which finds the item and *)
(* makes the code (its request "totp").                                     *)
TotpByDaemon(s) ==
  LET i == FindItem("totp", asked[s].query) IN
  /\ phase[s] = "idle" /\ asked[s].cmd = "totp" /\ asked[s].flag = "stdin"
  /\ SayCode(s, IF daemonIs = "unlocked" /\ i # NoItem THEN Shows(i.name, i.seed) ELSE {})
  /\ UNCHANGED <<asked, item, made, lost, calm, daemonIs>>

(* write_keypair_files: the private half first; a missing one is empty.     *)
KeypairFiles(i) == {<<i.name, f>> : f \in i.has \cap {"ssh.public", "ssh.private"}}

(* Files that cannot be written fail; on a terminal one half is printed.    *)
ExportKey(s) ==
  LET i == item[s]
      half == IF asked[s].flag = "stdout public" THEN "ssh.public" ELSE "ssh.private"
  IN
  /\ phase[s] = "item" /\ asked[s].cmd = "export"
  /\ \/ i # NoItem /\ asked[s].flag = "none" /\ Say(s, KeypairFiles(i))
     \/ i # NoItem /\ asked[s].flag # "none" /\ Say(s, KeypairFiles(i) \cap {<<i.name, half>>})
     \/ (i = NoItem \/ asked[s].flag = "none") /\ Refuse(s)
  /\ UNCHANGED <<asked, item, made, lost, calm, daemonIs>>

(***************************************************************************)
(* Creating and importing keys                                             *)
(***************************************************************************)
(* generate_keypair, or parse_private_key on what is read: an unreadable or *)
(* malformed key ends the command.  A public key file is taken as it is.    *)
MakeKey(s) ==
  /\ phase[s] = "idle" /\ asked[s].cmd = "create"
  /\ \/ CmdGoto(s, "key") /\ item' = [item EXCEPT ![s] = Pair("derived")]
     \/ Refuse(s) /\ UNCHANGED item
  /\ UNCHANGED <<asked, told, made, lost, calm, daemonIs>>

ReadKey(s) ==
  /\ phase[s] = "idle" /\ asked[s].cmd = "import"
  /\ \/ /\ CmdGoto(s, "key")
        /\ \E public \in {"derived", "given"} : item' = [item EXCEPT ![s] = Pair(public)]
     \/ Refuse(s) /\ UNCHANGED item
  /\ UNCHANGED <<asked, told, made, lost, calm, daemonIs>>

Create(s, created, ok) ==
  /\ made' = [made EXCEPT ![s] = @ + created]
  /\ lost' = [lost EXCEPT ![s] = @ \/ (created = 1 /\ ~ok)]

(* Mutant: the daemon's answer is not looked at.                            *)
CreateUnheard(s) ==
  /\ phase[s] = "key"
  /\ \/ daemonIs = "unlocked" /\ Create(s, 1, TRUE)
     \/ Create(s, 0, FALSE)
  /\ CmdGoto(s, "password")
  /\ UNCHANGED <<asked, item, told, calm, daemonIs>>

(* ssh_key_create of the daemon: it may be locked, fail, or die on the way, *)
(* before or after the server has the key.                                  *)
CreateByDaemon(s) ==
  /\ phase[s] = "key"
  /\ \/ daemonIs = "unlocked" /\ Create(s, 1, TRUE) /\ Say(s, {item[s]})
     \/ daemonIs = "unlocked" /\ Create(s, 1, FALSE) /\ CmdGoto(s, "password") /\ UNCHANGED told
     \/ Create(s, 0, FALSE) /\ CmdGoto(s, "password") /\ UNCHANGED told
  /\ UNCHANGED <<asked, item, calm, daemonIs>>

(* Without an "ok" the process creates the key itself.                      *)
CreateLocally(s) ==
  /\ phase[s] = "local" /\ asked[s].cmd \in {"create", "import"}
  /\ \/ Create(s, 1, TRUE) /\ Say(s, {item[s]})
     \/ Create(s, 1, FALSE) /\ Refuse(s)
     \/ Create(s, 0, FALSE) /\ Refuse(s)
  /\ UNCHANGED <<asked, item, calm, daemonIs>>

(***************************************************************************)
(* Generated passwords and passphrases (generator.rs)                      *)
(***************************************************************************)
(* Options: [length, sets, numbers, special, words]: numbers and special    *)
(* are least counts, words asks for a passphrase unless it is 0.  A         *)
(* password is the number of its characters of each set.                    *)
CharSets == {"upper", "lower", "number", "special"}
LessOf(a, b) == IF a < b THEN a ELSE b

Guaranteed(o) ==
  LET n == IF "number" \in o.sets THEN LessOf(o.numbers, o.length) ELSE 0
      p == IF "special" \in o.sets THEN LessOf(o.special, o.length - n) ELSE 0
      u == IF "upper" \in o.sets /\ n + p < o.length THEN 1 ELSE 0
      l == IF "lower" \in o.sets /\ n + p + u < o.length THEN 1 ELSE 0
  IN [upper |-> u, lower |-> l, number |-> n, special |-> p]

Length(c) == c.upper + c.lower + c.number + c.special

(* The rest is drawn from all the sets; the order is shuffled.              *)
Passwords(o, shortest) ==
  LET g == Guaranteed(o) IN
  IF o.length < shortest \/ o.sets = {} THEN {}
  ELSE {c \in [CharSets -> 0..o.length] :
          /\ Length(c) = o.length
          /\ \A x \in CharSets : c[x] >= g[x] /\ (x \notin o.sets => c[x] = 0)}

(* Words drawn one by one; a word may come again.                           *)
Wordlist == {"abacus", "zoom"}
Passphrases(o, fewest, most) ==
  IF o.words \in fewest..most THEN [1..o.words -> Wordlist] ELSE {}

(* Here and in the daemon's request "generate_password".  Five characters   *)
(* and three words at least, scaled down.  The copy to the clipboard may    *)
(* fail.                                                                    *)
GeneratePassword(s) ==
  LET o == asked[s].options
      secrets == IF o.words > 0 THEN Passphrases(o, 2, 3) ELSE Passwords(o, 3)
  IN
  /\ phase[s] = "idle" /\ asked[s].cmd = "generate"
  /\ \/ \E c \in secrets : Say(s, {c})
     \/ Refuse(s)
  /\ UNCHANGED <<asked, item, made, lost, calm, daemonIs>>

(***************************************************************************)
(* The daemon meanwhile                                                    *)
(***************************************************************************)
DaemonBecomes(d) ==
  /\ daemonIs # d /\ daemonIs' = d
  /\ calm' = [s \in Shells |-> calm[s] /\ ~(d # "unlocked" /\ phase[s] = "asking")]
  /\ UNCHANGED <<asked, phase, item, told, made, lost>>

CmdStep(s) ==
  \/ ReadStatus(s) \/ ListAndSearch(s) \/ GetItem(s) \/ EnsureUnlockedUserKey(s)
  \/ ReadLocally(s) \/ CopyField(s) \/ ShowTotp(s) \/ ExportKey(s)
  \/ TotpByDaemon(s) \/ MakeKey(s) \/ ReadKey(s)
  \/ CreateByDaemon(s) \/ CreateLocally(s) \/ GeneratePassword(s)
CmdNext ==
  \/ \E s \in Shells : CmdStep(s)
  \/ \E d \in {"locked", "unlocked", "absent"} : DaemonBecomes(d)

(***************************************************************************)
(* What may be asked.  A name that contains the text matches its words and  *)
(* a text of one word is exactly the name that the word is (search and      *)
(* find_item ignore case, as names do here).                                *)
(***************************************************************************)
IsQuery(q) ==
  /\ q.words \in Seq([Names -> DOMAIN Score \cup {"no"}]) /\ q.seed \in Seeds
  /\ q.within \subseteq Names /\ (q.exact \in Names => q.exact \in q.within)
  /\ \A w \in ToSet(q.words) : \A n \in q.within : w[n] # "no"
  /\ Len(q.words) = 1 => \A n \in Names : (q.words[1][n] = "exact") <=> (n = q.exact)
IsOptions(o) == o \in [length : Nat, sets : SUBSET CharSets, numbers : Nat, special : Nat, words : Nat]
Flags == {"none", "username", "password", "totp", "notes", "public_key", "private_key"}
IsLine(l) ==
  /\ IsQuery(l.query) /\ IsOptions(l.options)
  /\ l.cmd \in Reading \cup {"create", "import", "generate"}
  /\ l.cmd = "copy" => l.flag \in Flags

(***************************************************************************)
(* Properties                                                              *)
(***************************************************************************)
CmdTypeOK ==
  /\ item \in [Shells -> ToSet(Items) \cup Pairs \cup {NoItem}]
  /\ made \in [Shells -> 0..2]
  /\ \A s \in Shells : told[s].ok => phase[s] = "done"

(* A listing has the whole vault, and a search all that names the query,    *)
(* the one that is it first if it is one word, when no lock came between.   *)
ListIsVault(s) ==
  LET q == asked[s].query
      shown == {v[2] : v \in told[s].value} IN
  calm[s] =>
    /\ asked[s].cmd = "list" => shown = Names
    /\ asked[s].cmd = "search" =>
         q.within \subseteq shown /\ (Len(q.words) = 1 /\ q.exact \in Names => <<1, q.exact>> \in told[s].value)

(* What is copied and exported is of an item the query names.               *)
FieldIsNamed(s) ==
  asked[s].cmd \in {"copy", "export"} =>
    \A v \in told[s].value :
      v[1] \in asked[s].query.within /\ \E i \in ToSet(Items) : i.name = v[1] /\ v[2] \in i.has

(* A code is of the item named, unless the query itself reads as a seed,    *)
(* and is the item's for as many seconds as it says, no more.               *)
CodeIsNamed(s) ==
  LET q == asked[s].query IN
  asked[s].cmd = "totp" =>
    \A v \in told[s].value :
      \E i \in ToSet(Items) \cup {[name |-> "query", seed |-> q.seed]} :
        /\ i.name = v.of /\ v.of \in q.within \cup (IF q.seed.reads THEN {"query"} ELSE {})
        /\ \A later \in 0..2 * i.seed.period :
             \A c \in GenerateTotp(i.seed, v.at + later) :
               c.step = v.code.step <=> later < v.code.ttl

(* A new key is on the server once, unless an answer was lost; one made     *)
(* here has its own public half.                                            *)
KeyIsOnce(s) ==
  /\ asked[s].cmd \in {"create", "import"} /\ ~lost[s] => made[s] = 1
  /\ asked[s].cmd = "create" => told[s].value = {Pair("derived")}

(* A password has its length, at least the digits and signs asked for, and  *)
(* a letter of each case when these leave room; a passphrase its words.     *)
PasswordIsAsked(s) ==
  LET o == asked[s].options IN
  /\ asked[s].cmd = "generate" /\ o.words > 0 => \A c \in told[s].value : Len(c) = o.words
  /\ asked[s].cmd = "generate" /\ o.words = 0 =>
    \A c \in told[s].value :
      /\ Length(c) = o.length
      /\ "number" \in o.sets => c.number >= LessOf(o.numbers, o.length)
      /\ o.numbers + o.special + 2 <= o.length =>
           /\ "special" \in o.sets => c.special >= o.special
           /\ \A x \in o.sets \cap {"upper", "lower"} : c[x] > 0

(* A command that reports success did what it says, over locks, deaths of   *)
(* the daemon and failures between its requests (main.rs).                  *)
SuccessIsTrue ==
  \A s \in Shells : told[s].ok =>
    /\ ListIsVault(s) /\ FieldIsNamed(s) /\ CodeIsNamed(s)
    /\ KeyIsOnce(s) /\ PasswordIsAsked(s)

(* Every command ends.                                                      *)
CommandLineEnded == \A s \in Shells : phase[s] = "done"
=============================================================================
