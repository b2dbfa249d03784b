-------------------------- MODULE DaemonLifecycle --------------------------
(* How a daemon comes to serve the socket and leaves it (daemon.rs), how    *)
(* clients find, replace and start one (ensure_daemon_running and           *)
(* send_daemon_request), and how the SSH agent's socket is bound and        *)
(* removed as its setting changes (ssh_agent.rs, apply).  Sockets are paths *)
(* any process may remove and bind again; a listener whose path is gone     *)
(* goes on serving whoever had connected to it.                             *)

CONSTANTS
  Clients,     \* client processes
  Daemons,     \* the daemons that may be started
  Nobody

ASSUME LifecycleAssumption ==
  /\ Clients \cap Daemons = {} /\ Nobody \notin Clients \cup Daemons
  /\ Daemons # {}

VARIABLES
  sock,        \* whose listener the daemon's socket path leads to
  agentSock,   \* whose listener the agent's socket path leads to
  setting,     \* config.json: ssh_agent_enabled
  build,       \* the commit each process was built from
  unlocked,    \* daemons with an unlocked vault
  agentOn,     \* daemons with SshAgent.running set
  at,          \* where each process stands
  command,     \* the command each client runs
  conn,        \* the daemon a client is connected to
  asks,        \* what a client asks of it
  world        \* how many clients may look for a daemon at once, and whether
               \* one may start more slowly than its client polls

lifeVars == <<sock, agentSock, setting, build, unlocked, agentOn, at, command,
              conn, asks, world>>
daemonSide == <<sock, agentSock, unlocked, agentOn>>
clientSide == <<command, conn, asks, world>>

Builds  == {"old", "new"}
Booting == {"check", "remove", "bind", "chmod", "apply", "agentRemove", "agentBind"}
Alive(d) == at[d] \in Booting \cup {"serving"}
Listening(d) == at[d] \in {"chmod", "apply", "agentRemove", "agentBind", "serving"}
Applying     == {"apply", "agentRemove", "agentBind", "agentStop", "agentUnlink"}

Goto(p, place) == at' = [at EXCEPT ![p] = place]

(* No daemon runs, though the path may still hold the socket of one that    *)
(* died; or one runs, locked or unlocked, its agent as the setting says.    *)
LifeInit(commands, builds, worlds) ==
  /\ command \in commands /\ build \in builds /\ world \in worlds
  /\ setting \in BOOLEAN
  /\ LET first == CHOOSE d \in Daemons : TRUE IN
     \E there \in {"unborn", "dead", "serving"} :
       /\ at = [p \in Clients \cup Daemons |->
                 IF p \in Clients THEN (IF command[p] = "none" THEN "done" ELSE "idle")
                 ELSE IF p = first THEN there ELSE "unborn"]
       /\ sock = IF there = "unborn" THEN Nobody ELSE first
       /\ agentSock = IF there = "serving" /\ setting THEN first ELSE Nobody
       /\ agentOn = IF there = "serving" /\ setting THEN {first} ELSE {}
       /\ unlocked \in SUBSET (IF there = "serving" THEN {first} ELSE {})
  /\ conn = [c \in Clients |-> Nobody]
  /\ asks = [c \in Clients |-> "none"]

(***************************************************************************)
(* A daemon starts (run_daemon_server)                                     *)
(***************************************************************************)
(* Mutant: a socket left at the path is not removed.                        *)
CheckNothing(d) ==
  /\ at[d] = "check" /\ Goto(d, "bind")
  /\ UNCHANGED <<daemonSide, setting, build, clientSide>>

(* The path in use, whoever's it is, is removed before it is bound.         *)
Check(d) ==
  /\ at[d] = "check"
  /\ Goto(d, IF sock = Nobody THEN "bind" ELSE "remove")
  /\ UNCHANGED <<daemonSide, setting, build, clientSide>>

RemoveStale(d) ==
  /\ at[d] = "remove" /\ sock' = Nobody /\ Goto(d, "bind")
  /\ UNCHANGED <<agentSock, unlocked, agentOn, setting, build, clientSide>>

Bind(d) ==
  /\ at[d] = "bind"
  /\ IF sock = Nobody THEN sock' = d /\ Goto(d, "chmod")
     ELSE UNCHANGED sock /\ Goto(d, "dead")
  /\ UNCHANGED <<agentSock, unlocked, agentOn, setting, build, clientSide>>

(* The mode is set by path: with the path gone the daemon gives up.         *)
Chmod(d) ==
  /\ at[d] = "chmod"
  /\ Goto(d, IF sock = Nobody THEN "dead" ELSE "apply")
  /\ UNCHANGED <<daemonSide, setting, build, clientSide>>

(***************************************************************************)
(* apply(): the setting and the running flag are read, then the agent's     *)
(* socket is bound or removed.  p runs it for daemon d: d itself as it      *)
(* starts, or a client's request on a thread of d.                          *)
(***************************************************************************)
Runs(p) == IF p \in Daemons THEN p ELSE conn[p]
Applied(p) == IF p \in Daemons THEN "serving" ELSE "replied"

Apply(p) ==
  LET d == Runs(p) IN
  /\ at[p] = "apply"
  /\ CASE setting /\ d \notin agentOn -> Goto(p, "agentRemove")
       [] ~setting /\ d \in agentOn   -> Goto(p, "agentStop")
       [] OTHER                       -> Goto(p, Applied(p))
  /\ UNCHANGED <<daemonSide, setting, build, clientSide>>

AgentRemove(p) ==
  /\ at[p] = "agentRemove"
  /\ agentSock' = Nobody /\ Goto(p, "agentBind")
  /\ UNCHANGED <<sock, unlocked, agentOn, setting, build, clientSide>>

AgentBind(p) ==
  LET d == Runs(p) IN
  /\ at[p] = "agentBind"
  /\ IF agentSock = Nobody
     THEN agentSock' = d /\ agentOn' = agentOn \cup {d}
     ELSE UNCHANGED <<agentSock, agentOn>>          \* address in use
  /\ Goto(p, Applied(p))
  /\ UNCHANGED <<sock, unlocked, setting, build, clientSide>>

AgentStop(p) ==
  /\ at[p] = "agentStop"
  /\ agentOn' = agentOn \ {Runs(p)}
  /\ Goto(p, "agentUnlink")
  /\ UNCHANGED <<sock, agentSock, unlocked, setting, build, clientSide>>

AgentUnlink(p) ==
  /\ at[p] = "agentUnlink"
  /\ agentSock' = Nobody /\ Goto(p, Applied(p))
  /\ UNCHANGED <<sock, unlocked, agentOn, setting, build, clientSide>>

(***************************************************************************)
(* A client's request (send_daemon_request).  It reaches the daemon that    *)
(* listens at the path, or nobody.  A daemon that has bound the path but    *)
(* does not serve yet keeps the connection waiting.                         *)
(***************************************************************************)
Connect(c) ==
  /\ at[c] = "connect"
  /\ IF sock # Nobody /\ Listening(sock)
     THEN conn' = [conn EXCEPT ![c] = sock] /\ Goto(c, "waiting")
     ELSE UNCHANGED conn /\ Goto(c, "noReply")
  /\ UNCHANGED <<daemonSide, setting, build, command, asks, world>>

(* A daemon that ends takes its threads, and the connections, with it.      *)
Hangup(c) ==
  /\ at[c] \in Applying \cup {"waiting", "exiting"}
  /\ ~Alive(conn[c])
  /\ Goto(c, "noReply")
  /\ UNCHANGED <<daemonSide, setting, build, clientSide>>

Reaches(c, requests) == /\ at[c] = "waiting" /\ asks[c] \in requests
                        /\ at[conn[c]] = "serving"

(* What the first ping finds out (check_running_daemon): a daemon of        *)
(* another build is replaced unless its vault is unlocked.                  *)
UpToDate(c) == build[conn[c]] = build[c]
Defer(c)    == ~UpToDate(c) /\ conn[c] \in unlocked

HandlePing(c) ==
  /\ Reaches(c, {"ping", "poll"})
  /\ Goto(c, IF asks[c] = "poll" \/ UpToDate(c) \/ Defer(c) THEN "ensured" ELSE "replace")
  /\ UNCHANGED <<daemonSide, setting, build, clientSide>>

HandleUnlock(c) ==
  /\ Reaches(c, {"unlock"})
  /\ unlocked' = unlocked \cup {conn[c]} /\ Goto(c, "replied")
  /\ UNCHANGED <<sock, agentSock, agentOn, setting, build, clientSide>>

HandleLock(c) ==
  /\ Reaches(c, {"lock"})
  /\ unlocked' = unlocked \ {conn[c]} /\ Goto(c, "replied")
  /\ UNCHANGED <<sock, agentSock, agentOn, setting, build, clientSide>>

HandleApply(c) ==
  /\ Reaches(c, {"apply"}) /\ Goto(c, "apply")
  /\ UNCHANGED <<daemonSide, setting, build, clientSide>>

(* Mutant: a daemon that stops leaves the agent's socket.                   *)
HandleStopKeeping(c) ==
  /\ Reaches(c, {"stop", "retire"})
  /\ unlocked' = unlocked \ {conn[c]} /\ Goto(c, "exiting")
  /\ UNCHANGED <<sock, agentSock, agentOn, setting, build, clientSide>>

(* stop: lock, and remove the agent's socket by its path.                   *)
HandleStop(c) ==
  /\ Reaches(c, {"stop", "retire"})
  /\ unlocked' = unlocked \ {conn[c]} /\ agentSock' = Nobody /\ Goto(c, "exiting")
  /\ UNCHANGED <<sock, agentOn, setting, build, clientSide>>

(* The other threads have gone on serving until now: reply, and exit.  The  *)
(* daemon's own socket stays behind, and so does the agent's when a thread  *)
(* has bound it again.  (A client that replaces the daemon sleeps 50 ms     *)
(* first: it does not overtake the exit.)                                   *)
Exit(c) ==
  /\ at[c] = "exiting" /\ Alive(conn[c])
  /\ unlocked' = unlocked \ {conn[c]}
  /\ at' = [at EXCEPT ![conn[c]] = "dead",
                      ![c] = IF asks[c] = "retire" THEN "spawn" ELSE "replied"]
  /\ UNCHANGED <<sock, agentSock, agentOn, setting, build, clientSide>>

(***************************************************************************)
(* What clients do                                                         *)
(***************************************************************************)
Ask(c, request) ==
  /\ asks' = [asks EXCEPT ![c] = request]
  /\ conn' = [conn EXCEPT ![c] = Nobody]
  /\ Goto(c, "connect")

Ensuring(c) == /\ asks[c] \in {"ping", "retire", "poll"}
               /\ at[c] \notin {"ensured", "done"}

(* "ensure" and "unlock" look for a daemon first; "lock" and "stop" speak   *)
(* to the one that happens to run; "set" saves the setting, then tells it.  *)
StartCommand(c) ==
  /\ at[c] = "idle"
  /\ CASE command[c] \in {"ensure", "unlock"} ->
            /\ world.starters = "one" => \A other \in Clients : ~Ensuring(other)
            /\ Ask(c, "ping") /\ UNCHANGED setting
       [] command[c] = "set" -> setting' = ~setting /\ Ask(c, "apply")
       [] OTHER              -> Ask(c, command[c]) /\ UNCHANGED setting
  /\ UNCHANGED <<daemonSide, build, command, world>>

(* Mutant: the outdated daemon is not told to stop.                         *)
ReplaceSilently(c) ==
  /\ at[c] = "replace" /\ Goto(c, "spawn")
  /\ UNCHANGED <<daemonSide, setting, build, clientSide>>

Replace(c) ==
  /\ at[c] = "replace" /\ Ask(c, "retire")
  /\ UNCHANGED <<daemonSide, setting, build, command, world>>

(* No daemon answered the ping, or the outdated one has ended: start one of *)
(* this client's build, and poll it.                                        *)
NotBorn == {d \in Daemons : at[d] = "unborn"}

Spawn(c) ==
  /\ \/ at[c] = "spawn"
     \/ at[c] = "noReply" /\ asks[c] \in {"ping", "retire"}
  /\ NotBorn # {}
  /\ LET d == CHOOSE d \in NotBorn : TRUE IN      \* whichever
       /\ at' = [at EXCEPT ![d] = "check", ![c] = "connect"]
       /\ build' = [build EXCEPT ![d] = build[c]]
  /\ asks' = [asks EXCEPT ![c] = "poll"]
  /\ conn' = [conn EXCEPT ![c] = Nobody]
  /\ UNCHANGED <<daemonSide, setting, command, world>>

(* Mutant: a client polls until a daemon answers.                           *)
PollForever(c) ==
  /\ at[c] = "noReply" /\ asks[c] = "poll"
  /\ Ask(c, "poll")
  /\ UNCHANGED <<daemonSide, setting, build, command, world>>

(* Thirty polls, and then the client goes on as if there were a daemon.     *)
Poll(c) ==
  /\ at[c] = "noReply" /\ asks[c] = "poll"
  /\ \E d \in Daemons : at[d] \in Booting
  /\ \/ Ask(c, "poll")
     \/ world.boot = "slow" /\ Goto(c, "ensured") /\ UNCHANGED <<conn, asks>>
  /\ UNCHANGED <<daemonSide, setting, build, command, world>>

StopPolling(c) ==
  /\ at[c] = "noReply" /\ asks[c] = "poll"
  /\ \A d \in Daemons : at[d] \notin Booting
  /\ Goto(c, "ensured")
  /\ UNCHANGED <<daemonSide, setting, build, clientSide>>

Ensured(c) ==
  /\ at[c] = "ensured"
  /\ IF command[c] = "unlock" THEN Ask(c, "unlock")
     ELSE Goto(c, "done") /\ UNCHANGED <<conn, asks>>
  /\ UNCHANGED <<daemonSide, setting, build, command, world>>

EndCommand(c) ==
  /\ \/ at[c] = "replied"
     \/ at[c] = "noReply" /\ asks[c] \notin {"ping", "retire", "poll"}
  /\ Goto(c, "done")
  /\ UNCHANGED <<daemonSide, setting, build, clientSide>>

BootStep(d) == Check(d) \/ RemoveStale(d) \/ Bind(d) \/ Chmod(d)
ApplyStep(p) ==
  /\ at[p] \in Applying /\ Alive(Runs(p))
  /\ \/ Apply(p) \/ AgentRemove(p) \/ AgentBind(p)
     \/ AgentStop(p) \/ AgentUnlink(p)
ServeStep(c) == \/ HandlePing(c) \/ HandleUnlock(c) \/ HandleLock(c)
                \/ HandleApply(c) \/ HandleStop(c) \/ Exit(c)
ClientStep(c) ==
  \/ StartCommand(c) \/ Connect(c) \/ Hangup(c) \/ Replace(c)
  \/ Spawn(c) \/ Poll(c) \/ StopPolling(c) \/ Ensured(c) \/ EndCommand(c)

LifeNext ==
  \/ \E d \in Daemons : BootStep(d) \/ ApplyStep(d)
  \/ \E c \in Clients : ClientStep(c) \/ ServeStep(c) \/ ApplyStep(c)

(***************************************************************************)
(* Properties                                                              *)
(***************************************************************************)
LifeTypeOK ==
  /\ {sock, agentSock} \subseteq Daemons \cup {Nobody}
  /\ setting \in BOOLEAN
  /\ unlocked \subseteq Daemons /\ agentOn \subseteq Daemons
  /\ conn \in [Clients -> Daemons \cup {Nobody}]

(* A vault can only be unlocked in the daemon the socket's path leads to:   *)
(* `omawarden lock` and `stop` have no other way to reach it (daemon.rs,    *)
(* run_daemon_server, ensure_daemon_running).  It takes that one client     *)
(* looks for a daemon at a time and that daemons start within its polls;    *)
(* two starters at once may leave a daemon without a path.                  *)
NoHiddenVault == (world.starters = "one" /\ world.boot = "prompt") => unlocked \subseteq {sock}

Quiet == \A p \in Clients \cup Daemons : at[p] \in {"idle", "done", "unborn", "serving", "dead"}

(* Whoever else was starting, replacing or polling a daemon, once things    *)
(* are quiet again after a search nobody stopped, a daemon serves the path. *)
SearchFinds ==
  (/\ Quiet
   /\ \E c \in Clients : at[c] = "done" /\ command[c] \in {"ensure", "unlock"}
   /\ \A c \in Clients : command[c] # "stop")
  => sock # Nobody /\ at[sock] = "serving"

(* The SSH agent follows its setting although daemons start, are replaced   *)
(* and end while it is changed: once things are quiet, the daemon at the    *)
(* path has its agent's socket bound exactly if the setting says so, for    *)
(* one searcher and one change at a time.                                   *)
OneSetter == \A c, e \in Clients : command[c] = "set" /\ command[e] = "set" => c = e
AgentFollowsSetting ==
  (/\ Quiet /\ OneSetter /\ world = [starters |-> "one", boot |-> "prompt"]
   /\ sock # Nobody /\ at[sock] = "serving")
  => agentSock = IF setting THEN sock ELSE Nobody

(* Every client ends: none waits for a daemon for ever.                     *)
CommandsEnded == \A c \in Clients : at[c] = "done"
=============================================================================
