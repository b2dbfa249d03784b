------------------------- MODULE DaemonLifecycle_proofs -------------------------
(* Theorems about the daemons of DaemonLifecycle, for every set of clients, *)
(* commands, builds and daemons: where a vault can be unlocked, that a      *)
(* search finds a daemon, and that the agent follows its setting.           *)
EXTENDS DaemonLifecycle, TLAPS

Commands == {"ensure", "unlock", "set", "lock", "stop", "none"}
Looking  == {"ping", "retire", "poll"}
Requests == Looking \cup {"none", "unlock", "lock", "apply", "stop"}
Worlds   == [starters : {"one", "many"}, boot : {"prompt", "slow"}]

LifeSpec ==
  /\ LifeInit([Clients -> Commands], [Clients \cup Daemons -> Builds], Worlds)
  /\ [][LifeNext]_lifeVars

-----------------------------------------------------------------------------
(* Types, and what the place of a process says of it.                       *)
DaemonPlaces == Booting \cup {"unborn", "serving", "dead"}
ClientPlaces == Applying \cup {"idle", "connect", "waiting", "exiting", "noReply",
                               "replace", "spawn", "ensured", "replied", "done"}
Typed ==
  /\ at \in [Clients \cup Daemons -> DaemonPlaces \cup ClientPlaces]
  /\ conn \in [Clients -> Daemons \cup {Nobody}]
  /\ asks \in [Clients -> Requests]
  /\ command \in [Clients -> Commands] /\ world \in Worlds
  /\ {sock, agentSock} \subseteq Daemons \cup {Nobody}
  /\ setting \in BOOLEAN
  /\ unlocked \subseteq Daemons /\ agentOn \subseteq Daemons

Placed(c) ==
  /\ at[c] \in ClientPlaces
  /\ at[c] = "idle" => asks[c] = "none"
  /\ at[c] = "replace" => asks[c] = "ping"
  /\ at[c] = "spawn" => asks[c] = "retire"
  /\ at[c] = "replied" => asks[c] \notin Looking
  /\ at[c] \in Applying => asks[c] = "apply"
  /\ at[c] = "exiting" => asks[c] \in {"stop", "retire"}
  /\ at[c] \in Applying \cup {"exiting"} => at[conn[c]] \in {"serving", "dead"}
  /\ at[c] \in Applying \cup {"waiting", "exiting"} => conn[c] \in Daemons
  /\ command[c] \notin {"ensure", "unlock"} => asks[c] \notin Looking
  /\ asks[c] = "stop" => command[c] = "stop"

Rooted(d) ==
  /\ at[d] \in DaemonPlaces
  /\ d \in agentOn => at[d] \in {"serving", "dead"}

Base == /\ Typed
        /\ \A c \in Clients : Placed(c)
        /\ \A d \in Daemons : Rooted(d)

LEMMA BaseInit ==
  LifeInit([Clients -> Commands], [Clients \cup Daemons -> Builds], Worlds) => Base
<1> SUFFICES ASSUME LifeInit([Clients -> Commands], [Clients \cup Daemons -> Builds],
                             Worlds)
             PROVE  Base
  OBVIOUS
<1>1. (CHOOSE d \in Daemons : TRUE) \in Daemons
  BY LifecycleAssumption
<1>2. Typed
  BY <1>1, LifecycleAssumption DEF LifeInit, Typed, DaemonPlaces, ClientPlaces,
     Booting, Requests
<1>3. ASSUME NEW c \in Clients PROVE Placed(c)
  BY LifecycleAssumption DEF LifeInit, Placed, ClientPlaces, Applying, Looking
<1>4. ASSUME NEW d \in Daemons PROVE Rooted(d)
  BY <1>1, LifecycleAssumption DEF LifeInit, Rooted, DaemonPlaces
<1> QED BY <1>2, <1>3, <1>4 DEF Base

(* The cases of what apply() finds and of what a command starts with.       *)
LEMMA ApplyCases ==
  ASSUME NEW p, Apply(p)
  PROVE  /\ at[p] = "apply"
         /\ UNCHANGED <<daemonSide, setting, build, clientSide>>
         /\ \/ setting /\ Runs(p) \notin agentOn /\ Goto(p, "agentRemove")
            \/ ~setting /\ Runs(p) \in agentOn /\ Goto(p, "agentStop")
            \/ (setting <=> Runs(p) \in agentOn) /\ Goto(p, Applied(p))
  BY Zenon DEF Apply

LEMMA StartCases ==
  ASSUME NEW c, StartCommand(c)
  PROVE  /\ at[c] = "idle"
         /\ UNCHANGED <<daemonSide, build, command, world>>
         /\ \/ /\ command[c] \in {"ensure", "unlock"}
               /\ world.starters = "one" => \A other \in Clients : ~Ensuring(other)
               /\ Ask(c, "ping") /\ UNCHANGED setting
            \/ command[c] = "set" /\ setting' = ~setting /\ Ask(c, "apply")
            \/ /\ command[c] \notin {"ensure", "unlock", "set"}
               /\ Ask(c, command[c]) /\ UNCHANGED setting
  BY Zenon DEF StartCommand

LEMMA SpawnStarts ==
  ASSUME NEW c, Spawn(c)
  PROVE  \E d \in Daemons : /\ at[d] = "unborn"
                            /\ at' = [at EXCEPT ![d] = "check", ![c] = "connect"]
<1> DEFINE d == CHOOSE e \in NotBorn : TRUE
<1>1. d \in NotBorn
  BY DEF Spawn
<1>2. at' = [at EXCEPT ![d] = "check", ![c] = "connect"]
  BY DEF Spawn
<1> QED BY <1>1, <1>2 DEF NotBorn

(* A daemon's own steps.                                                    *)
DaemonStep(d) == BootStep(d) \/ ApplyStep(d)

LEMMA DaemonMoves ==
  ASSUME Base, NEW d \in Daemons, DaemonStep(d)
  PROVE  /\ UNCHANGED <<setting, unlocked, build, clientSide>>
         /\ \/ /\ at[d] = "check" /\ UNCHANGED <<sock, agentSock, agentOn>>
               /\ Goto(d, IF sock = Nobody THEN "bind" ELSE "remove")
            \/ /\ at[d] = "remove" /\ sock' = Nobody /\ UNCHANGED <<agentSock, agentOn>>
               /\ Goto(d, "bind")
            \/ /\ at[d] = "bind" /\ sock = Nobody /\ sock' = d
               /\ UNCHANGED <<agentSock, agentOn>> /\ Goto(d, "chmod")
            \/ /\ at[d] = "bind" /\ sock # Nobody /\ UNCHANGED <<sock, agentSock, agentOn>>
               /\ Goto(d, "dead")
            \/ /\ at[d] = "chmod" /\ UNCHANGED <<sock, agentSock, agentOn>>
               /\ Goto(d, IF sock = Nobody THEN "dead" ELSE "apply")
            \/ /\ at[d] = "apply" /\ UNCHANGED <<sock, agentSock, agentOn>>
               /\ \/ setting /\ Goto(d, "agentRemove")
                  \/ ~setting /\ Goto(d, "serving")
            \/ /\ at[d] = "agentRemove" /\ agentSock' = Nobody
               /\ UNCHANGED <<sock, agentOn>> /\ Goto(d, "agentBind")
            \/ /\ at[d] = "agentBind" /\ UNCHANGED sock /\ Goto(d, "serving")
               /\ \/ agentSock = Nobody /\ agentSock' = d /\ agentOn' = agentOn \cup {d}
                  \/ agentSock # Nobody /\ UNCHANGED <<agentSock, agentOn>>
<1> USE DEF daemonSide, clientSide
<1>1. Runs(d) = d /\ Applied(d) = "serving"
  BY DEF Runs, Applied
<1>2. at[d] \notin {"agentStop", "agentUnlink"}
        /\ (at[d] \in {"apply", "agentRemove", "agentBind"} => d \notin agentOn)
  BY DEF Base, Rooted, DaemonPlaces, Booting
<1>3. CASE BootStep(d)
  BY <1>3 DEF BootStep, Check, RemoveStale, Bind, Chmod
<1>4. CASE Apply(d)
  BY <1>1, <1>2, <1>4, ApplyCases
<1>5. CASE AgentRemove(d) \/ AgentBind(d)
  BY <1>1, <1>5 DEF AgentRemove, AgentBind
<1>6. CASE AgentStop(d) \/ AgentUnlink(d)
  BY <1>2, <1>6 DEF AgentStop, AgentUnlink
<1> QED BY <1>3, <1>4, <1>5, <1>6 DEF DaemonStep, ApplyStep

LEMMA DaemonStepBase ==
  ASSUME Base, NEW d \in Daemons, DaemonStep(d)
  PROVE  Base'
<1> USE LifecycleAssumption DEF clientSide
<1>1. /\ at' = [at EXCEPT ![d] = at'[d]]
      /\ at[d] \in Booting /\ at'[d] \in DaemonPlaces
      /\ d \in agentOn' => at'[d] = "serving"
  BY DaemonMoves DEF Base, Typed, Rooted, Goto, Booting, DaemonPlaces
<1>2. /\ sock' \in {sock, Nobody, d} /\ agentSock' \in {agentSock, Nobody, d}
      /\ agentOn' \subseteq agentOn \cup {d}
      /\ UNCHANGED <<setting, unlocked, clientSide>>
  BY DaemonMoves
<1>3. Typed'
  BY <1>1, <1>2 DEF Base, Typed
<1>4. ASSUME NEW c \in Clients PROVE Placed(c)'
  <2>1. /\ at'[c] = at[c]
        /\ at[c] \in Applying \cup {"exiting"} => at'[conn[c]] = at[conn[c]]
    BY <1>1 DEF Base, Typed, Placed, Booting
  <2> QED BY <1>2, <2>1 DEF Base, Placed
<1>5. ASSUME NEW e \in Daemons PROVE Rooted(e)'
  BY <1>1, <1>2 DEF Base, Typed, Rooted
<1> QED BY <1>3, <1>4, <1>5 DEF Base

(* A client's own steps, those of its thread in the daemon included.        *)
CallerStep(c) == ClientStep(c) \/ ServeStep(c) \/ ApplyStep(c)

LEMMA CallerTyped ==
  ASSUME Base, NEW c \in Clients, CallerStep(c)
  PROVE  Typed'
<1> USE LifecycleAssumption DEF Base, Typed, Placed, Goto, Ask, daemonSide,
        clientSide, ClientPlaces, DaemonPlaces
<1>1. CASE StartCommand(c)
  <2>1. setting' \in BOOLEAN
    BY <1>1, StartCases, Zenon DEF Base, Typed
  <2>2. asks' \in [Clients -> Requests]
    BY <1>1, StartCases DEF Requests, Commands, Looking
  <2>3. /\ at' \in [Clients \cup Daemons -> DaemonPlaces \cup ClientPlaces]
        /\ conn' \in [Clients -> Daemons \cup {Nobody}]
        /\ UNCHANGED <<sock, agentSock, unlocked, agentOn, command, world>>
    BY <1>1, StartCases
  <2> QED BY <2>1, <2>2, <2>3
<1>2. CASE Connect(c)
  BY <1>2 DEF Connect
<1>7. CASE Hangup(c) \/ EndCommand(c)
  BY <1>7 DEF Hangup, EndCommand
<1>3. CASE Replace(c) \/ Poll(c) \/ StopPolling(c) \/ Ensured(c)
  BY <1>3 DEF Replace, Poll, StopPolling, Ensured, Requests, Looking
<1>4. CASE Spawn(c)
  BY <1>4 DEF Spawn, NotBorn, Requests, Looking, Booting
<1>5. CASE ServeStep(c)
  BY <1>5 DEF ServeStep, HandlePing, HandleUnlock, HandleLock, HandleApply,
     HandleStop, Exit, Reaches, Applying
<1>6. CASE ApplyStep(c)
  <2>1. CASE Apply(c)
    BY <2>1, ApplyCases DEF Applying, Applied
  <2> QED
    BY <1>6, <2>1 DEF ApplyStep, AgentRemove, AgentBind, AgentStop, AgentUnlink,
       Applying, Applied, Runs
<1> QED BY <1>1, <1>2, <1>3, <1>4, <1>5, <1>6, <1>7
   DEF CallerStep, ClientStep

(* A client leaves the others and the socket alone; a daemon it starts has  *)
(* not been there before, and one it ends was serving.                      *)
LEMMA CallerAlone ==
  ASSUME Base, NEW c \in Clients, CallerStep(c)
  PROVE  /\ \A e \in Clients \ {c} : /\ at'[e] = at[e] /\ asks'[e] = asks[e]
                                     /\ conn'[e] = conn[e]
         /\ \A d \in Daemons : \/ at'[d] = at[d]
                               \/ Spawn(c) /\ at[d] = "unborn" /\ at'[d] = "check"
                               \/ /\ Exit(c) /\ d = conn[c]
                                  /\ at[d] = "serving" /\ at'[d] = "dead"
         /\ sock' = sock /\ command' = command /\ world' = world
<1> USE LifecycleAssumption DEF Base, Typed, Placed, Goto, Ask, daemonSide,
        clientSide
<1>1. CASE StartCommand(c)
  BY <1>1, StartCases
<1>2. CASE Connect(c)
  BY <1>2 DEF Connect
<1>3. CASE Hangup(c) \/ EndCommand(c)
  BY <1>3 DEF Hangup, EndCommand
<1>4. CASE Replace(c) \/ Poll(c) \/ StopPolling(c) \/ Ensured(c)
  BY <1>4 DEF Replace, Poll, StopPolling, Ensured
<1>5. CASE Spawn(c)
  <2>1. UNCHANGED <<sock, command, world>> /\ asks' = [asks EXCEPT ![c] = "poll"]
          /\ conn' = [conn EXCEPT ![c] = Nobody]
    BY <1>5 DEF Spawn
  <2> QED BY <1>5, <2>1, SpawnStarts
<1>6. CASE ServeStep(c)
  <2>1. CASE Exit(c)
    <3>1. conn[c] \in Daemons /\ at[conn[c]] = "serving"
      BY <2>1 DEF Exit, Alive, Booting
    <3> QED BY <2>1, <3>1 DEF Exit
  <2>2. CASE ~Exit(c)
    BY <1>6, <2>2 DEF ServeStep, HandlePing, HandleUnlock, HandleLock, HandleApply,
       HandleStop, Reaches
  <2> QED BY <2>1, <2>2
<1>7. CASE ApplyStep(c)
  <2>1. CASE Apply(c)
    BY <2>1, ApplyCases
  <2> QED
    BY <1>7, <2>1 DEF ApplyStep, AgentRemove, AgentBind, AgentStop, AgentUnlink
<1> QED BY <1>1, <1>2, <1>3, <1>4, <1>5, <1>6, <1>7 DEF CallerStep, ClientStep

LEMMA CallerPlaced ==
  ASSUME Base, NEW c \in Clients, CallerStep(c)
  PROVE  Placed(c)'
<1> USE LifecycleAssumption DEF Base, Typed, Placed, Goto, Ask, daemonSide,
        clientSide, ClientPlaces, Applying, Looking
<1>1. CASE StartCommand(c)
  BY <1>1, StartCases DEF Commands
<1>2. CASE Connect(c)
  BY <1>2 DEF Connect
<1>3. CASE Hangup(c) \/ EndCommand(c)
  BY <1>3 DEF Hangup, EndCommand
<1>4. CASE Replace(c) \/ Poll(c) \/ StopPolling(c) \/ Ensured(c)
  BY <1>4 DEF Replace, Poll, StopPolling, Ensured
<1>5. CASE Spawn(c)
  BY <1>5 DEF Spawn, NotBorn
<1>6. CASE HandlePing(c) \/ HandleUnlock(c) \/ HandleLock(c) \/ HandleApply(c)
  BY <1>6 DEF HandlePing, HandleUnlock, HandleLock, HandleApply, Reaches
<1>7. CASE HandleStop(c) \/ Exit(c)
  BY <1>7 DEF HandleStop, Exit, Reaches, Alive, Booting
<1>8. CASE Apply(c)
  BY <1>8, ApplyCases DEF Applied
<1>9. CASE AgentRemove(c) \/ AgentBind(c) \/ AgentStop(c) \/ AgentUnlink(c)
  BY <1>9 DEF AgentRemove, AgentBind, AgentStop, AgentUnlink, Applied
<1> QED BY <1>1, <1>2, <1>3, <1>4, <1>5, <1>6, <1>7, <1>8, <1>9
   DEF CallerStep, ClientStep, ServeStep, ApplyStep

LEMMA CallerBase ==
  ASSUME Base, NEW c \in Clients, CallerStep(c)
  PROVE  Base'
<1>1. Typed'
  BY CallerTyped
<1>2. ASSUME NEW e \in Clients PROVE Placed(e)'
  <2>1. CASE e = c
    BY <2>1, CallerPlaced
  <2>2. CASE e # c
    BY <2>2, CallerAlone DEF Base, Placed, Typed
  <2> QED BY <2>1, <2>2
<1>3. ASSUME NEW d \in Daemons PROVE Rooted(d)'
  <2>1. d \in agentOn' => d \in agentOn \/ at'[d] \in {"serving", "dead"}
    <3>1. CASE d \notin agentOn /\ d \in agentOn'
      <4>1. AgentBind(c) /\ d = conn[c]
        BY <3>1, StartCases, ApplyCases, LifecycleAssumption
           DEF CallerStep, ClientStep, ServeStep, ApplyStep, Connect, Hangup,
           Replace, Spawn, Poll, StopPolling, Ensured, EndCommand, HandlePing,
           HandleUnlock, HandleLock, HandleApply, HandleStop, Exit, AgentRemove,
           AgentBind, AgentStop, AgentUnlink, Runs, daemonSide
      <4> QED BY <4>1, CallerAlone DEF AgentBind, Base, Placed, Applying
    <3> QED BY <3>1
  <2> QED BY <2>1, CallerAlone DEF Base, Rooted, DaemonPlaces, Booting
<1> QED BY <1>1, <1>2, <1>3 DEF Base

LEMMA BaseNext == Base /\ [LifeNext]_lifeVars => Base'
<1> SUFFICES ASSUME Base, [LifeNext]_lifeVars PROVE Base'
  OBVIOUS
<1>1. CASE UNCHANGED lifeVars
  BY <1>1 DEF lifeVars, Base, Typed, Placed, Rooted
<1>2. CASE LifeNext
  BY <1>2, DaemonStepBase, CallerBase DEF LifeNext, DaemonStep, CallerStep
<1> QED BY <1>1, <1>2

LEMMA BaseAlways == LifeSpec => []Base
  BY BaseInit, BaseNext, PTL DEF LifeSpec

(* Sockets, vaults and agents are daemons', whatever the clients ask, and   *)
(* a client is connected to a daemon or to nobody.                          *)
THEOREM LifeTyped == LifeSpec => []LifeTypeOK
<1>1. Base => LifeTypeOK
  BY DEF Base, Typed, LifeTypeOK
<1> QED BY <1>1, BaseAlways, PTL

-----------------------------------------------------------------------------
(* One client looks for a daemon at a time, and a daemon starts within its  *)
(* polls.  Then one daemon is alive at most, a daemon that listens is the   *)
(* one at the path, one that starts is still polled for, and the client     *)
(* that is about to start one leaves none behind.                           *)
Alone == world.starters = "one" /\ world.boot = "prompt"

OneAlive  == \A d, e \in Daemons : Alive(d) /\ Alive(e) => d = e
AtPath    == \A d \in Daemons : Listening(d) => sock = d
OneLooks  == \A c, e \in Clients : Ensuring(c) /\ Ensuring(e) => c = e
PolledFor == \A d \in Daemons : at[d] \in Booting =>
               \E c \in Clients : Ensuring(c) /\ asks[c] = "poll"
Starts(c) ==
  \/ at[c] = "spawn"
  \/ at[c] = "noReply" /\ asks[c] \in {"ping", "retire"}
NoneLeft  == \A c \in Clients : Starts(c) => \A d \in Daemons : ~Alive(d)
Found     == \A c \in Clients :
               at[c] \in {"waiting", "exiting"} /\ asks[c] \in {"ping", "retire"}
                 => \A d \in Daemons : Alive(d) => d = conn[c]
Single == OneAlive /\ AtPath /\ OneLooks /\ PolledFor /\ NoneLeft /\ Found

Unlocked == \A d \in unlocked : at[d] = "serving"

LEMMA DaemonSingle ==
  ASSUME Base, Single, NEW d \in Daemons, DaemonStep(d)
  PROVE  Single'
<1>1. /\ at[d] \in Booting /\ at' = [at EXCEPT ![d] = at'[d]]
      /\ at'[d] \in Booting \cup {"serving", "dead"}
      /\ UNCHANGED <<asks, conn>>
  BY DaemonMoves DEF Base, Typed, Goto, Booting, clientSide
<1>2. /\ \A c \in Clients : at'[c] = at[c]
      /\ \A e \in Daemons \ {d} : at'[e] = at[e] /\ ~Alive(e)
      /\ \A e \in Daemons : Alive(e)' => Alive(e)
  BY <1>1, LifecycleAssumption DEF Base, Typed, Single, OneAlive, Alive
<1>3. OneAlive' /\ OneLooks' /\ PolledFor' /\ NoneLeft' /\ Found'
  BY <1>1, <1>2 DEF Single, OneAlive, OneLooks, PolledFor, NoneLeft, Found,
     Ensuring, Starts, Alive
<1>4. AtPath'
  <2>1. Listening(d)' => sock' = d
    BY DaemonMoves DEF Single, AtPath, Listening, Goto, Base, Typed
  <2> QED BY <1>2, <2>1 DEF AtPath, Listening, Alive, Booting
<1> QED BY <1>3, <1>4 DEF Single

(* A step of a client that starts no daemon keeps all this, if what it      *)
(* looks for, polls for, starts and has found is as it must be.             *)
LEMMA SingleKept ==
  ASSUME Base, Single, NEW c \in Clients, CallerStep(c), ~Spawn(c),
         Ensuring(c)' => Ensuring(c) \/ \A e \in Clients : ~Ensuring(e),
         \A d \in Daemons : at[d] \in Booting /\ Ensuring(c) /\ asks[c] = "poll"
                               => Ensuring(c)' /\ asks'[c] = "poll",
         Starts(c)' => \A d \in Daemons : ~Alive(d)',
         at'[c] \in {"waiting", "exiting"} /\ asks'[c] \in {"ping", "retire"}
           => \A d \in Daemons : Alive(d)' => d = conn'[c]
  PROVE  Single'
<1>1. \A d \in Daemons : at'[d] = at[d] \/ (at[d] = "serving" /\ at'[d] = "dead")
  BY CallerAlone
<1>2. /\ \A e \in Clients \ {c} : /\ at'[e] = at[e] /\ asks'[e] = asks[e]
                                 /\ conn'[e] = conn[e]
      /\ sock' = sock
  BY CallerAlone
<1>3. OneAlive' /\ AtPath'
  BY <1>1, <1>2 DEF Single, OneAlive, AtPath, Alive, Listening, Booting
<1>4. OneLooks' /\ PolledFor'
  BY <1>1, <1>2 DEF Single, OneLooks, PolledFor, Ensuring, Booting
<1>5. NoneLeft' /\ Found'
  BY <1>1, <1>2 DEF Single, NoneLeft, Found, Starts, Alive, Booting
<1> QED BY <1>3, <1>4, <1>5 DEF Single

(* It leaves none behind that it starts.                                    *)
LEMMA SpawnSingle ==
  ASSUME Base, Single, NEW c \in Clients, Spawn(c)
  PROVE  Single'
<1>1. PICK n \in Daemons : /\ at[n] = "unborn"
                           /\ at' = [at EXCEPT ![n] = "check", ![c] = "connect"]
  BY SpawnStarts
<1>2. /\ asks' = [asks EXCEPT ![c] = "poll"] /\ conn' = [conn EXCEPT ![c] = Nobody]
      /\ sock' = sock
  BY DEF Spawn, daemonSide
<1>8. Starts(c)
  BY Zenon DEF Spawn, Starts
<1>3. /\ at'[n] = "check" /\ at'[c] = "connect" /\ asks'[c] = "poll"
      /\ \A d \in Daemons \ {n} : at'[d] = at[d]
      /\ \A e \in Clients \ {c} : /\ at'[e] = at[e] /\ asks'[e] = asks[e]
                                 /\ conn'[e] = conn[e]
  BY <1>1, <1>2, LifecycleAssumption DEF Base, Typed
<1>4. /\ Ensuring(c) /\ \A e \in Clients \ {c} : ~Ensuring(e)
      /\ \A d \in Daemons : ~Alive(d)
  BY <1>8 DEF Base, Placed, Single, NoneLeft, OneLooks, Starts, Ensuring
<1>5. OneAlive' /\ AtPath'
  BY <1>3, <1>4 DEF OneAlive, AtPath, Alive, Listening, Booting
<1>6. OneLooks' /\ PolledFor'
  BY <1>3, <1>4 DEF OneLooks, PolledFor, Ensuring, Alive, Booting
<1>7. \A e \in Clients \ {c} :
        /\ at[e] # "spawn"
        /\ asks[e] \in {"ping", "retire"} => at[e] \in {"ensured", "done"}
  BY <1>4 DEF Base, Placed, Ensuring
<1>9. \A e \in Clients :
        /\ at'[e] # "spawn"
        /\ asks'[e] \in {"ping", "retire"} => at'[e] \in {"ensured", "done"}
  BY <1>3, <1>7
<1>10. NoneLeft' /\ Found'
  <2>1. \A e \in Clients : ~Starts(e)'
    BY <1>9 DEF Starts
  <2>2. NoneLeft'
    BY <2>1 DEF NoneLeft
  <2>3. Found'
    BY <1>9 DEF Found
  <2> QED BY <2>2, <2>3
<1> QED BY <1>5, <1>6, <1>10 DEF Single

LEMMA CallerSingle ==
  ASSUME Base, Alone, Single, NEW c \in Clients, CallerStep(c)
  PROVE  Single'
<1> USE LifecycleAssumption DEF Base, Typed, Placed, Goto, Ask, Ensuring,
        Starts
<1>1. CASE StartCommand(c)
  <2>1. at[c] = "idle" /\ asks[c] = "none" /\ at'[c] = "connect"
    BY <1>1, StartCases
  <2>2. asks'[c] \in Looking => \A e \in Clients : ~Ensuring(e)
    BY <1>1, StartCases DEF Alone, Commands, Looking
  <2> QED BY <1>1, <2>1, <2>2, SingleKept DEF Looking, Spawn
<1>2. CASE Connect(c)
  <2>1. /\ at[c] = "connect" /\ asks' = asks
        /\ \A d \in Daemons : at'[d] = at[d]
        /\ \/ sock # Nobody /\ Listening(sock) /\ conn'[c] = sock /\ at'[c] = "waiting"
           \/ (sock = Nobody \/ ~Listening(sock)) /\ at'[c] = "noReply"
    BY <1>2 DEF Connect
  <2>2. asks[c] \in {"ping", "retire"} => \A d \in Daemons : Alive(d) => Listening(d)
    BY <2>1 DEF Single, OneLooks, PolledFor, Alive, Listening
  <2>3. asks[c] \in {"ping", "retire"} => \A d \in Daemons : Alive(d) => sock = d /\ Listening(d)
    BY <2>2 DEF Single, AtPath
  <2> QED BY <2>1, <2>3, SingleKept DEF Alive, Spawn
<1>3. CASE Hangup(c)
  <2>1. /\ at[c] \in Applying \cup {"waiting", "exiting"} /\ ~Alive(conn[c])
        /\ at' = [at EXCEPT ![c] = "noReply"] /\ asks' = asks
    BY <1>3 DEF Hangup, clientSide
  <2>2. asks[c] \in {"ping", "retire"} => \A d \in Daemons : ~Alive(d)
    BY <2>1 DEF Single, Found, Applying
  <2>3. /\ at'[c] = "noReply" /\ ~Spawn(c)
        /\ \A d \in Daemons : at'[d] = at[d]
    BY <2>1 DEF Spawn, Applying
  <2> QED BY <2>1, <2>2, <2>3, SingleKept DEF Alive, Applying
<1>4. CASE EndCommand(c) \/ Ensured(c) \/ Replace(c)
  <2>1. /\ at[c] \in {"replied", "noReply", "ensured", "replace"}
        /\ \A d \in Daemons : at'[d] = at[d]
        /\ \/ at'[c] = "connect" /\ asks'[c] = "unlock"
           \/ at'[c] = "connect" /\ at[c] = "replace" /\ asks'[c] = "retire" /\ asks[c] = "ping"
           \/ at'[c] = "done"
        /\ at[c] \in {"replied", "noReply"} => asks[c] \notin Looking
        /\ at[c] = "ensured" => ~Ensuring(c)
    BY <1>4 DEF EndCommand, Ensured, Replace, clientSide, Looking
  <2>2. ~Spawn(c)
    BY <2>1 DEF Spawn, Looking
  <2> QED BY <2>1, <2>2, SingleKept DEF Looking
<1>5. CASE Poll(c) \/ StopPolling(c)
  <2>1. /\ at[c] = "noReply" /\ asks[c] = "poll" /\ \A d \in Daemons : at'[d] = at[d]
        /\ \/ at'[c] = "connect" /\ asks'[c] = "poll"
           \/ at'[c] = "ensured" /\ \A d \in Daemons : at[d] \notin Booting
    BY <1>5 DEF Poll, StopPolling, clientSide, Alone
  <2>2. ~Spawn(c)
    BY <2>1 DEF Spawn
  <2> QED BY <2>1, <2>2, SingleKept
<1>6. CASE Spawn(c)
  BY <1>6, SpawnSingle
<1>7. CASE HandlePing(c)
  <2>1. /\ at[c] = "waiting" /\ at[conn[c]] = "serving" /\ asks' = asks
        /\ at'[c] \in {"ensured", "replace"} /\ (asks[c] = "poll" => at'[c] = "ensured")
        /\ \A d \in Daemons : at'[d] = at[d]
    BY <1>7 DEF HandlePing, Reaches, clientSide
  <2>2. \A d \in Daemons : at[d] \notin Booting
    BY <2>1 DEF Single, OneAlive, Alive, Booting
  <2> QED BY <2>1, <2>2, SingleKept DEF Spawn
<1>8. CASE HandleUnlock(c) \/ HandleLock(c) \/ HandleApply(c)
  BY <1>8, SingleKept DEF HandleUnlock, HandleLock, HandleApply, Reaches, Spawn,
     clientSide
<1>9. CASE HandleStop(c)
  <2>1. /\ at[c] = "waiting" /\ at[conn[c]] = "serving" /\ asks' = asks /\ conn' = conn
        /\ asks[c] \in {"stop", "retire"} /\ at'[c] = "exiting"
        /\ \A d \in Daemons : at'[d] = at[d]
    BY <1>9 DEF HandleStop, Reaches, clientSide
  <2>2. asks[c] = "retire" => \A d \in Daemons : Alive(d) => d = conn[c]
    BY <2>1 DEF Single, Found
  <2>3. \A d \in Daemons : Alive(d)' <=> Alive(d)
    BY <2>1 DEF Alive
  <2>4. ~Spawn(c) /\ ~Starts(c)' /\ asks[c] # "poll" /\ asks[c] # "ping"
    BY <2>1 DEF Spawn
  <2> QED BY <2>1, <2>2, <2>3, <2>4, SingleKept
<1>11. CASE Exit(c)
  <2>1. /\ at[c] = "exiting" /\ at[conn[c]] = "serving" /\ asks' = asks
        /\ at'[conn[c]] = "dead" /\ asks[c] \in {"stop", "retire"}
        /\ at'[c] = IF asks[c] = "retire" THEN "spawn" ELSE "replied"
        /\ \A d \in Daemons \ {conn[c]} : at'[d] = at[d]
    BY <1>11 DEF Exit, Alive, Booting, clientSide
  <2>2. \A d \in Daemons : ~Alive(d)'
    BY <2>1 DEF Single, OneAlive, Alive, Booting
  <2> QED BY <2>1, <2>2, SingleKept DEF Spawn
<1>10. CASE ApplyStep(c)
  <2>1. at[c] \in Applying /\ at'[c] \in Applying \cup {"replied"} /\ asks' = asks
    <3>1. CASE Apply(c)
      BY <3>1, ApplyCases DEF Applied, Applying, clientSide
    <3> QED BY <1>10, <3>1 DEF ApplyStep, AgentRemove, AgentBind, AgentStop,
       AgentUnlink, Applied, Applying, clientSide
  <2> QED BY <2>1, SingleKept DEF Spawn, Applying
<1> QED BY <1>1, <1>2, <1>3, <1>4, <1>5, <1>6, <1>7, <1>8, <1>9, <1>10, <1>11
   DEF CallerStep, ClientStep, ServeStep

LEMMA SingleInit ==
  LifeInit([Clients -> Commands], [Clients \cup Daemons -> Builds], Worlds) => Single
<1> DEFINE first == CHOOSE d \in Daemons : TRUE
<1> SUFFICES ASSUME LifeInit([Clients -> Commands], [Clients \cup Daemons -> Builds],
                             Worlds)
             PROVE  Single
  OBVIOUS
<1>1. /\ \A c \in Clients : asks[c] = "none" /\ at[c] \in {"done", "idle"}
      /\ \A d \in Daemons : \/ at[d] = "serving" /\ d = first /\ sock = d
                           \/ at[d] \in {"unborn", "dead"}
  BY LifecycleAssumption DEF LifeInit
<1>2. OneAlive /\ AtPath /\ PolledFor
  BY <1>1 DEF OneAlive, AtPath, PolledFor, Alive, Listening, Booting
<1>3. OneLooks /\ NoneLeft /\ Found
  BY <1>1 DEF OneLooks, NoneLeft, Found, Starts, Ensuring
<1> QED BY <1>2, <1>3 DEF Single

LEMMA SingleNext ==
  Base /\ (Alone => Single) /\ [LifeNext]_lifeVars => (Alone => Single)'
<1> SUFFICES ASSUME Base, Alone => Single, [LifeNext]_lifeVars, Alone'
             PROVE  Single'
  OBVIOUS
<1>1. CASE UNCHANGED lifeVars
  BY <1>1 DEF lifeVars, Alone, Single, OneAlive, AtPath, OneLooks, PolledFor, NoneLeft,
     Found, Ensuring, Starts, Alive, Listening
<1>2. ASSUME NEW d \in Daemons, DaemonStep(d) PROVE Single'
  BY <1>2, DaemonMoves, DaemonSingle DEF Alone, clientSide
<1>3. ASSUME NEW c \in Clients, CallerStep(c) PROVE Single'
  BY <1>3, CallerAlone, CallerSingle DEF Alone
<1> QED BY <1>1, <1>2, <1>3 DEF LifeNext, DaemonStep, CallerStep

LEMMA SingleAlways == LifeSpec => [](Alone => Single)
<1>1. LifeInit([Clients -> Commands], [Clients \cup Daemons -> Builds], Worlds)
        => (Alone => Single)
  BY SingleInit
<1> QED BY <1>1, SingleNext, BaseAlways, PTL DEF LifeSpec

(* A vault is unlocked in a daemon that serves.                             *)
LEMMA UnlockedInit ==
  LifeInit([Clients -> Commands], [Clients \cup Daemons -> Builds], Worlds) => Unlocked
  BY LifecycleAssumption DEF LifeInit, Unlocked

LEMMA UnlockedNext == Base /\ Unlocked /\ [LifeNext]_lifeVars => Unlocked'
<1> SUFFICES ASSUME Base, Unlocked, [LifeNext]_lifeVars PROVE Unlocked'
  OBVIOUS
<1>1. CASE UNCHANGED lifeVars
  BY <1>1 DEF lifeVars, Unlocked
<1>2. ASSUME NEW d \in Daemons, DaemonStep(d) PROVE Unlocked'
  BY <1>2, DaemonMoves DEF Unlocked, Base, Typed, Goto
<1>3. ASSUME NEW c \in Clients, CallerStep(c) PROVE Unlocked'
  <2>1. CASE HandleUnlock(c)
    <3>1. /\ unlocked' = unlocked \cup {conn[c]} /\ at[conn[c]] = "serving"
          /\ \A d \in Daemons : at'[d] = at[d]
      BY <2>1, LifecycleAssumption DEF HandleUnlock, Reaches, Goto, Base, Typed
    <3> QED BY <3>1, <2>1 DEF Unlocked, Base, Typed, Placed, HandleUnlock, Reaches
  <2>2. CASE Exit(c)
    <3>1. /\ unlocked' = unlocked \ {conn[c]}
          /\ \A d \in Daemons \ {conn[c]} : at'[d] = at[d]
      BY <2>2, LifecycleAssumption DEF Exit, Base, Typed
    <3> QED BY <3>1 DEF Unlocked, Base, Typed
  <2>3. CASE ~HandleUnlock(c) /\ ~Exit(c)
    <3>1. unlocked' \subseteq unlocked
      BY <1>3, <2>3, StartCases, ApplyCases
         DEF CallerStep, ClientStep, ServeStep, ApplyStep, Connect, Hangup,
         Replace, Spawn, Poll, StopPolling, Ensured, EndCommand, HandlePing,
         HandleLock, HandleApply, HandleStop, AgentRemove, AgentBind, AgentStop,
         AgentUnlink, daemonSide
    <3>2. \A d \in Daemons : at[d] = "serving" => at'[d] = "serving"
      BY <1>3, <2>3, CallerAlone
    <3> QED BY <3>1, <3>2 DEF Unlocked, Base, Typed
  <2> QED BY <2>1, <2>2, <2>3
<1> QED BY <1>1, <1>2, <1>3 DEF LifeNext, DaemonStep, CallerStep

(* A vault can only be unlocked in the daemon that the socket's path leads  *)
(* to, where `lock` and `stop` reach it, as long as one client at a time    *)
(* looks for a daemon (run_daemon_server, ensure_daemon_running).           *)
THEOREM VaultAtPath == LifeSpec => []NoHiddenVault
<1>1. Base /\ (Alone => Single) /\ Unlocked => NoHiddenVault
  BY DEF NoHiddenVault, Alone, Base, Typed, Single, AtPath, Unlocked, Listening
<1>2. LifeSpec => []Unlocked
  BY UnlockedInit, UnlockedNext, BaseAlways, PTL DEF LifeSpec
<1> QED BY <1>1, <1>2, BaseAlways, SingleAlways, PTL

-----------------------------------------------------------------------------
(* A search that nobody stops: from when it has met a daemon or begun to    *)
(* start one, a daemon listens at the path or is about to.                  *)
NoStops  == \A c \in Clients : command[c] # "stop"
Searches(c) == command[c] \in {"ensure", "unlock"}
Served   == sock # Nobody /\ Listening(sock)
Untouched == \A c \in Clients : Searches(c) =>
  at[c] = "idle" \/ (at[c] \in {"connect", "noReply"} /\ asks[c] = "ping")
Coming ==
  \/ \E c \in Clients : at[c] = "spawn"
  \/ \E d \in Daemons : \/ at[d] \in {"check", "remove"}
                        \/ at[d] = "bind" /\ sock = Nobody
Provided == NoStops => Untouched \/ Served \/ Coming

LEMMA ProvidedNext == Base /\ Provided /\ [LifeNext]_lifeVars => Provided'
<1> SUFFICES ASSUME Base, Provided, [LifeNext]_lifeVars, NoStops'
             PROVE  (Untouched \/ Served \/ Coming)'
  BY DEF Provided
<1>1. CASE UNCHANGED lifeVars
  BY <1>1 DEF lifeVars, Provided, NoStops, Searches, Untouched, Served, Coming, Listening
<1>2. ASSUME NEW d \in Daemons, DaemonStep(d) PROVE (Untouched \/ Served \/ Coming)'
  <2>1. /\ at[d] \in Booting /\ at' = [at EXCEPT ![d] = at'[d]]
        /\ UNCHANGED <<asks, command>> /\ at \in [Clients \cup Daemons -> DaemonPlaces \cup ClientPlaces]
    BY <1>2, DaemonMoves DEF Base, Typed, Goto, Booting, clientSide
  <2>2. \A p \in (Clients \cup Daemons) \ {d} : at'[p] = at[p]
    BY <2>1
  <2>3. CASE Untouched
    BY <2>1, <2>2, <2>3, LifecycleAssumption DEF Untouched, Searches
  <2>4. CASE Served
    BY <1>2, <2>1, <2>2, <2>4, DaemonMoves
       DEF Served, Coming, Listening, Goto, Base, Typed
  <2>5. CASE Coming
    BY <1>2, <2>1, <2>2, <2>5, DaemonMoves, LifecycleAssumption
       DEF Served, Coming, Listening, Goto, Base, Typed
  <2> QED BY <2>1, <2>3, <2>4, <2>5 DEF Provided, NoStops
<1>3. ASSUME NEW c \in Clients, CallerStep(c) PROVE (Untouched \/ Served \/ Coming)'
  <2>1. /\ sock' = sock /\ command' = command
        /\ \A e \in Clients \ {c} : at'[e] = at[e] /\ asks'[e] = asks[e]
        /\ \A d \in Daemons : \/ at'[d] = at[d]
                              \/ at[d] = "unborn" /\ at'[d] = "check"
                              \/ Exit(c) /\ d = conn[c]
    BY <1>3, CallerAlone
  <2>2. CASE Spawn(c)
    BY <2>2, SpawnStarts, LifecycleAssumption DEF Coming, Base, Typed
  <2>3. CASE Exit(c)
    <3>1. asks[c] = "retire" /\ at' = [at EXCEPT ![conn[c]] = "dead", ![c] = "spawn"]
      BY <2>1, <2>3 DEF Exit, Base, Placed, NoStops
    <3> QED BY <3>1, LifecycleAssumption DEF Coming, Base, Typed
  <2>4. CASE ~Spawn(c) /\ ~Exit(c)
    <3>1. CASE Served
      BY <2>1, <2>4, <3>1 DEF Served, Listening, Base, Typed
    <3>2. CASE Coming /\ at[c] # "spawn"
      BY <2>1, <2>4, <3>2 DEF Coming
    <3>3. CASE at[c] = "spawn"
      BY <1>3, <2>4, <3>3, StartCases, ApplyCases
         DEF CallerStep, ClientStep, ServeStep, ApplyStep, Connect, Hangup,
         Replace, Poll, StopPolling, Ensured, EndCommand, HandlePing, HandleUnlock,
         HandleLock, HandleApply, HandleStop, Reaches, Applying
    <3>4. CASE Untouched /\ ~Served
      <4>1. Searches(c) => at'[c] \in {"connect", "noReply"} /\ asks'[c] = "ping"
        <5> USE DEF Untouched, Searches, Base, Typed, Placed
        <5>1. CASE StartCommand(c)
          BY <5>1, StartCases DEF Ask, Goto
        <5>2. CASE Connect(c)
          BY <3>4, <5>2 DEF Connect, Goto, Served
        <5>3. CASE ~StartCommand(c) /\ ~Connect(c)  \* no other step is possible
          BY <1>3, <2>4, <3>4, <5>3, ApplyCases
             DEF CallerStep, ClientStep, ServeStep, ApplyStep, Hangup,
             Replace, Poll, StopPolling, Ensured, EndCommand, HandlePing, HandleUnlock,
             HandleLock, HandleApply, HandleStop, Reaches, Applying, NoStops, Looking
        <5> QED BY <5>1, <5>2, <5>3
      <4> QED BY <2>1, <3>4, <4>1 DEF Untouched, Searches
    <3> QED BY <2>1, <3>1, <3>2, <3>3, <3>4 DEF Provided, NoStops
  <2> QED BY <2>2, <2>3, <2>4
<1> QED BY <1>1, <1>2, <1>3 DEF LifeNext, DaemonStep, CallerStep

(* However many clients look for daemons, start, replace and poll them,     *)
(* once nothing moves any more and nobody ran `stop`, a client that         *)
(* searched left a daemon serving the path (ensure_daemon_running).         *)
THEOREM SearchEnds == LifeSpec => []SearchFinds
<1>1. LifeInit([Clients -> Commands], [Clients \cup Daemons -> Builds], Worlds) => Provided
  BY LifecycleAssumption DEF LifeInit, Provided, Untouched, Searches
<1>2. Base /\ Provided => SearchFinds
  BY DEF Base, Typed, Provided, NoStops, SearchFinds, Quiet, Untouched, Searches,
     Served, Coming, Listening
<1> QED BY <1>1, <1>2, ProvidedNext, BaseAlways, PTL DEF LifeSpec

-----------------------------------------------------------------------------
(* The agent of the one daemon alive.  What is bound is what its flag says, *)
(* but for a thread that is about to remove the socket; and the flag is     *)
(* what the setting says, unless the client that changed it is on its way   *)
(* to the daemon.  A daemon that ends leaves a socket only when it was told *)
(* of the setting after it had removed it; the setting stays, then, and the *)
(* next daemon binds the path again.                                        *)
Asked   == \A c \in Clients : asks[c] = "apply" => command[c] = "set"
Settled == \A c \in Clients : command[c] = "set" => at[c] # "idle"
Left    == agentSock = Nobody \/ (setting /\ Settled)
Absent  == (\A d \in Daemons : at[d] # "serving") =>
  Left /\ ((\E d \in Daemons : at[d] = "agentBind") => agentSock = Nobody)
Threads == \A c \in Clients :
  /\ at[c] \in {"agentRemove", "agentBind"} => setting /\ conn[c] \notin agentOn
  /\ at[c] = "agentStop" => ~setting /\ conn[c] \in agentOn
  /\ at[c] = "agentUnlink" => ~setting /\ conn[c] \notin agentOn
Unlinks(d) == \E c \in Clients : at[c] = "agentUnlink" /\ conn[c] = d
Ending(d)  == \E c \in Clients : at[c] = "exiting" /\ conn[c] = d
Bound == \A d \in Daemons : at[d] = "serving" =>
  IF Ending(d) THEN Left
  ELSE agentSock = IF d \in agentOn \/ Unlinks(d) THEN d ELSE Nobody
Tells(c, d) ==
  /\ asks[c] = "apply"
  /\ \/ at[c] = "connect"
     \/ at[c] \in Applying \cup {"waiting"} /\ conn[c] = d
Told(d) == \E c \in Clients : Tells(c, d)
Followed == \A d \in Daemons :
  /\ at[d] = "serving" => (d \in agentOn <=> setting) \/ Told(d) \/ Ending(d)
  /\ at[d] \in {"agentRemove", "agentBind"} => setting \/ Told(d)
Agent == Asked /\ Absent /\ Threads /\ Bound /\ Followed

LEMMA AgentInit ==
  LifeInit([Clients -> Commands], [Clients \cup Daemons -> Builds], Worlds) => Agent
<1> DEFINE first == CHOOSE d \in Daemons : TRUE
<1> SUFFICES ASSUME LifeInit([Clients -> Commands], [Clients \cup Daemons -> Builds],
                             Worlds)
             PROVE  Agent
  OBVIOUS
<1>1. /\ \A c \in Clients : asks[c] = "none" /\ at[c] \in {"done", "idle"}
      /\ \A d \in Daemons : \/ at[d] = "serving" /\ d = first
                           \/ at[d] \in {"unborn", "dead"}
      /\ first \in Daemons /\ at[first] \in {"unborn", "dead", "serving"}
      /\ agentSock = IF at[first] = "serving" /\ setting THEN first ELSE Nobody
      /\ agentOn = IF at[first] = "serving" /\ setting THEN {first} ELSE {}
  BY LifecycleAssumption DEF LifeInit
<1>2. Asked /\ Absent /\ Threads
  BY <1>1 DEF Asked, Absent, Threads, Left
<1>3. Bound
  BY <1>1 DEF Bound, Unlinks, Ending
<1>4. Followed
  BY <1>1 DEF Followed
<1> QED BY <1>2, <1>3, <1>4 DEF Agent

LEMMA DaemonAgent ==
  ASSUME Base, Single, Agent, NEW d \in Daemons, DaemonStep(d)
  PROVE  Agent'
<1>1. /\ at[d] \in Booting /\ at' = [at EXCEPT ![d] = at'[d]]
      /\ at'[d] \in Booting \cup {"serving", "dead"}
      /\ UNCHANGED <<setting, asks, conn, command>>
  BY DaemonMoves DEF Base, Typed, Goto, Booting, clientSide
<1>2. /\ \A c \in Clients : at'[c] = at[c]
      /\ \A e \in Daemons \ {d} : at'[e] = at[e] /\ ~Alive(e)
  BY <1>1, LifecycleAssumption DEF Base, Typed, Single, OneAlive, Alive
<1>3. /\ Left /\ (at[d] = "agentBind" => agentSock = Nobody)
      /\ d \notin agentOn /\ ~Unlinks(d) /\ ~Ending(d)
  BY <1>1, <1>2 DEF Agent, Absent, Base, Rooted, Placed, Alive, Booting, Applying,
     Unlinks, Ending
<1>4. \/ /\ agentSock' \in {agentSock, Nobody} /\ agentOn' = agentOn
         /\ at'[d] \in {"serving", "agentBind"} => agentSock' = Nobody
         /\ at'[d] = "serving" => ~setting
         /\ at'[d] \in {"agentRemove", "agentBind"} =>
              setting \/ at[d] \in {"agentRemove", "agentBind"}
      \/ /\ agentSock' = d /\ agentOn' = agentOn \cup {d} /\ at'[d] = "serving"
         /\ at[d] = "agentBind"
  BY <1>3, DaemonMoves DEF Goto, Base, Typed, Left
<1>5. Asked' /\ Absent'
  <2>1. Asked' /\ (Settled => Settled')
    BY <1>1, <1>2 DEF Agent, Asked, Settled
  <2>2. at'[d] # "serving" => Left' /\ (at'[d] = "agentBind" => agentSock' = Nobody)
    BY <1>1, <1>3, <1>4, <2>1 DEF Left
  <2> QED BY <1>2, <2>1, <2>2 DEF Absent, Alive, Booting
<1>6. Threads'
  <2>1. \A c \in Clients : at[c] \in Applying => conn[c] # d
    BY <1>1 DEF Base, Placed, Booting
  <2> QED BY <1>1, <1>2, <1>4, <2>1 DEF Agent, Threads, Applying
<1>7. Bound'
  BY <1>1, <1>2, <1>3, <1>4 DEF Bound, Unlinks, Ending, Alive
<1>8. Followed'
  BY <1>1, <1>2, <1>3, <1>4 DEF Agent, Followed, Told, Tells, Ending, Alive, Booting
<1> QED BY <1>5, <1>6, <1>7, <1>8 DEF Agent

(* A step of a client that leaves the agent and its setting alone.          *)
LEMMA AgentKept ==
  ASSUME Base, Agent, NEW c \in Clients, CallerStep(c), ~Exit(c),
         UNCHANGED <<agentSock, agentOn, setting>>,
         asks'[c] = "apply" => command[c] = "set",
         /\ at'[c] \in {"agentRemove", "agentBind"} => setting /\ conn'[c] \notin agentOn
         /\ at'[c] = "agentStop" => ~setting /\ conn'[c] \in agentOn
         /\ at'[c] \notin {"agentUnlink", "exiting", "idle"},
         \A d \in Daemons : at[d] \in {"serving", "agentRemove", "agentBind"} =>
           /\ ~(at[c] \in {"agentUnlink", "exiting"} /\ conn[c] = d)
           /\ \/ Tells(c, d) => Tells(c, d)'
              \/ at[d] = "serving" /\ (d \in agentOn <=> setting)
  PROVE  Agent'
<1>1. /\ command' = command
      /\ \A e \in Clients \ {c} : /\ at'[e] = at[e] /\ asks'[e] = asks[e]
                                 /\ conn'[e] = conn[e]
      /\ \A d \in Daemons : \/ at'[d] = at[d]
                            \/ at[d] = "unborn" /\ at'[d] = "check"
  BY CallerAlone
<1>2. Asked' /\ (Left => Left') /\ Absent'
  <2>1. Asked' /\ (Left => Left')
    BY <1>1 DEF Agent, Asked, Left, Settled
  <2> QED BY <1>1, <2>1 DEF Agent, Absent
<1>3. Threads'
  BY <1>1 DEF Agent, Threads
<1>4. ASSUME NEW d \in Daemons, at'[d] \in {"serving", "agentRemove", "agentBind"}
      PROVE  /\ at[d] = at'[d] /\ (Unlinks(d) <=> Unlinks(d)')
             /\ Ending(d) <=> Ending(d)'
  <2>1. at[d] = at'[d]
    BY <1>1, <1>4
  <2>2. ~(at[c] \in {"agentUnlink", "exiting"} /\ conn[c] = d)
    BY <1>4, <2>1
  <2> QED BY <1>1, <2>1, <2>2 DEF Unlinks, Ending
<1>5. Bound'
  BY <1>2, <1>4 DEF Agent, Bound
<1>6. Followed'
  <2>1. ASSUME NEW d \in Daemons, at'[d] \in {"serving", "agentRemove", "agentBind"},
               Told(d)
        PROVE  Told(d)' \/ (at[d] = "serving" /\ (d \in agentOn <=> setting))
    <3>1. PICK e \in Clients : Tells(e, d)
      BY <2>1 DEF Told
    <3>2. CASE e = c
      BY <1>4, <2>1, <3>1, <3>2 DEF Told
    <3>3. CASE e # c
      BY <1>1, <3>1, <3>3 DEF Told, Tells
    <3> QED BY <3>2, <3>3
  <2>2. ASSUME NEW d \in Daemons
        PROVE  /\ at'[d] = "serving" => (d \in agentOn <=> setting) \/ Told(d)' \/ Ending(d)'
               /\ at'[d] \in {"agentRemove", "agentBind"} => setting \/ Told(d)'
    <3>1. CASE at'[d] = "serving"
      BY <1>4, <2>1, <3>1 DEF Agent, Followed
    <3>2. CASE at'[d] \in {"agentRemove", "agentBind"}
      BY <1>4, <2>1, <3>2 DEF Agent, Followed
    <3> QED BY <3>1, <3>2
  <2> QED BY <2>2 DEF Followed, Told
<1> QED BY <1>2, <1>3, <1>5, <1>6 DEF Agent

(* Of the clients, one changes the setting: only its thread can be applying *)
(* it, and it does so in the one daemon that serves.                        *)
LEMMA ApplierAlone ==
  ASSUME Base, Agent, OneSetter, NEW c \in Clients, command[c] = "set",
         NEW e \in Clients \ {c}
  PROVE  at[e] \notin Applying /\ asks[e] # "apply"
  BY DEF Base, Placed, Agent, Asked, OneSetter

LEMMA ApplierAgent ==
  ASSUME Base, Single, Agent, OneSetter, NEW c \in Clients, ApplyStep(c)
  PROVE  Agent'
<1> USE LifecycleAssumption DEF Goto, clientSide
<1>1. PICK d \in Daemons :
        /\ conn[c] = d /\ at[d] = "serving" /\ Runs(c) = d /\ Applied(c) = "replied"
        /\ asks[c] = "apply" /\ command[c] = "set" /\ at[c] \in Applying
  BY DEF ApplyStep, Base, Placed, Agent, Asked, Runs, Applied, Alive, Booting
<1>2. /\ \A e \in Daemons \ {d} : ~Alive(e)
      /\ \A e \in Clients \ {c} : at[e] \notin Applying /\ asks[e] # "apply"
  BY <1>1, ApplierAlone DEF Single, OneAlive, Alive
<1>3. CASE Apply(c)
  <2>1. /\ at[c] = "apply" /\ UNCHANGED <<agentSock, agentOn, setting, asks, conn>>
        /\ \/ setting /\ d \notin agentOn /\ at'[c] = "agentRemove"
           \/ ~setting /\ d \in agentOn /\ at'[c] = "agentStop"
           \/ (setting <=> d \in agentOn) /\ at'[c] = "replied"
    BY <1>1, <1>3, ApplyCases DEF Base, Typed, daemonSide
  <2>2. \A e \in Daemons : at[e] \in {"serving", "agentRemove", "agentBind"} =>
           \/ Tells(c, e) => Tells(c, e)'
           \/ at[e] = "serving" /\ (e \in agentOn <=> setting)
    BY <1>1, <1>2, <2>1 DEF Tells, Applying, Alive, Booting
  <2> QED BY <1>1, <2>1, <2>2, AgentKept DEF CallerStep, Exit
<1>4. CASE ~Apply(c)
  <2>1. /\ UNCHANGED <<setting, asks, conn, command>>
        /\ at' = [at EXCEPT ![c] = at'[c]]
        /\ \/ /\ at[c] = "agentRemove" /\ at'[c] = "agentBind"
              /\ agentSock' = Nobody /\ agentOn' = agentOn
           \/ /\ at[c] = "agentBind" /\ at'[c] = "replied"
              /\ \/ agentSock = Nobody /\ agentSock' = d /\ agentOn' = agentOn \cup {d}
                 \/ agentSock # Nobody /\ agentSock' = agentSock /\ agentOn' = agentOn
           \/ /\ at[c] = "agentStop" /\ at'[c] = "agentUnlink"
              /\ agentSock' = agentSock /\ agentOn' = agentOn \ {d}
           \/ /\ at[c] = "agentUnlink" /\ at'[c] = "replied"
              /\ agentSock' = Nobody /\ agentOn' = agentOn
    BY <1>1, <1>4 DEF ApplyStep, AgentRemove, AgentBind, AgentStop, AgentUnlink,
       Base, Typed
  <2>2. \A p \in (Clients \cup Daemons) \ {c} : at'[p] = at[p]
    BY <2>1 DEF Base, Typed
  <2>3. Asked' /\ Absent'
    BY <1>1, <2>1, <2>2 DEF Agent, Asked, Absent
  <2>4. Threads'
    BY <1>1, <1>2, <2>1, <2>2 DEF Agent, Threads, Applying
  <2>5. Ending(d) <=> Ending(d)'
    BY <1>1, <2>1, <2>2 DEF Ending, Applying
  <2>6. CASE ~Ending(d)
    <3>1. agentSock = IF d \in agentOn \/ at[c] = "agentUnlink" THEN d ELSE Nobody
      BY <1>1, <1>2, <2>6 DEF Agent, Bound, Unlinks, Applying
    <3>2. agentSock' = IF d \in agentOn' \/ at'[c] = "agentUnlink" THEN d ELSE Nobody
      BY <1>1, <2>1, <3>1 DEF Agent, Threads
    <3>3. Bound'
      <4>1. Unlinks(d)' <=> at'[c] = "agentUnlink"
        BY <1>1, <1>2, <2>1, <2>2 DEF Unlinks, Applying
      <4>2. \A e \in Daemons : at'[e] = "serving" => e = d
        BY <1>2, <2>2 DEF Alive
      <4> QED BY <2>5, <2>6, <3>2, <4>1, <4>2 DEF Bound, Unlinks
    <3>4. at'[c] = "replied" => (d \in agentOn' <=> setting)
      BY <1>1, <2>1, <3>1 DEF Agent, Threads
    <3>5. Followed'
      BY <1>1, <1>2, <2>1, <2>2, <3>4 DEF Followed, Told, Tells, Applying, Alive, Booting
    <3> QED BY <2>3, <2>4, <3>3, <3>5 DEF Agent
  <2>7. CASE Ending(d)   \* what is bound now is bound for good
    <3>1. Left'
      <4>1. at[c] = "agentBind" => setting
        BY <1>1 DEF Agent, Threads
      <4>2. Left /\ Settled'
        BY <1>1, <2>1, <2>2, <2>7 DEF Agent, Bound, Settled, OneSetter
      <4> QED BY <2>1, <4>1, <4>2 DEF Left
    <3>2. \A e \in Daemons : at'[e] \in {"serving", "agentRemove", "agentBind"} => e = d
      BY <1>2, <2>2 DEF Alive, Booting
    <3> QED BY <1>1, <2>2, <2>3, <2>4, <2>5, <2>7, <3>1, <3>2 DEF Agent, Bound, Followed
  <2> QED BY <2>6, <2>7
<1> QED BY <1>3, <1>4

LEMMA CallerAgent ==
  ASSUME Base, Single, Agent, OneSetter, NEW c \in Clients, CallerStep(c)
  PROVE  Agent'
<1> USE LifecycleAssumption DEF Base, Typed, Placed, Goto, Ask, clientSide, daemonSide
<1>1. CASE StartCommand(c)
  <2>1. CASE command[c] = "set"
    <3>1. /\ UNCHANGED <<agentSock, agentOn, command>> /\ at[c] = "idle"
          /\ at'[c] = "connect" /\ asks'[c] = "apply"
          /\ \A e \in Clients \ {c} : /\ at'[e] = at[e] /\ asks'[e] = asks[e]
                                     /\ conn'[e] = conn[e]
          /\ \A d \in Daemons : at'[d] = at[d]
      BY <1>1, <2>1, StartCases
    <3>2. \A e \in Clients : at[e] \notin Applying
      BY <2>1, <3>1, ApplierAlone DEF Applying
    <3>6. Left => agentSock = Nobody
      BY <2>1, <3>1 DEF Left, Settled
    <3>3. Asked' /\ Absent' /\ Threads'
      BY <2>1, <3>1, <3>2, <3>6 DEF Agent, Asked, Absent, Threads, Applying, Left
    <3>4. Bound'
      BY <3>1, <3>2, <3>6 DEF Agent, Bound, Unlinks, Ending, Applying, Left
    <3>5. Followed'
      BY <3>1 DEF Followed, Told, Tells
    <3> QED BY <3>3, <3>4, <3>5 DEF Agent
  <2>2. CASE command[c] # "set"
    <3>1. /\ UNCHANGED <<agentSock, agentOn, setting>> /\ at[c] = "idle"
          /\ at'[c] = "connect" /\ asks'[c] # "apply" /\ asks[c] = "none"
      BY <1>1, <2>2, StartCases DEF Commands
    <3> QED BY <3>1, AgentKept DEF Exit, Tells
  <2> QED BY <2>1, <2>2
<1>2. CASE Connect(c)
  <2>1. /\ UNCHANGED <<agentSock, agentOn, setting, asks>> /\ at[c] = "connect"
        /\ at'[c] \in {"waiting", "noReply"}
    BY <1>2 DEF Connect
  <2>2. ASSUME NEW d \in Daemons, at[d] \in {"serving", "agentRemove", "agentBind"},
               Tells(c, d)
        PROVE  Tells(c, d)'
    <3>1. sock = d /\ Listening(sock) /\ sock # Nobody
      BY <2>2 DEF Single, AtPath, Listening
    <3> QED BY <1>2, <2>1, <2>2, <3>1 DEF Connect, Tells
  <2> QED BY <2>1, <2>2, AgentKept DEF Exit, Agent, Asked
<1>3. CASE Hangup(c)
  <2>1. /\ UNCHANGED <<agentSock, agentOn, setting, asks>>
        /\ at[c] \in Applying \cup {"waiting", "exiting"} /\ at'[c] = "noReply"
        /\ ~Alive(conn[c])
        /\ \A d \in Daemons : at'[d] = at[d]
    BY <1>3 DEF Hangup, Applying
  <2>2. ~Exit(c)
    BY <2>1 DEF Exit
  <2>3. ASSUME NEW d \in Daemons, at[d] \in {"serving", "agentRemove", "agentBind"}
        PROVE  ~(at[c] \in {"agentUnlink", "exiting"} /\ conn[c] = d) /\ ~Tells(c, d)
    BY <2>1, <2>3 DEF Tells, Alive, Booting, Applying
  <2> QED BY <2>1, <2>2, <2>3, AgentKept DEF Agent, Asked
<1>4. CASE Replace(c) \/ Poll(c) \/ StopPolling(c) \/ Ensured(c) \/ EndCommand(c)
  <2>1. /\ UNCHANGED <<agentSock, agentOn, setting>>
        /\ at[c] \in {"replace", "noReply", "ensured", "replied"}
        /\ at'[c] \in {"connect", "ensured", "done"} /\ (asks'[c] = "apply" => asks[c] = "apply")
    BY <1>4 DEF Replace, Poll, StopPolling, Ensured, EndCommand
  <2> QED BY <2>1, AgentKept DEF Exit, Tells, Applying, Agent, Asked
<1>5. CASE Spawn(c)
  <2>1. /\ UNCHANGED <<agentSock, agentOn, setting>> /\ at[c] \in {"spawn", "noReply"}
        /\ asks'[c] = "poll" /\ at'[c] = "connect"
    BY <1>5, SpawnStarts DEF Spawn
  <2> QED BY <2>1, AgentKept DEF Exit, Tells, Applying
<1>6. CASE HandlePing(c) \/ HandleUnlock(c) \/ HandleLock(c) \/ HandleApply(c)
  <2>1. /\ UNCHANGED <<agentSock, agentOn, setting, asks, conn>> /\ at[c] = "waiting"
        /\ at'[c] \in {"ensured", "replace", "replied", "apply"}
        /\ asks[c] = "apply" => at'[c] = "apply"
        /\ asks[c] \notin {"stop", "retire"}
    BY <1>6 DEF HandlePing, HandleUnlock, HandleLock, HandleApply, Reaches
  <2> QED BY <2>1, AgentKept DEF Exit, Tells, Applying, Agent, Asked
<1>7. CASE HandleStop(c)
  <2>1. /\ agentSock' = Nobody /\ UNCHANGED <<agentOn, setting, asks, conn, command>>
        /\ at[c] = "waiting" /\ at'[c] = "exiting" /\ at[conn[c]] = "serving"
        /\ asks[c] \in {"stop", "retire"}
        /\ \A e \in Clients \ {c} : at'[e] = at[e]
        /\ \A d \in Daemons : at'[d] = at[d]
    BY <1>7 DEF HandleStop, Reaches
  <2>2. \A d \in Daemons : at[d] \in {"serving", "agentRemove", "agentBind"} => d = conn[c]
    BY <2>1 DEF Single, OneAlive, Alive, Booting
  <2>3. Ending(conn[c])' /\ Left'
    BY <2>1 DEF Ending, Left
  <2>4. Asked' /\ Absent' /\ Bound' /\ Followed'
    BY <2>1, <2>2, <2>3 DEF Agent, Asked, Absent, Bound, Followed
  <2>5. Threads'
    BY <2>1 DEF Agent, Threads
  <2> QED BY <2>4, <2>5 DEF Agent
<1>9. CASE Exit(c)
  <2>1. /\ UNCHANGED <<agentSock, agentOn, setting, asks, conn, command>>
        /\ at[c] = "exiting" /\ at'[c] \in {"spawn", "replied"} /\ at[conn[c]] = "serving"
        /\ \A e \in Clients \ {c} : at'[e] = at[e]
        /\ at'[conn[c]] = "dead" /\ \A d \in Daemons \ {conn[c]} : at'[d] = at[d]
    BY <1>9 DEF Exit, Alive, Booting
  <2>2. \A d \in Daemons : at'[d] \notin {"serving", "agentRemove", "agentBind"}
    BY <2>1 DEF Single, OneAlive, Alive, Booting
  <2>3. Left'
    <3>1. Left
      BY <2>1 DEF Agent, Bound, Ending
    <3> QED BY <2>1, <3>1 DEF Left, Settled
  <2>4. Asked' /\ Absent' /\ Bound' /\ Followed'
    BY <2>1, <2>2, <2>3 DEF Agent, Asked, Absent, Bound, Followed
  <2>5. Threads'
    BY <2>1 DEF Agent, Threads
  <2> QED BY <2>4, <2>5 DEF Agent
<1>8. CASE ApplyStep(c)
  BY <1>8, ApplierAgent
<1> QED BY <1>1, <1>2, <1>3, <1>4, <1>5, <1>6, <1>7, <1>8, <1>9
   DEF CallerStep, ClientStep, ServeStep

LEMMA AgentNext ==
  /\ Base /\ (Alone => Single) /\ (Alone /\ OneSetter => Agent) /\ [LifeNext]_lifeVars
  => (Alone /\ OneSetter => Agent)'
<1> SUFFICES ASSUME Base, Alone => Single, Alone /\ OneSetter => Agent,
                    [LifeNext]_lifeVars, Alone', OneSetter'
             PROVE  Agent'
  OBVIOUS
<1>1. CASE UNCHANGED lifeVars
  BY <1>1 DEF lifeVars, Alone, OneSetter, Agent, Asked, Absent, Threads, Bound,
     Unlinks, Followed, Told, Tells, Ending, Left, Settled
<1>2. ASSUME NEW d \in Daemons, DaemonStep(d) PROVE Agent'
  BY <1>2, DaemonMoves, DaemonAgent DEF Alone, OneSetter, clientSide
<1>3. ASSUME NEW c \in Clients, CallerStep(c) PROVE Agent'
  BY <1>3, CallerAlone, CallerAgent DEF Alone, OneSetter
<1> QED BY <1>1, <1>2, <1>3 DEF LifeNext, DaemonStep, CallerStep

(* Whatever daemons start, are replaced and end while the setting changes,  *)
(* once nothing moves any more the daemon at the path has its agent's       *)
(* socket bound if the setting says so and not otherwise (SshAgent::apply). *)
THEOREM AgentAsSet == LifeSpec => []AgentFollowsSetting
<1>1. LifeInit([Clients -> Commands], [Clients \cup Daemons -> Builds], Worlds)
        => (Alone /\ OneSetter => Agent)
  BY AgentInit
<1>2. Base /\ (Alone /\ OneSetter => Agent) => AgentFollowsSetting
  <2> SUFFICES ASSUME Base, Quiet, OneSetter, world = [starters |-> "one", boot |-> "prompt"],
                      Alone /\ OneSetter => Agent, sock # Nobody, at[sock] = "serving"
               PROVE  agentSock = IF setting THEN sock ELSE Nobody
    BY DEF AgentFollowsSetting
  <2>1. Agent /\ sock \in Daemons
    BY DEF Alone, Base, Typed
  <2>2. \A c \in Clients : at[c] \notin Applying \cup {"connect", "waiting"}
    BY DEF Quiet, Applying
  <2>3. ~Unlinks(sock) /\ ~Told(sock)
    BY <2>2 DEF Unlinks, Told, Tells, Applying
  <2>4. ~Ending(sock)
    BY DEF Quiet, Ending
  <2> QED BY <2>1, <2>3, <2>4 DEF Agent, Bound, Followed
<1> QED BY <1>1, <1>2, AgentNext, BaseAlways, SingleAlways, PTL DEF LifeSpec
=============================================================================
