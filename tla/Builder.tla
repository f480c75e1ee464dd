------------------------------- MODULE Builder -------------------------------
(***************************************************************************)
(* LNUnitBuilder's life of a test network: Build, ShutdownByAlias,         *)
(* RestartByAlias and Destroy, each a long chain of calls to Docker, to    *)
(* bitcoind, to LND and to the node pool, any of which can throw, with     *)
(* waiting loops in between that have no limit of time.                    *)
(*                                                                         *)
(* One operation runs at a time, one call is one step.  The pool is what   *)
(* NodePool leaves of it: settings still to be connected, connections,     *)
(* those that are listed in ReadyNodes, and the monitoring task, which     *)
(* dies if a list changes under its enumeration; its changes make the      *)
(* enumerations of the operations throw in turn.  ReadyNodes is a set      *)
(* here: which of two connections of an alias comes first depends on which *)
(* was dropped last.                                                       *)
(***************************************************************************)
EXTENDS FiniteSets, Functions, Naturals, Sequences

CONSTANTS
  Miner,        \* the bitcoind container
  Loop,         \* Configuration.LoopServer # null:
  LoopLnd,      \* its LND node, and
  LoopServer,   \* the container that depends on it
  LNDNodes,     \* Configuration.LNDNodes, in order
  Channels,     \* Channels[n]: RemoteName of each channel of n
  MaxFaults,    \* bound: calls that fail for a reason of their own
  MaxRestarts,  \* bound: calls of RestartByAlias
  Careful       \* the user shuts LND nodes down before he restarts them

Nodes == Range(LNDNodes)
Lnds  == Nodes \cup (IF Loop THEN {LoopLnd} ELSE {})
Plan  == <<Miner>> \o (IF Loop THEN <<LoopLnd, LoopServer>> ELSE <<>>) \o LNDNodes
ChannelIds == UNION {{n} \X DOMAIN Channels[n] : n \in Nodes}

ASSUME NetworkAssumption ==
  /\ LNDNodes \in Seq(Nodes) /\ LNDNodes # <<>>
  /\ Channels \in [Nodes -> Seq(Nodes)]
  /\ "none" \notin Range(Plan)  \* "none" is for a container without an id
ASSUME BoundAssumption == MaxFaults \in Nat /\ MaxRestarts \in Nat
ASSUME SwitchAssumption == Loop \in BOOLEAN /\ Careful \in BOOLEAN

VARIABLES
  container,    \* external: what Docker has under each name
  lnd,          \* external: what the process in each container can do
  address,      \* external: the IP address of each LND node, as a number
  synced,       \* external: nodes with SyncedToChain
  graphed,      \* external: nodes with SyncedToGraph, and a complete graph
  asked,        \* external: <<m, n>> if m keeps trying to connect to n
  peers,        \* external: pairs of connected nodes
  pool,         \* LNDNodePool # null
  pending,      \* settings given to the pool and not connected yet
  members,      \* connections of the pool
  listed,       \* connections in ReadyNodes
  monitored,    \* the monitoring task of the pool is alive
  expired,      \* cancelSource.IsCancellationRequested
  containerId,  \* DockerContainerId of each node of the configuration
  isBuilt, isDestroyed,
  opened,       \* opened[c]: channels the nodes have for an entry of the configuration
  policySet,    \* entries whose policy was set
  op, at,       \* the operation under way and where it is
  target,       \* its alias; in Build the node of the last loop
  i, k,         \* the indices of the loops over Plan or LNDNodes, and Channels
  local,        \* the connection node
  remote,       \* the connection remoteNode
  locals, remotes,  \* what the loops over pairs of peers have left
  retryCount,
  restarts,     \* history: containers restarted
  down,         \* history: LND nodes shut down and not restarted since
  faults        \* history: calls that failed for a reason of their own

world   == <<container, lnd, address, synced, graphed, asked, peers>>
poolV   == <<pool, pending, members, listed, monitored, expired>>
network == <<containerId, isBuilt, isDestroyed, opened, policySet>>
place   == <<op, target, i, k, local, remote, locals, remotes, retryCount>>
history == <<restarts, down, faults>>
vars    == <<world, poolV, network, place, at, history>>

Operations == {"Build", "Shutdown", "Restart", "Destroy"}

NoConnection == [node |-> Miner, address |-> 0, made |-> 0]
Connection(n) == [node |-> n, address |-> address[n], made |-> restarts]

Reachable(c) == c.node \in Nodes /\ address[c.node] = c.address
                  /\ lnd[c.node] \in {"rpc", "active"}
IsServerReady(c) == Reachable(c) /\ lnd[c.node] = "active"

Of(n, connections) == {c \in connections : c.node = n}
Pair(c, d) == {c.node, d.node}

Init ==
  /\ container \in [Range(Plan) -> {"absent", "running"}]
  /\ \A n \in Range(Plan) \ {Miner} : container[n] = "absent"
  /\ lnd = [n \in Lnds |-> "off"]
  /\ address = [n \in Nodes |-> 0]
  /\ synced = {} /\ graphed = {} /\ asked = {} /\ peers = {}
  /\ pool = FALSE /\ pending = {} /\ members = {} /\ listed = {}
  /\ monitored = FALSE /\ expired = FALSE
  /\ containerId = [n \in Range(Plan) |-> "none"]
  /\ isBuilt = FALSE /\ isDestroyed = FALSE
  /\ opened = [c \in ChannelIds |-> 0] /\ policySet = {}
  /\ op = "none" /\ at = "idle" /\ target = Miner /\ i = 0 /\ k = 0
  /\ local = NoConnection /\ remote = NoConnection
  /\ locals = {} /\ remotes = {} /\ retryCount = 0
  /\ restarts = 0 /\ down = {} /\ faults = 0

-----------------------------------------------------------------------------
(* Operations.                                                             *)

Cur == Plan[i]
Destroyed == <<Miner>> \o LNDNodes

Goto(label) == at' = label /\ UNCHANGED place

\* A return or an exception.
End ==
  /\ op' = "none" /\ at' = "idle" /\ target' = Miner /\ i' = 0 /\ k' = 0
  /\ local' = NoConnection /\ remote' = NoConnection
  /\ locals' = {} /\ remotes' = {} /\ retryCount' = 0

Throw == End /\ UNCHANGED <<world, poolV, network, history>>

Begin(o, n, label, first) ==
  /\ op = "none"
  /\ op' = o /\ at' = label /\ target' = n /\ i' = first
  /\ UNCHANGED <<k, local, remote, locals, remotes, retryCount>>

\* A process that ends: its peers, what it was asked and what it knew go with it.
Ends(n) ==
  /\ lnd' = [m \in Lnds |-> IF m = n THEN "off" ELSE lnd[m]]
  /\ synced' = synced \ {n} /\ graphed' = graphed \ {n}
  /\ asked' = {q \in asked : q[1] # n}
  /\ peers' = {p \in peers : n \notin p}

\* GenerateAsync: every node has blocks to catch up with.
CanMine == container[Miner] = "running"
Mine == synced' = {}

-----------------------------------------------------------------------------
(* Build: containers.                                                      *)

BeginBuild ==
  /\ ~isBuilt
  /\ Begin("Build", Miner, "create", 1)
  /\ isDestroyed' = FALSE
  /\ UNCHANGED <<world, poolV, containerId, isBuilt, opened, policySet, history>>

\* Docker refuses a name that is taken.
Create ==
  /\ at = "create"
  /\ IF container[Cur] # "absent" THEN Throw
     ELSE /\ container' = [container EXCEPT ![Cur] = "created"]
          /\ containerId' = [containerId EXCEPT ![Cur] =
                               IF Loop /\ Cur = LoopServer THEN LoopLnd ELSE Cur]
          /\ Goto("start")
          /\ UNCHANGED <<lnd, address, synced, graphed, asked, peers, poolV, isBuilt,
                         isDestroyed, opened, policySet, history>>

Start ==
  /\ at = "start"
  /\ container' = [container EXCEPT ![Cur] = "running"]
  /\ Goto("files")
  /\ UNCHANGED <<lnd, address, synced, graphed, asked, peers, poolV, network, history>>

\* Wallet and blocks of bitcoind; certificate and macaroon of LND, asked for
\* until they are there.
Files ==
  /\ at = "files"
  /\ Cur \in Lnds => lnd[Cur] # "off"
  /\ IF i < Len(Plan)
     THEN at' = "create" /\ i' = i + 1
     ELSE at' = "pool" /\ i' = 0
  /\ UNCHANGED <<op, target, k, local, remote, locals, remotes, retryCount,
                 world, poolV, network, history>>

-----------------------------------------------------------------------------
(* Build: pool and peers.                                                  *)

MakePool ==
  /\ at = "pool"
  /\ pool' = TRUE /\ expired' = FALSE
  /\ pending' = {Connection(n) : n \in Nodes} /\ members' = {} /\ listed' = {}
  /\ monitored' = TRUE
  /\ Goto("listed")
  /\ UNCHANGED <<world, network, history>>

\* The limit of 60 s counts for both waits and is looked at in between.
Listed(label, next, index) ==
  /\ at = label
  /\ \/ /\ Cardinality(listed) >= Len(LNDNodes)
        /\ at' = next /\ i' = index
        /\ UNCHANGED <<op, target, k, local, remote, locals, remotes, retryCount,
                       world, poolV, network, history>>
     \/ /\ Cardinality(listed) < Len(LNDNodes) /\ expired
        /\ Throw

WaitListed   == Listed("listed", "copy", 0)
WaitRelisted == Listed("relisted", "node", 1)

\* The outer foreach runs over a copy, the inner one over a copy of ReadyNodes
\* as it is when the outer one takes a node.
CopyListed ==
  /\ at = "copy"
  /\ locals' = listed /\ at' = "peers"
  /\ UNCHANGED <<op, target, i, k, local, remote, remotes, retryCount,
                 world, poolV, network, history>>

NextLocal ==
  /\ at = "peers"
  /\ IF locals = {} THEN Goto("relisted")
     ELSE \E c \in locals :
            /\ local' = c /\ locals' = locals \ {c}
            /\ remotes' = {d \in listed : d.node # c.node}
            /\ at' = "remotes"
            /\ UNCHANGED <<op, target, i, k, remote, retryCount>>
  /\ UNCHANGED <<world, poolV, network, history>>

NextRemote ==
  /\ at = "remotes"
  /\ IF remotes = {} THEN Goto("peers")
     ELSE \E d \in remotes :
            /\ remote' = d /\ remotes' = remotes \ {d}
            /\ at' = "connect" /\ retryCount' = 0
            /\ UNCHANGED <<op, target, i, k, local, locals>>
  /\ UNCHANGED <<world, poolV, network, history>>

Both == IsServerReady(local) /\ IsServerReady(remote)

\* ConnectPeers, which the three loops over nodes and channels call.  With Perm
\* LND takes note of the peer and returns.  It does not connect to itself.
Connect ==
  /\ at = "connect" /\ IsServerReady(local) /\ local.node # remote.node
  /\ asked' = asked \cup IF remote.address = address[remote.node]
                         THEN {<<local.node, remote.node>>} ELSE {}
  /\ at' = CASE op = "Restart" -> "sync1"
             [] op = "Build" /\ i = 0 -> "remotes"
             [] OTHER -> "sync"
  /\ retryCount' = 0
  /\ UNCHANGED <<op, target, i, k, local, remote, locals, remotes, container, lnd,
                 address, synced, graphed, peers, poolV, network, history>>

\* Not the code: five attempts.
ConnectOnceMore ==
  /\ at = "connect" /\ Reachable(local) /\ ~IsServerReady(local)
  /\ IF retryCount < 4
     THEN /\ retryCount' = retryCount + 1
          /\ UNCHANGED <<op, target, i, k, local, remote, locals, remotes, at,
                         world, poolV, network, history>>
     ELSE Throw

\* "server is still in the process of starting", four times.
ConnectAgain ==
  /\ at = "connect" /\ Reachable(local) /\ ~IsServerReady(local)
  /\ IF retryCount < 3
     THEN /\ retryCount' = retryCount + 1
          /\ UNCHANGED <<op, target, i, k, local, remote, locals, remotes, at,
                         world, poolV, network, history>>
     ELSE Throw

\* Any other error is thrown at once.
ConnectFails ==
  /\ at = "connect"
  /\ \/ ~Reachable(local)
     \/ IsServerReady(local) /\ local.node = remote.node
  /\ Throw

-----------------------------------------------------------------------------
(* Build and RestartByAlias: channels.                                     *)

\* The node of the configuration: First throws without a connection; it is
\* asked for an address and funded.
Fund ==
  /\ at = "node"
  /\ IF Of(LNDNodes[i], listed) = {} THEN Throw
     ELSE \E c \in Of(LNDNodes[i], listed) :
            IF ~IsServerReady(c) \/ ~CanMine THEN Throw
            ELSE /\ local' = c /\ target' = LNDNodes[i] /\ k' = 1 /\ at' = "channel"
                 /\ Mine
                 /\ UNCHANGED <<op, i, remote, locals, remotes, retryCount,
                                container, lnd, address, graphed, asked, peers,
                                poolV, network, history>>

Channel ==
  /\ at = "channel"
  /\ CASE k <= Len(Channels[target]) -> Goto("remote")
       [] k > Len(Channels[target]) /\ op = "Restart" -> End
       [] OTHER ->
            /\ IF i < Len(LNDNodes) THEN at' = "node" /\ i' = i + 1
               ELSE at' = "built" /\ i' = i
            /\ UNCHANGED <<op, target, k, local, remote, locals, remotes, retryCount>>
  /\ UNCHANGED <<world, poolV, network, history>>

\* Build looks again until the remote node is listed; RestartByAlias takes
\* First, which throws.
FindRemote ==
  /\ at = "remote"
  /\ LET found == Of(Channels[target][k], listed) IN
       \/ /\ found = {} /\ op = "Restart"
          /\ Throw
       \/ \E c \in found :
            /\ remote' = c /\ at' = "connect" /\ retryCount' = 0
            /\ UNCHANGED <<op, target, i, k, local, locals, remotes, world, poolV,
                           network, history>>

\* GetInfo of an unreachable node throws.
Info(c, enough, next) ==
  \/ Reachable(c) /\ enough /\ Goto(next) /\ UNCHANGED <<world, poolV, network, history>>
  \/ ~Reachable(c) /\ Throw

\* Not the code: the state is asked for and not looked at.
AskSynced(c, label, next) == at = label /\ Info(c, TRUE, next)

\* WaitUntilSyncedToChain(node).
WaitSynced(c, label, next) == at = label /\ Info(c, c.node \in synced, next)

\* while (!info.SyncedToChain && !info.SyncedToGraph)
WaitEither(c, label, next) ==
  at = label /\ Info(c, c.node \in synced \cup graphed, next)

\* WaitGraphReady looks the node up in ReadyNodes each time,
WaitGraph(label, next) ==
  /\ at = label
  /\ \E c \in Of(target, listed) : Info(c, target \in graphed, next)

\* WaitUntilSyncedToChain(alias) once.
FindAgain ==
  /\ at = "find"
  /\ \E c \in Of(target, listed) : remote' = c
  /\ at' = "sync3"
  /\ UNCHANGED <<op, target, i, k, local, locals, remotes, retryCount, world, poolV,
                 network, history>>

Sync ==
  \/ WaitSynced(local, "sync", "open") \/ WaitSynced(local, "synced", "policy")
  \/ WaitEither(local, "sync1", "sync2") \/ WaitEither(remote, "sync2", "graph")
  \/ WaitGraph("graph", "reset")
  \/ FindAgain \/ WaitSynced(remote, "sync3", "graph2") \/ WaitGraph("graph2", "policy")

NextChannel ==
  /\ at' = "channel" /\ k' = k + 1
  /\ UNCHANGED <<op, target, i, local, remote, locals, remotes, retryCount>>

\* resetChannels.
Reset ==
  /\ at = "reset"
  /\ Goto("open") \/ NextChannel
  /\ UNCHANGED <<world, poolV, network, history>>

\* LND opens a channel to a connected peer once both have caught up; then
\* blocks are mined.
Open ==
  /\ at = "open"
  /\ IF Both /\ {local.node, remote.node} \subseteq synced /\ Pair(local, remote) \in peers
     THEN /\ opened' = [opened EXCEPT ![<<target, k>>] = @ + 1]
          /\ IF CanMine
             THEN Mine /\ Goto(IF op = "Build" THEN "synced" ELSE "find")
             ELSE End /\ UNCHANGED synced
          /\ UNCHANGED <<container, lnd, address, graphed, asked, peers, poolV,
                         containerId, isBuilt, isDestroyed, policySet, history>>
     ELSE Throw

\* Not the code: a refusal is swallowed and the channel given up.
SetPolicyOnce ==
  /\ at = "policy"
  /\ policySet' = policySet \cup IF IsServerReady(local) THEN {<<target, k>>} ELSE {}
  /\ NextChannel
  /\ UNCHANGED <<world, poolV, containerId, isBuilt, isDestroyed, opened, history>>

\* Refusals that a later attempt may cure are not steps.
SetPolicy ==
  /\ at = "policy" /\ IsServerReady(local)
  /\ policySet' = policySet \cup {<<target, k>>}
  /\ NextChannel
  /\ UNCHANGED <<world, poolV, containerId, isBuilt, isDestroyed, opened, history>>

\* Build swallows every refusal, RestartByAlias only that of a channel without
\* a policy,
PolicyFails ==
  /\ at = "policy" /\ op = "Restart" /\ ~IsServerReady(local)
  /\ Throw

\* after the first of which it mines 145 blocks.
PolicyMissing ==
  /\ at = "policy" /\ op = "Restart" /\ IsServerReady(local) /\ retryCount = 0
  /\ IF CanMine
     THEN /\ Mine /\ retryCount' = 1
          /\ UNCHANGED <<op, at, target, i, k, local, remote, locals, remotes, container,
                         lnd, address, graphed, asked, peers, poolV, network, history>>
     ELSE Throw

Built ==
  /\ at = "built"
  /\ isBuilt' = TRUE
  /\ End
  /\ UNCHANGED <<world, poolV, containerId, isDestroyed, opened, policySet, history>>

-----------------------------------------------------------------------------
(* ShutdownByAlias, RestartByAlias, Destroy.                               *)

\* With isLND the pool gives the node up before its container stops.  A careful
\* user shuts down what runs.
BeginShutdown(n, isLND) ==
  /\ Careful => isLND /\ n \notin down /\ container[n] # "absent"
  /\ Begin("Shutdown", n, IF isLND /\ pool THEN "remove" ELSE "stop", 0)
  /\ UNCHANGED <<world, poolV, network, history>>

\* Not the code: the connection is taken off ReadyNodes only.
RemoveListed ==
  /\ at = "remove"
  /\ \E c \in Of(target, listed) : listed' = listed \ {c}
  /\ Goto("stop")
  /\ UNCHANGED <<world, pool, pending, members, monitored, expired, network, history>>

\* RemoveNode.  The foreach of the monitoring task over _nodes may be under way:
\* it throws at its next element, and if this connection is the one in its hands,
\* the task lists it again before it dies.
Remove ==
  /\ at = "remove"
  /\ \E c \in Of(target, listed) :
       /\ members' = members \ {c}
       /\ \/ listed' = listed \ {c} /\ UNCHANGED monitored
          \/ /\ monitored /\ c \in members
             /\ listed' \in {listed \ {c}, listed}
             /\ monitored' = FALSE
  /\ Goto("stop")
  /\ UNCHANGED <<world, pool, pending, expired, network, history>>

StopContainer ==
  /\ at = "stop"
  /\ IF container[target] = "absent" THEN Throw
     ELSE /\ container' = [container EXCEPT ![target] = "stopped"]
          /\ Ends(target)
          /\ down' = down \cup {target}
          /\ End
          /\ UNCHANGED <<address, poolV, network, restarts, faults>>

\* A careful user has shut down what he restarts as an LND node, and nothing
\* else.
BeginRestart(n, isLND) ==
  /\ restarts < MaxRestarts
  /\ Careful => (isLND <=> n \in down) /\ container[n] # "absent"
  /\ Begin("Restart", n, IF isLND THEN "restart" ELSE "restartOnly", 0)
  /\ down' = down \ {n}
  /\ UNCHANGED <<world, poolV, network, restarts, faults>>

\* A container that was stopped may find its address taken, and is not found
\* under the old one.
RestartContainer ==
  /\ at \in {"restart", "restartOnly"}
  /\ IF container[target] = "absent" THEN Throw
     ELSE /\ container' = [container EXCEPT ![target] = "running"]
          /\ lnd' = [lnd EXCEPT ![target] = "off"]
          /\ synced' = synced \ {target} /\ graphed' = graphed \ {target}
          /\ peers' = {p \in peers : target \notin p}
          /\ address' \in {address, IF container[target] = "running" THEN address
                                    ELSE [address EXCEPT ![target] = @ + 1]}
          /\ asked' = {q \in asked : q[1] # target /\ (q[2] = target => address' = address)}
          /\ restarts' = restarts + 1
          /\ IF at = "restart" THEN Goto("settings") ELSE End
          /\ UNCHANGED <<poolV, network, down, faults>>

\* Not the code: the pool is not told of the node.
SettingsKept ==
  /\ at = "settings"
  /\ Goto("pick")
  /\ UNCHANGED <<world, poolV, network, history>>

\* GetLNDSettingsFromContainer and AddNode.  The files are there from the first
\* start; without a pool nothing is asked for and the next line throws.  If the
\* monitoring task is copying the list, the copy throws and the task dies.
Settings ==
  /\ at = "settings"
  /\ IF ~pool THEN Throw
     ELSE /\ container[target] = "running"
          /\ pending' = pending \cup {Connection(target)}
          /\ \/ UNCHANGED monitored
             \/ pending # {} /\ monitored' = FALSE
          /\ Goto("pick")
          /\ UNCHANGED <<world, pool, members, listed, expired, network, history>>

\* WaitUntilAliasIsServerReady settles for the first connection it sees
\* and then waits for that one to be ready.
Pick ==
  /\ at = "pick"
  /\ \E c \in Of(target, listed) : local' = c
  /\ at' = "ready"
  /\ UNCHANGED <<op, target, i, k, remote, locals, remotes, retryCount, world,
                 poolV, network, history>>

Ready ==
  /\ at = "ready" /\ IsServerReady(local)
  /\ at' = "channel" /\ k' = 1
  /\ UNCHANGED <<op, target, i, local, remote, locals, remotes, retryCount, world,
                 poolV, network, history>>

BeginDestroy ==
  /\ isBuilt
  /\ Begin("Destroy", Miner, "destroy", 1)
  /\ UNCHANGED <<world, poolV, network, history>>

\* Not the code: containers that have been stopped are passed over too.
DestroyRunning ==
  /\ at = "destroy" /\ i <= Len(Destroyed)
  /\ LET n == Destroyed[i] IN
       IF containerId[n] = "none" \/ container[n] = "stopped"
       THEN /\ at' = at /\ i' = i + 1
            /\ UNCHANGED <<op, target, k, local, remote, locals, remotes,
                           retryCount, world, poolV, network, history>>
       ELSE /\ container' = [container EXCEPT ![n] = "stopped"]
            /\ Ends(n)
            /\ Goto("destroyRemove")
            /\ UNCHANGED <<address, poolV, network, history>>

\* Containers without an id are passed over; one that is gone throws.
DestroyStop ==
  /\ at = "destroy" /\ i <= Len(Destroyed)
  /\ LET n == Destroyed[i] IN
       CASE containerId[n] = "none" ->
              /\ at' = at /\ i' = i + 1
              /\ UNCHANGED <<op, target, k, local, remote, locals, remotes,
                             retryCount, world, poolV, network, history>>
         [] containerId[n] # "none" /\ container[n] = "absent" -> Throw
         [] OTHER ->
              /\ container' = [container EXCEPT ![n] = "stopped"]
              /\ Ends(n)
              /\ Goto("destroyRemove")
              /\ UNCHANGED <<address, poolV, network, history>>

DestroyRemove ==
  /\ at = "destroyRemove"
  /\ container' = [container EXCEPT ![Destroyed[i]] = "absent"]
  /\ at' = "destroy" /\ i' = i + 1
  /\ UNCHANGED <<op, target, k, local, remote, locals, remotes, retryCount, lnd,
                 address, synced, graphed, asked, peers, poolV, network, history>>

DestroyEnds ==
  /\ at = "destroy" /\ i > Len(Destroyed)
  /\ isDestroyed' = TRUE
  /\ End
  /\ UNCHANGED <<world, poolV, containerId, isBuilt, opened, policySet, history>>

Operation ==
  \/ Create \/ Start \/ Files \/ MakePool \/ WaitListed \/ WaitRelisted
  \/ CopyListed \/ NextLocal \/ NextRemote \/ Connect \/ ConnectAgain \/ ConnectFails
  \/ Fund \/ Channel \/ FindRemote \/ Sync \/ Reset \/ Open \/ SetPolicy
  \/ PolicyFails \/ PolicyMissing \/ Built
  \/ Remove \/ StopContainer \/ RestartContainer \/ Settings \/ Pick \/ Ready
  \/ DestroyStop \/ DestroyRemove \/ DestroyEnds

\* A network is built before its nodes are stopped and started.
Begins ==
  \/ BeginBuild \/ BeginDestroy
  \/ /\ isBuilt
     /\ \E n \in Nodes, isLND \in BOOLEAN :
          BeginShutdown(n, isLND) \/ BeginRestart(n, isLND)

-----------------------------------------------------------------------------
(* Docker, bitcoind, LND, the pool and the fixture.                        *)

LndStarts(n) ==
  /\ container[n] = "running"
  /\ \/ lnd[n] = "off" /\ lnd' = [lnd EXCEPT ![n] = "rpc"]
     \/ /\ lnd[n] = "rpc" /\ container[Miner] = "running"
        /\ lnd' = [lnd EXCEPT ![n] = "active"]
  /\ UNCHANGED <<container, address, synced, graphed, asked, peers, poolV, network,
                 place, at, history>>

CatchesUp(n) ==
  /\ lnd[n] # "off" /\ container[Miner] = "running"
  /\ n \notin synced
  /\ synced' = synced \cup {n}
  /\ UNCHANGED <<container, lnd, address, graphed, asked, peers, poolV, network,
                 place, at, history>>

Graph(n) ==
  /\ lnd[n] = "active" /\ n \notin graphed
  /\ graphed' = graphed \cup {n}
  /\ UNCHANGED <<container, lnd, address, synced, asked, peers, poolV, network,
                 place, at, history>>

\* What a node was asked for happens when both nodes are up.
Meet(m, n) ==
  /\ <<m, n>> \in asked /\ {m, n} \notin peers
  /\ lnd[m] = "active" /\ lnd[n] = "active"
  /\ peers' = peers \cup {{m, n}}
  /\ UNCHANGED <<container, lnd, address, synced, graphed, asked, poolV, network,
                 place, at, history>>

\* SetupNotYetInitializedNodes connects a node that answers.  Settings with one
\* endpoint are as good as each other.
Join ==
  \E c \in pending :
    /\ monitored /\ Reachable(c)
    /\ pending' = pending \ {c} /\ members' = members \cup {c}
    /\ UNCHANGED <<world, pool, listed, monitored, expired, network, place, at, history>>

\* Labels at which a step enumerates ReadyNodes.
Enumerates ==
  \/ at \in {"copy", "node", "remote", "remove", "pick", "find", "graph", "graph2"}
  \/ at = "peers" /\ locals # {}

\* The monitoring task lists what is not listed, unprobed, and drops what is not
\* ready.  An enumeration of ReadyNodes that meets this throws.
Monitor ==
  /\ monitored
  /\ \/ UNCHANGED <<place, at>>
     \/ Enumerates /\ End
  /\ UNCHANGED <<world, pool, pending, members, monitored, expired, network, history>>

List ==
  \E c \in members \ listed : listed' = listed \cup {c} /\ Monitor

Drop ==
  \E c \in listed \cap members :
    ~IsServerReady(c) /\ listed' = listed \ {c} /\ Monitor

Expire ==
  /\ at \in {"listed", "copy", "peers", "remotes", "connect", "relisted"} /\ op = "Build"
  /\ ~expired
  /\ expired' = TRUE
  /\ UNCHANGED <<world, pool, pending, members, listed, monitored, network, place, at,
                 history>>

Fault == /\ faults < MaxFaults
         /\ faults' = faults + 1
         /\ UNCHANGED <<restarts, down>>

\* Labels at which Docker, bitcoind or LND is called and an exception is not
\* swallowed.
Calls ==
  \/ at \in {"create", "start", "files", "connect", "node", "sync", "synced", "sync1",
            "sync2", "sync3", "graph", "graph2", "open", "stop", "restart",
            "restartOnly", "settings", "ready", "destroy", "destroyRemove"}
  \/ at = "policy" /\ op = "Restart"

CallFails ==
  /\ Calls
  /\ Fault
  /\ End
  /\ UNCHANGED <<world, poolV, network>>

ContainerDies(n) ==
  /\ container[n] = "running"
  /\ container' = [container EXCEPT ![n] = "stopped"]
  /\ Ends(n)
  /\ Fault
  /\ UNCHANGED <<address, poolV, network, place, at>>

\* A node the pool connects to never answers GetInfo.
MonitorHangs ==
  /\ monitored /\ pending # {}
  /\ monitored' = FALSE
  /\ Fault
  /\ UNCHANGED <<world, pool, pending, members, listed, expired, network, place, at>>

\* Between two networks the fixtures remove every container by its name
\* (DockerHelper.RemoveContainer).
CleanUp ==
  /\ op = "none"
  /\ container' = [n \in Range(Plan) |-> IF n \in Range(Destroyed) THEN "absent"
                                         ELSE container[n]]
  /\ lnd' = [m \in Lnds |-> IF m \in Nodes THEN "off" ELSE lnd[m]]
  /\ synced' = {} /\ graphed' = {} /\ asked' = {} /\ peers' = {}
  /\ opened' = [c \in ChannelIds |-> 0] /\ policySet' = {}
  /\ UNCHANGED <<address, poolV, containerId, isBuilt, isDestroyed, place, at, history>>

Environment ==
  \/ Join \/ List \/ Drop \/ Expire \/ CallFails \/ MonitorHangs \/ CleanUp
  \/ \E n \in Lnds : LndStarts(n)
  \/ \E n \in Nodes : CatchesUp(n) \/ Graph(n)
  \/ \E m, n \in Nodes : Meet(m, n)
  \/ \E n \in Range(Destroyed) : ContainerDies(n)

Next == Begins \/ Operation \/ Environment

Spec == Init /\ [][Next]_vars

\* Threads run, every call is answered or broken off in the end, LND starts and
\* catches up as long as its container and the miner run, and the monitoring
\* task goes on while it is alive.
FairSpec ==
  /\ Spec
  /\ WF_vars(Operation) /\ WF_vars(Join) /\ WF_vars(List)
  /\ \A n \in Lnds : WF_vars(LndStarts(n))
  /\ \A n \in Nodes : WF_vars(CatchesUp(n)) /\ WF_vars(Graph(n))

-----------------------------------------------------------------------------
(* Properties.                                                             *)

Labels == {"idle", "create", "start", "files", "pool", "listed", "copy", "peers",
           "remotes", "connect", "relisted", "node", "channel", "remote", "sync",
           "synced", "sync1", "sync2", "find", "sync3", "graph", "graph2", "reset",
           "open", "policy", "built", "remove", "stop", "restart", "restartOnly",
           "settings", "pick", "ready", "destroy", "destroyRemove"}
Connections == [node : Nodes, address : Nat, made : Nat]

TypeOK ==
  /\ {pool, monitored, expired, isBuilt, isDestroyed} \subseteq BOOLEAN
  /\ container \in [Range(Plan) -> {"absent", "created", "running", "stopped"}]
  /\ lnd \in [Lnds -> {"off", "rpc", "active"}]
  /\ address \in [Nodes -> Nat]
  /\ synced \subseteq Nodes /\ graphed \subseteq Nodes
  /\ asked \subseteq Nodes \X Nodes
  /\ peers \subseteq {p \in SUBSET Nodes : Cardinality(p) = 2}
  /\ pending \subseteq Connections /\ members \subseteq Connections
  /\ listed \subseteq Connections
  /\ opened \in [ChannelIds -> Nat] /\ policySet \subseteq ChannelIds
  /\ op \in Operations \cup {"none"} /\ at \in Labels
  /\ at = "open" => <<target, k>> \in ChannelIds
  /\ {local, remote} \subseteq Connections \cup {NoConnection}
  /\ retryCount \in 0..3
  /\ restarts \in 0..MaxRestarts /\ down \subseteq Nodes /\ faults \in 0..MaxFaults

\* Once Destroy has said so, no container of the bitcoind and LND nodes is
\* left, whatever was shut down, restarted or removed by hand in between.
DestroyLeavesNothing ==
  isDestroyed => \A n \in Range(Destroyed) : container[n] = "absent"

\* Build returns with what was configured, on the first attempt or after others
\* that failed half-way and were cleaned up: the id of every container known,
\* every channel there once and its policy set.
BuiltAsConfigured ==
  [][isBuilt' /\ ~isBuilt =>
       /\ \A n \in Range(Plan) : containerId[n] # "none"
       /\ \A c \in ChannelIds : opened[c] = 1
       /\ policySet = ChannelIds]_vars

\* The ways in which Build throws while no call fails for a reason of its own,
\* no node ends and the limit of time is not over.  A name was taken; a node
\* still starts up when it is called; a node was to have a channel with itself;
\* or one of three gaps in its waiting: an enumeration of ReadyNodes met the
\* pool, the pool had dropped a node that was listed too early, the remote end
\* of a channel was not connected yet or behind the chain.  It throws nowhere
\* else: never in a wait for the chain, and never because the node that funds a
\* channel has not seen its funds.
BuildThrows ==
  \/ at = "create" /\ container[Cur] # "absent"
  \/ at = "connect" /\ lnd[local.node] # "active"
  \/ at = "node" /\ lnd[LNDNodes[i]] # "active"
  \/ at = "connect" /\ i > 0 /\ target \in Range(Channels[target])
  \/ Enumerates /\ listed' # listed
  \/ at = "node" /\ Of(LNDNodes[i], listed) = {}
  \/ at = "open" /\ (remote.node \notin synced \/ Pair(local, remote) \notin peers)

BuildFailsForAReason ==
  [][op = "Build" /\ op' = "none" /\ ~isBuilt' /\ faults' = 0 /\ ~expired => BuildThrows]_vars

\* As long as the monitoring task lives, a node that is shut down before it is
\* restarted has one connection in the pool at most, listed, pending or neither,
\* and it is to the address the node has; RestartByAlias goes on with a
\* connection the pool still has, not with one that it has given up.
OneConnection ==
  Careful /\ monitored =>
    /\ \A n \in Nodes :
         LET connections == Of(n, pending \cup members \cup listed) IN
           /\ Cardinality(connections) <= 1
           /\ faults = 0 => \A c \in connections : c.address = address[n]
    /\ op = "Restart" /\ at \notin {"restart", "restartOnly", "settings", "pick"} =>
         local \in Of(target, members)

\* RestartByAlias opens a channel only when the node is synchronised with the
\* chain ("Wait until we are synced to the chain so we know we have funds
\* secured to send").
RestartOpensSynced ==
  op = "Restart" /\ at = "open" /\ faults = 0 => local.node \in synced

\* No operation waits for ever if nothing fails, nodes are shut down before they
\* are restarted and the monitoring task lives, though none of the waits but two
\* has a limit.
OperationsEnd ==
  op # "none" ~> \/ op = "none" \/ faults > 0 \/ ~Careful
                 \/ op # "Build" /\ ~monitored
=============================================================================
