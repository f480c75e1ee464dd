----------------------------- MODULE BuildProofs -----------------------------
(***************************************************************************)
(* More theorems about Builder, for any network and any number of faults   *)
(* and restarts: its types, and what Build delivers or throws for.  They   *)
(* rest on the places of BuilderProofs.                                    *)
(***************************************************************************)
EXTENDS BuilderProofs

USE NetworkAssumption, BoundAssumption, SwitchAssumption

-----------------------------------------------------------------------------
(* Types.                                                                  *)

\* Labels at which Channels[target][k] is being worked on.
ChannelLabels == {"remote", "sync", "synced", "sync1", "sync2", "find", "sync3",
                  "graph", "graph2", "reset", "open", "policy"}
InChannel == at \in ChannelLabels \/ (at = "connect" /\ (op = "Restart" \/ i > 0))

WorldOK ==
  /\ container \in [Range(Plan) -> {"absent", "created", "running", "stopped"}]
  /\ lnd \in [Lnds -> {"off", "rpc", "active"}]
  /\ address \in [Nodes -> Nat]
  /\ synced \subseteq Nodes /\ graphed \subseteq Nodes
  /\ asked \subseteq Nodes \X Nodes /\ \A n \in Nodes : <<n, n>> \notin asked
  /\ peers \subseteq {p \in SUBSET Nodes : Cardinality(p) = 2}

PoolOK ==
  /\ pool \in BOOLEAN /\ monitored \in BOOLEAN /\ expired \in BOOLEAN
  /\ pending \subseteq Connections /\ members \subseteq Connections
  /\ listed \subseteq Connections

NetworkOK ==
  /\ isBuilt \in BOOLEAN /\ isDestroyed \in BOOLEAN
  /\ opened \in [ChannelIds -> Nat] /\ policySet \subseteq ChannelIds

HistoryOK ==
  /\ restarts \in 0..MaxRestarts /\ down \subseteq Nodes /\ faults \in 0..MaxFaults
  /\ at \in {"restart", "restartOnly"} => restarts < MaxRestarts

\* The loop over the channels of target has a node, an index and connections.
PlaceOK ==
  /\ i \in Nat /\ retryCount \in 0..3
  /\ {local, remote} \subseteq Connections \cup {NoConnection}
  /\ locals \subseteq Connections /\ remotes \subseteq Connections
  /\ at = "channel" \/ InChannel => target \in Nodes /\ k \in Nat \ {0}
  /\ InChannel => k <= Len(Channels[target])
  /\ op = "Build" /\ (at \in {"node", "channel"} \/ InChannel) => i \in 1..Len(LNDNodes)
  /\ at \in {"copy", "peers", "remotes"} => i = 0
  /\ at \in {"remotes", "connect", "channel", "ready"} \cup ChannelLabels =>
       local \in Connections
  /\ at \in {"connect"} \cup (ChannelLabels \ {"remote"}) => remote \in Connections

TypeInv == SafeInv /\ WorldOK /\ PoolOK /\ NetworkOK /\ HistoryOK /\ PlaceOK

LEMMA NetworkFacts ==
  /\ Len(LNDNodes) \in Nat \ {0}
  /\ \A j \in 1..Len(LNDNodes) : LNDNodes[j] \in Nodes
  /\ \A n \in Nodes : /\ Channels[n] \in Seq(Nodes) /\ Len(Channels[n]) \in Nat
                      /\ DOMAIN Channels[n] = 1..Len(Channels[n])
  /\ \A n \in Nodes : \A m \in 1..Len(Channels[n]) :
       Channels[n][m] \in Nodes /\ <<n, m>> \in ChannelIds
<1>1. LNDNodes \in Seq(Nodes) /\ LNDNodes # <<>> /\ Channels \in [Nodes -> Seq(Nodes)]
  BY DEF NetworkAssumption
<1>2. Len(LNDNodes) \in Nat \ {0} /\ \A j \in 1..Len(LNDNodes) : LNDNodes[j] \in Nodes
  BY <1>1
<1>3. ASSUME NEW n \in Nodes
      PROVE  /\ Channels[n] \in Seq(Nodes) /\ Len(Channels[n]) \in Nat
             /\ DOMAIN Channels[n] = 1..Len(Channels[n])
             /\ \A m \in 1..Len(Channels[n]) : Channels[n][m] \in Nodes
  BY <1>1
<1>4. ASSUME NEW n \in Nodes, NEW m \in 1..Len(Channels[n]) PROVE <<n, m>> \in ChannelIds
  <2>1. <<n, m>> \in {n} \X DOMAIN Channels[n]
    BY <1>3
  <2> QED
    BY <2>1 DEF ChannelIds
<1> QED
  BY <1>2, <1>3, <1>4

LEMMA ConnectionType ==
  ASSUME WorldOK, HistoryOK, NEW n \in Nodes PROVE Connection(n) \in Connections
  BY DEF WorldOK, HistoryOK, Connection, Connections

LEMMA CountUp ==
  ASSUME NEW S, NEW f \in [S -> Nat], NEW x \in S
  PROVE  [f EXCEPT ![x] = @ + 1] \in [S -> Nat]
  OBVIOUS

LEMMA PairOfTwo ==
  ASSUME NEW a \in Nodes, NEW b \in Nodes, a # b
  PROVE  {a, b} \in {p \in SUBSET Nodes : Cardinality(p) = 2}
<1> DEFINE S == {a} \cup {b}
<1>1. IsFiniteSet({a}) /\ Cardinality({a}) = 1
  BY FS_Singleton
<1>2. Cardinality(S) = Cardinality({a}) + 1
  BY <1>1, FS_AddElement
<1>3. S \subseteq Nodes /\ S = {a, b}
  OBVIOUS
<1> HIDE DEF S
<1>4. Cardinality(S) = 2
  BY <1>1, <1>2
<1> QED
  BY <1>3, <1>4

\* What every step of the same kind needs.
LEMMA EndPlaced == End => PlaceOK'
<1> SUFFICES ASSUME End PROVE PlaceOK'
  OBVIOUS
<1>1. /\ op' = "none" /\ at' = "idle" /\ i' = 0 /\ retryCount' = 0 /\ locals' = {}
      /\ remotes' = {} /\ local' = NoConnection /\ remote' = NoConnection
  BY DEF End
<1>2. ~InChannel'
  BY <1>1 DEF InChannel, ChannelLabels
<1>3. NoConnection' = NoConnection /\ Connections' = Connections
  BY DEF NoConnection, Connections
<1> QED
  BY <1>1, <1>2, <1>3 DEF PlaceOK, ChannelLabels

LEMMA EndsType ==
  ASSUME WorldOK, NEW n, Ends(n)
  PROVE  /\ lnd' \in [Lnds -> {"off", "rpc", "active"}]
         /\ synced' \subseteq Nodes /\ graphed' \subseteq Nodes
         /\ asked' \subseteq Nodes \X Nodes /\ \A m \in Nodes : <<m, m>> \notin asked'
         /\ peers' \subseteq {p \in SUBSET Nodes : Cardinality(p) = 2}
  BY DEF WorldOK, Ends

LEMMA HistorySame ==
  HistoryOK /\ UNCHANGED history /\ at' \notin {"restart", "restartOnly"} => HistoryOK'
  BY DEF HistoryOK, history

LEMMA WorldSame == WorldOK /\ UNCHANGED world => WorldOK'
  BY DEF WorldOK, world

LEMMA PoolSame == PoolOK /\ UNCHANGED poolV => PoolOK'
  BY Zenon DEF PoolOK, poolV, Connections

LEMMA NetworkSame == NetworkOK /\ UNCHANGED network => NetworkOK'
  BY Zenon DEF NetworkOK, network, ChannelIds

LEMMA InitType == Init => TypeInv
<1> SUFFICES ASSUME Init PROVE TypeInv
  OBVIOUS
<1>1. WorldOK
  <2>1. container \in [Range(Plan) -> {"absent", "created", "running", "stopped"}]
    BY InitSafe DEF SafeInv, DestroyInv
  <2> QED
    BY <2>1 DEF Init, WorldOK
<1>2. PoolOK
  BY DEF Init, PoolOK
<1>3. NetworkOK
  BY DEF Init, NetworkOK
<1>4. HistoryOK
  BY DEF Init, HistoryOK, BoundAssumption
<1>5. PlaceOK
  BY DEF Init, PlaceOK, InChannel, ChannelLabels
<1> QED
  BY <1>1, <1>2, <1>3, <1>4, <1>5, InitSafe DEF TypeInv

LEMMA BeginsType == TypeInv /\ Begins =>
  WorldOK' /\ PoolOK' /\ NetworkOK' /\ HistoryOK' /\ PlaceOK'
<1> SUFFICES ASSUME TypeInv, Begins
             PROVE  WorldOK' /\ PoolOK' /\ NetworkOK' /\ HistoryOK' /\ PlaceOK'
  OBVIOUS
<1>1. ASSUME NEW o, NEW n, NEW label \in {"create", "remove", "stop", "restart",
                                          "restartOnly", "destroy"},
             NEW first \in {0, 1}, Begin(o, n, label, first)
      PROVE  PlaceOK'
  BY <1>1 DEF TypeInv, Begin, PlaceOK, InChannel, ChannelLabels
<1>2. CASE BeginBuild
  <2>1. PlaceOK'
    BY <1>1, <1>2 DEF BeginBuild
  <2>2. NetworkOK'
    BY Zenon, <1>2 DEF TypeInv, BeginBuild, NetworkOK, ChannelIds
  <2> QED
    BY <1>2, <2>1, <2>2, WorldSame, PoolSame, HistorySame DEF TypeInv, BeginBuild, Begin
<1>3. CASE BeginDestroy
  <2>1. PlaceOK'
    BY <1>1, <1>3 DEF BeginDestroy
  <2> QED
    BY <1>3, <2>1, NetworkSame, WorldSame, PoolSame, HistorySame
       DEF TypeInv, BeginDestroy, Begin
<1>4. ASSUME NEW n \in Nodes, NEW isLND \in BOOLEAN, BeginShutdown(n, isLND)
      PROVE  WorldOK' /\ PoolOK' /\ NetworkOK' /\ HistoryOK' /\ PlaceOK'
  <2>1. PlaceOK'
    BY <1>1, <1>4 DEF BeginShutdown
  <2> QED
    BY <1>4, <2>1, NetworkSame, WorldSame, PoolSame, HistorySame
       DEF TypeInv, BeginShutdown, Begin
<1>5. ASSUME NEW n \in Nodes, NEW isLND \in BOOLEAN, BeginRestart(n, isLND)
      PROVE  WorldOK' /\ PoolOK' /\ NetworkOK' /\ HistoryOK' /\ PlaceOK'
  <2>1. PlaceOK'
    BY <1>1, <1>5 DEF BeginRestart
  <2>2. HistoryOK'
    BY <1>5 DEF TypeInv, BeginRestart, HistoryOK
  <2> QED
    BY <1>5, <2>1, <2>2, NetworkSame, WorldSame, PoolSame DEF TypeInv, BeginRestart
<1> QED
  BY <1>2, <1>3, <1>4, <1>5 DEF Begins

\* A step of Build or RestartByAlias that waits, chooses or loops, and leaves
\* everything but its own place alone.
Local == UNCHANGED <<world, poolV, network, history>> /\ at' \notin {"restart", "restartOnly"}

LEMMA LocalType ==
  TypeInv /\ Local => WorldOK' /\ PoolOK' /\ NetworkOK' /\ HistoryOK'
  BY WorldSame, PoolSame, NetworkSame, HistorySame DEF TypeInv, Local

LEMMA LocalSteps ==
  ASSUME TypeInv,
         \/ Files \/ WaitListed \/ WaitRelisted \/ CopyListed \/ NextLocal \/ NextRemote
          \/ ConnectAgain
         \/ ConnectFails \/ Channel \/ FindRemote \/ Sync \/ Reset \/ PolicyFails
         \/ Pick \/ Ready
  PROVE  Local /\ PlaceOK'
<1> USE DEF Local, Goto, Throw
<1>0. Throw => Local /\ PlaceOK'
  BY EndPlaced DEF End
<1> USE <1>0 DEF TypeInv
<1>1. CASE Files
  BY <1>1 DEF Files, PlaceOK, InChannel, ChannelLabels, place, SafeInv, PlaceInv
<1>2. CASE WaitListed
  BY <1>2 DEF WaitListed, Listed, PlaceOK, InChannel, ChannelLabels, place, PoolOK
<1>3. CASE WaitRelisted
  BY <1>3, NetworkFacts DEF WaitRelisted, Listed, PlaceOK, InChannel, ChannelLabels, place, PoolOK
<1>4. CASE NextLocal
  BY <1>4 DEF NextLocal, PlaceOK, InChannel, ChannelLabels, place, PoolOK
<1>5. CASE NextRemote
  BY <1>5 DEF NextRemote, PlaceOK, InChannel, ChannelLabels, place, PoolOK,
     SafeInv, PlaceInv, BuildLabels, RestartLabels, SharedLabels, Operations
<1>6. CASE ConnectAgain
  BY <1>6 DEF ConnectAgain, PlaceOK, InChannel, ChannelLabels, place
<1>7. CASE ConnectFails
  BY <1>7 DEF ConnectFails
<1>8. CASE Channel
  <2>1. at = "channel" /\ UNCHANGED <<world, poolV, network, history>>
    BY <1>8 DEF Channel
  <2>0. k \in Nat /\ Len(Channels[target]) \in Nat
    BY <2>1, NetworkFacts DEF PlaceOK
  <2>2. CASE k <= Len(Channels[target])
    <3>1. Goto("remote")
      <4> HIDE DEF Goto
      <4> QED
        BY <1>8, <2>0, <2>2 DEF Channel
    <3> QED
      BY <2>1, <2>2, <3>1 DEF PlaceOK, InChannel, ChannelLabels, place
  <2>3. CASE ~(k <= Len(Channels[target])) /\ op = "Restart"
    <3>1. End
      <4> HIDE DEF Goto
      <4> QED
        BY <1>8, <2>3, NetworkFacts DEF Channel, PlaceOK
    <3> QED
      BY <2>1, <3>1, EndPlaced DEF End
  <2>4. CASE ~(k <= Len(Channels[target])) /\ op # "Restart"
    <3>1. /\ IF i < Len(LNDNodes) THEN at' = "node" /\ i' = i + 1
             ELSE at' = "built" /\ i' = i
          /\ UNCHANGED <<op, target, k, local, remote, locals, remotes, retryCount>>
      <4> HIDE DEF Goto
      <4> QED
        BY <1>8, <2>4 DEF Channel
    <3>2. op = "Build" /\ i \in 1..Len(LNDNodes)
      BY <2>1, <2>4 DEF PlaceOK, SafeInv, PlaceInv, Operations, BuildLabels, RestartLabels,
                        SharedLabels
    <3> QED
      BY <2>1, <3>1, <3>2, NetworkFacts DEF PlaceOK, InChannel, ChannelLabels
  <2> QED
    BY <2>2, <2>3, <2>4
<1>9. CASE FindRemote
  BY <1>9 DEF FindRemote, PlaceOK, InChannel, ChannelLabels, place, PoolOK, Of
<1>10. CASE Sync
  <2>1. ASSUME NEW c, NEW enough, at \in ChannelLabels \ {"remote"},
               NEW next \in ChannelLabels \ {"remote"}, Info(c, enough, next)
        PROVE  Local /\ PlaceOK'
    <3>1. CASE Throw
      BY <3>1
    <3>2. CASE ~Throw
      <4>1. UNCHANGED <<world, poolV, network, history, place>> /\ at' = next
        BY <2>1, <3>2 DEF Info
      <4> QED
        BY <2>1, <4>1 DEF PlaceOK, InChannel, ChannelLabels, place
    <3> QED
      BY <3>1, <3>2
  <2>2. CASE \/ WaitSynced(local, "sync", "open") \/ WaitSynced(local, "synced", "policy")
             \/ WaitSynced(remote, "sync3", "graph2")
    BY <2>1, <2>2 DEF WaitSynced, ChannelLabels
  <2>3. CASE WaitEither(local, "sync1", "sync2") \/ WaitEither(remote, "sync2", "graph")
    BY <2>1, <2>3 DEF WaitEither, ChannelLabels
  <2>4. CASE WaitGraph("graph", "reset") \/ WaitGraph("graph2", "policy")
    BY <2>1, <2>4 DEF WaitGraph, ChannelLabels
  <2>5. CASE FindAgain
    BY <2>5 DEF FindAgain, PlaceOK, InChannel, ChannelLabels, PoolOK, Of
  <2> QED
    BY <1>10, <2>2, <2>3, <2>4, <2>5 DEF Sync
<1>11. CASE Reset
  <2>1. /\ at = "reset" /\ UNCHANGED <<world, poolV, network, history>>
        /\ \/ at' = "open" /\ UNCHANGED place
           \/ NextChannel
    BY <1>11 DEF Reset
  <2>2. CASE at' = "open" /\ UNCHANGED place
    BY <2>1, <2>2 DEF PlaceOK, InChannel, ChannelLabels, place
  <2>3. CASE NextChannel
    BY <2>1, <2>3 DEF NextChannel, PlaceOK, InChannel, ChannelLabels
  <2> QED
    BY <2>1, <2>2, <2>3
<1>12. CASE PolicyFails
  BY <1>12 DEF PolicyFails
<1>13. CASE Pick
  BY <1>13 DEF Pick, PlaceOK, InChannel, ChannelLabels, place, PoolOK, Of
<1>14. CASE Ready
  BY <1>14 DEF Ready, PlaceOK, InChannel, ChannelLabels, place,
     SafeInv, PlaceInv, BuildLabels, RestartLabels, SharedLabels, Operations
<1>15. CASE CopyListed
  BY <1>15 DEF CopyListed, PlaceOK, InChannel, ChannelLabels, place, PoolOK
<1> QED
  BY <1>1, <1>2, <1>3, <1>4, <1>5, <1>6, <1>7, <1>8, <1>9, <1>10, <1>11, <1>12, <1>13,
     <1>14, <1>15

LEMMA OperationType ==
  TypeInv /\ Operation => WorldOK' /\ PoolOK' /\ NetworkOK' /\ HistoryOK' /\ PlaceOK'
<1> SUFFICES ASSUME TypeInv, Operation
             PROVE  WorldOK' /\ PoolOK' /\ NetworkOK' /\ HistoryOK' /\ PlaceOK'
  OBVIOUS
<1> USE DEF Goto
<1>0. Throw => WorldOK' /\ PoolOK' /\ NetworkOK' /\ HistoryOK' /\ PlaceOK'
  BY EndPlaced, LocalType DEF Throw, End, Local
<1>1. CASE \/ Files \/ WaitListed \/ WaitRelisted \/ CopyListed \/ NextLocal \/ NextRemote
           \/ ConnectAgain
           \/ ConnectFails \/ Channel \/ FindRemote \/ Sync \/ Reset \/ PolicyFails
           \/ Pick \/ Ready
  BY <1>1, LocalSteps, LocalType
<1>2. CASE Create
  <2>1. CASE Throw
    BY <2>1, <1>0
  <2>2. CASE ~Throw
    <3>1. /\ container' = [container EXCEPT ![Cur] = "created"] /\ at' = "start"
          /\ UNCHANGED <<lnd, address, synced, graphed, asked, peers, poolV, isBuilt,
                         isDestroyed, opened, policySet, place, history>>
      BY <1>2, <2>2 DEF Create
    <3>2. WorldOK'
      BY <3>1 DEF TypeInv, WorldOK
    <3>3. NetworkOK'
      BY Zenon, <3>1 DEF TypeInv, NetworkOK, ChannelIds
    <3>4. PlaceOK'
      BY <3>1 DEF TypeInv, PlaceOK, InChannel, ChannelLabels, place
    <3> QED
      BY <3>1, <3>2, <3>3, <3>4, PoolSame, HistorySame DEF TypeInv
  <2> QED
    BY <2>1, <2>2
<1>3. CASE Start
  <2>1. WorldOK'
    BY <1>3 DEF Start, TypeInv, WorldOK
  <2>2. PlaceOK'
    BY <1>3 DEF Start, TypeInv, PlaceOK, InChannel, ChannelLabels, place
  <2> QED
    BY <1>3, <2>1, <2>2, PoolSame, NetworkSame, HistorySame DEF TypeInv, Start
<1>4. CASE MakePool
  <2>1. PoolOK'
    BY <1>4, ConnectionType DEF MakePool, TypeInv, PoolOK
  <2>2. PlaceOK'
    BY <1>4 DEF MakePool, TypeInv, PlaceOK, InChannel, ChannelLabels, place
  <2> QED
    BY <1>4, <2>1, <2>2, WorldSame, NetworkSame, HistorySame DEF TypeInv, MakePool
<1>5. CASE Connect
  <2>1. /\ at = "connect" /\ Reachable(local) /\ local.node # remote.node /\ retryCount' = 0
        /\ asked' = asked \cup IF remote.address = address[remote.node]
                              THEN {<<local.node, remote.node>>} ELSE {}
        /\ UNCHANGED <<op, target, i, k, local, remote, locals, remotes>>
        /\ UNCHANGED <<container, lnd, address, synced, graphed, peers, poolV, network, history>>
    BY <1>5 DEF Connect, IsServerReady
  <2>2. WorldOK'
    <3>1. local.node \in Nodes /\ remote.node \in Nodes
      BY <2>1 DEF Reachable, TypeInv, PlaceOK, Connections
    <3>2. asked' \subseteq Nodes \X Nodes /\ \A n \in Nodes : <<n, n>> \notin asked'
      BY <2>1, <3>1 DEF TypeInv, WorldOK
    <3> QED
      BY <2>1, <3>2 DEF TypeInv, WorldOK
  <2>3. /\ at' \in {"sync1", "remotes", "sync"}
        /\ at' = "sync1" <=> op = "Restart"
        /\ at' = "remotes" <=> op # "Restart" /\ op = "Build" /\ i = 0
    <3>1. CASE op = "Restart"
      BY <1>5, <3>1 DEF Connect
    <3>2. CASE op # "Restart" /\ op = "Build" /\ i = 0
      BY <1>5, <3>2 DEF Connect
    <3>3. CASE op # "Restart" /\ ~(op = "Build" /\ i = 0)
      BY <1>5, <3>3 DEF Connect
    <3> QED
      BY <3>1, <3>2, <3>3
  <2>4. op \in {"Build", "Restart"}
    BY <2>1 DEF TypeInv, SafeInv, PlaceInv, Operations, BuildLabels, RestartLabels, SharedLabels
  <2>5. PlaceOK'
    BY <2>1, <2>3, <2>4 DEF TypeInv, PlaceOK, InChannel, ChannelLabels
  <2> QED
    BY <2>1, <2>2, <2>3, <2>5, PoolSame, NetworkSame, HistorySame DEF TypeInv
<1>17. CASE PolicyMissing
  <2>1. CASE Throw
    BY <2>1, <1>0
  <2>2. CASE ~Throw
    <3>1. /\ at = "policy" /\ Mine /\ retryCount' = 1
          /\ UNCHANGED <<op, at, target, i, k, local, remote, locals, remotes, container,
                         lnd, address, graphed, asked, peers, poolV, network, history>>
      BY <1>17, <2>2 DEF PolicyMissing
    <3>2. PlaceOK'
      BY <3>1 DEF TypeInv, PlaceOK, InChannel, ChannelLabels
    <3>3. WorldOK'
      BY <3>1 DEF TypeInv, WorldOK, Mine
    <3> QED
      BY <3>1, <3>2, <3>3, PoolSame, NetworkSame, HistorySame DEF TypeInv
  <2> QED
    BY <2>1, <2>2
<1>6. CASE Fund
  <2>1. CASE Throw
    BY <2>1, <1>0
  <2>2. CASE ~Throw
    <3>1. PICK c \in Of(LNDNodes[i], listed) :
            /\ local' = c /\ target' = LNDNodes[i] /\ k' = 1 /\ at' = "channel"
            /\ Mine
            /\ UNCHANGED <<op, i, remote, locals, remotes, retryCount, container, lnd, address,
                           graphed, asked, peers, poolV, network, history>>
      BY <1>6, <2>2 DEF Fund
    <3>2. at = "node" /\ op = "Build"
      BY <1>6 DEF Fund, TypeInv, SafeInv, PlaceInv, Operations, BuildLabels, RestartLabels,
                  SharedLabels
    <3>3. PlaceOK'
      BY <3>1, <3>2, NetworkFacts
         DEF TypeInv, PlaceOK, InChannel, ChannelLabels, PoolOK, Of
    <3>4. WorldOK'
      BY <3>1 DEF TypeInv, WorldOK, Mine
    <3> QED
      BY <3>1, <3>3, <3>4, PoolSame, NetworkSame, HistorySame DEF TypeInv
  <2> QED
    BY <2>1, <2>2
<1>7. CASE Open
  <2>1. CASE Throw
    BY <2>1, <1>0
  <2>2. CASE ~Throw
    <3>1. /\ at = "open"
          /\ opened' = [opened EXCEPT ![<<target, k>>] = @ + 1]
          /\ \/ Mine /\ at' \in {"synced", "find"} /\ UNCHANGED place
                /\ (at' = "synced" <=> op = "Build")
             \/ End /\ UNCHANGED synced
          /\ UNCHANGED <<container, lnd, address, graphed, asked, peers, poolV,
                         containerId, isBuilt, isDestroyed, policySet, history>>
      BY <1>7, <2>2 DEF Open
    <3>2. PlaceOK' /\ at' \notin {"restart", "restartOnly"}
      <4>1. CASE End
        BY <4>1, EndPlaced DEF End
      <4>2. CASE ~End
        BY <3>1, <4>2 DEF TypeInv, PlaceOK, InChannel, ChannelLabels, place
      <4> QED
        BY <4>1, <4>2
    <3>3. WorldOK'
      BY <3>1 DEF TypeInv, WorldOK, Mine
    <3>4. NetworkOK'
      <4>1. opened' \in [ChannelIds -> Nat]
        <5>1. <<target, k>> \in ChannelIds
          BY <3>1, NetworkFacts DEF TypeInv, PlaceOK, InChannel, ChannelLabels
        <5> QED
          BY <3>1, <5>1, CountUp DEF TypeInv, NetworkOK
      <4> QED
        BY Zenon, <3>1, <4>1 DEF TypeInv, NetworkOK, ChannelIds
    <3> QED
      BY <3>1, <3>2, <3>3, <3>4, PoolSame, HistorySame DEF TypeInv
  <2> QED
    BY <2>1, <2>2
<1>8. CASE SetPolicy
  <2>1. /\ policySet' = policySet \cup {<<target, k>>} /\ at = "policy" /\ NextChannel
        /\ UNCHANGED <<world, poolV, containerId, isBuilt, isDestroyed, opened, history>>
    BY <1>8 DEF SetPolicy
  <2>2. PlaceOK' /\ at' = "channel"
    BY <2>1 DEF NextChannel, TypeInv, PlaceOK, InChannel, ChannelLabels
  <2>3. <<target, k>> \in ChannelIds
    BY <2>1, NetworkFacts DEF TypeInv, PlaceOK, InChannel, ChannelLabels
  <2>4. NetworkOK'
    BY Zenon, <2>1, <2>3 DEF TypeInv, NetworkOK, ChannelIds
  <2> QED
    BY <2>1, <2>2, <2>4, WorldSame, PoolSame, HistorySame DEF TypeInv
<1>9. CASE Built
  <2>1. NetworkOK'
    BY Zenon, <1>9 DEF Built, TypeInv, NetworkOK, ChannelIds
  <2>2. PlaceOK' /\ at' = "idle"
    BY <1>9, EndPlaced DEF Built, End
  <2> QED
    BY <1>9, <2>1, <2>2, WorldSame, PoolSame, HistorySame DEF TypeInv, Built
<1>10. CASE Remove
  <2>1. PoolOK'
    BY <1>10 DEF Remove, TypeInv, PoolOK
  <2>2. PlaceOK' /\ at' = "stop"
    BY <1>10 DEF Remove, TypeInv, PlaceOK, InChannel, ChannelLabels, place
  <2> QED
    BY <1>10, <2>1, <2>2, WorldSame, NetworkSame, HistorySame DEF TypeInv, Remove
<1>11. CASE StopContainer
  <2>1. CASE Throw
    BY <2>1, <1>0
  <2>2. CASE ~Throw
    <3>1. /\ container' = [container EXCEPT ![target] = "stopped"] /\ Ends(target) /\ End
          /\ down' = down \cup {target} /\ target \in Nodes
          /\ UNCHANGED <<address, poolV, network, restarts, faults>>
      BY <1>11, <2>2 DEF StopContainer, TypeInv, SafeInv, PlaceInv, Operations, BuildLabels,
                         RestartLabels, SharedLabels
    <3>2. WorldOK'
      BY <3>1, EndsType DEF TypeInv, WorldOK
    <3>3. HistoryOK'
      BY <3>1 DEF TypeInv, HistoryOK, End
    <3> QED
      BY <3>1, <3>2, <3>3, EndPlaced, PoolSame, NetworkSame DEF TypeInv
  <2> QED
    BY <2>1, <2>2
<1>12. CASE RestartContainer
  <2>1. CASE Throw
    BY <2>1, <1>0
  <2>2. CASE ~Throw
    <3>1. /\ at \in {"restart", "restartOnly"}
          /\ container' = [container EXCEPT ![target] = "running"]
          /\ lnd' = [lnd EXCEPT ![target] = "off"]
          /\ synced' \subseteq synced /\ graphed' \subseteq graphed
          /\ asked' \subseteq asked /\ peers' \subseteq peers
          /\ \/ address' = address \/ address' = [address EXCEPT ![target] = @ + 1]
          /\ restarts' = restarts + 1
          /\ (at' = "settings" /\ UNCHANGED place) \/ End
          /\ UNCHANGED <<poolV, network, down, faults>>
      BY <1>12, <2>2 DEF RestartContainer
    <3>2. WorldOK'
      <4>1. address' \in [Nodes -> Nat]
        <5>1. target \in Nodes
          BY <3>1 DEF TypeInv, SafeInv, PlaceInv, Operations, BuildLabels, RestartLabels,
                      SharedLabels
        <5>2. address \in [Nodes -> Nat]
          BY DEF TypeInv, WorldOK
        <5>3. [address EXCEPT ![target] = @ + 1] \in [Nodes -> Nat]
          BY <5>1, <5>2, CountUp
        <5> QED
          BY Zenon, <3>1, <5>2, <5>3
      <4> QED
        BY <3>1, <4>1 DEF TypeInv, WorldOK
    <3>3. PlaceOK' /\ at' \in {"settings", "idle"}
      <4>1. CASE End
        BY <4>1, EndPlaced DEF End
      <4>2. CASE ~End
        BY <3>1, <4>2 DEF TypeInv, PlaceOK, InChannel, ChannelLabels, place
      <4> QED
        BY <4>1, <4>2
    <3>4. HistoryOK'
      BY <3>1, <3>3 DEF TypeInv, HistoryOK, BoundAssumption
    <3> QED
      BY <3>1, <3>2, <3>3, <3>4, PoolSame, NetworkSame DEF TypeInv
  <2> QED
    BY <2>1, <2>2
<1>13. CASE Settings
  <2>1. CASE Throw
    BY <2>1, <1>0
  <2>2. CASE ~Throw
    <3>1. /\ at = "settings" /\ pending' = pending \cup {Connection(target)} /\ at' = "pick"
          /\ monitored' \in {monitored, FALSE}
          /\ UNCHANGED <<world, pool, members, listed, expired, network, history, place>>
      BY <1>13, <2>2 DEF Settings
    <3>2. target \in Nodes
      BY <3>1 DEF TypeInv, SafeInv, PlaceInv, Operations, BuildLabels, RestartLabels,
                  SharedLabels
    <3>3. PoolOK'
      <4>1. pending' \subseteq Connections /\ monitored' \in BOOLEAN
        BY <3>1, <3>2, ConnectionType DEF TypeInv, PoolOK
      <4> QED
        BY <3>1, <4>1 DEF TypeInv, PoolOK
    <3>4. PlaceOK'
      BY <3>1 DEF TypeInv, PlaceOK, InChannel, ChannelLabels, place
    <3> QED
      BY <3>1, <3>3, <3>4, WorldSame, NetworkSame, HistorySame DEF TypeInv
  <2> QED
    BY <2>1, <2>2
<1>14. CASE DestroyStop
  <2>1. CASE Throw
    BY <2>1, <1>0
  <2>2. CASE ~Throw
    <3>1. /\ at = "destroy" /\ at' \in {"destroy", "destroyRemove"}
          /\ UNCHANGED <<address, poolV, network, history>>
          /\ UNCHANGED <<local, remote, locals, remotes, retryCount, op, target, k>>
          /\ i' = i \/ i' = i + 1
          /\ \/ UNCHANGED world
             \/ /\ container' = [container EXCEPT ![Destroyed[i]] = "stopped"]
                /\ Ends(Destroyed[i])
      <4>1. CASE containerId[Destroyed[i]] = "none"
        BY <1>14, <4>1 DEF DestroyStop, world, poolV, network, history
      <4>2. CASE containerId[Destroyed[i]] # "none" /\ container[Destroyed[i]] = "absent"
        BY <1>14, <2>2, <4>2 DEF DestroyStop
      <4>3. CASE containerId[Destroyed[i]] # "none" /\ container[Destroyed[i]] # "absent"
        BY <1>14, <4>3 DEF DestroyStop, place
      <4> QED
        BY <4>1, <4>2, <4>3
    <3>2. WorldOK'
      <4>1. CASE UNCHANGED world
        BY <4>1, WorldSame DEF TypeInv
      <4>2. CASE ~UNCHANGED world
        BY <3>1, <4>2, EndsType DEF TypeInv, WorldOK
      <4> QED
        BY <4>1, <4>2
    <3>3. PlaceOK'
      BY <3>1 DEF TypeInv, PlaceOK, InChannel, ChannelLabels
    <3> QED
      BY <3>1, <3>2, <3>3, PoolSame, NetworkSame, HistorySame DEF TypeInv
  <2> QED
    BY <2>1, <2>2
<1>15. CASE DestroyRemove
  <2>1. WorldOK'
    BY <1>15 DEF DestroyRemove, TypeInv, WorldOK
  <2>2. PlaceOK'
    BY <1>15 DEF DestroyRemove, TypeInv, PlaceOK, InChannel, ChannelLabels
  <2> QED
    BY <1>15, <2>1, <2>2, PoolSame, NetworkSame, HistorySame DEF TypeInv, DestroyRemove
<1>16. CASE DestroyEnds
  <2>1. NetworkOK'
    BY Zenon, <1>16 DEF DestroyEnds, TypeInv, NetworkOK, ChannelIds
  <2>2. PlaceOK' /\ at' = "idle"
    BY <1>16, EndPlaced DEF DestroyEnds, End
  <2> QED
    BY <1>16, <2>1, <2>2, WorldSame, PoolSame, HistorySame DEF TypeInv, DestroyEnds
<1> QED
  BY <1>1, <1>2, <1>3, <1>4, <1>5, <1>6, <1>7, <1>8, <1>9, <1>10, <1>11, <1>12, <1>13,
     <1>14, <1>15, <1>16, <1>17 DEF Operation

LEMMA EnvironmentType ==
  TypeInv /\ Environment => WorldOK' /\ PoolOK' /\ NetworkOK' /\ HistoryOK' /\ PlaceOK'
<1> SUFFICES ASSUME TypeInv, Environment
             PROVE  WorldOK' /\ PoolOK' /\ NetworkOK' /\ HistoryOK' /\ PlaceOK'
  OBVIOUS
<1>0. UNCHANGED <<place, at>> => PlaceOK'
  BY DEF TypeInv, PlaceOK, InChannel, ChannelLabels, place
<1>1. Fault /\ (UNCHANGED at \/ at' \notin {"restart", "restartOnly"}) => HistoryOK'
  BY DEF Fault, TypeInv, HistoryOK, BoundAssumption
<1>2. UNCHANGED <<history, at>> => HistoryOK'
  BY DEF TypeInv, HistoryOK, history
<1>10. CASE List \/ Drop
  <2>1. /\ UNCHANGED <<world, pool, pending, members, monitored, expired, network, history>>
        /\ UNCHANGED <<place, at>> \/ End
    BY <1>10 DEF List, Drop, Monitor
  <2>2. PoolOK'
    BY <1>10, <2>1 DEF List, Drop, TypeInv, PoolOK
  <2>3. PlaceOK' /\ HistoryOK'
    BY <2>1, <1>0, <1>2, EndPlaced, HistorySame DEF TypeInv, End
  <2> QED
    BY <2>1, <2>2, <2>3, WorldSame, NetworkSame DEF TypeInv
<1>11. ASSUME NEW m \in Nodes, NEW n \in Nodes, Meet(m, n)
       PROVE  WorldOK' /\ PoolOK' /\ NetworkOK' /\ HistoryOK' /\ PlaceOK'
  <2>1. m # n /\ peers' = peers \cup {{m, n}}
    BY <1>11 DEF Meet, TypeInv, WorldOK
  <2>2. WorldOK'
    BY <1>11, <2>1, PairOfTwo DEF Meet, TypeInv, WorldOK
  <2> QED
    BY <1>0, <1>2, <1>11, <2>2, PoolSame, NetworkSame DEF TypeInv, Meet
<1>3. CASE Join \/ Expire
  <2>1. UNCHANGED <<world, network, place, at, history>>
    BY <1>3 DEF Join, Expire
  <2>2. PoolOK'
    BY <1>3 DEF Join, Expire, TypeInv, PoolOK
  <2> QED
    BY <2>1, <2>2, <1>0, <1>2, WorldSame, NetworkSame DEF TypeInv
<1>4. CASE CallFails
  BY <1>1, <1>4, EndPlaced, WorldSame, PoolSame, NetworkSame DEF CallFails, TypeInv, End
<1>5. CASE MonitorHangs
  <2>1. PoolOK'
    BY <1>5 DEF MonitorHangs, TypeInv, PoolOK
  <2> QED
    BY <1>0, <1>1, <1>5, <2>1, WorldSame, NetworkSame DEF MonitorHangs, TypeInv
<1>6. CASE CleanUp
  <2>1. WorldOK'
    <3>1. /\ container' = [n \in Range(Plan) |-> IF n \in Range(Destroyed) THEN "absent"
                                                ELSE container[n]]
          /\ lnd' = [m \in Lnds |-> IF m \in Nodes THEN "off" ELSE lnd[m]]
          /\ synced' = {} /\ graphed' = {} /\ asked' = {} /\ peers' = {} /\ address' = address
      BY <1>6 DEF CleanUp
    <3>2. container' \in [Range(Plan) -> {"absent", "created", "running", "stopped"}]
      BY <3>1 DEF TypeInv, WorldOK
    <3>3. lnd' \in [Lnds -> {"off", "rpc", "active"}]
      BY <3>1 DEF TypeInv, WorldOK
    <3> QED
      BY <3>1, <3>2, <3>3 DEF TypeInv, WorldOK
  <2>2. NetworkOK'
    BY <1>6 DEF CleanUp, TypeInv, NetworkOK
  <2> QED
    BY <1>0, <1>2, <1>6, <2>1, <2>2, PoolSame DEF TypeInv, CleanUp
<1>7. ASSUME NEW n \in Lnds, LndStarts(n)
      PROVE  WorldOK' /\ PoolOK' /\ NetworkOK' /\ HistoryOK' /\ PlaceOK'
  <2>1. WorldOK'
    BY <1>7 DEF LndStarts, TypeInv, WorldOK
  <2> QED
    BY <1>0, <1>2, <1>7, <2>1, PoolSame, NetworkSame DEF TypeInv, LndStarts
<1>8. ASSUME NEW n \in Nodes, CatchesUp(n) \/ Graph(n)
      PROVE  WorldOK' /\ PoolOK' /\ NetworkOK' /\ HistoryOK' /\ PlaceOK'
  <2>1. WorldOK'
    BY <1>8 DEF CatchesUp, Graph, TypeInv, WorldOK
  <2> QED
    BY <1>0, <1>2, <1>8, <2>1, PoolSame, NetworkSame DEF TypeInv, CatchesUp, Graph
<1>9. ASSUME NEW n \in Range(Destroyed), ContainerDies(n)
      PROVE  WorldOK' /\ PoolOK' /\ NetworkOK' /\ HistoryOK' /\ PlaceOK'
  <2>1. WorldOK'
    BY <1>9, EndsType DEF ContainerDies, TypeInv, WorldOK
  <2> QED
    BY <1>0, <1>1, <1>9, <2>1, PoolSame, NetworkSame DEF TypeInv, ContainerDies
<1> QED
  BY <1>3, <1>4, <1>5, <1>6, <1>7, <1>8, <1>9, <1>10, <1>11 DEF Environment

LEMMA NextType == TypeInv /\ [Next]_vars => TypeInv'
<1>1. ASSUME TypeInv, UNCHANGED vars
      PROVE  WorldOK' /\ PoolOK' /\ NetworkOK' /\ HistoryOK' /\ PlaceOK'
  <2>1. UNCHANGED <<world, poolV, network, place, at, history>>
    BY <1>1 DEF vars
  <2>2. PlaceOK' /\ HistoryOK'
    BY <1>1, <2>1 DEF TypeInv, PlaceOK, InChannel, ChannelLabels, place, HistoryOK, history
  <2> QED
    BY <1>1, <2>1, <2>2, WorldSame, PoolSame, NetworkSame DEF TypeInv
<1> QED
  BY <1>1, BeginsType, OperationType, EnvironmentType, NextSafe DEF Next, TypeInv

\* The builder's state has its types: a channel that is being opened is one of
\* the configuration, and a pair of peers two different nodes.
THEOREM BuilderTypes == Spec => []TypeOK
<1>1. TypeInv => TypeOK
  <2> SUFFICES ASSUME TypeInv PROVE TypeOK
    OBVIOUS
  <2>1. op \in Operations \cup {"none"} /\ at \in Labels
    BY DEF TypeInv, SafeInv, PlaceInv, Operations, BuildLabels, RestartLabels, SharedLabels,
           Labels
  <2>2. at = "open" => <<target, k>> \in ChannelIds
    BY NetworkFacts DEF TypeInv, PlaceOK, InChannel, ChannelLabels
  <2>3. {pool, monitored, expired, isBuilt, isDestroyed} \subseteq BOOLEAN
    BY Zenon DEF TypeInv, PoolOK, NetworkOK
  <2> QED
    BY <2>1, <2>2, <2>3 DEF TypeInv, WorldOK, PoolOK, NetworkOK, HistoryOK, PlaceOK, TypeOK
<1> QED
  BY InitType, NextType, <1>1, PTL DEF Spec

-----------------------------------------------------------------------------
(* What Build delivers.                                                    *)

Untouched == opened = [c \in ChannelIds |-> 0] /\ policySet = {}
Distinct(m) == \A a, b \in 1..m : Plan[a] = Plan[b] => a = b
Created(m) == Distinct(m) /\ \A a \in 1..m : container[Plan[a]] # "absent"

\* The entries of the configuration before channel m of node a, and opened when
\* those of S have been.
Before(a, m) ==
  {c \in ChannelIds : \E b \in 1..Len(LNDNodes) :
     c[1] = LNDNodes[b] /\ (b < a \/ (b = a /\ c[2] < m))}
Once(S) == [c \in ChannelIds |-> IF c \in S THEN 1 ELSE 0]

\* Docker refuses a name that is taken, so every container of a Build that has
\* come this far has its own.
CreatedInv ==
  op = "Build" => /\ at = "create" => Created(i - 1)
                  /\ at \in {"start", "files"} => Created(i)
                  /\ at \notin {"create", "start", "files"} => Created(Len(Plan))

\* A Build that failed leaves the container of bitcoind behind, and what its
\* channels were goes when that is removed.
MinerLeft == isBuilt \/ Untouched \/ container[Miner] # "absent"
FirstInv ==
  op = "Build" /\ \/ at = "create" /\ i >= 2
                  \/ at \in {"start", "files", "pool", "listed", "copy", "peers", "remotes",
                            "relisted"}
                  \/ at = "connect" /\ i = 0
    => Untouched

ChannelsInv ==
  op = "Build" =>
    /\ at = "node" => policySet = Before(i, 1) /\ opened = Once(Before(i, 1))
    /\ at = "channel" \/ InChannel =>
         /\ target = LNDNodes[i]
         /\ policySet = Before(i, k)
         /\ opened = Once(IF at \in {"synced", "policy"} THEN Before(i, k + 1)
                          ELSE Before(i, k))
    /\ at = "built" => policySet = ChannelIds /\ opened = Once(ChannelIds)

ConfiguredInv == CreatedInv /\ MinerLeft /\ FirstInv /\ ChannelsInv

\* Where LNDNodes begin in Plan.
Skip == Len(Plan) - Len(LNDNodes)

LEMMA PlanParts ==
  /\ Skip \in Nat /\ Len(Plan) = Skip + Len(LNDNodes) /\ Len(Plan) \in Nat
  /\ Plan[1] = Miner
  /\ \A j \in 1..Len(LNDNodes) : Plan[j + Skip] = LNDNodes[j]
<1> DEFINE S == Nodes \cup {Miner, LoopLnd, LoopServer}
           loop == IF Loop THEN <<LoopLnd, LoopServer>> ELSE <<>>
           first == <<Miner>> \o loop
<1>1. LNDNodes \in Seq(S) /\ Len(LNDNodes) \in Nat
  BY SMT DEF NetworkAssumption
<1>2. loop \in Seq(S)
  <2> DEFINE two == <<LoopLnd, LoopServer>>
             nothing == <<>>
  <2>1. two \in Seq(S)
    BY SMT
  <2>2. nothing \in Seq(S)
    BY EmptySeq, SMT
  <2>3. CASE Loop
    <3>1. loop = two
      BY <2>3
    <3> QED
      BY <2>1, <3>1
  <2>4. CASE ~Loop
    <3>1. loop = nothing
      BY <2>4
    <3> QED
      BY <2>2, <3>1
  <2> QED
    BY <2>3, <2>4
<1>3. <<Miner>> \in Seq(S) /\ Len(<<Miner>>) = 1 /\ <<Miner>>[1] = Miner
  BY SMT
<1> HIDE DEF loop, S
<1>4. /\ first \in Seq(S) /\ Len(first) = 1 + Len(loop)
      /\ \A j \in 1..Len(first) : first[j] = IF j <= 1 THEN <<Miner>>[j] ELSE loop[j - 1]
  BY <1>2, <1>3, ConcatProperties
<1>5. Plan = first \o LNDNodes
  BY DEF Plan, loop
<1> HIDE DEF first
<1>6. /\ Len(Plan) = Len(first) + Len(LNDNodes)
      /\ \A j \in 1..Len(Plan) :
           Plan[j] = IF j <= Len(first) THEN first[j] ELSE LNDNodes[j - Len(first)]
  <2>1. /\ Len(first \o LNDNodes) = Len(first) + Len(LNDNodes)
        /\ \A j \in 1..(Len(first) + Len(LNDNodes)) :
             (first \o LNDNodes)[j] =
                IF j <= Len(first) THEN first[j] ELSE LNDNodes[j - Len(first)]
    BY <1>1, <1>4, ConcatProperties
  <2> QED
    BY <2>1, <1>5, Zenon
<1>7. Len(first) \in Nat /\ Len(first) >= 1 /\ first[1] = Miner
  BY <1>2, <1>3, <1>4
<1>8. Skip = Len(first)
  BY <1>1, <1>6, <1>7 DEF Skip
<1>9. ASSUME NEW j \in 1..Len(LNDNodes) PROVE Plan[j + Skip] = LNDNodes[j]
  <2>1. PICK m : m = j + Len(first)
    OBVIOUS
  <2>2. m \in 1..Len(Plan) /\ ~(m <= Len(first)) /\ m - Len(first) = j
    BY <1>1, <1>6, <1>7, <2>1
  <2>3. Plan[m] = LNDNodes[j]
    BY <1>6, <2>2
  <2> QED
    BY <1>8, <2>1, <2>3
<1>10. Plan[1] = Miner
  BY <1>1, <1>6, <1>7
<1>11. Len(Plan) = Len(first) + Len(LNDNodes)
  BY <1>6
<1>12. Skip \in Nat /\ Len(Plan) = Skip + Len(LNDNodes) /\ Len(Plan) \in Nat
  BY <1>1, <1>7, <1>8, <1>11
<1> QED
  BY <1>9, <1>10, <1>12

LEMMA DistinctFacts ==
  ASSUME Distinct(Len(Plan)),
         NEW a \in 1..Len(LNDNodes), NEW b \in 1..Len(LNDNodes), LNDNodes[a] = LNDNodes[b]
  PROVE  a = b
<1>1. a + Skip \in 1..Len(Plan) /\ b + Skip \in 1..Len(Plan)
  BY PlanParts, NetworkFacts
<1>2. Plan[a + Skip] = Plan[b + Skip]
  BY PlanParts
<1>3. a + Skip = b + Skip
  BY <1>1, <1>2 DEF Distinct
<1> QED
  BY <1>3, PlanParts, NetworkFacts

\* The loops over nodes and their channels.
LEMMA BeforeFacts ==
  ASSUME Distinct(Len(Plan)), NEW a \in 1..Len(LNDNodes)
  PROVE  /\ Before(1, 1) = {}
         /\ \A m \in Nat \ {0} :
              m > Len(Channels[LNDNodes[a]]) => Before(a, m) = Before(a + 1, 1)
         /\ \A m \in Nat \ {0} :
              m > Len(Channels[LNDNodes[Len(LNDNodes)]]) =>
                Before(Len(LNDNodes), m) = ChannelIds
         /\ \A m \in 1..Len(Channels[LNDNodes[a]]) :
              /\ Before(a, m + 1) = Before(a, m) \cup {<<LNDNodes[a], m>>}
              /\ <<LNDNodes[a], m>> \in ChannelIds
              /\ <<LNDNodes[a], m>> \notin Before(a, m)
<1>1. \A c \in ChannelIds : /\ c[1] \in Nodes /\ c[2] \in 1..Len(Channels[c[1]])
                            /\ c = <<c[1], c[2]>>
  <2> SUFFICES ASSUME NEW n \in Nodes, NEW c \in {n} \X DOMAIN Channels[n]
               PROVE  c[1] \in Nodes /\ c[2] \in 1..Len(Channels[c[1]]) /\ c = <<c[1], c[2]>>
    BY DEF ChannelIds
  <2> QED
    BY NetworkFacts
<1>2. \A x, y \in 1..Len(LNDNodes) : LNDNodes[x] = LNDNodes[y] => x = y
  BY DistinctFacts
<1>3. \A n \in Nodes : \E b \in 1..Len(LNDNodes) : LNDNodes[b] = n
  BY NetworkFacts DEF Nodes, Range, NetworkAssumption
<1>4. Before(1, 1) = {}
  <2> SUFFICES ASSUME NEW c \in ChannelIds, NEW b \in 1..Len(LNDNodes),
                      b < 1 \/ (b = 1 /\ c[2] < 1)
               PROVE  FALSE
    BY DEF Before
  <2> QED
    BY <1>1, NetworkFacts
<1>5. ASSUME NEW e \in 1..Len(LNDNodes), NEW m \in Nat \ {0}, m > Len(Channels[LNDNodes[e]]),
             NEW c \in ChannelIds, NEW b \in 1..Len(LNDNodes), c[1] = LNDNodes[b]
      PROVE  (b < e \/ (b = e /\ c[2] < m)) <=> (b < e + 1 \/ (b = e + 1 /\ c[2] < 1))
  <2>1. c[2] \in 1..Len(Channels[LNDNodes[b]])
    BY <1>1, <1>5
  <2>2. b = e => c[2] < m
    BY <1>5, <2>1, NetworkFacts
  <2> QED
    BY <2>1, <2>2, NetworkFacts
<1>6. ASSUME NEW e \in 1..Len(LNDNodes), NEW m \in Nat \ {0}, m > Len(Channels[LNDNodes[e]])
      PROVE  Before(e, m) = Before(e + 1, 1)
  BY <1>5, <1>6 DEF Before
<1>7. ASSUME NEW m \in Nat \ {0}, m > Len(Channels[LNDNodes[Len(LNDNodes)]])
      PROVE  Before(Len(LNDNodes), m) = ChannelIds
  <2>1. Len(LNDNodes) \in 1..Len(LNDNodes)
    BY NetworkFacts
  <2>2. Before(Len(LNDNodes), m) = Before(Len(LNDNodes) + 1, 1)
    BY <1>6, <1>7, <2>1
  <2>3. \A b \in 1..Len(LNDNodes) : b < Len(LNDNodes) + 1
    BY NetworkFacts
  <2>4. Before(Len(LNDNodes) + 1, 1) = ChannelIds
    BY <1>1, <1>3, <2>3 DEF Before
  <2> QED
    BY <2>2, <2>4
<1>8. ASSUME NEW m \in 1..Len(Channels[LNDNodes[a]])
      PROVE  /\ Before(a, m + 1) = Before(a, m) \cup {<<LNDNodes[a], m>>}
             /\ <<LNDNodes[a], m>> \in ChannelIds
             /\ <<LNDNodes[a], m>> \notin Before(a, m)
  <2> DEFINE x == <<LNDNodes[a], m>>
  <2>1. x \in ChannelIds /\ x[1] = LNDNodes[a] /\ x[2] = m
    BY NetworkFacts
  <2>2. m \in Nat
    BY NetworkFacts
  <2> HIDE DEF x
  <2>3. x \notin Before(a, m)
    BY <1>2, <2>1, <2>2, NetworkFacts DEF Before
  <2>4. ASSUME NEW c \in ChannelIds, NEW b \in 1..Len(LNDNodes), c[1] = LNDNodes[b]
        PROVE  (b < a \/ (b = a /\ c[2] < m + 1)) <=> (b < a \/ (b = a /\ c[2] < m)) \/ c = x
    <3>1. c[2] \in Nat /\ c = <<c[1], c[2]>> /\ x = <<x[1], x[2]>>
      <4>1. c = <<c[1], c[2]>> /\ x = <<x[1], x[2]>>
        BY Zenon, <1>1, <2>1
      <4>2. c[1] \in Nodes /\ c[2] \in 1..Len(Channels[c[1]])
        BY <1>1
      <4>3. c[2] \in Nat
        BY <4>2, NetworkFacts
      <4> QED
        BY <4>1, <4>3
    <3>2. c = x <=> b = a /\ c[2] = m
      BY <1>2, <2>1, <2>4, <3>1
    <3> QED
      BY <2>2, <3>1, <3>2, NetworkFacts
  <2>5. Before(a, m + 1) \subseteq Before(a, m) \cup {x}
    BY <2>4 DEF Before
  <2>6. Before(a, m) \cup {x} \subseteq Before(a, m + 1)
    <3>1. ASSUME NEW c \in Before(a, m) PROVE c \in Before(a, m + 1)
      BY <2>4 DEF Before
    <3>2. x \in Before(a, m + 1)
      BY <2>1, <2>4 DEF Before
    <3> QED
      BY <3>1, <3>2
  <2> QED
    BY <2>1, <2>3, <2>5, <2>6 DEF x
<1> QED
  BY <1>4, <1>6, <1>7, <1>8

LEMMA OnceFacts ==
  ASSUME NEW S, NEW x \in ChannelIds, x \notin S, opened = Once(S)
  PROVE  [opened EXCEPT ![x] = @ + 1] = Once(S \cup {x})
<1> DEFINE f == [opened EXCEPT ![x] = @ + 1]
<1>1. DOMAIN opened = ChannelIds /\ opened[x] = 0
  BY DEF Once
<1>2. \A c \in ChannelIds : f[c] = IF c = x THEN 1 ELSE opened[c]
  BY <1>1
<1>3. \A c \in ChannelIds : f[c] = IF c \in S \cup {x} THEN 1 ELSE 0
  BY <1>2 DEF Once
<1>4. f = [c \in ChannelIds |-> f[c]]
  BY <1>1
<1> QED
  BY Zenon, <1>3, <1>4 DEF Once

LEMMA InitConfigured == Init => ConfiguredInv
  BY DEF Init, ConfiguredInv, CreatedInv, MinerLeft, FirstInv, ChannelsInv, Untouched

\* An operation does not turn into another.
LEMMA OneOperation == Operation => op' = op \/ op' = "none"
<1> SUFFICES ASSUME Operation PROVE op' = op \/ op' = "none"
  OBVIOUS
<1> USE DEF Goto, Throw, End, place
<1>1. CASE Channel
  <2>1. CASE k <= Len(Channels[target]) \/ op = "Restart"
    BY <1>1, <2>1 DEF Channel
  <2>2. CASE ~(k <= Len(Channels[target]) \/ op = "Restart")
    BY <1>1, <2>2 DEF Channel
  <2> QED
    BY <2>1, <2>2
<1>2. CASE Connect \/ DestroyStop \/ RestartContainer
  BY <1>2 DEF Connect, DestroyStop, RestartContainer
<1> QED
  BY <1>1, <1>2 DEF Operation, Create, Start, Files, MakePool, WaitListed, WaitRelisted,
     Listed, CopyListed, NextLocal, NextRemote, ConnectAgain, ConnectFails, Fund,
     FindRemote, Sync, WaitSynced, WaitEither, WaitGraph, FindAgain, Info, Reset,
     NextChannel, Open, SetPolicy, PolicyFails, PolicyMissing, Built, Remove,
     StopContainer, Settings, Pick, Ready, DestroyRemove, DestroyEnds

\* Only the last step of Build changes isBuilt.
LEMMA StaysBuilt == Operation => isBuilt' = isBuilt \/ (Built /\ isBuilt')
<1> SUFFICES ASSUME Operation PROVE isBuilt' = isBuilt \/ (Built /\ isBuilt')
  OBVIOUS
<1> USE DEF Throw, network
<1>1. CASE Channel
  BY <1>1 DEF Channel
<1>2. CASE Connect
  BY <1>2 DEF Connect
<1>3. CASE DestroyStop
  BY <1>3 DEF DestroyStop
<1>4. CASE Built
  BY <1>4 DEF Built
<1> QED
  BY <1>1, <1>2, <1>3, <1>4
     DEF Operation, Create, Start, Files, MakePool, WaitListed, WaitRelisted, Listed,
         CopyListed, NextLocal, NextRemote, ConnectAgain, ConnectFails, Fund, FindRemote,
         Sync, WaitSynced, WaitEither, WaitGraph, FindAgain, Info, Reset, Open, SetPolicy,
         PolicyFails, PolicyMissing, Remove, StopContainer, RestartContainer, Settings, Pick,
         Ready, DestroyRemove, DestroyEnds

\* No container is removed.
Kept == \A n \in Range(Plan) : container[n] # "absent" => container'[n] # "absent"

LEMMA KeptMiner == MinerLeft /\ Kept /\ (isBuilt => isBuilt') /\ UNCHANGED <<opened, policySet>>
                     => MinerLeft'
  BY PlanFacts DEF MinerLeft, Kept, Untouched

\* A step outside Build, or one that ends it.
LEMMA OutsideConfigured == MinerLeft' /\ op' # "Build" => ConfiguredInv'
  BY DEF ConfiguredInv, CreatedInv, FirstInv, ChannelsInv

\* A step at which Build and the configuration stand still.
LEMMA StillConfigured ==
  ASSUME PlaceInv, ConfiguredInv, Kept, UNCHANGED <<network, place, at>>
  PROVE  ConfiguredInv'
<1> USE DEF network, place
<1>1. \A m : Distinct(m)' <=> Distinct(m)
  BY DEF Distinct
<1>2. ASSUME op = "Build", NEW m \in 0..Len(Plan), Created(m) PROVE Created(m)'
  <2>1. ASSUME NEW a \in 1..m PROVE container'[Plan[a]] # "absent"
    <3>1. Plan[a] \in Range(Plan)
      BY PlanFacts
    <3> QED
      BY <1>2, <3>1 DEF Created, Kept
  <2>2. Distinct(m)'
    BY <1>1, <1>2 DEF Created
  <2> QED
    BY <2>1, <2>2 DEF Created
<1>3. Untouched' <=> Untouched
  BY DEF Untouched
<1>4. MinerLeft'
  BY KeptMiner DEF ConfiguredInv
<1>5. FirstInv'
  BY <1>3 DEF ConfiguredInv, FirstInv
<1>6. ChannelsInv'
  <2>1. InChannel' <=> InChannel
    BY DEF InChannel, ChannelLabels
  <2> QED
    BY <2>1 DEF ConfiguredInv, ChannelsInv
<1>7. CreatedInv'
  BY <1>2, PlanFacts DEF ConfiguredInv, CreatedInv, PlaceInv
<1> QED
  BY <1>4, <1>5, <1>6, <1>7 DEF ConfiguredInv

\* A step of Build within one phase: no container, channel or policy is made.
LEMMA PhaseConfigured ==
  ASSUME ConfiguredInv, op = "Build", op' = "Build", UNCHANGED <<container, network>>,
         {at, at'} \cap {"create", "start", "files"} = {},
         FirstInv', ChannelsInv'
  PROVE  ConfiguredInv'
<1>1. Created(Len(Plan)) /\ UNCHANGED <<isBuilt, opened, policySet>>
  BY DEF ConfiguredInv, CreatedInv, network
<1>2. Created(Len(Plan))'
  BY <1>1 DEF Created, Distinct
<1>3. MinerLeft'
  BY <1>1 DEF ConfiguredInv, MinerLeft, Untouched
<1> QED
  BY <1>2, <1>3 DEF ConfiguredInv, CreatedInv

\* The actions of Build.
LEMMA BuildActions ==
  ASSUME PlaceInv, op = "Build", Operation
  PROVE  \/ Create \/ Start \/ Files \/ MakePool \/ WaitListed \/ WaitRelisted
         \/ CopyListed \/ NextLocal \/ NextRemote \/ Connect \/ ConnectAgain \/ ConnectFails
         \/ Fund \/ Channel \/ FindRemote \/ Sync \/ Open \/ SetPolicy \/ Built
<1>1. at \in BuildLabels \cup SharedLabels
  BY DEF PlaceInv
<1>2. ~(\/ Reset \/ PolicyFails \/ PolicyMissing \/ Remove \/ StopContainer \/ RestartContainer
        \/ Settings
        \/ Pick \/ Ready \/ DestroyStop \/ DestroyRemove \/ DestroyEnds)
  BY <1>1 DEF Reset, PolicyFails, PolicyMissing, Remove, StopContainer, RestartContainer,
     Settings, Pick,
              Ready, DestroyStop, DestroyRemove, DestroyEnds, BuildLabels, SharedLabels
<1> QED
  BY <1>2 DEF Operation

LEMMA BuildConfigured ==
  ASSUME TypeInv, ConfiguredInv, op = "Build", Operation
  PROVE  ConfiguredInv'
<1> USE DEF Goto, network
<1>0. PlaceInv /\ at \in BuildLabels \cup SharedLabels /\ ~isBuilt /\ DestroyInv
  BY DEF TypeInv, SafeInv, PlaceInv, Operations
<1>1. Throw => ConfiguredInv'
  <2> SUFFICES ASSUME Throw PROVE ConfiguredInv'
    OBVIOUS
  <2>1. op' # "Build" /\ UNCHANGED <<container, isBuilt, opened, policySet>>
    BY DEF Throw, End, world
  <2>2. MinerLeft'
    BY <2>1 DEF ConfiguredInv, MinerLeft, Untouched
  <2> QED
    BY <2>1, <2>2, OutsideConfigured
<1>2. CASE Create
  <2>1. CASE Throw
    BY <2>1, <1>1
  <2>2. CASE ~Throw
    <3>1. /\ container[Cur] = "absent" /\ container' = [container EXCEPT ![Cur] = "created"]
          /\ at = "create" /\ at' = "start"
          /\ UNCHANGED <<place, isBuilt, opened, policySet>>
      BY <1>2, <2>2 DEF Create
    <3>2. i \in 1..Len(Plan) /\ Cur = Plan[i] /\ Created(i - 1) /\ Len(Plan) \in Nat
      BY <1>0, <3>1, PlanFacts DEF PlaceInv, Cur, ConfiguredInv, CreatedInv
    <3>3. \A n \in Range(Plan) : container'[n] = IF n = Cur THEN "created" ELSE container[n]
      BY <1>0, <3>1 DEF DestroyInv
    <3>4. \A a \in 1..i : a = i \/ (a \in 1..(i - 1) /\ Plan[a] # Cur)
      BY <3>1, <3>2 DEF Created
    <3>5. Distinct(i)
      BY <3>2, <3>4 DEF Created, Distinct
    <3>6. \A a \in 1..i : container'[Plan[a]] # "absent"
      <4>1. \A a \in 1..i : Plan[a] \in Range(Plan)
        BY <3>2, PlanFacts
      <4> QED
        BY <3>2, <3>3, <3>4, <4>1 DEF Created
    <3>7. CreatedInv'
      BY <3>1, <3>5, <3>6 DEF CreatedInv, Created, Distinct, place
    <3>8. Kept
      BY <3>3 DEF Kept
    <3>9. MinerLeft'
      BY <3>1, <3>8, KeptMiner DEF ConfiguredInv
    <3>10. FirstInv'
      <4>1. i = 1 => Untouched
        BY <1>0, <3>1, <3>2, PlanParts DEF ConfiguredInv, MinerLeft
      <4>2. i >= 2 => Untouched
        BY <3>1 DEF ConfiguredInv, FirstInv
      <4> QED
        BY <3>1, <3>2, <4>1, <4>2 DEF FirstInv, Untouched, place
    <3>11. ChannelsInv'
      BY <3>1 DEF ChannelsInv, InChannel, ChannelLabels
    <3> QED
      BY <3>7, <3>9, <3>10, <3>11 DEF ConfiguredInv
  <2> QED
    BY <2>1, <2>2
<1>3. CASE Start
  <2>1. /\ container' = [container EXCEPT ![Cur] = "running"]
        /\ at = "start" /\ at' = "files" /\ UNCHANGED <<place, network>>
    BY <1>3 DEF Start
  <2>2. i \in 1..Len(Plan) /\ Created(i) /\ Len(Plan) \in Nat
    BY <1>0, <2>1, PlanFacts DEF PlaceInv, ConfiguredInv, CreatedInv
  <2>3. \A n \in Range(Plan) : container'[n] = IF n = Cur THEN "running" ELSE container[n]
    BY <1>0, <2>1 DEF DestroyInv
  <2>4. \A a \in 1..i : container'[Plan[a]] # "absent"
    <3>1. \A a \in 1..i : Plan[a] \in Range(Plan)
      BY <2>2, PlanFacts
    <3> QED
      BY <2>2, <2>3, <3>1 DEF Created
  <2>5. CreatedInv'
    BY <2>1, <2>2, <2>4 DEF CreatedInv, Created, Distinct, place
  <2>6. Kept
    BY <2>3 DEF Kept
  <2>7. MinerLeft'
    BY <2>1, <2>6, KeptMiner DEF ConfiguredInv
  <2>8. FirstInv' /\ ChannelsInv'
    BY <2>1 DEF ConfiguredInv, FirstInv, Untouched, place, ChannelsInv, InChannel, ChannelLabels
  <2> QED
    BY <2>5, <2>7, <2>8 DEF ConfiguredInv
<1>4. CASE Files
  <2>1. /\ at = "files" /\ UNCHANGED <<op, container, network>>
        /\ IF i < Len(Plan) THEN at' = "create" /\ i' = i + 1 ELSE at' = "pool" /\ i' = 0
    BY <1>4 DEF Files, world
  <2>2. i \in 1..Len(Plan) /\ Created(i) /\ Len(Plan) \in Nat
    BY <1>0, <2>1, PlanFacts DEF PlaceInv, ConfiguredInv, CreatedInv
  <2>3. /\ \A a, b \in 1..i : Plan[a] = Plan[b] => a = b
        /\ \A a \in 1..i : container'[Plan[a]] # "absent"
    BY <2>1, <2>2 DEF Created, Distinct
  <2>4. Untouched
    BY <2>1, <1>4 DEF ConfiguredInv, FirstInv
  <2>5. IF i < Len(Plan) THEN at' = "create" /\ i' - 1 = i ELSE at' = "pool" /\ Len(Plan) = i
    BY <2>1, <2>2
  <2>6. CreatedInv'
    <3>1. CASE i < Len(Plan)
      <4>1. at' = "create" /\ i' - 1 = i
        BY <2>5, <3>1
      <4> QED
        BY <2>3, <4>1 DEF CreatedInv, Created, Distinct
    <3>2. CASE ~(i < Len(Plan))
      <4>1. at' = "pool" /\ Len(Plan) = i
        BY <2>5, <3>2
      <4> QED
        BY <2>3, <4>1 DEF CreatedInv, Created, Distinct
    <3> QED
      BY <3>1, <3>2
  <2>7. MinerLeft'
    BY <2>1 DEF ConfiguredInv, MinerLeft, Untouched
  <2>8. FirstInv'
    BY <2>1, <2>2, <2>4 DEF FirstInv, Untouched
  <2>9. ChannelsInv'
    BY <2>1 DEF ChannelsInv, InChannel, ChannelLabels
  <2> QED
    BY <2>6, <2>7, <2>8, <2>9 DEF ConfiguredInv
<1>5. CASE MakePool
  <2>1. at = "pool" /\ at' = "listed" /\ UNCHANGED <<place, container, network>>
    BY <1>5 DEF MakePool, world
  <2>2. FirstInv' /\ ChannelsInv'
    BY <2>1 DEF ConfiguredInv, FirstInv, ChannelsInv, InChannel, ChannelLabels, Untouched, place
  <2> QED
    BY <2>1, <2>2, PhaseConfigured DEF place
<1>6. CASE WaitListed \/ CopyListed \/ NextLocal \/ NextRemote
  <2>1. CASE Throw
    BY <1>1, <2>1
  <2>2. CASE ~Throw
    <3>1. /\ at \in {"listed", "copy", "peers", "remotes"}
          /\ at' \in {"copy", "peers", "relisted", "remotes"} \/ (at' = "connect" /\ i' = i)
          /\ UNCHANGED <<op, container, network>>
      BY <1>6, <2>2 DEF WaitListed, Listed, CopyListed, NextLocal, NextRemote, place, world
    <3>2. at = "remotes" => i = 0
      BY DEF TypeInv, PlaceOK
    <3>3. at' = "connect" => at = "remotes"
      BY <1>6, <2>2, <3>1 DEF WaitListed, Listed, CopyListed, NextLocal, NextRemote
    <3>4. FirstInv' /\ ChannelsInv'
      BY <3>1, <3>2, <3>3 DEF ConfiguredInv, FirstInv, ChannelsInv, InChannel, ChannelLabels,
         Untouched
    <3> QED
      BY <3>1, <3>4, PhaseConfigured
  <2> QED
    BY <2>1, <2>2
<1>7. CASE WaitRelisted
  <2>1. CASE Throw
    BY <1>1, <2>1
  <2>2. CASE ~Throw
    <3>1. at = "relisted" /\ at' = "node" /\ i' = 1 /\ UNCHANGED <<op, container, network>>
      BY <1>7, <2>2 DEF WaitRelisted, Listed, world
    <3>2. Untouched /\ Created(Len(Plan))
      BY <3>1 DEF ConfiguredInv, FirstInv, CreatedInv
    <3>3. Before(1, 1) = {}
      <4>1. 1 \in 1..Len(LNDNodes)
        BY NetworkFacts
      <4>2. Distinct(Len(Plan))
        BY <3>2 DEF Created
      <4> QED
        BY <4>1, <4>2, BeforeFacts
    <3>4. policySet' = Before(i', 1) /\ opened' = Once(Before(i', 1))
      BY <3>1, <3>2, <3>3 DEF Untouched, Once
    <3>5. FirstInv' /\ ChannelsInv'
      BY <3>1, <3>4 DEF FirstInv, ChannelsInv, InChannel, ChannelLabels
    <3> QED
      BY <3>1, <3>5, PhaseConfigured
  <2> QED
    BY <2>1, <2>2
<1>8. CASE ConnectAgain \/ ConnectFails
  <2>1. CASE Throw
    BY <1>1, <2>1
  <2>2. CASE ~Throw
    <3>1. /\ at = "connect"
          /\ UNCHANGED <<op, at, i, k, target, container, network>>
      BY <1>8, <2>2 DEF ConnectAgain, ConnectFails, world
    <3>2. InChannel' <=> InChannel
      BY <3>1 DEF InChannel
    <3>3. FirstInv' /\ ChannelsInv'
      BY <3>1, <3>2 DEF ConfiguredInv, FirstInv, ChannelsInv, Untouched
    <3> QED
      BY <3>1, <3>3, PhaseConfigured
  <2> QED
    BY <2>1, <2>2
<1>9. CASE Connect
  <2>1. at = "connect" /\ UNCHANGED <<op, i, k, target, container, network>>
    BY <1>9 DEF Connect
  <2>2. IF i = 0 THEN at' = "remotes" ELSE at' = "sync"
    BY <1>9 DEF Connect
  <2>3. i \in Nat
    BY DEF TypeInv, PlaceOK
  <2>4. FirstInv' /\ ChannelsInv'
    BY <2>1, <2>2, <2>3 DEF ConfiguredInv, FirstInv, ChannelsInv, InChannel, ChannelLabels,
                            Untouched
  <2> QED
    BY <2>1, <2>2, <2>4, PhaseConfigured
<1>10. CASE Fund
  <2>1. CASE Throw
    BY <1>1, <2>1
  <2>2. CASE ~Throw
    <3>1. /\ at = "node" /\ at' = "channel" /\ target' = LNDNodes[i] /\ k' = 1 /\ i' = i
          /\ UNCHANGED <<op, container, network>>
      BY <1>10, <2>2 DEF Fund
    <3>2. FirstInv' /\ ChannelsInv'
      BY <3>1 DEF ConfiguredInv, FirstInv, ChannelsInv, InChannel, ChannelLabels
    <3> QED
      BY <3>1, <3>2, PhaseConfigured
  <2> QED
    BY <2>1, <2>2
<1>11. CASE Channel
  <2>1. /\ at = "channel" /\ k \in Nat \ {0} /\ target \in Nodes /\ i \in 1..Len(LNDNodes)
        /\ UNCHANGED <<container, network>>
    BY <1>11 DEF Channel, TypeInv, PlaceOK, world
  <2>2. /\ target = LNDNodes[i] /\ policySet = Before(i, k) /\ opened = Once(Before(i, k))
        /\ Distinct(Len(Plan)) /\ Len(Channels[target]) \in Nat
    BY <2>1, NetworkFacts DEF ConfiguredInv, ChannelsInv, CreatedInv, Created
  <2>3. CASE k <= Len(Channels[target])
    <3>1. at' = "remote" /\ UNCHANGED place
      BY <1>11, <2>1, <2>2, <2>3 DEF Channel
    <3>2. FirstInv' /\ ChannelsInv'
      BY <2>1, <2>2, <3>1 DEF FirstInv, ChannelsInv, InChannel, ChannelLabels, place
    <3> QED
      BY <2>1, <3>1, <3>2, PhaseConfigured DEF place
  <2>4. CASE ~(k <= Len(Channels[target]))
    <3>1. /\ IF i < Len(LNDNodes) THEN at' = "node" /\ i' = i + 1
             ELSE at' = "built" /\ i' = i
          /\ op' = op
      BY <1>11, <2>4 DEF Channel
    <3>2. Before(i, k) = Before(i + 1, 1)
      BY <2>1, <2>2, <2>4, BeforeFacts
    <3>3. i = Len(LNDNodes) => Before(i, k) = ChannelIds
      BY <2>1, <2>2, <2>4, BeforeFacts
    <3>4. FirstInv'
      BY <3>1 DEF FirstInv
    <3>5. ChannelsInv'
      <4>1. CASE i < Len(LNDNodes)
        BY <2>1, <2>2, <3>1, <3>2, <4>1 DEF ChannelsInv, InChannel, ChannelLabels
      <4>2. CASE ~(i < Len(LNDNodes))
        <5>1. i = Len(LNDNodes)
          BY <2>1, <4>2, NetworkFacts
        <5> QED
          BY <2>1, <2>2, <3>1, <3>3, <4>2, <5>1 DEF ChannelsInv, InChannel, ChannelLabels
      <4> QED
        BY <4>1, <4>2
    <3> QED
      BY <2>1, <3>1, <3>4, <3>5, PhaseConfigured
  <2> QED
    BY <2>3, <2>4
<1>12. CASE FindRemote
  <2>1. /\ at = "remote" /\ at' = "connect" /\ UNCHANGED <<op, i, k, target, container, network>>
    BY <1>12 DEF FindRemote, world
  <2>2. i \in 1..Len(LNDNodes)
    BY <2>1 DEF TypeInv, PlaceOK, InChannel, ChannelLabels
  <2>3. FirstInv' /\ ChannelsInv'
    BY <2>1, <2>2 DEF ConfiguredInv, FirstInv, ChannelsInv, InChannel, ChannelLabels
  <2> QED
    BY <2>1, <2>3, PhaseConfigured
<1>13. CASE Sync
  <2>1. CASE Throw
    BY <1>1, <2>1
  <2>2. CASE ~Throw
    <3>1. /\ (at = "sync" /\ at' = "open") \/ (at = "synced" /\ at' = "policy")
          /\ UNCHANGED <<place, container, network>>
      BY <1>0, <1>13, <2>2 DEF Sync, WaitSynced, WaitEither, WaitGraph, FindAgain, Info,
                               BuildLabels, SharedLabels, world
    <3>2. FirstInv' /\ ChannelsInv'
      BY <3>1 DEF ConfiguredInv, FirstInv, ChannelsInv, InChannel, ChannelLabels, place
    <3> QED
      BY <3>1, <3>2, PhaseConfigured DEF place
  <2> QED
    BY <2>1, <2>2
<1>14. CASE Open
  <2>1. CASE Throw
    BY <1>1, <2>1
  <2>2. CASE ~Throw
    <3>1. /\ at = "open" /\ opened' = [opened EXCEPT ![<<target, k>>] = @ + 1]
          /\ (at' = "synced" /\ UNCHANGED place) \/ End
          /\ UNCHANGED <<container, isBuilt, policySet>>
      BY <1>14, <2>2 DEF Open
    <3>2. /\ target = LNDNodes[i] /\ policySet = Before(i, k) /\ opened = Once(Before(i, k))
          /\ Created(Len(Plan)) /\ i \in 1..Len(LNDNodes) /\ k \in 1..Len(Channels[LNDNodes[i]])
      BY <3>1, NetworkFacts DEF ConfiguredInv, ChannelsInv, CreatedInv, TypeInv, PlaceOK,
                                InChannel, ChannelLabels
    <3>3. opened' = Once(Before(i, k + 1))
      <4>1. /\ Before(i, k + 1) = Before(i, k) \cup {<<target, k>>}
            /\ <<target, k>> \in ChannelIds /\ <<target, k>> \notin Before(i, k)
        BY <3>2, BeforeFacts DEF Created
      <4>2. [opened EXCEPT ![<<target, k>>] = @ + 1] = Once(Before(i, k) \cup {<<target, k>>})
        BY Zenon, <3>2, <4>1, OnceFacts
      <4> QED
        BY Zenon, <3>1, <4>1, <4>2
    <3>4. MinerLeft'
      <4>1. container[Miner] # "absent"
        BY <3>2, PlanParts, NetworkFacts DEF Created
      <4> QED
        BY <3>1, <4>1 DEF MinerLeft
    <3>5. CASE End
      BY <3>4, <3>5 DEF End, ConfiguredInv, CreatedInv, FirstInv, ChannelsInv
    <3>6. CASE at' = "synced" /\ UNCHANGED place
      <4>1. CreatedInv'
        BY <3>1, <3>2, <3>6 DEF CreatedInv, Created, Distinct, place
      <4>2. FirstInv' /\ ChannelsInv'
        BY <3>1, <3>2, <3>3, <3>6 DEF FirstInv, ChannelsInv, InChannel, ChannelLabels, place
      <4> QED
        BY <3>4, <4>1, <4>2 DEF ConfiguredInv
    <3> QED
      BY <3>1, <3>5, <3>6
  <2> QED
    BY <2>1, <2>2
<1>15. CASE SetPolicy
  <2>1. /\ at = "policy" /\ policySet' = policySet \cup {<<target, k>>}
        /\ at' = "channel" /\ k' = k + 1
        /\ UNCHANGED <<op, i, target, container, isBuilt, opened>>
    BY <1>15 DEF SetPolicy, NextChannel, world
  <2>2. /\ target = LNDNodes[i] /\ policySet = Before(i, k) /\ opened = Once(Before(i, k + 1))
        /\ Created(Len(Plan)) /\ i \in 1..Len(LNDNodes) /\ k \in 1..Len(Channels[LNDNodes[i]])
    BY <2>1, NetworkFacts DEF ConfiguredInv, ChannelsInv, CreatedInv, TypeInv, PlaceOK,
                              InChannel, ChannelLabels
  <2>3. policySet' = Before(i, k + 1)
    BY <2>1, <2>2, BeforeFacts DEF Created
  <2>4. MinerLeft'
    <3>1. container[Miner] # "absent"
      BY <2>2, PlanParts, NetworkFacts DEF Created
    <3> QED
      BY <2>1, <3>1 DEF MinerLeft
  <2>5. CreatedInv'
    BY <2>1, <2>2 DEF CreatedInv, Created, Distinct
  <2>6. FirstInv' /\ ChannelsInv'
    BY <2>1, <2>2, <2>3 DEF FirstInv, ChannelsInv, InChannel, ChannelLabels
  <2> QED
    BY <2>4, <2>5, <2>6 DEF ConfiguredInv
<1>16. CASE Built
  <2>1. op' = "none" /\ isBuilt'
    BY <1>16 DEF Built, End
  <2> QED
    BY <2>1, OutsideConfigured DEF MinerLeft
<1> QED
  BY <1>0, <1>2, <1>3, <1>4, <1>5, <1>6, <1>7, <1>8, <1>9, <1>10, <1>11, <1>12, <1>13,
     <1>14, <1>15, <1>16, BuildActions

LEMMA NextConfigured == TypeInv /\ ConfiguredInv /\ [Next]_vars => ConfiguredInv'
<1> SUFFICES ASSUME TypeInv, ConfiguredInv, [Next]_vars PROVE ConfiguredInv'
  OBVIOUS
<1>0. SafeInv /\ PlaceInv /\ MinerLeft /\ container = [n \in Range(Plan) |-> container[n]]
  BY DEF TypeInv, WorldOK, SafeInv, ConfiguredInv
<1>a. UNCHANGED <<container, isBuilt, opened, policySet>> => MinerLeft'
  BY <1>0 DEF MinerLeft, Untouched
<1>1. CASE UNCHANGED vars
  BY <1>0, <1>1, StillConfigured DEF vars, Kept, world
<1>2. CASE Begins
  <2> USE DEF Begin, world, network
  <2>1. CASE BeginBuild
    <3>1. /\ ~isBuilt /\ op' = "Build" /\ at' = "create" /\ i' = 1
          /\ UNCHANGED <<container, isBuilt, opened, policySet>>
      BY <2>1 DEF BeginBuild
    <3>2. CreatedInv' /\ FirstInv' /\ ChannelsInv'
      BY <3>1 DEF ConfiguredInv, CreatedInv, FirstInv, ChannelsInv, Created,
                  Distinct, InChannel, ChannelLabels
    <3> QED
      BY <1>a, <3>1, <3>2 DEF ConfiguredInv
  <2>2. CASE BeginDestroy
    BY <1>a, <2>2, OutsideConfigured DEF BeginDestroy
  <2>3. ASSUME NEW n \in Nodes, NEW isLND \in BOOLEAN, BeginShutdown(n, isLND)
        PROVE  ConfiguredInv'
    BY <1>a, <2>3, OutsideConfigured DEF BeginShutdown
  <2>4. ASSUME NEW n \in Nodes, NEW isLND \in BOOLEAN, BeginRestart(n, isLND)
        PROVE  ConfiguredInv'
    BY <1>a, <2>4, OutsideConfigured DEF BeginRestart
  <2> QED
    BY <1>2, <2>1, <2>2, <2>3, <2>4 DEF Begins
<1>3. CASE Operation
  <2>1. CASE op = "Build"
    BY <1>3, <2>1, BuildConfigured
  <2>2. CASE op # "Build"
    <3>1. op # "none"
      BY <1>0, <1>3 DEF PlaceInv, Operation, Create, Start, Files, MakePool, WaitListed,
           WaitRelisted, Listed, CopyListed, NextLocal, NextRemote, Connect, ConnectAgain,
           ConnectFails, Fund, Channel, FindRemote, Sync, WaitSynced, WaitEither, WaitGraph,
           FindAgain, Reset, Open, SetPolicy, PolicyFails, PolicyMissing, Built, Remove,
           StopContainer, RestartContainer, Settings, Pick, Ready, DestroyStop,
           DestroyRemove, DestroyEnds
    <3>2. isBuilt
      BY <1>0, <2>2, <3>1 DEF PlaceInv, Operations
    <3>3. op' = op \/ op' = "none"
      BY <1>3, OneOperation
    <3>4. isBuilt'
      BY <1>3, <3>2, StaysBuilt
    <3> QED
      BY <2>2, <3>3, <3>4, OutsideConfigured DEF MinerLeft
  <2> QED
    BY <2>1, <2>2
<1>4. CASE Environment
  <2> USE DEF network, place, world
  <2>1. CASE CallFails
    BY <1>a, <2>1, OutsideConfigured DEF CallFails, End
  <2>2. CASE List \/ Drop
    <3>1. Monitor
      BY <2>2 DEF List, Drop
    <3>2. CASE End
      BY <1>a, <3>1, <3>2, OutsideConfigured DEF Monitor, End
    <3>3. CASE UNCHANGED <<place, at>>
      BY <1>0, <3>1, <3>3, StillConfigured DEF Monitor, Kept
    <3> QED
      BY <3>1, <3>2, <3>3 DEF Monitor
  <2>3. CASE Join \/ Expire \/ MonitorHangs
    BY <1>0, <2>3, StillConfigured DEF Join, Expire, MonitorHangs, Kept
  <2>4. CASE CleanUp
    <3>1. Untouched' /\ op' = "none"
      BY <2>4 DEF CleanUp, Untouched
    <3> QED
      BY <3>1, OutsideConfigured DEF MinerLeft
  <2>5. ASSUME NEW n \in Lnds, LndStarts(n) PROVE ConfiguredInv'
    BY <1>0, <2>5, StillConfigured DEF LndStarts, Kept
  <2>6. ASSUME NEW n \in Nodes, CatchesUp(n) \/ Graph(n) PROVE ConfiguredInv'
    BY <1>0, <2>6, StillConfigured DEF CatchesUp, Graph, Kept
  <2>7. ASSUME NEW m \in Nodes, NEW n \in Nodes, Meet(m, n) PROVE ConfiguredInv'
    BY <1>0, <2>7, StillConfigured DEF Meet, Kept
  <2>8. ASSUME NEW n \in Range(Destroyed), ContainerDies(n) PROVE ConfiguredInv'
    <3>1. Kept
      BY <1>0, <2>8, DestroyedFacts DEF ContainerDies, Kept
    <3> QED
      BY <1>0, <2>8, <3>1, StillConfigured DEF ContainerDies
  <2> QED
    BY <1>4, <2>1, <2>2, <2>3, <2>4, <2>5, <2>6, <2>7, <2>8 DEF Environment
<1> QED
  BY <1>1, <1>2, <1>3, <1>4 DEF Next

LEMMA ConfiguredInvariant == Spec => [](TypeInv /\ ConfiguredInv)
<1>1. Init => TypeInv /\ ConfiguredInv
  BY InitType, InitConfigured
<1>2. TypeInv /\ ConfiguredInv /\ [Next]_vars => (TypeInv /\ ConfiguredInv)'
  BY NextType, NextConfigured
<1> QED
  BY <1>1, <1>2, PTL DEF Spec

\* When Build returns, every container has an id, every channel of the
\* configuration was opened exactly once and every policy set: also a Build that
\* comes after others that threw somewhere on the way.
THEOREM BuildDelivers == Spec => BuiltAsConfigured
<1>1. ASSUME TypeInv, ConfiguredInv, [Next]_vars, isBuilt', ~isBuilt
      PROVE  /\ \A n \in Range(Plan) : containerId[n] # "none"
             /\ \A c \in ChannelIds : opened[c] = 1
             /\ policySet = ChannelIds
  <2> USE DEF network
  <2>1. at = "built"
    <3>1. CASE Begins
      BY <1>1, <3>1 DEF Begins, BeginBuild, BeginDestroy, BeginShutdown, BeginRestart
    <3>2. CASE Environment
      BY <1>1, <3>2 DEF Environment, Join, List, Drop, Monitor, Expire, CallFails,
                        MonitorHangs, CleanUp, LndStarts, CatchesUp, Graph, Meet,
                        ContainerDies
    <3>3. CASE Operation
      BY <1>1, <3>3, StaysBuilt DEF Built
    <3> QED
      BY <1>1, <3>1, <3>2, <3>3 DEF Next, vars
  <2>2. op = "Build"
    BY <1>1, <2>1 DEF TypeInv, SafeInv, PlaceInv, Operations, RestartLabels, SharedLabels
  <2>3. policySet = ChannelIds /\ opened = Once(ChannelIds)
    BY <1>1, <2>1, <2>2 DEF ConfiguredInv, ChannelsInv
  <2>4. \A n \in Range(Plan) : containerId[n] # "none"
    BY <1>1, <2>1, <2>2 DEF TypeInv, SafeInv, DestroyInv
  <2> QED
    BY <2>3, <2>4 DEF Once
<1> QED
  BY <1>1, ConfiguredInvariant, PTL DEF Spec, BuiltAsConfigured

-----------------------------------------------------------------------------
(* What Build throws for.                                                  *)

Everywhere == pending \cup members \cup listed \cup locals \cup remotes \cup {local, remote}

\* Until a network is built no node has changed its address.
AddressesInv == ~isBuilt => /\ \A n \in Nodes : address[n] = 0
                            /\ \A c \in Everywhere : c.address = 0

\* Without a fault bitcoind runs from its start to the end of Build.
MinerInv == op = "Build" /\ faults = 0 /\ ~(at \in {"create", "start"} /\ i = 1) =>
              container[Miner] = "running"

\* The nodes that are to be connected, and what is so by the time a channel is
\* opened between them.
PairInv ==
  op = "Build" =>
    /\ at = "remotes" \/ (at = "connect" /\ i = 0) =>
         \A d \in remotes : d.node # local.node
    /\ at = "connect" /\ i = 0 => remote.node # local.node
    /\ at = "channel" \/ InChannel => local.node = target
    /\ InChannel /\ at # "remote" => remote.node = Channels[target][k]
    /\ faults = 0 /\ (at = "channel" \/ InChannel) => lnd[local.node] = "active"
    /\ faults = 0 /\ at = "open" => local.node \in synced

\* A node that is connected is active.
PeersInv == \A p \in peers : \A n \in p : lnd[n] = "active"

ReasonInv == AddressesInv /\ MinerInv /\ PairInv /\ PeersInv

LEMMA InitReason == Init => ReasonInv
<1> SUFFICES ASSUME Init PROVE ReasonInv
  OBVIOUS
<1>1. Everywhere = {NoConnection}
  BY DEF Init, Everywhere
<1>2. AddressesInv
  BY <1>1 DEF Init, AddressesInv, NoConnection
<1> QED
  BY <1>2 DEF Init, ReasonInv, MinerInv, PairInv, PeersInv

\* Connections are made at one place, with the address of the moment.
Made == {Connection(n) : n \in Nodes} \cup {NoConnection}
Moves == UNCHANGED <<isBuilt, address>> /\ Everywhere' \subseteq Everywhere \cup Made

LEMMA MovesSafe == AddressesInv /\ Moves => AddressesInv'
<1> SUFFICES ASSUME AddressesInv, Moves, ~isBuilt' PROVE AddressesInv'
  BY DEF AddressesInv
<1>1. UNCHANGED <<isBuilt, address>> /\ ~isBuilt
  BY DEF Moves
<1>2. \A n \in Nodes : address[n] = 0
  BY <1>1 DEF AddressesInv
<1>3. \A c \in Made : c.address = 0
  BY <1>2 DEF Made, Connection, NoConnection
<1>4. \A c \in Everywhere' : c.address = 0
  BY <1>1, <1>3 DEF AddressesInv, Moves
<1> QED
  BY <1>1, <1>2, <1>4 DEF AddressesInv

LEMMA OperationMoves == PlaceInv /\ op = "Build" /\ Operation => Moves \/ isBuilt'
<1> SUFFICES ASSUME PlaceInv, op = "Build", Operation PROVE Moves \/ isBuilt'
  OBVIOUS
<1> USE DEF Moves, Everywhere, Made, Goto, world, poolV, network, place
<1>0. End /\ UNCHANGED <<pending, members, listed, address, isBuilt>> => Moves
  BY DEF End
<1> HIDE DEF Made
<1>1. CASE \/ Create \/ Start \/ Files \/ WaitListed \/ WaitRelisted
  BY <1>0, <1>1 DEF Create, Start, Files, WaitListed, WaitRelisted, Listed, Throw
<1>2. CASE MakePool
  BY <1>2 DEF MakePool, Made
<1>3. CASE CopyListed \/ NextLocal \/ NextRemote
  BY <1>3 DEF CopyListed, NextLocal, NextRemote
<1>4. CASE Connect
  BY <1>4 DEF Connect
<1>5. CASE ConnectAgain \/ ConnectFails
  BY <1>0, <1>5 DEF ConnectAgain, ConnectFails, Throw
<1>6. CASE Fund
  BY <1>0, <1>6 DEF Fund, Throw, Of
<1>7. CASE Channel
  <2>1. CASE k <= Len(Channels[target])
    BY <1>7, <2>1 DEF Channel
  <2>2. CASE ~(k <= Len(Channels[target]))
    BY <1>7, <2>2 DEF Channel
  <2> QED
    BY <2>1, <2>2
<1>8. CASE FindRemote \/ Sync
  BY <1>0, <1>8 DEF FindRemote, Sync, WaitSynced, WaitEither, WaitGraph, FindAgain, Info,
                    Throw, Of
<1>9. CASE Open \/ SetPolicy
  BY <1>0, <1>9 DEF Open, SetPolicy, NextChannel, Throw
<1>10. CASE Built
  BY <1>10 DEF Built
<1> QED
  BY <1>1, <1>2, <1>3, <1>4, <1>5, <1>6, <1>7, <1>8, <1>9, <1>10, BuildActions

LEMMA NextAddresses == PlaceInv /\ AddressesInv /\ [Next]_vars => AddressesInv'
<1> SUFFICES ASSUME PlaceInv, AddressesInv, [Next]_vars, ~isBuilt' PROVE AddressesInv'
  BY DEF AddressesInv
<1>1. CASE op = "Build" /\ Operation
  BY <1>1, OperationMoves, MovesSafe
<1>2. CASE op # "Build" /\ Operation
  <2>1. at = "idle" \/ isBuilt
    BY <1>2 DEF PlaceInv, Operations
  <2>2. at # "idle"
    BY <1>2 DEF Operation, Create, Start, Files, MakePool, WaitListed, WaitRelisted, Listed,
       CopyListed, NextLocal, NextRemote, Connect, ConnectAgain, ConnectFails, Fund, Channel,
       FindRemote, Sync, WaitSynced, WaitEither, WaitGraph, FindAgain, Reset, Open,
       SetPolicy, PolicyFails, PolicyMissing, Built, Remove, StopContainer,
       RestartContainer, Settings, Pick, Ready, DestroyStop, DestroyRemove, DestroyEnds
  <2> QED
    BY <1>2, <2>1, <2>2, StaysBuilt
<1>3. CASE Begins \/ Environment \/ UNCHANGED vars
  <2>1. Moves
    <3> USE DEF Moves, Everywhere, world, poolV, network, place
    <3>1. CASE Begins
      BY <3>1 DEF Begins, BeginBuild, BeginDestroy, BeginShutdown, BeginRestart, Begin
    <3>2. CASE UNCHANGED vars
      BY <3>2 DEF vars
    <3>3. CASE CallFails
      BY <3>3 DEF CallFails, End, Made
    <3>4. CASE Join \/ Expire \/ MonitorHangs \/ CleanUp
      BY <3>4 DEF Join, Expire, MonitorHangs, CleanUp
    <3>6. CASE List \/ Drop
      <4>1. Monitor /\ listed' \subseteq listed \cup members
        BY <3>6 DEF List, Drop
      <4>2. CASE UNCHANGED <<place, at>>
        BY <4>1, <4>2 DEF Monitor
      <4>3. CASE End
        BY <4>1, <4>3 DEF Monitor, End, Made
      <4> QED
        BY <4>1, <4>2, <4>3 DEF Monitor
    <3>5. CASE \/ \E n \in Lnds : LndStarts(n)
               \/ \E n \in Nodes : CatchesUp(n) \/ Graph(n)
               \/ \E m, n \in Nodes : Meet(m, n)
               \/ \E n \in Range(Destroyed) : ContainerDies(n)
      BY <3>5 DEF LndStarts, CatchesUp, Graph, Meet, ContainerDies
    <3> QED
      BY <1>3, <3>1, <3>2, <3>3, <3>4, <3>5, <3>6 DEF Environment
  <2> QED
    BY <2>1, MovesSafe
<1> QED
  BY <1>1, <1>2, <1>3 DEF Next

LEMMA BuildReason ==
  ASSUME TypeInv, MinerInv, PairInv, op = "Build", Operation
  PROVE  MinerInv' /\ PairInv'
<1> USE DEF Goto, world, poolV, network, history
<1>0. /\ PlaceInv /\ at \in BuildLabels \cup SharedLabels
      /\ container = [n \in Range(Plan) |-> container[n]]
      /\ Miner \in Range(Plan)
  BY PlanFacts DEF TypeInv, WorldOK, SafeInv, PlaceInv, Operations
<1>1. End => MinerInv' /\ PairInv'
  BY DEF End, MinerInv, PairInv
<1>2. ASSUME UNCHANGED <<container, faults>>, at \notin {"create", "start"} \/ i # 1
      PROVE  MinerInv'
  BY <1>2 DEF MinerInv
<1>3. CASE Create
  <2>1. CASE End
    BY <1>1, <2>1
  <2>2. CASE ~End
    <3>1. /\ container[Cur] = "absent" /\ container' = [container EXCEPT ![Cur] = "created"]
          /\ at = "create" /\ at' = "start" /\ UNCHANGED <<place, faults>>
      BY <1>3, <2>2 DEF Create, Throw
    <3>2. MinerInv'
      BY <1>0, <3>1 DEF MinerInv, place
    <3>3. PairInv'
      BY <3>1 DEF PairInv, InChannel, ChannelLabels
    <3> QED
      BY <3>2, <3>3
  <2> QED
    BY <2>1, <2>2
<1>4. CASE Start
  <2>1. /\ container' = [container EXCEPT ![Cur] = "running"]
        /\ at = "start" /\ at' = "files" /\ UNCHANGED <<place, faults>>
    BY <1>4 DEF Start
  <2>2. i = 1 => Cur = Miner
    BY PlanParts DEF Cur
  <2>3. MinerInv'
    BY <1>0, <2>1, <2>2 DEF MinerInv, place
  <2>4. PairInv'
    BY <2>1 DEF PairInv, InChannel, ChannelLabels
  <2> QED
    BY <2>3, <2>4
<1>5. CASE Files
  <2>1. at = "files" /\ at' \in {"create", "pool"} /\ UNCHANGED <<container, faults>>
    BY <1>5 DEF Files
  <2>2. MinerInv'
    BY <1>2, <2>1
  <2>3. PairInv'
    BY <2>1 DEF PairInv, InChannel, ChannelLabels
  <2> QED
    BY <2>2, <2>3
<1>6. CASE MakePool \/ WaitListed \/ WaitRelisted
  <2>1. CASE End
    BY <1>1, <2>1
  <2>2. CASE ~End
    <3>1. /\ at \in {"pool", "listed", "relisted"} /\ at' \in {"listed", "copy", "node"}
          /\ UNCHANGED <<container, faults>>
      BY <1>6, <2>2 DEF MakePool, WaitListed, WaitRelisted, Listed, Throw
    <3>2. PairInv'
      BY <3>1 DEF PairInv, InChannel, ChannelLabels
    <3> QED
      BY <1>2, <3>1, <3>2
  <2> QED
    BY <2>1, <2>2
<1>18. CASE CopyListed
  <2>1. at = "copy" /\ at' = "peers" /\ UNCHANGED <<container, faults>>
    BY <1>18 DEF CopyListed
  <2>2. PairInv'
    BY <2>1 DEF PairInv, InChannel, ChannelLabels
  <2> QED
    BY <1>2, <2>1, <2>2
<1>7. CASE NextLocal
  <2>1. /\ at = "peers" /\ UNCHANGED <<container, faults>>
        /\ at' = "relisted" \/ (at' = "remotes" /\ \A d \in remotes' : d.node # local'.node)
    BY <1>7 DEF NextLocal
  <2>2. PairInv'
    BY <2>1 DEF PairInv, InChannel, ChannelLabels
  <2> QED
    BY <1>2, <2>1, <2>2
<1>8. CASE NextRemote
  <2>1. /\ at = "remotes" /\ UNCHANGED <<container, faults>>
        /\ at' = "peers" \/ (at' = "connect" /\ local' = local /\ i' = i /\ remote' \in remotes
                                /\ remotes' \subseteq remotes)
    BY <1>8 DEF NextRemote
  <2>2. i = 0
    BY <2>1 DEF TypeInv, PlaceOK
  <2>3. PairInv'
    BY <2>1, <2>2 DEF PairInv, InChannel, ChannelLabels
  <2> QED
    BY <1>2, <2>1, <2>3
<1>9. CASE Connect
  <2>1. /\ at = "connect" /\ lnd[local.node] = "active"
        /\ UNCHANGED <<op, i, k, target, local, remote, remotes, container, synced, lnd, faults>>
    BY <1>9 DEF Connect, IsServerReady
  <2>2. IF i = 0 THEN at' = "remotes" ELSE at' = "sync"
    BY <1>9 DEF Connect
  <2>3. i \in Nat /\ (at = "connect" /\ i > 0 => InChannel)
    BY DEF TypeInv, PlaceOK, InChannel
  <2>4. CASE i > 0
    <3>1. PairInv'
      BY <2>1, <2>2, <2>3, <2>4 DEF PairInv, ChannelLabels
    <3> QED
      BY <1>2, <2>1, <3>1
  <2>5. CASE i = 0
    <3>1. at' = "remotes" /\ ~InChannel'
      BY <2>2, <2>5 DEF InChannel, ChannelLabels
    <3>2. \A d \in remotes : d.node # local.node
      BY <2>1, <2>5 DEF PairInv
    <3>3. PairInv'
      BY <2>1, <3>1, <3>2 DEF PairInv
    <3> QED
      BY <1>2, <2>1, <3>3
  <2> QED
    BY <2>3, <2>4, <2>5
<1>10. CASE ConnectAgain \/ ConnectFails
  <2>1. CASE End
    BY <1>1, <2>1
  <2>2. CASE ~End
    <3>1. /\ at = "connect" /\ at' = at
          /\ UNCHANGED <<op, i, k, target, local, remote, remotes, container, lnd, faults>>
      BY <1>10, <2>2 DEF ConnectAgain, ConnectFails, Throw
    <3>2. InChannel' <=> InChannel
      BY <3>1 DEF InChannel
    <3>3. PairInv'
      BY <3>1, <3>2 DEF PairInv
    <3> QED
      BY <1>2, <3>1, <3>3
  <2> QED
    BY <2>1, <2>2
<1>11. CASE Fund
  <2>1. CASE End
    BY <1>1, <2>1
  <2>2. CASE ~End
    <3>1. /\ at = "node" /\ at' = "channel" /\ target' = LNDNodes[i]
          /\ local' \in Of(LNDNodes[i], listed) /\ lnd[local'.node] = "active"
          /\ UNCHANGED <<container, lnd, faults>>
      BY <1>11, <2>2 DEF Fund, Throw, IsServerReady
    <3>2. PairInv'
      BY <3>1 DEF PairInv, InChannel, ChannelLabels, Of
    <3> QED
      BY <1>2, <3>1, <3>2
  <2> QED
    BY <2>1, <2>2
<1>12. CASE Channel
  <2>1. at = "channel" /\ UNCHANGED <<container, lnd, faults>> /\ local.node = target
    BY <1>12 DEF Channel, PairInv
  <2>2. \/ at' \in {"node", "built"}
        \/ at' = "remote" /\ UNCHANGED place
    <3>1. CASE k <= Len(Channels[target])
      <4>1. k \in Nat /\ Len(Channels[target]) \in Nat
        BY <2>1, NetworkFacts DEF TypeInv, PlaceOK
      <4> QED
        BY <1>12, <3>1, <4>1 DEF Channel
    <3>2. CASE ~(k <= Len(Channels[target]))
      BY <1>12, <3>2 DEF Channel
    <3> QED
      BY <3>1, <3>2
  <2>3. PairInv'
    BY <2>1, <2>2 DEF PairInv, InChannel, ChannelLabels, place
  <2> QED
    BY <1>2, <2>1, <2>3
<1>13. CASE FindRemote
  <2>1. /\ at = "remote" /\ at' = "connect" /\ remote' \in Of(Channels[target][k], listed)
        /\ UNCHANGED <<op, i, k, target, local, container, lnd, faults>>
    BY <1>13 DEF FindRemote
  <2>2. i \in 1..Len(LNDNodes)
    BY <2>1 DEF TypeInv, PlaceOK, InChannel, ChannelLabels
  <2>3. PairInv'
    BY <2>1, <2>2 DEF PairInv, InChannel, ChannelLabels, Of
  <2> QED
    BY <1>2, <2>1, <2>3
<1>14. CASE Sync
  <2>1. CASE End
    BY <1>1, <2>1
  <2>2. CASE ~End
    <3>1. /\ \/ at = "sync" /\ at' = "open" /\ local.node \in synced
             \/ at = "synced" /\ at' = "policy"
          /\ UNCHANGED <<place, container, faults, synced, lnd>>
      BY <1>0, <1>14, <2>2 DEF Sync, WaitSynced, WaitEither, WaitGraph, FindAgain, Info,
                               BuildLabels, SharedLabels, Throw
    <3>2. PairInv'
      BY <3>1 DEF PairInv, InChannel, ChannelLabels, place
    <3> QED
      BY <1>2, <3>1, <3>2
  <2> QED
    BY <2>1, <2>2
<1>15. CASE Open
  <2>1. CASE End
    BY <1>1, <2>1
  <2>2. CASE ~End
    <3>1. at = "open" /\ at' = "synced" /\ UNCHANGED <<place, container, lnd, faults>>
      BY <1>15, <2>2 DEF Open, Throw
    <3>2. PairInv'
      BY <3>1 DEF PairInv, InChannel, ChannelLabels, place
    <3> QED
      BY <1>2, <3>1, <3>2
  <2> QED
    BY <2>1, <2>2
<1>16. CASE SetPolicy
  <2>1. /\ at = "policy" /\ at' = "channel" 
        /\ UNCHANGED <<op, target, local, container, lnd, faults>>
    BY <1>16 DEF SetPolicy, NextChannel
  <2>2. PairInv'
    BY <2>1 DEF PairInv, InChannel, ChannelLabels
  <2> QED
    BY <1>2, <2>1, <2>2
<1>17. CASE Built
  BY <1>1, <1>17 DEF Built
<1> QED
  BY <1>0, <1>3, <1>4, <1>5, <1>6, <1>7, <1>8, <1>9, <1>10, <1>11, <1>12, <1>13, <1>14,
     <1>15, <1>16, <1>17, <1>18, BuildActions

LEMMA NextPeers == TypeInv /\ PeersInv /\ [Next]_vars => PeersInv'
<1> SUFFICES ASSUME TypeInv, PeersInv, [Next]_vars PROVE PeersInv'
  OBVIOUS
<1> USE DEF Throw, Goto, world
<1>0. /\ lnd \in [Lnds -> {"off", "rpc", "active"}] /\ Nodes \subseteq Lnds
      /\ \A p \in peers : p \subseteq Nodes
  BY DEF TypeInv, WorldOK, Lnds
<1>1. UNCHANGED <<lnd, peers>> => PeersInv'
  BY DEF PeersInv
<1>2. ASSUME NEW n, Ends(n) PROVE PeersInv'
  <2> SUFFICES ASSUME NEW p \in peers', NEW m \in p PROVE lnd'[m] = "active"
    BY DEF PeersInv
  <2>1. p \in peers /\ n # m /\ lnd[m] = "active" /\ m \in Lnds
    BY <1>0, <1>2 DEF Ends, PeersInv
  <2> QED
    BY <1>2, <2>1 DEF Ends
<1>3. CASE RestartContainer
  <2>1. CASE Throw
    BY <1>1, <2>1
  <2>2. CASE ~Throw
    <3>1. /\ lnd' = [lnd EXCEPT ![target] = "off"]
          /\ peers' = {p \in peers : target \notin p}
      BY <1>3, <2>2 DEF RestartContainer
    <3> QED
      BY <1>0, <3>1 DEF PeersInv
  <2> QED
    BY <2>1, <2>2
<1>4. CASE StopContainer
  BY <1>1, <1>2, <1>4 DEF StopContainer
<1>5. CASE DestroyStop
  BY <1>1, <1>2, <1>5 DEF DestroyStop
<1>6. CASE Operation
  <2>1. CASE Channel
    BY <1>1, <2>1 DEF Channel
  <2>2. CASE Connect
    BY <1>1, <2>2 DEF Connect
  <2> QED
    BY <1>1, <1>3, <1>4, <1>5, <1>6, <2>1, <2>2
       DEF Operation, Create, Start, Files, MakePool, WaitListed, WaitRelisted, Listed,
           CopyListed, NextLocal, NextRemote, ConnectAgain, ConnectFails, Fund, FindRemote,
           Sync, WaitSynced, WaitEither, WaitGraph, FindAgain, Info, Reset, Open, SetPolicy,
           PolicyFails, PolicyMissing, Built, Remove, Settings, Pick, Ready, DestroyRemove,
           DestroyEnds
<1>7. CASE Environment
  <2>1. ASSUME NEW m \in Nodes, NEW n \in Nodes, Meet(m, n) PROVE PeersInv'
    BY <2>1 DEF Meet, PeersInv
  <2>2. ASSUME NEW n \in Lnds, LndStarts(n) PROVE PeersInv'
    BY <1>0, <2>2 DEF LndStarts, PeersInv
  <2>3. ASSUME NEW n \in Range(Destroyed), ContainerDies(n) PROVE PeersInv'
    BY <1>2, <2>3 DEF ContainerDies
  <2>4. CASE CleanUp
    BY <2>4 DEF CleanUp, PeersInv
  <2> QED
    BY <1>1, <1>7, <2>1, <2>2, <2>3, <2>4
       DEF Environment, Join, List, Drop, Monitor, Expire, CallFails, MonitorHangs,
           CatchesUp, Graph
<1>8. CASE Begins
  BY <1>1, <1>8 DEF Begins, BeginBuild, BeginDestroy, BeginShutdown, BeginRestart
<1> QED
  BY <1>1, <1>6, <1>7, <1>8 DEF Next, vars

\* While Build waits for the others, they take nothing away without a fault.
LEMMA NextReason ==
  TypeInv /\ ReasonInv /\ [Next]_vars => ReasonInv'
<1> SUFFICES ASSUME TypeInv, ReasonInv, [Next]_vars, op' = "Build"
             PROVE  MinerInv' /\ PairInv'
  BY NextAddresses, NextPeers DEF ReasonInv, TypeInv, SafeInv, MinerInv, PairInv
<1> USE DEF ReasonInv
<1>0. PlaceInv
  BY DEF TypeInv, SafeInv
<1>1. CASE op = "Build" /\ Operation
  BY <1>1, BuildReason
<1>2. CASE op # "Build"
  <2>1. BeginBuild
    <3>1. CASE Operation
      BY <1>2, <3>1, OneOperation
    <3>2. CASE Environment
      BY <1>2, <3>2 DEF Environment, Join, List, Drop, Monitor, Expire, CallFails, End,
         MonitorHangs, CleanUp, LndStarts, CatchesUp, Graph, Meet, ContainerDies, place
    <3>3. CASE Begins
      BY <3>3 DEF Begins, BeginDestroy, BeginShutdown, BeginRestart, Begin
    <3> QED
      BY <1>2, <3>1, <3>2, <3>3 DEF Next, vars, place
  <2> QED
    BY <2>1 DEF BeginBuild, Begin, MinerInv, PairInv, InChannel, ChannelLabels
<1>3. CASE op = "Build" /\ ~Operation
  <2>1. UNCHANGED <<place, at>>
    BY <1>0, <1>3 DEF Next, vars, Begins, BeginBuild, BeginDestroy, BeginShutdown,
       BeginRestart, Begin, Environment, Join, List, Drop, Monitor, Expire, CallFails, End,
       MonitorHangs, CleanUp, LndStarts, CatchesUp, Graph, Meet, ContainerDies
  <2>2. \/ faults' # 0
        \/ /\ UNCHANGED container /\ faults = faults' /\ synced \subseteq synced'
           /\ \A n \in Lnds : lnd[n] = "active" => lnd'[n] = "active"
    <3> USE DEF world, history, Fault
    <3>0. faults \in Nat /\ lnd \in [Lnds -> {"off", "rpc", "active"}]
      BY DEF TypeInv, HistoryOK, WorldOK
    <3>1. CASE \/ CallFails \/ MonitorHangs
               \/ \E n \in Range(Destroyed) : ContainerDies(n)
      BY <3>0, <3>1 DEF ContainerDies, CallFails, MonitorHangs
    <3>2. ASSUME NEW n \in Lnds, LndStarts(n)
          PROVE  /\ UNCHANGED <<container, faults, synced>>
                 /\ \A m \in Lnds : lnd[m] = "active" => lnd'[m] = "active"
      BY <3>0, <3>2 DEF LndStarts
    <3>3. CASE CleanUp
      BY <1>3, <3>3 DEF CleanUp
    <3> QED
      BY <1>3, <3>0, <3>1, <3>2, <3>3 DEF Next, vars, Begins, BeginBuild, BeginDestroy,
         BeginShutdown, BeginRestart, Begin, Environment, Join, List, Drop, Monitor, Expire,
         CatchesUp, Graph, Meet
  <2>3. InChannel' <=> InChannel
    BY <2>1 DEF InChannel, place
  <2>4. at = "channel" \/ InChannel => local.node \in Lnds
    BY DEF TypeInv, PlaceOK, InChannel, ChannelLabels, Connections, Lnds
  <2>5. MinerInv'
    BY <2>1, <2>2 DEF MinerInv, place
  <2>6. PairInv'
    BY <2>1, <2>2, <2>3, <2>4 DEF PairInv, place
  <2> QED
    BY <2>5, <2>6
<1> QED
  BY <1>1, <1>2, <1>3

LEMMA ReasonInvariant == Spec => [](TypeInv /\ ReasonInv)
<1>1. Init => TypeInv /\ ReasonInv
  BY InitType, InitReason
<1>2. TypeInv /\ ReasonInv /\ [Next]_vars => (TypeInv /\ ReasonInv)'
  BY NextType, NextReason
<1> QED
  BY <1>1, <1>2, PTL DEF Spec

\* While a network is built, connections are where the nodes are.
LEMMA AllAnswer ==
  ASSUME TypeInv, AddressesInv, ~isBuilt, NEW c \in Connections, c \in Everywhere
  PROVE  lnd[c.node] = "active" => IsServerReady(c) /\ Reachable(c)
<1>1. c.node \in Nodes
  BY DEF Connections
<1>2. address[c.node] = 0 /\ c.address = 0
  BY <1>1 DEF AddressesInv
<1> QED
  BY <1>1, <1>2 DEF IsServerReady, Reachable

\* A step of Build that ends it has found one of the reasons.
LEMMA NoOtherReason ==
  ASSUME TypeInv, ReasonInv, op = "Build", Operation, op' = "none", ~isBuilt',
         faults = 0, ~expired
  PROVE  BuildThrows
<1> USE DEF Goto, place
<1>0. /\ PlaceInv /\ PlaceOK /\ at \in BuildLabels \cup SharedLabels /\ ~isBuilt
      /\ AddressesInv /\ MinerInv /\ PairInv /\ PeersInv /\ listed \subseteq Connections
  BY DEF TypeInv, SafeInv, PlaceInv, PoolOK, Operations, ReasonInv
<1>1. CanMine \/ at \in {"create", "start"}
  BY <1>0 DEF MinerInv, CanMine
<1>2. \A c \in Connections : c \in Everywhere /\ lnd[c.node] = "active" =>
                               IsServerReady(c) /\ Reachable(c)
  BY <1>0, AllAnswer
<1>3. local \in Everywhere /\ remote \in Everywhere /\ listed \subseteq Everywhere
  BY DEF Everywhere
<1>4. CASE Create
  BY <1>4 DEF Create, BuildThrows
<1>5. CASE Start \/ Files \/ MakePool
  BY <1>5 DEF Start, Files, MakePool
<1>6. CASE WaitListed \/ WaitRelisted
  BY <1>6 DEF WaitListed, WaitRelisted, Listed
<1>7. CASE CopyListed \/ NextLocal \/ NextRemote \/ Connect
  BY <1>7 DEF CopyListed, NextLocal, NextRemote, Connect
<1>8. CASE ConnectAgain
  BY <1>8 DEF ConnectAgain, IsServerReady, BuildThrows
<1>9. CASE ConnectFails
  <2>1. at = "connect" /\ local \in Connections
    BY <1>0, <1>9 DEF ConnectFails, PlaceOK
  <2>2. CASE lnd[local.node] # "active"
    BY <2>1, <2>2 DEF BuildThrows
  <2>3. CASE local.node = remote.node
    <3>1. i \in Nat /\ i # 0
      BY <1>0, <2>1, <2>3 DEF PairInv, PlaceOK
    <3>2. InChannel
      BY <2>1, <3>1 DEF InChannel
    <3>3. /\ target \in Nodes /\ k \in 1..Len(Channels[target])
          /\ Channels[target][k] = target
      BY <1>0, <2>1, <2>3, <3>2, NetworkFacts DEF PlaceOK, PairInv, ChannelLabels
    <3>4. target \in Range(Channels[target])
      BY <3>3, NetworkFacts DEF Range
    <3> QED
      BY <2>1, <3>1, <3>4 DEF BuildThrows
  <2> QED
    BY <1>2, <1>3, <1>9, <2>1, <2>2, <2>3 DEF ConnectFails
<1>10. CASE Fund
  <2>1. at = "node"
    BY <1>10 DEF Fund
  <2>2. \A c \in Of(LNDNodes[i], listed) :
          c \in Connections /\ c \in Everywhere /\ c.node = LNDNodes[i]
    BY <1>0, <1>3 DEF Of
  <2>3. CanMine
    BY <1>1, <2>1
  <2>4. CASE lnd[LNDNodes[i]] # "active" \/ Of(LNDNodes[i], listed) = {}
    BY <2>1, <2>4 DEF BuildThrows
  <2>5. CASE lnd[LNDNodes[i]] = "active" /\ Of(LNDNodes[i], listed) # {}
    <3>1. \A c \in Of(LNDNodes[i], listed) : IsServerReady(c)
      BY <1>2, <2>2, <2>5
    <3> QED
      BY <1>10, <2>3, <2>5, <3>1 DEF Fund
  <2> QED
    BY <2>4, <2>5
<1>11. CASE Channel
  <2>1. CASE k <= Len(Channels[target])
    BY <1>11, <2>1 DEF Channel
  <2>2. CASE ~(k <= Len(Channels[target]))
    BY <1>11, <2>2 DEF Channel
  <2> QED
    BY <2>1, <2>2
<1>12. CASE FindRemote
  BY <1>12 DEF FindRemote
<1>13. CASE Sync
  <2>1. at \in {"sync", "synced"} /\ ~Reachable(local)
    BY <1>0, <1>13 DEF Sync, WaitSynced, WaitEither, WaitGraph, FindAgain, Info,
       BuildLabels, SharedLabels
  <2>2. local \in Connections /\ lnd[local.node] = "active"
    BY <1>0, <2>1 DEF PairInv, PlaceOK, InChannel, ChannelLabels
  <2> QED
    BY <1>2, <1>3, <2>1, <2>2
<1>14. CASE Open
  <2>1. at = "open" /\ InChannel
    BY <1>14 DEF Open, InChannel, ChannelLabels
  <2>2. CASE remote.node \notin synced \/ Pair(local, remote) \notin peers
    BY <2>1, <2>2 DEF BuildThrows
  <2>3. CASE remote.node \in synced /\ Pair(local, remote) \in peers
    <3>1. local \in Connections /\ remote \in Connections
      BY <1>0, <2>1 DEF PlaceOK, ChannelLabels
    <3>2. lnd[local.node] = "active" /\ lnd[remote.node] = "active"
      BY <1>0, <2>3 DEF PeersInv, Pair
    <3>3. Both /\ CanMine /\ local.node \in synced
      BY <1>0, <1>1, <1>2, <1>3, <2>1, <3>1, <3>2 DEF Both, PairInv
    <3> QED
      BY <1>14, <2>3, <3>3 DEF Open
  <2> QED
    BY <2>2, <2>3
<1>15. CASE SetPolicy
  BY <1>15 DEF SetPolicy, NextChannel
<1>16. CASE Built
  BY <1>16 DEF Built
<1> QED
  BY <1>0, <1>4, <1>5, <1>6, <1>7, <1>8, <1>9, <1>10, <1>11, <1>12, <1>13, <1>14, <1>15,
     <1>16, BuildActions

\* While no call fails for a reason of its own and time is not over, Build throws
\* only for a name that is taken, a node that starts up or is to have a channel
\* with itself, and the gaps in its waiting: never in a wait for the chain, and
\* never because the funder of a channel has not seen its funds.
THEOREM BuildThrowsForAReason == Spec => BuildFailsForAReason
<1>1. ASSUME TypeInv, ReasonInv, [Next]_vars, op = "Build", op' = "none", ~isBuilt',
             faults' = 0, ~expired
      PROVE  BuildThrows
  <2>0. faults \in Nat /\ PlaceInv
    BY <1>1 DEF TypeInv, HistoryOK, SafeInv
  <2>1. CASE Operation
    <3>1. faults' = faults
      <4> USE DEF history, Goto, Throw
      <4>1. CASE Channel
        BY <4>1 DEF Channel
      <4>2. CASE Connect
        BY <4>2 DEF Connect
      <4> QED
        BY <1>1, <2>0, <2>1, <4>1, <4>2, BuildActions
           DEF Create, Start, Files, MakePool, WaitListed, WaitRelisted, Listed, CopyListed,
               NextLocal, NextRemote, ConnectAgain, ConnectFails, Fund, FindRemote, Sync,
               WaitSynced, WaitEither, WaitGraph, FindAgain, Info, Open, SetPolicy, Built
    <3> QED
      BY <1>1, <2>0, <2>1, <3>1, NoOtherReason
  <2>2. CASE ~Operation
    <3>1. CallFails \/ ((List \/ Drop) /\ End /\ Enumerates)
      BY <1>1, <2>2 DEF Next, vars, Begins, BeginBuild, BeginDestroy, BeginShutdown,
         BeginRestart, Begin, Environment, Join, List, Drop, Monitor, Expire, MonitorHangs,
         CleanUp, LndStarts, CatchesUp, Graph, Meet, ContainerDies, place
    <3>2. ~CallFails
      BY <1>1, <2>0 DEF CallFails, Fault
    <3>3. List \/ Drop => listed' # listed
      BY DEF List, Drop
    <3> QED
      BY <3>1, <3>2, <3>3 DEF BuildThrows
  <2> QED
    BY <2>1, <2>2
<1> QED
  BY <1>1, ReasonInvariant, PTL DEF Spec, BuildFailsForAReason

=============================================================================
