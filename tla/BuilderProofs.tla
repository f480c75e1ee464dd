---------------------------- MODULE BuilderProofs ----------------------------
(***************************************************************************)
(* Theorems about Builder, for any network and any number of faults and    *)
(* restarts: what Destroy leaves, and how many connections a node has.     *)
(***************************************************************************)
EXTENDS Builder, FiniteSetTheorems, SequenceTheorems, TLAPS

USE NetworkAssumption, BoundAssumption, SwitchAssumption

-----------------------------------------------------------------------------
(* Where an operation can be.                                              *)

BuildLabels == {"create", "start", "files", "pool", "listed", "copy", "peers",
                "remotes", "relisted", "node", "sync", "synced", "built"}
RestartLabels == {"restart", "restartOnly", "settings", "pick", "ready", "sync1",
                  "sync2", "find", "sync3", "graph", "graph2", "reset"}
SharedLabels == {"connect", "channel", "remote", "open", "policy"}

\* Every label belongs to an operation, or to Build and RestartByAlias both;
\* and Build is over once and for all when the network is built.
PlaceInv ==
  /\ op \in Operations \cup {"none"} /\ k \in Nat
  /\ op = "none" => at = "idle"
  /\ op = "Build" => at \in BuildLabels \cup SharedLabels /\ ~isBuilt /\ ~isDestroyed
  /\ op = "Restart" => at \in RestartLabels \cup SharedLabels /\ isBuilt /\ target \in Nodes
  /\ op = "Shutdown" => at \in {"remove", "stop"} /\ isBuilt /\ target \in Nodes
  /\ op = "Destroy" => at \in {"destroy", "destroyRemove"} /\ isBuilt
  /\ at \in {"create", "start", "files"} => i \in 1..Len(Plan)
  /\ at = "destroy" => i \in Nat \ {0}
  /\ at = "destroyRemove" => i \in 1..Len(Destroyed)

-----------------------------------------------------------------------------
(* What Destroy needs.                                                     *)

\* A Build that returns has been through every container, and Destroy passes
\* over none whose id it knows.
DestroyInv ==
  /\ container \in [Range(Plan) -> {"absent", "created", "running", "stopped"}]
  /\ containerId = [n \in Range(Plan) |-> containerId[n]]
  /\ at = "create" => \A j \in 1..(i - 1) : containerId[Plan[j]] # "none"
  /\ at \in {"start", "files"} => \A j \in 1..i : containerId[Plan[j]] # "none"
  /\ isBuilt \/ (op = "Build" /\ at \notin {"create", "start", "files"}) =>
       \A n \in Range(Plan) : containerId[n] # "none"
  /\ at \in {"destroy", "destroyRemove"} =>
       \A j \in 1..(i - 1) : j <= Len(Destroyed) => container[Destroyed[j]] = "absent"
  /\ DestroyLeavesNothing

-----------------------------------------------------------------------------
(* The lists of containers.                                                *)

LEMMA PlanFacts ==
  /\ Len(Plan) \in Nat /\ Len(Plan) >= 1 /\ DOMAIN Plan = 1..Len(Plan)
  /\ \A j \in 1..Len(Plan) : Plan[j] \in Range(Plan) /\ Plan[j] # "none"
  /\ \A n \in Range(Plan) : \E j \in 1..Len(Plan) : Plan[j] = n
  /\ Loop => LoopLnd # "none"
  /\ Nodes \subseteq Range(Plan) /\ Miner \in Range(Plan)
<1> DEFINE S == Nodes \cup {Miner, LoopLnd, LoopServer}
           loop == IF Loop THEN <<LoopLnd, LoopServer>> ELSE <<>>
           first == <<Miner>> \o loop
<1>1. LNDNodes \in Seq(S)
  BY SMT DEF NetworkAssumption
<1>2. /\ loop \in Seq(S) /\ Len(loop) \in Nat
      /\ Loop => Len(loop) = 2 /\ loop[1] = LoopLnd
  <2> DEFINE two == <<LoopLnd, LoopServer>>
             nothing == <<>>
  <2>1. two \in Seq(S) /\ Len(two) = 2 /\ two[1] = LoopLnd
    BY SMT
  <2>2. nothing \in Seq(S) /\ Len(nothing) = 0
    BY EmptySeq, SMT
  <2>3. CASE Loop
    <3>1. loop = two
      BY <2>3
    <3> QED
      BY <2>1, <2>3, <3>1
  <2>4. CASE ~Loop
    <3>1. loop = nothing
      BY <2>4
    <3> QED
      BY <2>2, <2>4, <3>1
  <2> QED
    BY <2>3, <2>4
<1>3. <<Miner>> \in Seq(S) /\ Len(<<Miner>>) = 1 /\ <<Miner>>[1] = Miner
  BY SMT
<1> HIDE DEF loop, S
<1>4. /\ first \in Seq(S) /\ Len(first) = 1 + Len(loop)
      /\ \A j \in 1..Len(first) : first[j] = IF j <= 1 THEN <<Miner>>[j] ELSE loop[j - 1]
  BY <1>2, <1>3, ConcatProperties
<1>5. Plan = first \o LNDNodes
  BY DEF Plan, loop
<1> HIDE DEF first
<1>6. /\ Plan \in Seq(S) /\ Len(Plan) = Len(first) + Len(LNDNodes)
      /\ \A j \in 1..Len(Plan) :
           Plan[j] = IF j <= Len(first) THEN first[j] ELSE LNDNodes[j - Len(first)]
  <2>1. /\ first \o LNDNodes \in Seq(S)
        /\ Len(first \o LNDNodes) = Len(first) + Len(LNDNodes)
        /\ \A j \in 1..(Len(first) + Len(LNDNodes)) :
             (first \o LNDNodes)[j] =
                IF j <= Len(first) THEN first[j] ELSE LNDNodes[j - Len(first)]
    BY <1>1, <1>4, ConcatProperties
  <2> QED
    BY <2>1, <1>5, Zenon
<1>7. /\ Len(first) \in Nat /\ Len(first) >= 1 /\ first[1] = Miner
      /\ Loop => Len(first) >= 2 /\ first[2] = LoopLnd
  BY <1>2, <1>3, <1>4
<1>8. Len(Plan) \in Nat /\ Len(Plan) >= Len(first) /\ DOMAIN Plan = 1..Len(Plan)
  BY <1>1, <1>6, <1>7
<1>9. \A j \in 1..Len(Plan) : Plan[j] \in Range(Plan)
  BY <1>8 DEF Range
<1>10. \A n \in Range(Plan) : \E j \in 1..Len(Plan) : Plan[j] = n
  BY <1>8 DEF Range
<1>11. Plan[1] = Miner /\ (Loop => Plan[2] = LoopLnd)
  BY <1>6, <1>7, <1>8
<1>12. Miner \in Range(Plan) /\ (Loop => LoopLnd \in Range(Plan))
  <2>1. 1 \in 1..Len(Plan) /\ (Loop => 2 \in 1..Len(Plan))
    BY <1>7, <1>8
  <2> QED
    BY <2>1, <1>9, <1>11
<1>13. Nodes \subseteq Range(Plan)
  <2> SUFFICES ASSUME NEW n \in Nodes PROVE n \in Range(Plan)
    OBVIOUS
  <2>1. PICK j \in 1..Len(LNDNodes) : LNDNodes[j] = n
    BY <1>1 DEF Nodes, Range
  <2>2. PICK m : m = j + Len(first)
    OBVIOUS
  <2>3. m \in 1..Len(Plan) /\ ~(m <= Len(first)) /\ m - Len(first) = j
    BY <1>1, <1>6, <1>7, <2>1, <2>2
  <2>4. Plan[m] = n
    BY <1>6, <2>1, <2>3
  <2> QED
    BY <2>3, <2>4, <1>9
<1> QED
  BY <1>7, <1>8, <1>9, <1>10, <1>12, <1>13 DEF NetworkAssumption

LEMMA DestroyedFacts ==
  /\ Len(Destroyed) \in Nat /\ DOMAIN Destroyed = 1..Len(Destroyed)
  /\ \A j \in 1..Len(Destroyed) : Destroyed[j] \in Range(Destroyed)
  /\ \A n \in Range(Destroyed) : \E j \in 1..Len(Destroyed) : Destroyed[j] = n
  /\ Range(Destroyed) \subseteq Range(Plan)
<1> DEFINE first == <<Miner>>
           S == Nodes \cup {Miner}
<1>1. first \in Seq(S) /\ LNDNodes \in Seq(S) /\ Len(first) = 1
  BY SMT DEF NetworkAssumption
<1>2. /\ Destroyed \in Seq(S) /\ Len(Destroyed) = 1 + Len(LNDNodes)
  BY <1>1, ConcatProperties DEF Destroyed
<1>3. Len(Destroyed) \in Nat /\ DOMAIN Destroyed = 1..Len(Destroyed)
  BY <1>1, <1>2
<1>4. \A j \in 1..Len(Destroyed) : Destroyed[j] \in S
  BY <1>2
<1> QED
  BY <1>3, <1>4, PlanFacts DEF Range

-----------------------------------------------------------------------------
(* Destroy.                                                                *)

SafeInv == PlaceInv /\ DestroyInv

LEMMA InitSafe == Init => SafeInv
<1> SUFFICES ASSUME Init PROVE SafeInv
  OBVIOUS
<1>1. PlaceInv
  BY DEF Init, PlaceInv
<1>2. container \in [Range(Plan) -> {"absent", "created", "running", "stopped"}]
  BY SMT DEF Init
<1>3. DestroyInv
  BY <1>2 DEF Init, DestroyInv, DestroyLeavesNothing
<1> QED
  BY <1>1, <1>3 DEF SafeInv

LEMMA BeginsSafe == SafeInv /\ Begins => SafeInv'
<1> SUFFICES ASSUME SafeInv, Begins PROVE SafeInv'
  OBVIOUS
<1> USE DEF SafeInv, PlaceInv, DestroyInv, DestroyLeavesNothing, Begin, Operations,
            BuildLabels, RestartLabels, SharedLabels, world, poolV, network, history
<1>1. CASE BeginBuild
  BY <1>1, PlanFacts, DestroyedFacts DEF BeginBuild
<1>2. CASE BeginDestroy
  BY <1>2, PlanFacts, DestroyedFacts DEF BeginDestroy
<1>3. ASSUME isBuilt, NEW n \in Nodes, NEW isLND \in BOOLEAN, BeginShutdown(n, isLND)
      PROVE  SafeInv'
  BY <1>3, PlanFacts, DestroyedFacts DEF BeginShutdown
<1>4. ASSUME isBuilt, NEW n \in Nodes, NEW isLND \in BOOLEAN, BeginRestart(n, isLND)
      PROVE  SafeInv'
  BY <1>4, PlanFacts, DestroyedFacts DEF BeginRestart
<1> QED
  BY <1>1, <1>2, <1>3, <1>4 DEF Begins

\* A step that leaves Docker alone, and is not one of a loop over containers.
Quiet ==
  /\ UNCHANGED <<container, containerId, isBuilt, isDestroyed>>
  /\ at' \notin {"create", "start", "files", "destroy", "destroyRemove"}
  /\ op' = "none" \/ (op' = op /\ at \notin {"create", "start", "files"})

LEMMA QuietSafe == DestroyInv /\ Quiet => DestroyInv'
  BY DEF Quiet, DestroyInv, DestroyLeavesNothing

LEMMA OperationSafe == SafeInv /\ Operation => SafeInv'
<1> SUFFICES ASSUME SafeInv, Operation PROVE SafeInv'
  OBVIOUS
<1> USE DEF SafeInv, PlaceInv, Operations, BuildLabels, RestartLabels, SharedLabels,
            Goto, End, Throw, world, poolV, network, place, history
<1>1. CASE Create
  <2> USE PlanFacts, DestroyedFacts DEF DestroyInv, DestroyLeavesNothing
  <2>1. at = "create" /\ op = "Build" /\ ~isBuilt /\ ~isDestroyed /\ i \in 1..Len(Plan)
    BY <1>1 DEF Create
  <2>2. CASE container[Cur] # "absent"
    BY <1>1, <2>1, <2>2 DEF Create
  <2>3. CASE container[Cur] = "absent"
    <3> DEFINE id == IF Loop /\ Cur = LoopServer THEN LoopLnd ELSE Cur
    <3>1. /\ container' = [container EXCEPT ![Cur] = "created"]
          /\ containerId' = [containerId EXCEPT ![Cur] = id]
          /\ at' = "start" /\ UNCHANGED <<op, i, k, target, isBuilt, isDestroyed>>
      BY <1>1, <2>3 DEF Create
    <3>2. id # "none" /\ Cur \in Range(Plan)
      BY <2>1 DEF Cur
    <3>3. container' \in [Range(Plan) -> {"absent", "created", "running", "stopped"}]
      BY <3>1, <3>2
    <3>4. /\ containerId' = [n \in Range(Plan) |-> containerId'[n]]
          /\ \A j \in 1..i : containerId'[Plan[j]] # "none"
      <4>1. DOMAIN containerId = Range(Plan)
        OBVIOUS
      <4>2. \A n \in Range(Plan) : containerId'[n] = IF n = Cur THEN id ELSE containerId[n]
        BY <3>1, <3>2, <4>1
      <4>3. containerId' = [n \in Range(Plan) |-> containerId'[n]]
        BY <3>1, <4>1
      <4>4. \A j \in 1..(i - 1) : containerId[Plan[j]] # "none"
        BY <2>1
      <4>5. \A j \in 1..i : j = i \/ j \in 1..(i - 1)
        BY <2>1
      <4> HIDE DEF id
      <4>6. \A j \in 1..i : containerId'[Plan[j]] # "none"
        BY <2>1, <3>2, <4>2, <4>4, <4>5 DEF Cur
      <4> QED
        BY <4>3, <4>6
    <3>5. PlaceInv'
      BY <2>1, <3>1
    <3>6. DestroyInv'
      BY <2>1, <3>1, <3>3, <3>4
    <3> QED
      BY <3>5, <3>6
  <2> QED
    BY <2>2, <2>3
<1>2. CASE Start
  BY <1>2, PlanFacts, DestroyedFacts
     DEF Start, Cur, DestroyInv, DestroyLeavesNothing
<1>3. CASE Files
  <2> USE PlanFacts, DestroyedFacts DEF DestroyInv, DestroyLeavesNothing
  <2>1. at = "files" /\ op = "Build" /\ UNCHANGED world /\ UNCHANGED network
    BY <1>3 DEF Files
  <2>2. CASE i < Len(Plan)
    <3>1. at' = "create" /\ i' = i + 1 /\ op' = op /\ k' = k /\ target' = target
      BY <1>3, <2>2 DEF Files
    <3>2. PlaceInv'
      BY <2>1, <2>2, <3>1
    <3>3. \A j \in 1..(i' - 1) : containerId[Plan[j]] # "none"
      BY <2>1, <3>1
    <3>4. DestroyInv'
      BY <2>1, <3>1, <3>3
    <3> QED
      BY <3>2, <3>4
  <2>3. CASE ~(i < Len(Plan))
    <3>1. at' = "pool" /\ i' = 0 /\ op' = op /\ k' = k /\ target' = target
      BY <1>3, <2>3 DEF Files
    <3>2. i = Len(Plan)
      BY <2>1, <2>3
    <3>3. \A n \in Range(Plan) : containerId[n] # "none"
      <4>1. \A j \in 1..i : containerId[Plan[j]] # "none"
        BY <2>1
      <4>2. ASSUME NEW n \in Range(Plan) PROVE containerId[n] # "none"
        <5>1. PICK j \in 1..Len(Plan) : Plan[j] = n
          OBVIOUS
        <5> QED
          BY <3>2, <4>1, <5>1
      <4> QED
        BY <4>2
    <3>4. PlaceInv'
      BY <2>1, <3>1
    <3>5. DestroyInv'
      BY <2>1, <3>1, <3>3
    <3> QED
      BY <3>4, <3>5
  <2> QED
    BY <2>2, <2>3
<1>4. CASE MakePool
  <2>1. PlaceInv' /\ Quiet
    BY <1>4 DEF MakePool, Quiet
  <2> QED
    BY <2>1, QuietSafe
<1>5. CASE WaitListed
  <2>1. PlaceInv' /\ Quiet
    BY <1>5 DEF WaitListed, Listed, Quiet
  <2> QED
    BY <2>1, QuietSafe
<1>6. CASE WaitRelisted
  <2>1. PlaceInv' /\ Quiet
    BY <1>6 DEF WaitRelisted, Listed, Quiet
  <2> QED
    BY <2>1, QuietSafe
<1>7. CASE NextLocal
  <2>1. PlaceInv' /\ Quiet
    BY <1>7 DEF NextLocal, Quiet
  <2> QED
    BY <2>1, QuietSafe
<1>8. CASE NextRemote
  <2>1. PlaceInv' /\ Quiet
    BY <1>8 DEF NextRemote, Quiet
  <2> QED
    BY <2>1, QuietSafe
<1>9. CASE Connect
  <2>1. PlaceInv' /\ Quiet
    BY <1>9 DEF Connect, Quiet
  <2> QED
    BY <2>1, QuietSafe
<1>10. CASE ConnectAgain
  <2>1. PlaceInv' /\ Quiet
    BY <1>10 DEF ConnectAgain, Quiet
  <2> QED
    BY <2>1, QuietSafe
<1>11. CASE ConnectFails
  <2>1. PlaceInv' /\ Quiet
    BY <1>11 DEF ConnectFails, Quiet
  <2> QED
    BY <2>1, QuietSafe
<1>12. CASE Fund
  <2>1. PlaceInv' /\ Quiet
    BY <1>12 DEF Fund, Quiet
  <2> QED
    BY <2>1, QuietSafe
<1>13. CASE Channel
  <2>1. at = "channel" /\ UNCHANGED <<container, containerId, isBuilt, isDestroyed>>
    BY <1>13 DEF Channel
  <2>2. PlaceInv' /\ Quiet
    <3>1. CASE k <= Len(Channels[target])
      <4>1. Goto("remote")
        <5> HIDE DEF Goto
        <5> QED
          BY <1>13, <3>1 DEF Channel
      <4> QED
        BY <2>1, <4>1 DEF Quiet
    <3>2. CASE ~(k <= Len(Channels[target])) /\ op = "Restart"
      BY <1>13, <2>1, <3>2 DEF Channel, Quiet
    <3>3. CASE ~(k <= Len(Channels[target])) /\ op # "Restart"
      BY <1>13, <2>1, <3>3 DEF Channel, Quiet
    <3> QED
      BY <3>1, <3>2, <3>3
  <2> QED
    BY <2>2, QuietSafe
<1>14. CASE FindRemote
  <2>1. PlaceInv' /\ Quiet
    BY <1>14 DEF FindRemote, Quiet
  <2> QED
    BY <2>1, QuietSafe
<1>15. CASE Sync
  <2>1. ASSUME NEW next \in RestartLabels \cup {"open", "policy"},
               (Goto(next) /\ UNCHANGED network /\ UNCHANGED world) \/ Throw,
               op = "Build" => next \in {"open", "policy"},
               op \in {"Build", "Restart"},
               at \notin {"create", "start", "files", "destroy", "destroyRemove"}
        PROVE  PlaceInv' /\ Quiet
    <3>1. CASE Throw
      BY <2>1, <3>1 DEF Quiet
    <3>2. CASE Goto(next) /\ UNCHANGED network /\ UNCHANGED world
      BY <2>1, <3>2 DEF Quiet
    <3> QED
      BY <2>1, <3>1, <3>2
  <2>2. PlaceInv' /\ Quiet
    <3>1. CASE WaitSynced(local, "sync", "open") \/ WaitSynced(local, "synced", "policy")
      BY <3>1, <2>1 DEF WaitSynced, Info
    <3>2. CASE WaitEither(local, "sync1", "sync2") \/ WaitEither(remote, "sync2", "graph")
      BY <3>2, <2>1 DEF WaitEither, Info
    <3>3. CASE WaitGraph("graph", "reset") \/ WaitGraph("graph2", "policy")
      BY <3>3, <2>1 DEF WaitGraph, Info
    <3>4. CASE FindAgain
      BY <3>4 DEF FindAgain, Quiet
    <3>5. CASE WaitSynced(remote, "sync3", "graph2")
      BY <3>5, <2>1 DEF WaitSynced, Info
    <3> QED
      BY <1>15, <3>1, <3>2, <3>3, <3>4, <3>5 DEF Sync
  <2> QED
    BY <2>2, QuietSafe
<1>16. CASE Reset
  <2>1. PlaceInv' /\ Quiet
    BY <1>16 DEF Reset, NextChannel, Quiet
  <2> QED
    BY <2>1, QuietSafe
<1>17. CASE Open
  <2>1. PlaceInv' /\ Quiet
    BY <1>17 DEF Open, Quiet
  <2> QED
    BY <2>1, QuietSafe
<1>18. CASE SetPolicy
  <2>1. PlaceInv' /\ Quiet
    BY <1>18 DEF SetPolicy, NextChannel, Quiet
  <2> QED
    BY <2>1, QuietSafe
<1>19. CASE PolicyFails
  <2>1. PlaceInv' /\ Quiet
    BY <1>19 DEF PolicyFails, Quiet
  <2> QED
    BY <2>1, QuietSafe
<1>20. CASE Built
  BY <1>20, PlanFacts, DestroyedFacts
     DEF Built, DestroyInv, DestroyLeavesNothing
<1>21. CASE Remove
  <2>1. PlaceInv' /\ Quiet
    BY <1>21 DEF Remove, Quiet
  <2> QED
    BY <2>1, QuietSafe
<1>22. CASE StopContainer
  <2> USE PlanFacts, DestroyedFacts DEF DestroyInv, DestroyLeavesNothing
  <2>1. at = "stop" /\ op = "Shutdown" /\ isBuilt /\ target \in Range(Plan) /\ UNCHANGED network
    BY <1>22 DEF StopContainer
  <2>2. End
    BY <1>22 DEF StopContainer
  <2>3. \/ container' = container
        \/ /\ container[target] # "absent"
           /\ container' = [container EXCEPT ![target] = "stopped"]
    BY <1>22 DEF StopContainer
  <2>4. /\ container' \in [Range(Plan) -> {"absent", "created", "running", "stopped"}]
        /\ \A n \in Range(Plan) : container[n] = "absent" => container'[n] = "absent"
    BY <2>1, <2>3
  <2>5. PlaceInv'
    BY <2>1, <2>2
  <2>6. DestroyLeavesNothing'
    BY <2>1, <2>4
  <2>7. DestroyInv'
    <3>1. at' = "idle" /\ op' = "none" /\ UNCHANGED <<containerId, isBuilt>>
      BY <2>1, <2>2
    <3>2. (\A n \in Range(Plan) : containerId[n] # "none")'
      BY <2>1, <3>1
    <3>3. containerId' = [n \in Range(Plan) |-> containerId'[n]]
      BY <3>1
    <3> QED
      BY <2>4, <2>6, <3>1, <3>2, <3>3
  <2> QED
    BY <2>5, <2>7
<1>23. CASE RestartContainer
  <2> USE PlanFacts, DestroyedFacts DEF DestroyInv, DestroyLeavesNothing
  <2>1. /\ at \in {"restart", "restartOnly"} /\ op = "Restart" /\ isBuilt
        /\ UNCHANGED network /\ target \in Range(Plan)
    BY <1>23 DEF RestartContainer
  <2>2. CASE container[target] = "absent"
    BY <1>23, <2>1, <2>2 DEF RestartContainer
  <2>3. CASE container[target] # "absent"
    <3>1. /\ container' = [container EXCEPT ![target] = "running"]
          /\ (op' = op /\ at' = "settings" /\ UNCHANGED <<k, target>>) \/ End
      BY <1>23, <2>1, <2>3 DEF RestartContainer
    <3>2. PlaceInv'
      BY <2>1, <3>1
    <3>3. /\ container' \in [Range(Plan) -> {"absent", "created", "running", "stopped"}]
          /\ \A n \in Range(Plan) : container[n] = "absent" => container'[n] = "absent"
      BY <2>1, <2>3, <3>1
    <3>4. DestroyLeavesNothing'
      BY <2>1, <3>3
    <3>5. DestroyInv'
      <4>1. at' \in {"settings", "idle"} /\ op' # "Build" /\ UNCHANGED <<containerId, isBuilt>>
        BY <2>1, <3>1
      <4>2. (\A n \in Range(Plan) : containerId[n] # "none")'
        BY <2>1, <4>1
      <4>3. containerId' = [n \in Range(Plan) |-> containerId'[n]]
        BY <4>1
      <4> QED
        BY <3>3, <3>4, <4>1, <4>2, <4>3
    <3> QED
      BY <3>2, <3>5
  <2> QED
    BY <2>2, <2>3
<1>24. CASE Settings
  <2>1. PlaceInv' /\ Quiet
    BY <1>24 DEF Settings, Quiet
  <2> QED
    BY <2>1, QuietSafe
<1>25. CASE Pick
  <2>1. PlaceInv' /\ Quiet
    BY <1>25 DEF Pick, Quiet
  <2> QED
    BY <2>1, QuietSafe
<1>26. CASE Ready
  <2>1. PlaceInv' /\ Quiet
    BY <1>26 DEF Ready, Quiet
  <2> QED
    BY <2>1, QuietSafe
<1>27. CASE DestroyStop
  <2> USE PlanFacts, DestroyedFacts DEF DestroyInv, DestroyLeavesNothing
  <2> DEFINE n == Destroyed[i]
  <2>1. /\ at = "destroy" /\ op = "Destroy" /\ i \in 1..Len(Destroyed) /\ isBuilt
        /\ UNCHANGED network /\ n \in Range(Plan) /\ containerId[n] # "none"
    BY <1>27 DEF DestroyStop
  <2>2. CASE container[n] = "absent"
    <3>1. Throw
      BY <1>27, <2>1, <2>2 DEF DestroyStop
    <3> QED
      BY <2>1, <3>1
  <2>3. CASE container[n] # "absent"
    <3>1. /\ container' = [container EXCEPT ![n] = "stopped"]
          /\ at' = "destroyRemove" /\ UNCHANGED <<op, i, k, target>>
      BY <1>27, <2>1, <2>3 DEF DestroyStop
    <3>2. container' \in [Range(Plan) -> {"absent", "created", "running", "stopped"}]
      BY <2>1, <3>1
    <3>3. \A j \in 1..Len(Destroyed) : container[Destroyed[j]] = "absent" =>
            container'[Destroyed[j]] = "absent"
      BY <2>1, <2>3, <3>1
    <3>4. DestroyLeavesNothing'
      BY <2>1, <2>3, <3>1
    <3> QED
      BY <2>1, <3>1, <3>2, <3>3, <3>4
  <2> QED
    BY <2>2, <2>3
<1>28. CASE DestroyRemove
  <2> USE PlanFacts, DestroyedFacts DEF DestroyInv, DestroyLeavesNothing
  <2>1. /\ at = "destroyRemove" /\ op = "Destroy" /\ i \in 1..Len(Destroyed) /\ isBuilt
        /\ UNCHANGED network /\ Destroyed[i] \in Range(Plan)
        /\ container' = [container EXCEPT ![Destroyed[i]] = "absent"]
        /\ at' = "destroy" /\ i' = i + 1 /\ UNCHANGED <<op, k, target>>
    BY <1>28 DEF DestroyRemove
  <2>2. container' \in [Range(Plan) -> {"absent", "created", "running", "stopped"}]
    BY <2>1
  <2>3. \A n \in Range(Plan) : container[n] = "absent" => container'[n] = "absent"
    BY <2>1
  <2>4. container'[Destroyed[i]] = "absent"
    BY <2>1
  <2>5. \A j \in 1..(i' - 1) : j <= Len(Destroyed) => container'[Destroyed[j]] = "absent"
    BY <2>1, <2>3, <2>4
  <2>6. DestroyLeavesNothing'
    BY <2>1, <2>3
  <2> QED
    BY <2>1, <2>2, <2>5, <2>6
<1>29. CASE DestroyEnds
  BY <1>29, PlanFacts, DestroyedFacts
     DEF DestroyEnds, DestroyInv, DestroyLeavesNothing
<1>30. CASE CopyListed
  <2>1. PlaceInv' /\ Quiet
    BY <1>30 DEF CopyListed, Quiet
  <2> QED
    BY <2>1, QuietSafe
<1>31. CASE PolicyMissing
  <2>1. PlaceInv' /\ Quiet
    <3>1. at = "policy" /\ op = "Restart"
      BY <1>31 DEF PolicyMissing
    <3>2. CASE CanMine
      <4>1. UNCHANGED <<op, at, target, i, k, container, network>>
        BY <1>31, <3>2 DEF PolicyMissing
      <4> QED
        BY <3>1, <4>1 DEF Quiet
    <3>3. CASE ~CanMine
      <4>1. Throw
        BY <1>31, <3>3 DEF PolicyMissing
      <4> QED
        BY <3>1, <4>1 DEF Quiet
    <3> QED
      BY <3>2, <3>3
  <2> QED
    BY <2>1, QuietSafe
<1> QED
  BY <1>1, <1>2, <1>3, <1>4, <1>5, <1>6, <1>7, <1>8, <1>9, <1>10, <1>11, <1>12, <1>13,
     <1>14, <1>15, <1>16, <1>17, <1>18, <1>19, <1>20, <1>21, <1>22, <1>23, <1>24,
     <1>25, <1>26, <1>27, <1>28, <1>29, <1>30, <1>31 DEF Operation

LEMMA EnvironmentSafe == SafeInv /\ Environment => SafeInv'
<1> SUFFICES ASSUME SafeInv, Environment PROVE SafeInv'
  OBVIOUS
<1> USE PlanFacts, DestroyedFacts
    DEF SafeInv, PlaceInv, DestroyInv, DestroyLeavesNothing, Operations,
        BuildLabels, RestartLabels, SharedLabels, Goto, End,
        world, poolV, network, place, history
<1>1. CASE Join
  BY <1>1 DEF Join
<1>2. CASE List \/ Drop
  <2>1. Monitor
    BY <1>2 DEF List, Drop
  <2>2. CASE UNCHANGED <<place, at>>
    BY <2>1, <2>2 DEF Monitor
  <2>3. CASE Enumerates /\ End
    <3>1. PlaceInv' /\ Quiet
      BY <2>1, <2>3 DEF Monitor, Quiet
    <3> QED
      BY <3>1, QuietSafe
  <2> QED
    BY <2>1, <2>2, <2>3 DEF Monitor
<1>4. CASE Expire
  BY <1>4 DEF Expire
<1>5. CASE CallFails
  <2>1. PlaceInv' /\ Quiet
    BY <1>5 DEF CallFails, Fault, Quiet
  <2> QED
    BY <2>1, QuietSafe
<1>6. CASE MonitorHangs
  BY <1>6 DEF MonitorHangs, Fault
<1>11. ASSUME NEW m \in Nodes, NEW n \in Nodes, Meet(m, n) PROVE SafeInv'
  <2>1. UNCHANGED <<container, network, op, at, target, i, k>>
    BY <1>11 DEF Meet
  <2> QED
    BY <2>1
<1>7. CASE CleanUp
  <2>1. /\ container' = [n \in Range(Plan) |-> IF n \in Range(Destroyed) THEN "absent"
                                              ELSE container[n]]
        /\ UNCHANGED <<containerId, isBuilt, isDestroyed, op, at, target, i, k>>
    BY <1>7 DEF CleanUp
  <2>2. container' \in [Range(Plan) -> {"absent", "created", "running", "stopped"}]
    BY <2>1
  <2>3. \A n \in Range(Destroyed) : container'[n] = "absent"
    BY <2>1
  <2>4. PlaceInv'
    BY <2>1
  <2>5. DestroyInv'
    <3>1. DestroyLeavesNothing'
      BY <2>3
    <3>2. ASSUME at' \in {"destroy", "destroyRemove"}, NEW j \in 1..(i' - 1),
                 j <= Len(Destroyed)
          PROVE  container'[Destroyed[j]] = "absent"
      <4>1. i \in Nat
        BY <2>1, <3>2
      <4> QED
        BY <2>1, <2>3, <3>2, <4>1
    <3> QED
      BY <2>1, <2>2, <3>1, <3>2
  <2> QED
    BY <2>4, <2>5
<1>8. ASSUME NEW n \in Lnds, LndStarts(n) PROVE SafeInv'
  <2>1. UNCHANGED <<container, network, op, at, target, i, k>>
    BY <1>8 DEF LndStarts
  <2> QED
    BY <2>1
<1>9. ASSUME NEW n \in Nodes, CatchesUp(n) \/ Graph(n) PROVE SafeInv'
  <2>1. UNCHANGED <<container, network, op, at, target, i, k>>
    BY <1>9 DEF CatchesUp, Graph
  <2> QED
    BY <2>1
<1>10. ASSUME NEW n \in Range(Destroyed), ContainerDies(n) PROVE SafeInv'
  <2>1. /\ container' = [container EXCEPT ![n] = "stopped"] /\ container[n] = "running"
        /\ n \in Range(Plan) /\ UNCHANGED <<network, op, at, target, i, k>>
    BY <1>10 DEF ContainerDies
  <2>2. /\ container' \in [Range(Plan) -> {"absent", "created", "running", "stopped"}]
        /\ \A m \in Range(Plan) : container[m] = "absent" => container'[m] = "absent"
    BY <2>1
  <2>3. PlaceInv'
    BY <2>1
  <2>4. DestroyLeavesNothing'
    BY <2>1, <2>2
  <2>5. ASSUME at' \in {"destroy", "destroyRemove"}, NEW j \in 1..(i' - 1),
               j <= Len(Destroyed)
        PROVE  container'[Destroyed[j]] = "absent"
    <3>1. i \in Nat
      BY <2>1, <2>5
    <3> QED
      BY <2>1, <2>2, <2>5, <3>1
  <2>6. DestroyInv'
    BY <2>1, <2>2, <2>4, <2>5
  <2> QED
    BY <2>3, <2>6
<1> QED
  BY <1>1, <1>2, <1>4, <1>5, <1>6, <1>7, <1>8, <1>9, <1>10, <1>11 DEF Environment

LEMMA NextSafe == SafeInv /\ [Next]_vars => SafeInv'
<1>1. ASSUME SafeInv, UNCHANGED vars PROVE SafeInv'
  BY <1>1 DEF vars, world, poolV, network, place, history, SafeInv, PlaceInv,
              DestroyInv, DestroyLeavesNothing
<1> QED
  BY <1>1, BeginsSafe, OperationSafe, EnvironmentSafe DEF Next

\* Destroy never reports success while a container of the bitcoind or LND nodes
\* is left, whatever failed or was removed by hand before.
THEOREM DestroyLeaves == Spec => []DestroyLeavesNothing
<1>1. SafeInv => DestroyLeavesNothing
  BY DEF SafeInv, DestroyInv
<1> QED
  BY InitSafe, NextSafe, <1>1, PTL DEF Spec

-----------------------------------------------------------------------------
(* What keeps a node to one connection.                                    *)

Joined == pending \cup members

Chosen == op = "Restart" /\ at \notin {"restart", "restartOnly", "settings", "pick"}

\* A node is shut down, and in the middle of being restarted, only in a network
\* that is built; a pool without a task is one that is not there yet, or dead.
DownInv ==
  /\ ~isBuilt => down = {}
  /\ op = "Restart" => target \notin down
  /\ ~pool => ~monitored

\* Without faults a container is stopped by ShutdownByAlias or Destroy only.
StoppedInv ==
  faults = 0 => \A n \in Nodes :
    /\ container[n] = "stopped" => isBuilt
    /\ container[n] = "created" => at = "start" /\ n = Cur

\* Careful users add a node to the pool only when it has no connection, because
\* it was shut down, and what is in hand after "pick" stays there.
UniqueInv ==
  /\ pending \cap members = {}
  /\ listed \subseteq members
  /\ \A c, d \in Joined : c.node = d.node => c = d
  /\ \A n \in down : Of(n, Joined) = {}
  /\ at \in {"restart", "settings", "stop"} => Of(target, Joined) = {}
  /\ Chosen => local \in Of(target, members)

\* Without faults a container that is stopped, and could come back with
\* another address, is that of a node the pool no longer has.
AddressInv ==
  /\ \A c \in Joined : c.node \in Nodes /\ c.address = address[c.node]
  /\ \A n \in Nodes : container[n] = "stopped" =>
       Of(n, Joined) = {} \/ (at = "destroyRemove" /\ n = Destroyed[i])

ConnectionInv ==
  /\ address = [n \in Nodes |-> address[n]]
  /\ faults \in Nat
  /\ DownInv /\ StoppedInv
  /\ Careful /\ monitored => UniqueInv /\ (faults = 0 => AddressInv)

-----------------------------------------------------------------------------
(* Connections.                                                            *)

\* A step that moves connections within the pool, or leaves it alone, and is
\* not one of a container's life.
Calm ==
  /\ UNCHANGED <<pool, address, container, down>>
  /\ Joined' = Joined
  /\ monitored' => monitored
  /\ pending \cap members = {} => pending' \cap members' = {}
  /\ faults' \in Nat
  /\ faults' = 0 => faults = 0
  /\ listed \subseteq members => listed' \subseteq members'
  /\ members \subseteq members'
  /\ isBuilt => isBuilt'
  /\ op' = "Restart" => op = "Restart" /\ target' = target
  /\ Chosen' => \/ Chosen /\ local' = local
                \/ local' \in Of(target, listed)
  /\ \/ UNCHANGED <<at, i, target>>
     \/ /\ at' \notin {"restart", "settings", "stop"}
        /\ faults' = 0 => at \notin {"start", "destroyRemove"}

LEMMA CalmSafe == ConnectionInv /\ Calm => ConnectionInv'
<1> SUFFICES ASSUME ConnectionInv, Calm PROVE ConnectionInv'
  OBVIOUS
<1>1. address' = [n \in Nodes |-> address'[n]] /\ faults' \in Nat
  BY DEF ConnectionInv, Calm
<1>2. DownInv'
  BY DEF ConnectionInv, DownInv, Calm
<1>3. StoppedInv'
  <2> SUFFICES ASSUME faults' = 0, NEW n \in Nodes
               PROVE  /\ container'[n] = "stopped" => isBuilt'
                      /\ container'[n] = "created" => at' = "start" /\ n = Cur'
    BY DEF StoppedInv
  <2>1. /\ container[n] = "stopped" => isBuilt
        /\ container[n] = "created" => at = "start" /\ n = Cur
        /\ container' = container /\ (isBuilt => isBuilt')
    BY DEF ConnectionInv, StoppedInv, Calm
  <2>2. CASE UNCHANGED <<at, i, target>>
    BY <2>1, <2>2 DEF Cur
  <2>3. CASE at \notin {"start", "destroyRemove"}
    BY <2>1, <2>3
  <2> QED
    BY <2>2, <2>3 DEF Calm
<1>4. ASSUME Careful, monitored' PROVE UniqueInv'
  <2>1. UniqueInv
    BY <1>4 DEF ConnectionInv, Calm
  <2>2. /\ (pending \cap members = {})'
        /\ (listed \subseteq members)'
        /\ (\A c, d \in Joined : c.node = d.node => c = d)'
        /\ (\A n \in down : Of(n, Joined) = {})'
    BY <2>1 DEF UniqueInv, Calm, Of
  <2>3. (at \in {"restart", "settings", "stop"} => Of(target, Joined) = {})'
    BY <2>1 DEF UniqueInv, Calm, Of
  <2>4. (Chosen => local \in Of(target, members))'
    <3> SUFFICES ASSUME Chosen' PROVE (local \in Of(target, members))'
      OBVIOUS
    <3>1. target' = target /\ members \subseteq members' /\ listed \subseteq members
      BY <2>1 DEF Chosen, Calm, UniqueInv
    <3>2. local' \in Of(target, members)
      BY <2>1, <3>1 DEF Calm, UniqueInv, Of
    <3> QED
      BY <3>1, <3>2 DEF Of
  <2> QED
    BY <2>2, <2>3, <2>4 DEF UniqueInv
<1>5. ASSUME Careful, monitored', faults' = 0 PROVE AddressInv'
  <2>1. AddressInv /\ faults = 0
    BY <1>5 DEF ConnectionInv, Calm
  <2>2. Joined' = Joined /\ container' = container /\ address' = address
    BY DEF Calm
  <2>3. CASE UNCHANGED <<at, i, target>>
    BY <2>1, <2>2, <2>3 DEF AddressInv, Of
  <2>4. CASE at \notin {"start", "destroyRemove"}
    BY <2>1, <2>2, <2>4 DEF AddressInv, Of
  <2> QED
    BY <1>5, <2>3, <2>4 DEF Calm
<1> QED
  BY <1>1, <1>2, <1>3, <1>4, <1>5 DEF ConnectionInv

LEMMA InitConnection == Init => ConnectionInv
<1> SUFFICES ASSUME Init PROVE ConnectionInv
  OBVIOUS
<1>1. DownInv
  BY DEF Init, DownInv, Operations
<1>2. StoppedInv
  <2>1. \A n \in Range(Plan) : container[n] \in {"absent", "running"}
    BY DEF Init
  <2> QED
    BY <2>1, PlanFacts DEF StoppedInv
<1>3. address = [n \in Nodes |-> address[n]]
  BY DEF Init
<1> QED
  BY <1>1, <1>2, <1>3 DEF Init, ConnectionInv

\* A node of which careful users have a connection in the pool is removed from
\* it before it is stopped.
LEMMA BeginsConnection == SafeInv /\ ConnectionInv /\ Begins => ConnectionInv'
<1> SUFFICES ASSUME SafeInv, ConnectionInv, Begins PROVE ConnectionInv'
  OBVIOUS
<1> USE DEF Begin, world, poolV, network, history
<1>1. /\ at = "idle" \/ op # "none"
      /\ address = [n \in Nodes |-> address[n]] /\ faults \in Nat
      /\ DownInv /\ StoppedInv
  BY DEF SafeInv, PlaceInv, ConnectionInv
<1>2. CASE BeginBuild \/ BeginDestroy
  <2>1. monitored' = monitored
    BY <1>2 DEF BeginBuild, BeginDestroy
  <2>2. /\ UNCHANGED <<pool, pending, members, listed, address, container, down, faults,
                      monitored>>
        /\ op' # "Restart" /\ (isBuilt => isBuilt') /\ at = "idle"
        /\ at' \notin {"restart", "settings", "stop"}
    BY <1>1, <1>2 DEF BeginBuild, BeginDestroy
  <2> QED
    BY <1>1, <2>2 DEF ConnectionInv, DownInv, StoppedInv, UniqueInv, AddressInv,
                      Joined, Chosen, Of
<1>3. ASSUME isBuilt, NEW n \in Nodes, NEW isLND \in BOOLEAN, BeginShutdown(n, isLND)
      PROVE  ConnectionInv'
  <2>1. /\ UNCHANGED <<pool, pending, members, listed, address, container, down, faults,
                      isBuilt, monitored>>
        /\ op' = "Shutdown" /\ at = "idle" /\ at' \in {"remove", "stop"}
    BY <1>1, <1>3 DEF BeginShutdown
  <2>2. DownInv' /\ StoppedInv'
    BY <1>1, <1>3, <2>1 DEF DownInv, StoppedInv
  <2>3. ASSUME Careful, monitored PROVE UniqueInv' /\ (faults = 0 => AddressInv')
    <3>1. pool /\ isLND
      BY <1>1, <1>3, <2>3 DEF DownInv, BeginShutdown
    <3>2. at' = "remove"
      BY <1>3, <3>1 DEF BeginShutdown
    <3>3. UniqueInv'
      BY <2>1, <2>3, <3>2 DEF ConnectionInv, UniqueInv, Joined, Chosen, Of
    <3>4. faults = 0 => AddressInv'
      BY <2>1, <2>3, <3>2 DEF ConnectionInv, AddressInv, Joined, Of
    <3> QED
      BY <3>3, <3>4
  <2> QED
    BY <1>1, <2>1, <2>2, <2>3 DEF ConnectionInv
<1>4. ASSUME isBuilt, NEW n \in Nodes, NEW isLND \in BOOLEAN, BeginRestart(n, isLND)
      PROVE  ConnectionInv'
  <2>1. /\ UNCHANGED <<pool, pending, members, listed, address, container, faults,
                      isBuilt, monitored>>
        /\ op' = "Restart" /\ at = "idle" /\ target' = n /\ down' = down \ {n}
        /\ at' \in {"restart", "restartOnly"}
    BY <1>1, <1>4 DEF BeginRestart
  <2>2. DownInv' /\ StoppedInv'
    BY <1>1, <1>4, <2>1 DEF DownInv, StoppedInv
  <2>3. ASSUME Careful, monitored PROVE UniqueInv' /\ (faults = 0 => AddressInv')
    <3>1. at' = "restart" => n \in down
      BY <1>4, <2>3 DEF BeginRestart
    <3>2. Joined' = Joined /\ ~Chosen'
      BY <2>1 DEF Joined, Chosen
    <3>3. UniqueInv
      BY <2>3 DEF ConnectionInv
    <3>4. UniqueInv'
      BY <2>1, <3>1, <3>2, <3>3 DEF UniqueInv, Of
    <3>5. faults = 0 => AddressInv'
      BY <2>1, <2>3, <3>2 DEF ConnectionInv, AddressInv, Of
    <3> QED
      BY <3>4, <3>5
  <2> QED
    BY <1>1, <2>1, <2>2, <2>3 DEF ConnectionInv
<1> QED
  BY <1>2, <1>3, <1>4 DEF Begins

\* Where an operation is, as the cases below need it.
PlaceFacts ==
  /\ op = "Restart" <=> at \in RestartLabels \/ (op = "Restart" /\ at \in SharedLabels)
  /\ at \in BuildLabels => op = "Build" /\ ~isBuilt
  /\ at \in RestartLabels => op = "Restart" /\ isBuilt /\ target \in Nodes
  /\ at \in {"remove", "stop"} => op = "Shutdown" /\ isBuilt /\ target \in Nodes
  /\ at \in {"destroy", "destroyRemove"} => op = "Destroy" /\ isBuilt
  /\ at \in SharedLabels => op \in {"Build", "Restart"}
  /\ at = "idle" => op = "none"

LEMMA Placed == SafeInv => PlaceFacts
  BY DEF SafeInv, PlaceInv, PlaceFacts, Operations, BuildLabels, RestartLabels,
         SharedLabels

LEMMA OperationConnection == SafeInv /\ ConnectionInv /\ Operation => ConnectionInv'
<1> SUFFICES ASSUME SafeInv, ConnectionInv, Operation PROVE ConnectionInv'
  OBVIOUS
<1> USE DEF Goto, Throw, End, world, poolV, network, place, history
<1>0. /\ address = [n \in Nodes |-> address[n]] /\ faults \in Nat
      /\ DownInv /\ StoppedInv
  BY DEF ConnectionInv
<1>p. PlaceFacts
  BY Placed
<1>1. CASE Files
  <2>1. Calm
    BY <1>0, <1>p, <1>1 DEF Files, Calm, Joined, PlaceFacts, Chosen,
       BuildLabels, RestartLabels, SharedLabels, Mine
  <2> QED
    BY <2>1, CalmSafe
<1>2. CASE WaitListed
  <2>1. Calm
    BY <1>0, <1>p, <1>2 DEF WaitListed, Listed, Calm, Joined, PlaceFacts, Chosen,
       BuildLabels, RestartLabels, SharedLabels, Mine
  <2> QED
    BY <2>1, CalmSafe
<1>3. CASE WaitRelisted
  <2>1. Calm
    BY <1>0, <1>p, <1>3 DEF WaitRelisted, Listed, Calm, Joined, PlaceFacts, Chosen,
       BuildLabels, RestartLabels, SharedLabels, Mine
  <2> QED
    BY <2>1, CalmSafe
<1>4. CASE CopyListed
  <2>1. Calm
    BY <1>0, <1>p, <1>4 DEF CopyListed, Calm, Joined, PlaceFacts, Chosen,
       BuildLabels, RestartLabels, SharedLabels, Mine
  <2> QED
    BY <2>1, CalmSafe
<1>5. CASE NextLocal
  <2>1. Calm
    BY <1>0, <1>p, <1>5 DEF NextLocal, Calm, Joined, PlaceFacts, Chosen,
       BuildLabels, RestartLabels, SharedLabels, Mine
  <2> QED
    BY <2>1, CalmSafe
<1>6. CASE NextRemote
  <2>1. Calm
    BY <1>0, <1>p, <1>6 DEF NextRemote, Calm, Joined, PlaceFacts, Chosen,
       BuildLabels, RestartLabels, SharedLabels, Mine
  <2> QED
    BY <2>1, CalmSafe
<1>7. CASE Connect
  <2>1. Calm
    BY <1>0, <1>p, <1>7 DEF Connect, Calm, Joined, PlaceFacts, Chosen,
       BuildLabels, RestartLabels, SharedLabels, Mine
  <2> QED
    BY <2>1, CalmSafe
<1>8. CASE ConnectAgain
  <2>1. Calm
    BY <1>0, <1>p, <1>8 DEF ConnectAgain, Calm, Joined, PlaceFacts, Chosen,
       BuildLabels, RestartLabels, SharedLabels, Mine
  <2> QED
    BY <2>1, CalmSafe
<1>9. CASE ConnectFails
  <2>1. Calm
    BY <1>0, <1>p, <1>9 DEF ConnectFails, Calm, Joined, PlaceFacts, Chosen,
       BuildLabels, RestartLabels, SharedLabels, Mine
  <2> QED
    BY <2>1, CalmSafe
<1>10. CASE Fund
  <2>1. Calm
    BY <1>0, <1>p, <1>10 DEF Fund, Calm, Joined, PlaceFacts, Chosen,
       BuildLabels, RestartLabels, SharedLabels, Mine
  <2> QED
    BY <2>1, CalmSafe
<1>11. CASE Channel
  <2>1. Calm
    BY <1>0, <1>p, <1>11 DEF Channel, Calm, Joined, PlaceFacts, Chosen,
       BuildLabels, RestartLabels, SharedLabels, Mine
  <2> QED
    BY <2>1, CalmSafe
<1>12. CASE FindRemote
  <2>1. Calm
    BY <1>0, <1>p, <1>12 DEF FindRemote, Calm, Joined, PlaceFacts, Chosen,
       BuildLabels, RestartLabels, SharedLabels, Mine
  <2> QED
    BY <2>1, CalmSafe
<1>13. CASE Sync
  <2>1. Calm
    BY <1>0, <1>p, <1>13 DEF Sync, WaitSynced, WaitEither, WaitGraph, FindAgain, Info, Calm,
       Joined, PlaceFacts, Chosen,
       BuildLabels, RestartLabels, SharedLabels, Mine
  <2> QED
    BY <2>1, CalmSafe
<1>14. CASE Reset
  <2>1. Calm
    BY <1>0, <1>p, <1>14 DEF Reset, NextChannel, Calm, Joined, PlaceFacts, Chosen,
       BuildLabels, RestartLabels, SharedLabels, Mine
  <2> QED
    BY <2>1, CalmSafe
<1>15. CASE Open
  <2>1. Calm
    BY <1>0, <1>p, <1>15 DEF Open, Calm, Joined, PlaceFacts, Chosen,
       BuildLabels, RestartLabels, SharedLabels, Mine
  <2> QED
    BY <2>1, CalmSafe
<1>16. CASE SetPolicy
  <2>1. Calm
    BY <1>0, <1>p, <1>16 DEF SetPolicy, NextChannel, Calm, Joined, PlaceFacts, Chosen,
       BuildLabels, RestartLabels, SharedLabels, Mine
  <2> QED
    BY <2>1, CalmSafe
<1>17. CASE PolicyFails
  <2>1. Calm
    BY <1>0, <1>p, <1>17 DEF PolicyFails, Calm, Joined, PlaceFacts, Chosen,
       BuildLabels, RestartLabels, SharedLabels, Mine
  <2> QED
    BY <2>1, CalmSafe
<1>18. CASE PolicyMissing
  <2>1. Calm
    BY <1>0, <1>p, <1>18 DEF PolicyMissing, Calm, Joined, PlaceFacts, Chosen,
       BuildLabels, RestartLabels, SharedLabels, Mine
  <2> QED
    BY <2>1, CalmSafe
<1>19. CASE Built
  <2>1. Calm
    BY <1>0, <1>p, <1>19 DEF Built, Calm, Joined, PlaceFacts, Chosen,
       BuildLabels, RestartLabels, SharedLabels, Mine
  <2> QED
    BY <2>1, CalmSafe
<1>20. CASE Pick
  <2>1. Calm
    BY <1>0, <1>p, <1>20 DEF Pick, Calm, Joined, PlaceFacts, Chosen,
       BuildLabels, RestartLabels, SharedLabels, Mine
  <2> QED
    BY <2>1, CalmSafe
<1>21. CASE Ready
  <2>1. Calm
    BY <1>0, <1>p, <1>21 DEF Ready, Calm, Joined, PlaceFacts, Chosen,
       BuildLabels, RestartLabels, SharedLabels, Mine
  <2> QED
    BY <2>1, CalmSafe
<1>22. CASE DestroyEnds
  <2>1. Calm
    BY <1>0, <1>p, <1>22 DEF DestroyEnds, Calm, Joined, PlaceFacts, Chosen,
       BuildLabels, RestartLabels, SharedLabels, Mine
  <2> QED
    BY <2>1, CalmSafe
<1>23. CASE Create
  <2>1. at = "create" /\ ~isBuilt /\ op = "Build" /\ i \in 1..Len(Plan)
    BY <1>23, <1>p DEF Create, PlaceFacts, BuildLabels, SafeInv, PlaceInv
  <2>2. CASE Throw
    <3>1. Calm
      BY <1>0, <2>1, <2>2 DEF Calm, Joined, Chosen
    <3> QED
      BY <3>1, CalmSafe
  <2>3. CASE ~Throw
    <3>1. /\ container' = [container EXCEPT ![Cur] = "created"]
          /\ at' = "start"
          /\ UNCHANGED <<op, i, k, target, isBuilt, address, poolV, faults, down>>
      BY <1>23, <2>3 DEF Create
    <3>2. Joined' = Joined /\ Cur' = Cur /\ Cur \in Range(Plan) /\ ~Chosen'
      BY <2>1, <3>1, PlanFacts DEF Joined, Cur, Chosen
    <3>3. \A n \in Nodes : container'[n] \in {"created", container[n]}
                          /\ (container'[n] = "created" => n = Cur \/ container[n] = "created")
      BY <3>1, <3>2, PlanFacts DEF SafeInv, DestroyInv
    <3>4. DownInv' /\ StoppedInv'
      BY <1>0, <2>1, <3>1, <3>2, <3>3 DEF DownInv, StoppedInv
    <3>5. Careful /\ monitored => UniqueInv'
      BY <2>1, <3>1, <3>2 DEF ConnectionInv, UniqueInv, Of
    <3>6. Careful /\ monitored /\ faults = 0 => AddressInv'
      BY <2>1, <3>1, <3>2, <3>3 DEF ConnectionInv, AddressInv, Of
    <3> QED
      BY <1>0, <3>1, <3>4, <3>5, <3>6 DEF ConnectionInv
  <2> QED
    BY <2>2, <2>3
<1>24. CASE Start
  <2>1. /\ at = "start" /\ at' = "files" /\ container' = [container EXCEPT ![Cur] = "running"]
        /\ op = "Build" /\ UNCHANGED <<op, target, i, isBuilt, address, poolV, faults, down>>
    BY <1>24, <1>p DEF Start, PlaceFacts, BuildLabels
  <2>2. Joined' = Joined /\ ~Chosen'
    BY <2>1 DEF Joined, Chosen
  <2>3. \A n \in Nodes : container'[n] = IF n = Cur THEN "running" ELSE container[n]
    BY <2>1, PlanFacts DEF SafeInv, DestroyInv
  <2>4. DownInv' /\ StoppedInv'
    BY <1>0, <2>1, <2>3 DEF DownInv, StoppedInv
  <2>5. Careful /\ monitored => UniqueInv'
    BY <2>1, <2>2 DEF ConnectionInv, UniqueInv, Of
  <2>6. Careful /\ monitored /\ faults = 0 => AddressInv'
    BY <2>1, <2>2, <2>3 DEF ConnectionInv, AddressInv, Of
  <2> QED
    BY <1>0, <2>1, <2>4, <2>5, <2>6 DEF ConnectionInv
<1>25. CASE MakePool
  <2>1. /\ at = "pool" /\ at' = "listed" /\ pool' = TRUE /\ op = "Build" /\ ~isBuilt
        /\ pending' = {Connection(n) : n \in Nodes} /\ members' = {} /\ listed' = {}
        /\ UNCHANGED <<op, container, isBuilt, address, faults, down>>
    BY <1>25, <1>p DEF MakePool, PlaceFacts, BuildLabels
  <2>2. Joined' = {Connection(n) : n \in Nodes} /\ down = {} /\ ~Chosen'
    BY <1>0, <2>1 DEF Joined, DownInv, Chosen
  <2>3. DownInv' /\ StoppedInv'
    BY <1>0, <2>1 DEF DownInv, StoppedInv
  <2>4. UniqueInv'
    BY <2>1, <2>2 DEF UniqueInv, Connection
  <2>5. faults = 0 => AddressInv'
    BY <1>0, <2>1, <2>2 DEF StoppedInv, AddressInv, Connection
  <2> QED
    BY <1>0, <2>1, <2>3, <2>4, <2>5 DEF ConnectionInv
<1>26. CASE Remove
  <2>1. PICK c \in Of(target, listed) :
          /\ members' = members \ {c}
          /\ monitored' => listed' = listed \ {c} /\ monitored
    BY <1>26 DEF Remove
  <2>2. /\ at = "remove" /\ at' = "stop" /\ op = "Shutdown"
        /\ UNCHANGED <<op, container, isBuilt, address, pool, pending, target, i, faults, down>>
    BY <1>26, <1>p DEF Remove, PlaceFacts
  <2>3. monitored' => monitored
    BY <2>1
  <2>4. DownInv' /\ StoppedInv'
    BY <1>0, <2>2, <2>3 DEF DownInv, StoppedInv
  <2>5. Joined' \subseteq Joined /\ ~Chosen'
    BY <2>1, <2>2 DEF Joined, Chosen
  <2>6. ASSUME Careful, monitored' PROVE UniqueInv' /\ (faults = 0 => AddressInv')
    <3>1. UniqueInv /\ listed' = listed \ {c} /\ (faults = 0 => AddressInv)
      BY <2>1, <2>6 DEF ConnectionInv
    <3>2. c \in members /\ c.node = target
      BY <3>1 DEF UniqueInv, Of
    <3>3. Of(target, Joined') = {}
      BY <2>1, <2>2, <3>1, <3>2 DEF UniqueInv, Joined, Of
    <3>4. /\ (pending \cap members = {})'
          /\ (listed \subseteq members)'
          /\ (\A d, e \in Joined : d.node = e.node => d = e)'
          /\ (\A n \in down : Of(n, Joined) = {})'
      BY <2>1, <2>2, <2>5, <3>1 DEF UniqueInv, Of
    <3>5. UniqueInv'
      BY <2>2, <2>5, <3>3, <3>4 DEF UniqueInv, Of
    <3>6. faults = 0 => AddressInv'
      BY <2>2, <2>5, <3>1 DEF AddressInv, Of
    <3> QED
      BY <3>5, <3>6
  <2> QED
    BY <1>0, <2>2, <2>4, <2>6 DEF ConnectionInv
<1>27. CASE StopContainer
  <2>1. /\ at = "stop" /\ isBuilt /\ at' = "idle" /\ op' = "none" /\ target \in Nodes
        /\ UNCHANGED <<isBuilt, address, poolV, faults>>
    BY <1>27, <1>p DEF StopContainer, PlaceFacts
  <2>2. Joined' = Joined /\ ~Chosen'
    BY <2>1 DEF Joined, Chosen
  <2>3. down' = down \/ down' = down \cup {target}
    BY <1>27 DEF StopContainer
  <2>4. container' = container \/ container' = [container EXCEPT ![target] = "stopped"]
    BY <1>27 DEF StopContainer
  <2>5. \A n \in Nodes : container'[n] = container[n] \/ (n = target /\ container'[n] = "stopped")
    BY <2>4, PlanFacts DEF SafeInv, DestroyInv
  <2>6. DownInv' /\ StoppedInv'
    BY <1>0, <2>1, <2>5 DEF DownInv, StoppedInv
  <2>7. Careful /\ monitored => UniqueInv'
    BY <2>1, <2>2, <2>3 DEF ConnectionInv, UniqueInv, Of
  <2>8. Careful /\ monitored /\ faults = 0 => AddressInv'
    BY <2>1, <2>2, <2>5 DEF ConnectionInv, UniqueInv, AddressInv, Of
  <2> QED
    BY <1>0, <2>1, <2>6, <2>7, <2>8 DEF ConnectionInv
<1>28. CASE RestartContainer
  <2>1. /\ at \in {"restart", "restartOnly"} /\ op = "Restart" /\ target \in Nodes /\ isBuilt
        /\ UNCHANGED <<isBuilt, poolV, faults, down>>
    BY <1>28, <1>p DEF RestartContainer, PlaceFacts, RestartLabels
  <2>2. Joined' = Joined
    BY <2>1 DEF Joined
  <2>3. CASE container[target] = "absent"
    <3>1. Calm
      BY <1>0, <1>28, <2>1, <2>2, <2>3 DEF RestartContainer, Calm, Chosen
    <3> QED
      BY <3>1, CalmSafe
  <2>4. CASE container[target] # "absent"
    <3>1. /\ container' = [container EXCEPT ![target] = "running"]
          /\ \/ address' = address
             \/ /\ container[target] # "running"
                /\ address' = [address EXCEPT ![target] = @ + 1]
          /\ \/ at = "restart" /\ at' = "settings" /\ target' = target /\ op' = op
             \/ at' = "idle" /\ op' = "none"
      BY <1>28, <2>4 DEF RestartContainer
    <3>2. \A n \in Nodes : container'[n] = IF n = target THEN "running" ELSE container[n]
      BY <2>1, <3>1, PlanFacts DEF SafeInv, DestroyInv
    <3>3. /\ address' = [n \in Nodes |-> address'[n]]
          /\ \A n \in Nodes : address'[n] = address[n]
                              \/ (n = target /\ container[n] # "running")
      BY <1>0, <2>1, <3>1
    <3>4. DownInv' /\ ~Chosen'
      BY <1>0, <2>1, <3>1 DEF DownInv, Chosen
    <3>5. StoppedInv'
      BY <1>0, <2>1, <3>2 DEF StoppedInv
    <3>6. Careful /\ monitored => UniqueInv'
      BY <2>1, <2>2, <3>1, <3>4 DEF ConnectionInv, UniqueInv, Of
    <3>7. ASSUME Careful, monitored, faults = 0 PROVE AddressInv'
      <4>1. container[target] = "running" \/ Of(target, Joined) = {}
        <5>1. container[target] # "created"
          BY <1>0, <2>1, <3>7 DEF StoppedInv
        <5>2. container[target] \in {"absent", "created", "running", "stopped"}
          BY <2>1, PlanFacts DEF SafeInv, DestroyInv
        <5> QED
          BY <2>1, <2>4, <3>7, <5>1, <5>2 DEF ConnectionInv, AddressInv
      <4>2. \A c \in Joined : c.node \in Nodes /\ c.address = address'[c.node]
        BY <3>3, <3>7, <4>1 DEF ConnectionInv, AddressInv, Of
      <4>3. \A n \in Nodes : container'[n] = "stopped" => Of(n, Joined) = {}
        BY <2>1, <3>2, <3>7 DEF ConnectionInv, AddressInv
      <4> QED
        BY <2>2, <4>2, <4>3 DEF AddressInv, Of
    <3> QED
      BY <1>0, <2>1, <3>3, <3>4, <3>5, <3>6, <3>7 DEF ConnectionInv
  <2> QED
    BY <2>3, <2>4
<1>29. CASE Settings
  <2>1. at = "settings" /\ target \in Nodes /\ op = "Restart"
    BY <1>29, <1>p DEF Settings, PlaceFacts, RestartLabels
  <2>2. CASE ~pool
    <3>1. Calm
      BY <1>0, <1>29, <2>1, <2>2 DEF Settings, Calm, Joined, Chosen
    <3> QED
      BY <3>1, CalmSafe
  <2>3. CASE pool
    <3>1. /\ container[target] = "running" /\ pending' = pending \cup {Connection(target)}
          /\ at' = "pick" /\ (monitored' => monitored)
          /\ UNCHANGED <<op, container, isBuilt, address, pool, members, listed, target,
                        faults, down>>
      BY <1>29, <2>3 DEF Settings
    <3>2. Joined' = Joined \cup {Connection(target)} /\ ~Chosen'
      BY <3>1 DEF Joined, Chosen
    <3>3. Connection(target).node = target /\ Connection(target).address = address[target]
      BY DEF Connection
    <3>4. DownInv' /\ StoppedInv'
      BY <1>0, <2>1, <2>3, <3>1 DEF DownInv, StoppedInv
    <3>5. Careful /\ monitored' => UniqueInv'
      <4> SUFFICES ASSUME Careful, monitored' PROVE UniqueInv'
        OBVIOUS
      <4>1. UniqueInv /\ target \notin down
        BY <1>0, <2>1, <3>1 DEF ConnectionInv, DownInv
      <4>2. \A d \in Joined : d.node # target
        BY <2>1, <4>1 DEF UniqueInv, Of
      <4>3. (pending \cap members = {})' /\ (listed \subseteq members)'
        BY <3>1, <3>3, <4>1, <4>2 DEF UniqueInv, Joined
      <4>4. (\A c, d \in Joined : c.node = d.node => c = d)'
        BY <3>2, <3>3, <4>1, <4>2 DEF UniqueInv
      <4>5. (\A n \in down : Of(n, Joined) = {})'
        BY <3>1, <3>2, <3>3, <4>1 DEF UniqueInv, Of
      <4> QED
        BY <3>1, <3>2, <4>3, <4>4, <4>5 DEF UniqueInv
    <3>6. Careful /\ monitored' /\ faults = 0 => AddressInv'
      BY <2>1, <3>1, <3>2, <3>3 DEF ConnectionInv, AddressInv, Of
    <3> QED
      BY <1>0, <3>1, <3>4, <3>5, <3>6 DEF ConnectionInv
  <2> QED
    BY <2>2, <2>3
<1>30. CASE DestroyStop
  <2>1. at = "destroy" /\ isBuilt /\ op = "Destroy"
    BY <1>30, <1>p DEF DestroyStop, PlaceFacts
  <2>2. CASE container' = container
    <3>1. Calm
      BY <1>0, <1>30, <2>1, <2>2 DEF DestroyStop, Calm, Joined, Chosen
    <3> QED
      BY <3>1, CalmSafe
  <2>3. CASE container' # container
    <3>1. /\ container' = [container EXCEPT ![Destroyed[i]] = "stopped"]
          /\ at' = "destroyRemove"
          /\ UNCHANGED <<op, isBuilt, address, poolV, i, target, faults, down>>
      BY <1>30, <2>3 DEF DestroyStop
    <3>2. Joined' = Joined /\ ~Chosen'
      BY <2>1, <3>1 DEF Joined, Chosen
    <3>3. \A n \in Nodes : container'[n] = container[n]
                          \/ (n = Destroyed[i] /\ container'[n] = "stopped")
      BY <3>1, PlanFacts DEF SafeInv, DestroyInv
    <3>4. DownInv' /\ StoppedInv'
      BY <1>0, <2>1, <3>1, <3>3 DEF DownInv, StoppedInv
    <3>5. Careful /\ monitored => UniqueInv'
      BY <3>1, <3>2 DEF ConnectionInv, UniqueInv, Of
    <3>6. Careful /\ monitored /\ faults = 0 => AddressInv'
      BY <2>1, <3>1, <3>2, <3>3 DEF ConnectionInv, AddressInv, Of
    <3> QED
      BY <1>0, <3>1, <3>4, <3>5, <3>6 DEF ConnectionInv
  <2> QED
    BY <2>2, <2>3
<1>31. CASE DestroyRemove
  <2>1. /\ at = "destroyRemove" /\ at' = "destroy" /\ op = "Destroy"
        /\ container' = [container EXCEPT ![Destroyed[i]] = "absent"]
        /\ UNCHANGED <<op, target, isBuilt, address, poolV, faults, down>>
    BY <1>31, <1>p DEF DestroyRemove, PlaceFacts
  <2>2. Joined' = Joined /\ ~Chosen'
    BY <2>1 DEF Joined, Chosen
  <2>3. \A n \in Nodes : container'[n] = IF n = Destroyed[i] THEN "absent" ELSE container[n]
    BY <2>1, PlanFacts DEF SafeInv, DestroyInv
  <2>4. DownInv' /\ StoppedInv'
    BY <1>0, <2>1, <2>3 DEF DownInv, StoppedInv
  <2>5. Careful /\ monitored => UniqueInv'
    BY <2>1, <2>2 DEF ConnectionInv, UniqueInv, Of
  <2>6. Careful /\ monitored /\ faults = 0 => AddressInv'
    BY <2>1, <2>2, <2>3 DEF ConnectionInv, AddressInv, Of
  <2> QED
    BY <1>0, <2>1, <2>4, <2>5, <2>6 DEF ConnectionInv
<1> QED
  BY <1>1, <1>2, <1>3, <1>4, <1>5, <1>6, <1>7, <1>8, <1>9, <1>10, <1>11, <1>12, <1>13,
     <1>14, <1>15, <1>16, <1>17, <1>18, <1>19, <1>20, <1>21, <1>22, <1>23, <1>24,
     <1>25, <1>26, <1>27, <1>28, <1>29, <1>30, <1>31 DEF Operation

LEMMA EnvironmentConnection == SafeInv /\ ConnectionInv /\ Environment => ConnectionInv'
<1> SUFFICES ASSUME SafeInv, ConnectionInv, Environment PROVE ConnectionInv'
  OBVIOUS
<1> USE DEF Goto, End, Fault, world, poolV, network, place, history
<1>0. /\ address = [n \in Nodes |-> address[n]] /\ faults \in Nat
      /\ DownInv /\ StoppedInv
  BY DEF ConnectionInv
<1>p. PlaceFacts
  BY Placed
<1>1. CASE Join
  <2>1. Calm
    BY <1>0, <1>1 DEF Join, Calm, Joined, Chosen
  <2> QED
    BY <2>1, CalmSafe
<1>2. CASE List \/ Drop
  <2>1. /\ Monitor /\ (listed \subseteq members => listed' \subseteq members)
    BY <1>2 DEF List, Drop
  <2>2. CASE UNCHANGED <<place, at>>
    <3>1. Calm
      BY <1>0, <2>1, <2>2 DEF Monitor, Calm, Joined, Chosen
    <3> QED
      BY <3>1, CalmSafe
  <2>3. CASE Enumerates /\ End
    <3>1. Calm
      BY <1>0, <2>1, <2>3 DEF Monitor, Calm, Joined, Chosen, Enumerates
    <3> QED
      BY <3>1, CalmSafe
  <2> QED
    BY <2>1, <2>2, <2>3 DEF Monitor
<1>3. CASE Expire
  <2>1. Calm
    BY <1>0, <1>3 DEF Expire, Calm, Joined, Chosen
  <2> QED
    BY <2>1, CalmSafe
<1>4. CASE CallFails
  <2>1. Calm
    BY <1>0, <1>4 DEF CallFails, Calm, Joined, Chosen
  <2> QED
    BY <2>1, CalmSafe
<1>5. CASE MonitorHangs
  <2>1. Calm
    BY <1>0, <1>5 DEF MonitorHangs, Calm, Joined, Chosen
  <2> QED
    BY <2>1, CalmSafe
<1>6. CASE CleanUp
  <2>1. /\ container' = [n \in Range(Plan) |-> IF n \in Range(Destroyed) THEN "absent"
                                              ELSE container[n]]
        /\ UNCHANGED <<address, poolV, isBuilt, place, at, history>>
    BY <1>6 DEF CleanUp
  <2>2. Joined' = Joined /\ Cur' = Cur /\ Chosen' = Chosen
    BY <2>1 DEF Joined, Cur, Chosen
  <2>3. \A n \in Nodes : container'[n] \in {"absent", container[n]}
    BY <2>1, PlanFacts
  <2>4. DownInv' /\ StoppedInv'
    BY <1>0, <2>1, <2>2, <2>3 DEF DownInv, StoppedInv
  <2>5. Careful /\ monitored => UniqueInv'
    BY <2>1, <2>2 DEF ConnectionInv, UniqueInv, Of
  <2>6. Careful /\ monitored /\ faults = 0 => AddressInv'
    BY <2>1, <2>2, <2>3 DEF ConnectionInv, AddressInv, Of
  <2> QED
    BY <1>0, <2>1, <2>4, <2>5, <2>6 DEF ConnectionInv
<1>7. ASSUME NEW n \in Lnds, LndStarts(n) PROVE ConnectionInv'
  <2>1. Calm
    BY <1>0, <1>7 DEF LndStarts, Calm, Joined, Chosen
  <2> QED
    BY <2>1, CalmSafe
<1>8. ASSUME NEW n \in Nodes, CatchesUp(n) \/ Graph(n) PROVE ConnectionInv'
  <2>1. Calm
    BY <1>0, <1>8 DEF CatchesUp, Graph, Calm, Joined, Chosen
  <2> QED
    BY <2>1, CalmSafe
<1>9. ASSUME NEW m \in Nodes, NEW n \in Nodes, Meet(m, n) PROVE ConnectionInv'
  <2>1. Calm
    BY <1>0, <1>9 DEF Meet, Calm, Joined, Chosen
  <2> QED
    BY <2>1, CalmSafe
<1>10. ASSUME NEW n \in Range(Destroyed), ContainerDies(n) PROVE ConnectionInv'
  <2>1. faults' = faults + 1 /\ UNCHANGED <<address, isBuilt, poolV, place, at, down>>
    BY <1>10 DEF ContainerDies
  <2>2. DownInv' /\ StoppedInv'
    BY <1>0, <2>1 DEF DownInv, StoppedInv
  <2>3. Careful /\ monitored => UniqueInv'
    BY <2>1 DEF ConnectionInv, UniqueInv, Joined, Chosen, Of
  <2> QED
    BY <1>0, <2>1, <2>2, <2>3 DEF ConnectionInv
<1> QED
  BY <1>1, <1>2, <1>3, <1>4, <1>5, <1>6, <1>7, <1>8, <1>9, <1>10 DEF Environment

Inv == SafeInv /\ ConnectionInv

LEMMA InvInvariant == Spec => []Inv
<1>1. Init => Inv
  BY InitSafe, InitConnection DEF Inv
<1>2. Inv /\ [Next]_vars => Inv'
  <2> SUFFICES ASSUME Inv, [Next]_vars PROVE Inv'
    OBVIOUS
  <2>1. SafeInv'
    BY NextSafe DEF Inv
  <2>2. CASE UNCHANGED vars
    <3>1. Calm
      BY <2>2 DEF vars, world, poolV, network, place, history, Inv, ConnectionInv,
                  Calm, Joined, Chosen
    <3> QED
      BY <2>1, <3>1, CalmSafe DEF Inv
  <2>3. CASE Next
    BY <2>1, <2>3, BeginsConnection, OperationConnection, EnvironmentConnection
       DEF Next, Inv
  <2> QED
    BY <2>2, <2>3
<1> QED
  BY <1>1, <1>2, PTL DEF Spec

\* As long as the monitoring task lives, a node that careful users restart has one
\* connection at most, and RestartByAlias holds one that the pool has too.
THEOREM OneEach == Spec => []OneConnection
<1>1. Inv => OneConnection
  <2> SUFFICES ASSUME Inv, Careful, monitored
               PROVE  OneConnection
    BY DEF OneConnection
  <2>1. UniqueInv /\ (faults = 0 => AddressInv)
    BY DEF Inv, ConnectionInv
  <2>2. pending \cup members \cup listed = Joined
    BY <2>1 DEF UniqueInv, Joined
  <2>3. ASSUME NEW n \in Nodes
        PROVE  /\ Cardinality(Of(n, Joined)) <= 1
               /\ faults = 0 => \A c \in Of(n, Joined) : c.address = address[n]
    <3>1. \A c, d \in Of(n, Joined) : c = d
      BY <2>1 DEF UniqueInv, Of
    <3>2. Of(n, Joined) = {} \/ \E c : Of(n, Joined) = {c}
      BY <3>1
    <3>3. Cardinality(Of(n, Joined)) <= 1
      <4>1. CASE Of(n, Joined) = {}
        BY <4>1, FS_EmptySet
      <4>2. ASSUME NEW c, Of(n, Joined) = {c} PROVE Cardinality(Of(n, Joined)) <= 1
        <5>1. Cardinality({c}) = 1
          BY FS_Singleton
        <5> QED
          BY <4>2, <5>1
      <4> QED
        BY <3>2, <4>1, <4>2
    <3>4. faults = 0 => \A c \in Of(n, Joined) : c.address = address[n]
      BY <2>1 DEF AddressInv, Of
    <3> QED
      BY <3>3, <3>4
  <2>4. Chosen => local \in Of(target, members)
    BY <2>1 DEF UniqueInv
  <2> QED
    BY <2>2, <2>3, <2>4 DEF OneConnection, Chosen
<1> QED
  BY InvInvariant, <1>1, PTL
=============================================================================
