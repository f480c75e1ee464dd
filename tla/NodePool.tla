------------------------------ MODULE NodePool ------------------------------
(***************************************************************************)
(* LNDNodePool (src/LNUnit.LND/LNDNodePool.cs): a list of settings still   *)
(* to be connected, a list of connections, a list of the connections that  *)
(* are "ready", one background task that moves entries between the three,  *)
(* and callers that add, remove and dispose from their own threads with no *)
(* lock anywhere.                                                          *)
(*                                                                         *)
(* The grain of atomicity is one operation on one List<T>.  Every place    *)
(* where the monitoring task can be overtaken is a label of mpc: between   *)
(* two elements of the settings list while it is copied, between           *)
(* connecting a node and forgetting its settings, between the element a    *)
(* foreach yields and the decision taken about it, and across the two      *)
(* second GetState probe.                                                  *)
(*                                                                         *)
(* Settings and connections are references: the s-th settings ever given   *)
(* to the pool are the number s, and given[s] the endpoint they name; the  *)
(* k-th connection ever made is the number k, and conns[k] its endpoint.   *)
(***************************************************************************)
EXTENDS Naturals, Sequences, SequencesExt

CONSTANTS
  Endpoints,     \* the gRPC endpoints of the LND servers
  ConnectTo,     \* LNDNodePoolConfig.ConnectTo
  Enlisted,      \* LNDNodePoolConfig.Nodes, by endpoint
  Callers,       \* the threads that call into the pool
  ServerStates,  \* the conditions the servers go through in this model
  MaxSubmitted   \* bound: settings ever given to the pool for one endpoint
                 \* (those of ConnectTo included)

ASSUME EndpointsAssumption ==
  /\ ConnectTo \in Seq(Endpoints)
  /\ Enlisted \in Seq(Endpoints)
ASSUME ServerStatesAssumption ==
  ServerStates \subseteq {"unreachable", "hung", "rpc", "active"}
ASSUME BoundAssumption == MaxSubmitted \in Nat

VARIABLES
  server,             \* external: what each endpoint's LND is doing
  given,              \* every settings object ever given, by endpoint
  notYetInitialized,  \* _lndNodesNotYetInitialized
  conns,              \* every connection object ever made, by endpoint
  nodes,              \* _nodes
  version,            \* _nodes._version: what an enumeration checks
  readyNodes,         \* ReadyNodes
  isDisposed,         \* _isDisposed, and the cancelled token with it
  disposed,           \* connections whose gRPC channel is disposed
  quickStartupMode,   \* _quickStartupMode
  elapsed,            \* _runtime is past StartupMaxTimeMilliseconds
  mpc,                \* where the monitoring task is
  todo,               \* lndNodes: the copied settings still to be tried
  node,               \* the foreach variable of UpdateReadyStates
  pos,                \* the enumerator's index
  seen,               \* the version the enumerator started from
  caller,             \* what each caller is in the middle of
  source,             \* history: the settings each connection was made from
  mixed,              \* history: endpoints that failed and were tried again
  struck              \* history: settings were added while they were copied

serverVars  == <<server, elapsed>>
listVars    == <<notYetInitialized, conns, nodes, version, readyNodes, source>>
monitorVars == <<mpc, todo, node, pos, seen, quickStartupMode, mixed>>
callerVars  == <<caller, isDisposed, disposed, given, struck>>
vars == <<serverVars, listVars, monitorVars, callerVars>>

-----------------------------------------------------------------------------
Settings == DOMAIN given
Connections == DOMAIN conns
TotalNodes == Len(Enlisted) + Len(ConnectTo)
AllReady == Len(readyNodes) = TotalNodes

Count(s, e) == Cardinality({i \in DOMAIN s : s[i] = e})

\* The GetInfo call of the constructor is answered.
Answers(e) == server[e] \in {"rpc", "active"}

\* GetState within its two second deadline; an exception counts as inactive.
IsServerActive(c) == server[conns[c]] = "active" /\ c \notin disposed

\* The settings s name the endpoint of those being set up.
OfHead(s) == given[s] = given[Head(todo)]

Idle         == [op |-> "idle"]
Removing(c)  == [op |-> "removing", conn |-> c]
Disposing(i, v) == [op |-> "disposing", next |-> i, from |-> v]

ScanLabels    == {"scan", "judge", "probe", "keep", "drop"}
MonitorLabels == ScanLabels \cup {"tick", "copy", "setup", "forget", "pace",
                                  "dead", "stopped"}
Halted == mpc \in {"dead", "stopped"}

Init ==
  /\ server \in [Endpoints -> ServerStates]
  /\ given = ConnectTo
  /\ notYetInitialized = [s \in DOMAIN ConnectTo |-> s]
  /\ conns = Enlisted
  /\ nodes = [i \in DOMAIN Enlisted |-> i]
  /\ version = 0
  /\ readyNodes = <<>>
  /\ isDisposed = FALSE
  /\ disposed = {}
  /\ quickStartupMode \in BOOLEAN
  /\ elapsed = FALSE
  /\ mpc = "tick"
  /\ todo = <<>>
  /\ node = 0 /\ pos = 0 /\ seen = 0
  /\ caller = [p \in Callers |-> Idle]
  /\ source = [i \in DOMAIN Enlisted |-> 0]
  /\ mixed = {}
  /\ struck = FALSE

-----------------------------------------------------------------------------
(* Slips a change to this code could make; each stands in for the action   *)
(* it is named after when a property is tested for its strength.           *)

\* The null that "as LNDNodeConnection" can give is added.
ConnectAddsNull ==
  /\ mpc = "setup" /\ todo # <<>> /\ Answers(given[Head(todo)])
  /\ nodes' = Append(nodes, 0)
  /\ version' = version + 1
  /\ mpc' = "forget"
  /\ UNCHANGED <<serverVars, callerVars, notYetInitialized, conns, readyNodes,
                 source, todo, node, pos, seen, quickStartupMode, mixed>>

\* A failed connect is taken off the list like a successful one.
ConnectFailsForGood ==
  /\ mpc = "setup" /\ todo # <<>> /\ server[given[Head(todo)]] = "unreachable"
  /\ notYetInitialized' = RemoveFirst(notYetInitialized, Head(todo))
  /\ todo' = Tail(todo)
  /\ UNCHANGED <<serverVars, callerVars, conns, nodes, version, readyNodes,
                 source, mpc, node, pos, seen, quickStartupMode, mixed>>

\* Last instead of First finds the settings to remove.
ForgetLastOfEndpoint ==
  /\ mpc = "forget"
  /\ LET i == SelectLastInSeq(notYetInitialized, OfHead)
     IN  notYetInitialized' = RemoveAt(notYetInitialized, i)
  /\ todo' = Tail(todo)
  /\ mpc' = "setup"
  /\ UNCHANGED <<serverVars, callerVars, conns, nodes, version, readyNodes,
                 source, node, pos, seen, quickStartupMode, mixed>>

\* The token is not passed to WaitForNextTickAsync.
TickIgnoringToken ==
  /\ mpc = "tick"
  /\ mpc' = IF notYetInitialized = <<>> THEN "setup" ELSE "copy"
  /\ pos' = 1 /\ seen' = Len(given)
  /\ UNCHANGED <<serverVars, listVars, callerVars, todo, node,
                 quickStartupMode, mixed>>

\* The last MoveNext does not look at the version.
ScanEndsUnchecked ==
  /\ mpc = "scan" /\ pos > Len(nodes)
  /\ mpc' = "pace"
  /\ node' = 0 /\ pos' = 0 /\ seen' = 0
  /\ UNCHANGED <<serverVars, listVars, callerVars, todo, quickStartupMode, mixed>>

\* RpcActive counts as ready (LNDNodeConnection.IsRpcReady).
ProbeRpcOnly ==
  /\ mpc = "probe"
  /\ mpc' = IF Answers(conns[node]) THEN "keep" ELSE "drop"
  /\ UNCHANGED <<serverVars, listVars, callerVars, todo, node, pos, seen,
                 quickStartupMode, mixed>>

\* The second Contains is left out.
KeepUnconditionally ==
  /\ mpc = "keep"
  /\ readyNodes' = Append(readyNodes, node)
  /\ mpc' = "scan"
  /\ UNCHANGED <<serverVars, callerVars, notYetInitialized, conns, nodes,
                 version, source, todo, node, pos, seen, quickStartupMode,
                 mixed>>

\* The ten second limit is left out.
PaceByCountOnly ==
  /\ mpc = "pace"
  /\ quickStartupMode' = (quickStartupMode /\ ~AllReady)
  /\ mpc' = "tick"
  /\ UNCHANGED <<serverVars, listVars, callerVars, todo, node, pos, seen,
                 mixed>>

\* AddNode connects at once and adds to _nodes itself.
AddNodeAtOnce(p, e) ==
  /\ caller[p] = Idle
  /\ Count(given, e) < MaxSubmitted
  /\ given' = Append(given, e)
  /\ source' = Append(source, Len(given) + 1)
  /\ conns' = Append(conns, e)
  /\ nodes' = Append(nodes, Len(conns) + 1)
  /\ version' = version + 1
  /\ UNCHANGED <<serverVars, monitorVars, notYetInitialized, readyNodes,
                 caller, isDisposed, disposed, struck>>

-----------------------------------------------------------------------------
(* The monitoring task: SetupNotYetInitializedNodes.                       *)

\* WaitForNextTickAsync fires.  CreateCopy enumerates the settings, if there
\* are any; the version it checks is the number of settings ever given, as
\* only AddNode can modify the list while the task is at this.
Tick ==
  /\ mpc = "tick"
  /\ ~isDisposed
  /\ mpc' = IF notYetInitialized = <<>> THEN "setup" ELSE "copy"
  /\ pos' = 1 /\ seen' = Len(given)
  /\ UNCHANGED <<serverVars, listVars, callerVars, todo, node,
                 quickStartupMode, mixed>>

CopyNext ==
  /\ mpc = "copy"
  /\ seen = Len(given)
  /\ pos <= Len(notYetInitialized)
  /\ todo' = Append(todo, notYetInitialized[pos])
  /\ pos' = pos + 1
  /\ UNCHANGED <<serverVars, listVars, callerVars, mpc, node, seen,
                 quickStartupMode, mixed>>

CopyEnds ==
  /\ mpc = "copy"
  /\ seen = Len(given)
  /\ pos > Len(notYetInitialized)
  /\ mpc' = "setup"
  /\ pos' = 0 /\ seen' = 0
  /\ UNCHANGED <<serverVars, listVars, callerVars, todo, node,
                 quickStartupMode, mixed>>

\* AddNode was there: the enumeration throws, outside the try.
CopyThrows ==
  /\ mpc = "copy"
  /\ seen # Len(given)
  /\ mpc' = "dead"
  /\ todo' = <<>> /\ pos' = 0 /\ seen' = 0
  /\ UNCHANGED <<serverVars, listVars, callerVars, node, quickStartupMode,
                 mixed>>

\* The cancelled (or already disposed) token ends the task at the wait.
Stop ==
  /\ mpc = "tick"
  /\ isDisposed
  /\ mpc' = "stopped"
  /\ UNCHANGED <<serverVars, listVars, callerVars, todo, node, pos, seen,
                 quickStartupMode, mixed>>

\* GetInfo has no deadline: while the server hangs neither this action nor
\* ConnectFails is enabled and the task is blocked.
Connect ==
  /\ mpc = "setup"
  /\ todo # <<>>
  /\ Answers(given[Head(todo)])
  /\ conns' = Append(conns, given[Head(todo)])
  /\ source' = Append(source, Head(todo))
  /\ nodes' = Append(nodes, Len(conns) + 1)
  /\ version' = version + 1
  /\ mpc' = "forget"
  /\ UNCHANGED <<serverVars, callerVars, notYetInitialized, readyNodes, todo,
                 node, pos, seen, quickStartupMode, mixed>>

ConnectFails ==
  /\ mpc = "setup"
  /\ todo # <<>>
  /\ server[given[Head(todo)]] = "unreachable"
  /\ todo' = Tail(todo)
  /\ mixed' = mixed \cup {given[s] : s \in {s \in ToSet(Tail(todo)) :
                                            given[s] = given[Head(todo)]}}
  /\ UNCHANGED <<serverVars, listVars, callerVars, mpc, node, pos, seen,
                 quickStartupMode>>

\* Removes the first settings with the endpoint just connected to: not these
\* settings, if others with that endpoint failed earlier in the pass.
Forget ==
  /\ mpc = "forget"
  /\ notYetInitialized' = RemoveFirstMatch(notYetInitialized, OfHead)
  /\ todo' = Tail(todo)
  /\ mpc' = "setup"
  /\ UNCHANGED <<serverVars, callerVars, conns, nodes, version, readyNodes,
                 source, node, pos, seen, quickStartupMode, mixed>>

-----------------------------------------------------------------------------
(* The monitoring task: the foreach over _nodes and the pace of the timer. *)

BeginScan ==
  /\ mpc = "setup"
  /\ todo = <<>>
  /\ mpc' = "scan"
  /\ pos' = 1
  /\ seen' = version
  /\ UNCHANGED <<serverVars, listVars, callerVars, todo, node,
                 quickStartupMode, mixed>>

ScanNext ==
  /\ mpc = "scan"
  /\ seen = version
  /\ pos <= Len(nodes)
  /\ node' = nodes[pos]
  /\ pos' = pos + 1
  /\ mpc' = "judge"
  /\ UNCHANGED <<serverVars, listVars, callerVars, todo, seen,
                 quickStartupMode, mixed>>

\* MoveNext finds the list modified and throws; nothing catches it.
ScanThrows ==
  /\ mpc = "scan"
  /\ seen # version
  /\ mpc' = "dead"
  /\ node' = 0 /\ pos' = 0 /\ seen' = 0
  /\ UNCHANGED <<serverVars, listVars, callerVars, todo, quickStartupMode, mixed>>

ScanEnds ==
  /\ mpc = "scan"
  /\ seen = version
  /\ pos > Len(nodes)
  /\ mpc' = "pace"
  /\ node' = 0 /\ pos' = 0 /\ seen' = 0
  /\ UNCHANGED <<serverVars, listVars, callerVars, todo, quickStartupMode, mixed>>

JudgeReady ==
  /\ mpc = "judge"
  /\ Contains(readyNodes, node)
  /\ mpc' = "probe"
  /\ UNCHANGED <<serverVars, listVars, callerVars, todo, node, pos, seen,
                 quickStartupMode, mixed>>

\* The else branch: a connection that is not listed is listed, unprobed.
Admit ==
  /\ mpc = "judge"
  /\ ~Contains(readyNodes, node)
  /\ readyNodes' = Append(readyNodes, node)
  /\ mpc' = "scan"
  /\ UNCHANGED <<serverVars, callerVars, notYetInitialized, conns, nodes,
                 version, source, todo, node, pos, seen, quickStartupMode,
                 mixed>>

Probe ==
  /\ mpc = "probe"
  /\ mpc' = IF IsServerActive(node) THEN "keep" ELSE "drop"
  /\ UNCHANGED <<serverVars, listVars, callerVars, todo, node, pos, seen,
                 quickStartupMode, mixed>>

\* The else branch again, after the probe: a caller may have taken the
\* connection out of ReadyNodes in the meantime.
Keep ==
  /\ mpc = "keep"
  /\ readyNodes' = IF Contains(readyNodes, node) THEN readyNodes
                   ELSE Append(readyNodes, node)
  /\ mpc' = "scan"
  /\ UNCHANGED <<serverVars, callerVars, notYetInitialized, conns, nodes,
                 version, source, todo, node, pos, seen, quickStartupMode,
                 mixed>>

Drop ==
  /\ mpc = "drop"
  /\ readyNodes' = RemoveFirst(readyNodes, node)
  /\ mpc' = "scan"
  /\ UNCHANGED <<serverVars, callerVars, notYetInitialized, conns, nodes,
                 version, source, todo, node, pos, seen, quickStartupMode,
                 mixed>>

Pace ==
  /\ mpc = "pace"
  /\ quickStartupMode' = (quickStartupMode /\ ~elapsed /\ ~AllReady)
  /\ mpc' = "tick"
  /\ UNCHANGED <<serverVars, listVars, callerVars, todo, node, pos, seen,
                 mixed>>

Monitor ==
  \/ Tick \/ Stop \/ CopyNext \/ CopyEnds \/ CopyThrows
  \/ Connect \/ ConnectFails \/ Forget
  \/ BeginScan \/ ScanNext \/ ScanThrows \/ ScanEnds
  \/ JudgeReady \/ Admit \/ Probe \/ Keep \/ Drop \/ Pace

-----------------------------------------------------------------------------
(* The callers.                                                            *)

AddNode(p, e) ==
  /\ caller[p] = Idle
  /\ Count(given, e) < MaxSubmitted
  /\ given' = Append(given, e)
  /\ notYetInitialized' = Append(notYetInitialized, Len(given) + 1)
  /\ struck' = (struck \/ mpc = "copy")
  /\ UNCHANGED <<serverVars, monitorVars, conns, nodes, version, readyNodes,
                 source, caller, isDisposed, disposed>>

\* RemoveNode, first statement: out of _nodes (List.Remove leaves _version
\* alone when the item is absent).
RemoveNode(p, c) ==
  /\ caller[p] = Idle
  /\ nodes' = RemoveFirst(nodes, c)
  /\ version' = IF Contains(nodes, c) THEN version + 1 ELSE version
  /\ caller' = [caller EXCEPT ![p] = Removing(c)]
  /\ UNCHANGED <<serverVars, monitorVars, notYetInitialized, conns,
                 readyNodes, source, isDisposed, disposed, given, struck>>

\* RemoveNode, second statement: out of ReadyNodes.
RemoveReady(p) ==
  /\ caller[p].op = "removing"
  /\ readyNodes' = RemoveFirst(readyNodes, caller[p].conn)
  /\ caller' = [caller EXCEPT ![p] = Idle]
  /\ UNCHANGED <<serverVars, monitorVars, notYetInitialized, conns, nodes,
                 version, source, isDisposed, disposed, given, struck>>

\* Dispose up to _nodes.ForEach; a second call returns at once.
Dispose(p) ==
  /\ caller[p] = Idle
  /\ ~isDisposed
  /\ isDisposed' = TRUE
  /\ caller' = [caller EXCEPT ![p] = Disposing(1, version)]
  /\ UNCHANGED <<serverVars, monitorVars, listVars, disposed, given, struck>>

DisposeNext(p) ==
  /\ caller[p].op = "disposing"
  /\ caller[p].from = version
  /\ caller[p].next <= Len(nodes)
  /\ disposed' = disposed \cup {nodes[caller[p].next]}
  /\ caller' = [caller EXCEPT
                   ![p] = Disposing(caller[p].next + 1, caller[p].from)]
  /\ UNCHANGED <<serverVars, monitorVars, listVars, isDisposed, given,
                 struck>>

\* ForEach is through, or it throws because _nodes was modified under it.
DisposeReturns(p) ==
  /\ caller[p].op = "disposing"
  /\ \/ caller[p].from # version
     \/ caller[p].next > Len(nodes)
  /\ caller' = [caller EXCEPT ![p] = Idle]
  /\ UNCHANGED <<serverVars, monitorVars, listVars, isDisposed, disposed,
                 given, struck>>

Finish(p) == RemoveReady(p) \/ DisposeNext(p) \/ DisposeReturns(p)

Call(p) ==
  \/ \E e \in Endpoints : AddNode(p, e)
  \/ \E c \in Connections : RemoveNode(p, c)
  \/ Dispose(p)

-----------------------------------------------------------------------------
(* The environment: the LND servers and the clock.                         *)

ServerChanges(e, s) ==
  /\ server[e] # s
  /\ server' = [server EXCEPT ![e] = s]
  /\ UNCHANGED <<elapsed, listVars, monitorVars, callerVars>>

StartupTimeElapses ==
  /\ ~elapsed
  /\ elapsed' = TRUE
  /\ UNCHANGED <<server, listVars, monitorVars, callerVars>>

Environment ==
  \/ \E e \in Endpoints, s \in ServerStates : ServerChanges(e, s)
  \/ StartupTimeElapses

Next ==
  \/ Monitor
  \/ \E p \in Callers : Call(p) \/ Finish(p)
  \/ Environment

Spec == Init /\ [][Next]_vars

\* The task runs on the thread pool and its timer keeps firing; a method
\* that was entered runs on; ten seconds pass.  Nothing obliges a caller to
\* call, nor a server to change.
Fairness ==
  /\ WF_vars(Monitor)
  /\ \A p \in Callers : WF_vars(Finish(p))
  /\ WF_vars(StartupTimeElapses)

FairSpec == Spec /\ Fairness
-----------------------------------------------------------------------------
(* Properties.                                                             *)

MaxConnections == Len(Enlisted) + MaxSubmitted * Cardinality(Endpoints)

CallerStates ==
  [op : {"idle"}] \cup [op : {"removing"}, conn : Connections]
    \cup [op : {"disposing"}, next : Nat \ {0}, from : Nat]

\* Types of the variables, with the references in every list ones that exist.
TypeOK ==
  /\ server \in [Endpoints -> ServerStates]
  /\ given \in Seq(Endpoints)
  /\ notYetInitialized \in Seq(Settings)
  /\ conns \in Seq(Endpoints)
  /\ nodes \in Seq(Connections)
  /\ version \in Nat
  /\ readyNodes \in Seq(Connections)
  /\ isDisposed \in BOOLEAN
  /\ disposed \subseteq Connections
  /\ quickStartupMode \in BOOLEAN
  /\ elapsed \in BOOLEAN
  /\ mpc \in MonitorLabels
  /\ todo \in Seq(Settings)
  /\ node \in Nat
  /\ pos \in Nat
  /\ seen \in Nat
  /\ caller \in [Callers -> CallerStates]
  /\ source \in Seq(Settings \cup {0}) /\ Len(source) = Len(conns)
  /\ mixed \subseteq Endpoints
  /\ struck \in BOOLEAN

\* The task has connected to these settings and not yet taken them, or others
\* of the endpoint, off the list.
InHand(s) == mpc = "forget" /\ s = Head(todo)

\* Every settings object handed to the pool is either still waiting or has
\* become exactly one connection, whatever is added while
\* SetupNotYetInitializedNodes works through its copy of the list, although
\* it takes the first settings with the endpoint off the list and not those it
\* connected.  Only where a pass failed on one settings object and tried
\* another of the same endpoint is this not so: if that succeeds, the one that
\* failed is gone unconnected and the other will be connected once more.
SettingsConserved ==
  /\ \A s \in Settings :
       given[s] \notin mixed =>
         (Contains(notYetInitialized, s) /\ ~InHand(s)
            <=> \A k \in Connections : source[k] # s)
  /\ \A k, l \in Connections :
       source[k] # 0 /\ source[k] = source[l] /\ conns[k] \notin mixed => k = l

\* UpdateReadyStates tests Contains and then adds, with callers removing in
\* between: still no connection is listed twice, in either list (a second
\* entry would survive RemoveNode, and would count twice in AllReady).
NoDoubleListing == IsInjective(nodes) /\ IsInjective(readyNodes)

\* The enumeration the task is in throws at its next step.
Doomed ==
  \/ mpc = "copy" /\ seen # Len(given)
  \/ mpc \in ScanLabels /\ seen # version

\* The task dies, or is about to, for two reasons only: some connection was
\* taken out of _nodes, or settings were added while the list of settings was
\* being copied.  Its own Add and Remove on these lists, between the two
\* enumerations of a pass, and an AddNode at any other time never harm it.
OnlyModificationKillsMonitor ==
  mpc = "dead" \/ Doomed
    => struck \/ \E c \in Connections : ~Contains(nodes, c)

\* A connection listed ready that RemoveNode has taken out of _nodes, and
\* whose second statement has run or was overtaken, is beyond repair: the
\* monitoring task is dead, or dies at its next MoveNext.
GhostsHaveNoMonitor ==
  \A c \in Connections :
    Contains(readyNodes, c) /\ ~Contains(nodes, c)
      => \/ \E p \in Callers : caller[p] = Removing(c)
         \/ mpc = "dead"
         \/ mpc \in ScanLabels /\ seen # version

\* No endpoint whose server accepts connections and never answers.
NoneHung == \A e \in Endpoints : server[e] # "hung"

\* As many connections were made to this endpoint as settings given for it,
\* and each that was not removed is listed.
Served(e) ==
  /\ Count(conns, e) = Count(given, e) + Count(Enlisted, e)
  /\ \A c \in Connections :
       conns[c] = e /\ Contains(nodes, c) => Contains(readyNodes, c)

\* A server that becomes active and stays so is connected, and listed ready
\* for good, as long as the monitoring task lives and no server hangs.
ActiveIsServed ==
  \A e \in Endpoints :
    <>[](server[e] = "active" /\ ~Halted /\ NoneHung) => <>[]Served(e)

\* A connection whose server stays inactive does not stay listed ready: the
\* task keeps taking it out (and, Admit being what it is, putting it back).
InactiveIsDropped ==
  \A c \in 1..MaxConnections :
    <>[](c \in Connections /\ server[conns[c]] # "active" /\ ~Halted
           /\ NoneHung)
      => []<>(~Contains(readyNodes, c))

\* The 100 ms polling of the start ends for good, at the latest once the ten
\* seconds are over, whether or not ReadyNodes ever reaches TotalNodes.
QuickStartupEnds == <>[](~Halted /\ NoneHung) => <>[](~quickStartupMode)

\* Dispose ends the monitoring task, in the middle of a pass or not.
DisposeStopsMonitor == <>[](isDisposed /\ NoneHung) => <>Halted

-----------------------------------------------------------------------------
(* What the documentation says and the code does not do.                   *)

\* LLM_DOCUMENTATION.md:358, RemoveNode "Removes from both internal nodes
\* list and ReadyNodes list": what RemoveNode has taken out of both, and is not
\* in the middle of taking out, is not listed ready again.
NeverListsRemoved ==
  [][\A c \in Connections :
       Contains(readyNodes', c) /\ ~Contains(readyNodes, c)
         => \/ Contains(nodes, c)
            \/ \E p \in Callers : caller[p] = Removing(c)]_vars

\* LLM_DOCUMENTATION.md:655, "Individual node failures don't prevent pool from
\* operating with remaining nodes": a server that stays active is served,
\* whatever the others do.
OthersStillServed ==
  \A e \in Endpoints :
    <>[](server[e] = "active" /\ ~Halted) => <>[]Served(e)
=============================================================================
