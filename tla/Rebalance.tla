----------------------------- MODULE Rebalance -----------------------------
(***************************************************************************)
(* RebalanceNodePool of LNDNodePool (src/LNUnit.LND/LNDNodePool.cs): list  *)
(* the channels between pool members, compute one task per uneven channel, *)
(* then pay an invoice over each, one await after the other.  Between two  *)
(* awaits the monitoring task changes ReadyNodes, the channels' peers go   *)
(* offline and other payments move the same balances.                      *)
(*                                                                         *)
(* A channel has two ends; balance[ch][n] is what the end n owns, and the  *)
(* commitment fee keeps the two from adding up to the capacity.  Balances  *)
(* are in satoshi and constraints in millisatoshi, as in lnrpc.            *)
(***************************************************************************)
EXTENDS Integers, Sequences, SequencesExt

CONSTANTS
  Nodes,           \* LND nodes
  Pool,            \* those the pool is connected to
  Channels,        \* channel points
  Ends,            \* Ends[ch]: the two nodes of a channel
  Capacity,        \* Capacity[ch] in satoshi
  CommitFee,       \* CommitFee[ch]: the part of it that belongs to no end
  MaxPendingMsat,  \* MaxPendingMsat[ch][n]: constraints of the end n
  MinHtlcMsat,     \* MinHtlcMsat[ch][n]
  DeltaThreshold,  \* the parameter of RebalanceNodePool
  HasSaveAction,   \* SaveRebalanceAction is set
  Disturbances,    \* what else happens in this model
  MaxCalls,        \* bound: calls of RebalanceNodePool
  MaxDisturbances  \* bound: membership, peer and balance changes by others

ASSUME NetworkAssumption ==
  /\ Ends \in [Channels -> SUBSET Nodes]
  /\ \A ch \in Channels : \E a, b \in Nodes : a # b /\ Ends[ch] = {a, b}
  /\ Pool \subseteq Nodes
  /\ Capacity \in [Channels -> Nat]
  /\ \A ch \in Channels : CommitFee[ch] \in 0..Capacity[ch]
  /\ \A ch \in Channels : \A n \in Ends[ch] :
       /\ MaxPendingMsat[ch][n] \in Nat
       /\ MinHtlcMsat[ch][n] \in Nat
  /\ IsFiniteSet(Channels) /\ IsFiniteSet(Pool)
ASSUME ParameterAssumption ==
  /\ DeltaThreshold \in Nat
  /\ HasSaveAction \in BOOLEAN
  /\ Disturbances \subseteq {"membership", "peers", "failures", "traffic"}
  /\ MaxCalls \in Nat /\ MaxDisturbances \in Nat

VARIABLES
  ready,     \* LNDNodePool.ReadyNodes
  balance,   \* external: the balances of the channels
  active,    \* external: the channels whose peers are online
  pc,        \* where the call is
  members,   \* ourPoolMemberPKs
  toList,    \* the snapshot of ReadyNodes still to be listed
  tasks,     \* the BalanceTask list
  next,      \* index of the task being executed
  stats,     \* PoolRebalanceStats
  saved,     \* history: the tasks SaveRebalanceAction has stored
  moved,     \* history: channels of this call whose payment succeeded
  broken,    \* history: those of them where the answer was lost
  crossed,   \* history: channels with a task over which others have paid since
  calls,     \* calls made so far
  disturbed  \* changes made by others so far

world == <<ready, balance, active, disturbed>>
local == <<members, toList, tasks, next>>
book  == <<stats, saved, moved, broken, crossed>>
vars  == <<world, local, book, pc, calls>>

-----------------------------------------------------------------------------
(* Slips a change to this code could make; each stands in for the          *)
(* definition it is named after when a property is tested for its strength.*)

\* The whole balance of the richer end.
ExcessWhole(cap, higher) == higher

\* Only the task added last is looked at.
HasTaskLast(ts, ch) == ts # <<>> /\ ts[Len(ts)].chan = ch

-----------------------------------------------------------------------------
(* The channel as one of its ends reports it, and the task made from it.   *)

Peer(ch, n) == CHOOSE m \in Ends[ch] : m # n

Larger(x, y)  == IF x >= y THEN x ELSE y
Smaller(x, y) == IF x <= y THEN x ELSE y
Abs(x) == IF x < 0 THEN -x ELSE x

\* The limits of AdjustLimits: the larger maximum and the smaller minimum of
\* the two ends, in whole satoshi.
Ceiling(ch, n) == Larger(MaxPendingMsat[ch][n] \div 1000,
                         MaxPendingMsat[ch][Peer(ch, n)] \div 1000)
Floor(ch, n) == Smaller(MinHtlcMsat[ch][n] \div 1000,
                        MinHtlcMsat[ch][Peer(ch, n)] \div 1000)

\* What the richer end has above half of the capacity, which is not half of
\* what the two ends have: the commitment fee belongs to neither.
Excess(cap, higher) == higher - cap \div 2

\* AdjustLimits: an amount above the ceiling is cut below it.
Clamped(amount, ceiling) == IF amount > ceiling THEN ceiling - 1 ELSE amount

\* The task a member n would make of its channel ch at balances b.
Task(ch, n, b) ==
  LET m   == Peer(ch, n)
      src == IF b[ch][m] > b[ch][n] THEN m ELSE n
      dst == IF b[ch][m] > b[ch][n] THEN n ELSE m
  IN [chan |-> ch, src |-> src, dest |-> dst,
      amount |-> Clamped(Excess(Capacity[ch], b[ch][src]), Ceiling(ch, n))]

\* The threshold itself no longer counts.
WorthwhileAbove(ch, n, b) ==
  LET m == Peer(ch, n)
      excess == Excess(Capacity[ch], Larger(b[ch][n], b[ch][m]))
  IN /\ Abs(b[ch][n] - b[ch][m]) > DeltaThreshold
     /\ excess > Ceiling(ch, n) \/ excess >= Floor(ch, n)

\* The channel is uneven enough, and the amount not below the floor (an
\* amount that was cut to the ceiling is not compared with the floor).
Worthwhile(ch, n, b) ==
  LET m == Peer(ch, n)
      excess == Excess(Capacity[ch], Larger(b[ch][n], b[ch][m]))
  IN /\ Abs(b[ch][n] - b[ch][m]) >= DeltaThreshold
     /\ b[ch][n] # b[ch][m]
     /\ excess > Ceiling(ch, n) \/ excess >= Floor(ch, n)

HasTask(ts, ch) == \E i \in DOMAIN ts : ts[i].chan = ch

\* The channels of n the loop makes a task of.
Chosen(n) ==
  {ch \in active : /\ n \in Ends[ch]
                   /\ Peer(ch, n) \in members
                   /\ ~HasTask(tasks, ch)
                   /\ Worthwhile(ch, n, balance)}

\* Their tasks; in which order ListChannels reports them does not matter.
Tasks(n) ==
  LET chosen == SetToSeq(Chosen(n))
  IN [i \in DOMAIN chosen |-> Task(chosen[i], n, balance)]

-----------------------------------------------------------------------------
\* Every way the two ends can share a channel.
Share(ch) == Capacity[ch] - CommitFee[ch]
Split(ch) == {[n \in Ends[ch] |-> IF n = m THEN k ELSE Share(ch) - k] :
                m \in Ends[ch], k \in 0..Share(ch)}
Splits == {b \in [Channels -> UNION {Split(ch) : ch \in Channels}] :
             \A ch \in Channels : b[ch] \in Split(ch)}

NoStats == [count |-> 0, amount |-> 0]

\* Funds the payment of a task moves over its channel.
Transfer(t) ==
  LET own == balance[t.chan]
  IN [balance EXCEPT ![t.chan] =
        [own EXCEPT ![t.src] = own[t.src] - t.amount,
                    ![t.dest] = own[t.dest] + t.amount]]

\* LND can carry the payment: the source owns the amount, the channel is up
\* and both ends' limits admit the HTLC.
Payable(t) ==
  /\ t.amount > 0
  /\ t.chan \in active
  /\ balance[t.chan][t.src] >= t.amount
  /\ \A n \in Ends[t.chan] : /\ t.amount * 1000 <= MaxPendingMsat[t.chan][n]
                             /\ t.amount * 1000 >= MinHtlcMsat[t.chan][n]

Current == tasks[next]

Init ==
  /\ ready = SetToSeq(Pool)
  /\ balance \in Splits
  /\ active = Channels
  /\ pc = "idle"
  /\ members = {} /\ toList = <<>> /\ tasks = <<>> /\ next = 1
  /\ stats = NoStats /\ saved = {} /\ moved = {} /\ broken = {} /\ crossed = {}
  /\ calls = 0 /\ disturbed = 0

-----------------------------------------------------------------------------
(* GetInteralNodeEvenBalaceTasks.                                          *)

\* The index of the last call is kept.
CallKeepsIndex ==
  /\ pc = "idle" /\ calls < MaxCalls
  /\ calls' = calls + 1
  /\ members' = ToSet(ready)
  /\ tasks' = <<>>
  /\ stats' = NoStats /\ saved' = {} /\ moved' = {} /\ broken' = {} /\ crossed' = {}
  /\ pc' = "snapshot"
  /\ UNCHANGED <<world, toList, next>>

Call ==
  /\ pc = "idle"
  /\ calls < MaxCalls
  /\ calls' = calls + 1
  /\ members' = ToSet(ready)
  /\ tasks' = <<>> /\ next' = 1
  /\ stats' = NoStats /\ saved' = {} /\ moved' = {} /\ broken' = {} /\ crossed' = {}
  /\ pc' = "snapshot"
  /\ UNCHANGED <<world, toList>>

Snapshot ==
  /\ pc = "snapshot"
  /\ toList' = ready
  /\ pc' = "list"
  /\ UNCHANGED <<world, book, members, tasks, next, calls>>

ListChannels ==
  /\ pc = "list"
  /\ toList # <<>>
  /\ tasks' = tasks \o Tasks(Head(toList))
  /\ toList' = Tail(toList)
  /\ UNCHANGED <<world, book, members, next, pc, calls>>

\* The RPC throws and so does the whole call.
ListFails ==
  /\ pc = "list"
  /\ toList # <<>>
  /\ "failures" \in Disturbances
  /\ toList' = <<>>
  /\ pc' = "faulted"
  /\ UNCHANGED <<world, book, members, tasks, next, calls>>

ListDone ==
  /\ pc = "list"
  /\ toList = <<>>
  /\ pc' = "execute"
  /\ UNCHANGED <<world, book, local, calls>>

-----------------------------------------------------------------------------
(* The loop of RebalanceNodePool, with InvoicePayRebalance in line.        *)

\* Both ReadyNodes.First find their node.
Execute ==
  /\ pc = "execute"
  /\ next <= Len(tasks)
  /\ {Current.src, Current.dest} \subseteq ToSet(ready)
  /\ pc' = "pay"
  /\ UNCHANGED <<world, book, local, calls>>

\* One of them does not: First throws out of the call.
EndpointGone ==
  /\ pc = "execute"
  /\ next <= Len(tasks)
  /\ ~({Current.src, Current.dest} \subseteq ToSet(ready))
  /\ pc' = "faulted"
  /\ UNCHANGED <<world, book, local, calls>>

\* The payment goes through and the stream reports it.
Pay ==
  /\ pc = "pay"
  /\ Payable(Current)
  /\ balance' = Transfer(Current)
  /\ moved' = moved \cup {Current.chan}
  /\ pc' = "count"
  /\ UNCHANGED <<ready, active, disturbed, local, stats, saved, broken, crossed, calls>>

\* LND reports a payment that failed: it carries the payment hash too, which
\* is all InvoicePayRebalance looks at.
PayReportsFailure ==
  /\ pc = "pay"
  /\ "failures" \in Disturbances \/ ~Payable(Current)
  /\ Current.amount > 0
  /\ pc' = "count"
  /\ UNCHANGED <<world, book, local, calls>>

\* AddInvoice or the stream throws (LND refuses amounts that are not
\* positive): null, and on to the next task.  The stream may break after the
\* payment was sent.
PayThrows ==
  /\ pc = "pay"
  /\ "failures" \in Disturbances \/ Current.amount <= 0
  /\ \/ UNCHANGED <<balance, moved, broken>>
     \/ /\ Payable(Current)
        /\ balance' = Transfer(Current)
        /\ moved' = moved \cup {Current.chan}
        /\ broken' = broken \cup {Current.chan}
  /\ next' = next + 1
  /\ pc' = "execute"
  /\ UNCHANGED <<ready, active, disturbed, members, toList, tasks, stats, saved,
                 crossed, calls>>

\* The hash is not empty: the task counts.
CountTask ==
  /\ pc = "count"
  /\ stats' = [count |-> stats.count + 1,
               amount |-> stats.amount + Current.amount]
  /\ IF HasSaveAction
     THEN pc' = "save" /\ UNCHANGED next
     ELSE pc' = "execute" /\ next' = next + 1
  /\ UNCHANGED <<world, members, toList, tasks, saved, moved, broken, crossed, calls>>

Save ==
  /\ pc = "save"
  /\ saved' = saved \cup {Current.chan}
  /\ next' = next + 1
  /\ pc' = "execute"
  /\ UNCHANGED <<world, members, toList, tasks, stats, moved, broken, crossed, calls>>

\* An exception of the save is swallowed.
SaveFailsQuietly ==
  /\ pc = "save" /\ "failures" \in Disturbances
  /\ next' = next + 1
  /\ pc' = "execute"
  /\ UNCHANGED <<world, members, toList, tasks, book, calls>>

\* The caller's own action throws.
SaveFails ==
  /\ pc = "save"
  /\ "failures" \in Disturbances
  /\ pc' = "faulted"
  /\ UNCHANGED <<world, book, local, calls>>

Return ==
  /\ pc = "execute"
  /\ next > Len(tasks)
  /\ pc' = "returned"
  /\ UNCHANGED <<world, book, local, calls>>

\* The caller has the statistics, or the exception, and may call again.
Resume ==
  /\ pc \in {"returned", "faulted"}
  /\ pc' = "idle"
  /\ UNCHANGED <<world, book, local, calls>>

Rebalancing ==
  \/ Snapshot \/ ListChannels \/ ListFails \/ ListDone
  \/ Execute \/ EndpointGone \/ Pay \/ PayReportsFailure \/ PayThrows
  \/ CountTask \/ Save \/ SaveFails \/ Return

-----------------------------------------------------------------------------
(* The environment.                                                        *)

\* The monitoring task of the pool takes a node out or lists it again.
MembershipChanges ==
  /\ "membership" \in Disturbances
  /\ \E n \in Pool :
       ready' = IF Contains(ready, n) THEN RemoveFirst(ready, n)
                ELSE Append(ready, n)
  /\ UNCHANGED <<balance, active, local, book, pc, calls>>

PeersChange ==
  /\ "peers" \in Disturbances
  /\ \E ch \in Channels :
       active' = IF ch \in active THEN active \ {ch} ELSE active \cup {ch}
  /\ UNCHANGED <<ready, balance, local, book, pc, calls>>

OthersPay ==
  /\ "traffic" \in Disturbances
  /\ \E ch \in Channels : \E src \in Ends[ch] :
       \E amount \in 1..balance[ch][src] :
         /\ balance' = Transfer([chan |-> ch, src |-> src,
                                 dest |-> Peer(ch, src), amount |-> amount])
         /\ crossed' = IF HasTask(tasks, ch) THEN crossed \cup {ch} ELSE crossed
  /\ UNCHANGED <<ready, active, local, stats, saved, moved, broken, pc, calls>>

Environment ==
  /\ disturbed < MaxDisturbances
  /\ disturbed' = disturbed + 1
  /\ MembershipChanges \/ PeersChange \/ OthersPay

Next == Call \/ Rebalancing \/ Resume \/ Environment

Spec == Init /\ [][Next]_vars

-----------------------------------------------------------------------------
(* Properties.                                                             *)

Gap(ch, b) == LET n == CHOOSE n \in Ends[ch] : TRUE
              IN Abs(b[ch][n] - b[ch][Peer(ch, n)])

TaskSet == [chan : Channels, src : Nodes, dest : Nodes, amount : Int]

TypeOK ==
  /\ ready \in Seq(Nodes) /\ toList \in Seq(Nodes)
  /\ \A ch \in Channels : balance[ch] \in [Ends[ch] -> Nat]
  /\ active \subseteq Channels
  /\ pc \in {"idle", "snapshot", "list", "execute", "pay", "count", "save",
             "returned", "faulted"}
  /\ members \subseteq Nodes
  /\ tasks \in Seq(TaskSet)
  /\ next \in 1..(Len(tasks) + 1)
  /\ stats \in [count : Nat, amount : Int]
  /\ saved \subseteq Channels
  /\ broken \subseteq moved /\ moved \subseteq Channels /\ crossed \subseteq Channels
  /\ calls \in 0..MaxCalls /\ disturbed \in 0..MaxDisturbances

\* Both ends of a channel report it, at different times and, if others pay in
\* between, with different balances: still one task per channel, so that the
\* channel is not pushed twice.
OneTaskPerChannel ==
  \A i, j \in DOMAIN tasks : tasks[i].chan = tasks[j].chan => i = j

\* Whenever the call dies, by a node leaving ReadyNodes, a listing that
\* throws or a save that throws, the tasks that were paid and answered have
\* been saved, except at most the one in hand.
PaidIsSaved ==
  HasSaveAction =>
    \A ch \in moved \ broken :
      ch \in saved \/ (next <= Len(tasks) /\ Current.chan = ch)

\* A payment of the pool narrows the gap of its channel, also one computed
\* several awaits and payments ago, whatever others have paid meanwhile over
\* every other channel.  Only a payment of theirs over that very channel, after
\* its task was made, can have it widen the gap: the code does not look again.
PaymentsNarrowGaps ==
  [][disturbed' = disturbed =>
       \A ch \in Channels \ crossed :
         balance'[ch] # balance[ch] => Gap(ch, balance') < Gap(ch, balance)]_vars

\* Undisturbed, a call leaves nothing to pay for the next one (the test
\* PoolRebalance expects a count of 0 the second time), except on channels
\* where the limits cut the amount, LND refuses the payment as it stands or the
\* excess is below the smallest HTLC or a satoshi.
NothingLeftToPay ==
  pc = "returned" /\ disturbed = 0 =>
    \A ch \in active : Ends[ch] \subseteq members /\ Gap(ch, balance) >= DeltaThreshold
      => \/ \E i \in DOMAIN tasks :
              /\ tasks[i].chan = ch
              /\ \/ tasks[i].amount = Ceiling(ch, tasks[i].src) - 1
                 \/ ch \notin moved /\ ("failures" \in Disturbances \/ ~Payable(tasks[i]))
         \/ \A n \in Ends[ch] :
              Excess(Capacity[ch], balance[ch][n]) < Larger(Floor(ch, n), 1)

-----------------------------------------------------------------------------
(* What the documentation says and the code does not do.                   *)

\* LLM_DOCUMENTATION.md:371, TotalRebalanceCount is the "Number of successful
\* rebalances".
CountIsOfSuccesses == pc = "returned" => stats.count = Cardinality(moved)
=============================================================================
