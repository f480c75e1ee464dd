-------------------------- MODULE RebalanceProofs --------------------------
(***************************************************************************)
(* Theorems about Rebalance, for any network, limits and threshold.        *)
(***************************************************************************)
EXTENDS Rebalance, Integers, FiniteSetTheorems, SequenceTheorems,
        WellFoundedInduction, TLAPS

USE NetworkAssumption, ParameterAssumption

\* A finite set can be listed: SetToSeq has what it looks for.
LEMMA SetToSeqProperties ==
  ASSUME NEW S, IsFiniteSet(S)
  PROVE  /\ SetToSeq(S) \in Seq(S)
         /\ IsInjective(SetToSeq(S))
<1>1. Cardinality(S) \in Nat
  BY FS_CardinalityType
<1>2. PICK f : f \in Bijection(1..Cardinality(S), S)
  BY FS_CardinalityType DEF ExistsBijection
<1>3. f \in [1..Cardinality(S) -> S] /\ IsInjective(f)
  BY <1>2 DEF Bijection, Injection, IsInjective
<1>4. /\ SetToSeq(S) \in [1..Cardinality(S) -> S]
      /\ IsInjective(SetToSeq(S))
  BY <1>3 DEF SetToSeq
<1>. QED  BY <1>1, <1>4, IsASeq

\* A channel has exactly two ends, each the peer of the other.
LEMMA PeerProperties ==
  ASSUME NEW ch \in Channels, NEW n \in Ends[ch]
  PROVE  /\ Peer(ch, n) \in Ends[ch] /\ Peer(ch, n) # n
         /\ Ends[ch] = {n, Peer(ch, n)}
         /\ Peer(ch, Peer(ch, n)) = n
<1>1. PICK x, y \in Nodes : x # y /\ Ends[ch] = {x, y}
  OBVIOUS
<1>2. \A m \in Ends[ch] : Peer(ch, m) \in Ends[ch] /\ Peer(ch, m) # m
  BY <1>1 DEF Peer
<1>. QED  BY <1>1, <1>2

\* Paying the clamped excess of the richer end, if that is positive, leaves
\* the two ends closer to each other, whatever the commitment fee.  (A gap of
\* one satoshi in an odd capacity would only change sides.)
LEMMA ExcessNarrows ==
  ASSUME NEW cap \in Nat, NEW high \in Nat, NEW low \in Nat, NEW top \in Nat,
         high - low >= 2, high + low <= cap,
         Clamped(Excess(cap, high), top) > 0
  PROVE  LET a == Clamped(Excess(cap, high), top)
         IN Abs((high - a) - (low + a)) < Abs(high - low)
<1>. DEFINE half == cap \div 2
<1>1. half \in Nat /\ 2 * half <= cap /\ cap <= 2 * half + 1
  OBVIOUS
<1>. HIDE DEF half
<1>2. Excess(cap, high) = high - half
  BY DEF Excess, half
<1>3. PICK a \in Int : a = Clamped(Excess(cap, high), top)
  BY <1>1, <1>2 DEF Clamped
<1>4. a > 0 /\ a <= high - half
  BY <1>1, <1>2, <1>3 DEF Clamped
<1>5. 2 * a <= 2 * high - 2 * half
  BY <1>1, <1>4
<1>6. high - low > 0
  BY <1>1, <1>4
<1>7. /\ (high - a) - (low + a) < high - low
      /\ -((high - a) - (low + a)) < high - low
  BY <1>1, <1>4, <1>5, <1>6
<1>. QED  BY <1>3, <1>6, <1>7 DEF Abs

-----------------------------------------------------------------------------
(* What the loop over the channels makes of a member.                      *)

\* The balances of the channels, as every step leaves them.
BalanceInv ==
  /\ balance = [ch \in Channels |-> balance[ch]]
  /\ \A ch \in Channels :
       /\ balance[ch] \in [Ends[ch] -> Nat]
       /\ \A n \in Ends[ch] :
            balance[ch][n] + balance[ch][Peer(ch, n)] <= Capacity[ch]

\* A task from one end of its channel to the other.
Formed(t) ==
  /\ t \in TaskSet
  /\ t.src \in Ends[t.chan] /\ t.dest = Peer(t.chan, t.src)

\* Its channel still has the balances it was computed from.
Fresh(t) ==
  /\ balance[t.chan][t.src] - balance[t.chan][t.dest] >= DeltaThreshold
  /\ \E top \in Nat :
       t.amount = Clamped(Excess(Capacity[t.chan], balance[t.chan][t.src]), top)

LEMMA LimitsAreNatural ==
  ASSUME NEW ch \in Channels, NEW n \in Ends[ch]
  PROVE  Ceiling(ch, n) \in Nat
<1>1. Peer(ch, n) \in Ends[ch]
  BY PeerProperties
<1>2. /\ MaxPendingMsat[ch][n] \in Nat
      /\ MaxPendingMsat[ch][Peer(ch, n)] \in Nat
  BY <1>1
<1>. QED  BY <1>2 DEF Ceiling, Larger

\* The task of a chosen channel is fresh when it is made.
LEMMA ChosenTaskIsFresh ==
  ASSUME BalanceInv, NEW n, NEW ch \in Channels, n \in Ends[ch],
         Worthwhile(ch, n, balance)
  PROVE  /\ Formed(Task(ch, n, balance)) /\ Fresh(Task(ch, n, balance))
         /\ Task(ch, n, balance).chan = ch
<1>. DEFINE m == Peer(ch, n)
            t == Task(ch, n, balance)
<1>1. m \in Ends[ch] /\ m # n /\ Peer(ch, m) = n
  BY PeerProperties
<1>2. balance[ch][n] \in Nat /\ balance[ch][m] \in Nat
  BY <1>1 DEF BalanceInv
<1>3. /\ Abs(balance[ch][n] - balance[ch][m]) >= DeltaThreshold
  BY DEF Worthwhile
<1>4. Ceiling(ch, n) \in Nat
  BY LimitsAreNatural
<1>7. /\ n \in Nodes /\ m \in Nodes
      /\ \A x \in Nat : Clamped(Excess(Capacity[ch], x), Ceiling(ch, n)) \in Int
  BY <1>1, <1>4 DEF Clamped, Excess
<1>5. CASE balance[ch][m] > balance[ch][n]
  <2>1. t = [chan |-> ch, src |-> m, dest |-> n,
             amount |-> Clamped(Excess(Capacity[ch], balance[ch][m]),
                                Ceiling(ch, n))]
    BY <1>5 DEF Task
  <2>2. balance[ch][m] - balance[ch][n] >= DeltaThreshold
    BY <1>2, <1>3, <1>5 DEF Abs
  <2>. QED  BY <1>1, <1>2, <1>4, <1>7, <2>1, <2>2 DEF Fresh, Formed, TaskSet
<1>6. CASE ~(balance[ch][m] > balance[ch][n])
  <2>1. t = [chan |-> ch, src |-> n, dest |-> m,
             amount |-> Clamped(Excess(Capacity[ch], balance[ch][n]),
                                Ceiling(ch, n))]
    BY <1>6 DEF Task
  <2>2. balance[ch][n] - balance[ch][m] >= DeltaThreshold
    BY <1>2, <1>3, <1>6 DEF Abs
  <2>. QED  BY <1>1, <1>2, <1>4, <1>7, <2>1, <2>2 DEF Fresh, Formed, TaskSet
<1>. QED  BY <1>5, <1>6

\* The tasks of one member are of different channels, none of which has a
\* task yet, and they are fresh.
LEMMA TasksProperties ==
  ASSUME BalanceInv, active \subseteq Channels, NEW n
  PROVE  /\ Tasks(n) \in Seq(TaskSet)
         /\ \A i \in DOMAIN Tasks(n) :
              /\ Formed(Tasks(n)[i]) /\ Fresh(Tasks(n)[i])
              /\ ~HasTask(tasks, Tasks(n)[i].chan)
         /\ \A i, j \in DOMAIN Tasks(n) :
              Tasks(n)[i].chan = Tasks(n)[j].chan => i = j
<1>. DEFINE chosen == SetToSeq(Chosen(n))
<1>1. Chosen(n) \subseteq Channels
  BY DEF Chosen
<1>2. IsFiniteSet(Chosen(n))
  BY <1>1, FS_Subset
<1>3. chosen \in Seq(Chosen(n)) /\ IsInjective(chosen)
  BY <1>2, SetToSeqProperties
<1>. HIDE DEF chosen
<1>4. Tasks(n) = [i \in 1..Len(chosen) |-> Task(chosen[i], n, balance)]
  BY <1>3 DEF Tasks, chosen
<1>5. \A i \in 1..Len(chosen) :
        /\ Formed(Tasks(n)[i]) /\ Fresh(Tasks(n)[i])
        /\ Tasks(n)[i].chan = chosen[i]
        /\ ~HasTask(tasks, chosen[i])
  <2>. TAKE i \in 1..Len(chosen)
  <2>1. chosen[i] \in Chosen(n)
    BY <1>3
  <2>2. /\ chosen[i] \in Channels /\ n \in Ends[chosen[i]]
        /\ Worthwhile(chosen[i], n, balance) /\ ~HasTask(tasks, chosen[i])
    BY <1>1, <2>1 DEF Chosen
  <2>. QED  BY <1>4, <2>2, ChosenTaskIsFresh
<1>6. Len(chosen) \in Nat
  BY <1>3
<1>7. \A i, j \in 1..Len(chosen) : chosen[i] = chosen[j] => i = j
  BY <1>3 DEF IsInjective
<1>8. Tasks(n) \in Seq(TaskSet) /\ DOMAIN Tasks(n) = 1..Len(chosen)
  BY <1>4, <1>5, <1>6 DEF Formed
<1>. QED  BY <1>5, <1>7, <1>8

-----------------------------------------------------------------------------
(* What a payment does to the balances.                                    *)

LEMMA TransferProperties ==
  ASSUME BalanceInv, NEW t, t.chan \in Channels, t.src \in Ends[t.chan],
         t.dest = Peer(t.chan, t.src), t.amount \in Nat,
         t.amount <= balance[t.chan][t.src]
  PROVE  /\ Transfer(t) = [ch \in Channels |-> Transfer(t)[ch]]
         /\ \A ch \in Channels \ {t.chan} : Transfer(t)[ch] = balance[ch]
         /\ Transfer(t)[t.chan] \in [Ends[t.chan] -> Nat]
         /\ Transfer(t)[t.chan][t.src] = balance[t.chan][t.src] - t.amount
         /\ Transfer(t)[t.chan][t.dest] = balance[t.chan][t.dest] + t.amount
<1>1. t.dest \in Ends[t.chan] /\ t.dest # t.src
  BY PeerProperties
<1>2. balance[t.chan] \in [Ends[t.chan] -> Nat]
  BY DEF BalanceInv
<1>3. /\ balance[t.chan][t.src] \in Nat /\ balance[t.chan][t.dest] \in Nat
      /\ balance[t.chan][t.src] - t.amount \in Nat
      /\ balance[t.chan][t.dest] + t.amount \in Nat
  BY <1>1, <1>2
<1>. DEFINE row == [balance[t.chan] EXCEPT
                      ![t.src] = balance[t.chan][t.src] - t.amount,
                      ![t.dest] = balance[t.chan][t.dest] + t.amount]
<1>4. /\ row \in [Ends[t.chan] -> Nat]
      /\ row[t.src] = balance[t.chan][t.src] - t.amount
      /\ row[t.dest] = balance[t.chan][t.dest] + t.amount
  BY <1>1, <1>2, <1>3
<1>5. Transfer(t) = [balance EXCEPT ![t.chan] = row]
  <2>1. balance = [ch \in Channels |-> balance[ch]]
    BY DEF BalanceInv
  <2>. QED  BY <2>1 DEF Transfer
<1>. HIDE DEF row
<1>6. balance = [ch \in Channels |-> balance[ch]]
  BY DEF BalanceInv
<1>. QED  BY <1>4, <1>5, <1>6

\* The invariant survives the payment.
LEMMA TransferKeepsBalances ==
  ASSUME BalanceInv, NEW t, t.chan \in Channels, t.src \in Ends[t.chan],
         t.dest = Peer(t.chan, t.src), t.amount \in Nat,
         t.amount <= balance[t.chan][t.src], balance' = Transfer(t)
  PROVE  BalanceInv'
<1>1. \A ch \in Channels \ {t.chan} : balance'[ch] = balance[ch]
  BY TransferProperties
<1>2. balance' = [ch \in Channels |-> balance'[ch]]
  BY TransferProperties
<1>3. /\ t.dest \in Ends[t.chan] /\ Ends[t.chan] = {t.src, t.dest}
      /\ Peer(t.chan, t.dest) = t.src
  BY PeerProperties
<1>4. /\ balance[t.chan][t.src] \in Nat /\ balance[t.chan][t.dest] \in Nat
      /\ balance[t.chan][t.src] + balance[t.chan][t.dest] <= Capacity[t.chan]
  BY <1>3 DEF BalanceInv
<1>5. /\ balance'[t.chan] \in [Ends[t.chan] -> Nat]
      /\ balance'[t.chan][t.src] = balance[t.chan][t.src] - t.amount
      /\ balance'[t.chan][t.dest] = balance[t.chan][t.dest] + t.amount
  BY TransferProperties
<1>6. \A n \in Ends[t.chan] :
        balance'[t.chan][n] + balance'[t.chan][Peer(t.chan, n)] <= Capacity[t.chan]
  BY <1>3, <1>4, <1>5
<1>. QED  BY <1>1, <1>2, <1>5, <1>6 DEF BalanceInv

\* The gap of a channel seen from either end.
LEMMA GapFromAnyEnd ==
  ASSUME NEW b, NEW ch \in Channels, b[ch] \in [Ends[ch] -> Nat],
         NEW n \in Ends[ch]
  PROVE  Gap(ch, b) = Abs(b[ch][n] - b[ch][Peer(ch, n)])
<1>1. PICK x \in Ends[ch] : Gap(ch, b) = Abs(b[ch][x] - b[ch][Peer(ch, x)])
  BY DEF Gap
<1>2. /\ Peer(ch, n) \in Ends[ch] /\ Ends[ch] = {n, Peer(ch, n)}
      /\ Peer(ch, Peer(ch, n)) = n
  BY PeerProperties
<1>3. b[ch][n] \in Nat /\ b[ch][Peer(ch, n)] \in Nat
  BY <1>2
<1>4. CASE x = n
  BY <1>1, <1>4
<1>5. CASE x = Peer(ch, n)
  BY <1>1, <1>2, <1>3, <1>5 DEF Abs
<1>. QED  BY <1>1, <1>2, <1>4, <1>5

\* Paying a fresh task narrows the gap of its channel.
LEMMA FreshPaymentNarrows ==
  ASSUME BalanceInv, NEW t, Formed(t), Fresh(t), DeltaThreshold >= 2,
         Payable(t), balance' = Transfer(t)
  PROVE  Gap(t.chan, balance') < Gap(t.chan, balance)
<1>1. /\ t.chan \in Channels /\ t.src \in Ends[t.chan]
      /\ t.dest = Peer(t.chan, t.src) /\ t.amount \in Nat /\ t.amount > 0
      /\ t.amount <= balance[t.chan][t.src]
  <2>1. t.chan \in Channels /\ t.amount \in Int
    BY DEF Formed, TaskSet
  <2>2. t.src \in Ends[t.chan] /\ balance[t.chan][t.src] \in Nat
    BY <2>1 DEF Formed, BalanceInv
  <2>. QED  BY <2>1, <2>2 DEF Formed, Payable
<1>. DEFINE cap == Capacity[t.chan]
            high == balance[t.chan][t.src]
            low == balance[t.chan][t.dest]
<1>2. /\ high \in Nat /\ low \in Nat /\ cap \in Nat
      /\ high + low <= cap
      /\ balance[t.chan] \in [Ends[t.chan] -> Nat]
  <2>1. t.dest \in Ends[t.chan]
    BY <1>1, PeerProperties
  <2>3. balance[t.chan] \in [Ends[t.chan] -> Nat]
    BY <1>1 DEF BalanceInv
  <2>2. high + low <= cap
    BY <1>1 DEF BalanceInv
  <2>. QED  BY <1>1, <2>1, <2>2, <2>3
<1>3. high - low >= DeltaThreshold /\ high - low >= 2
  BY <1>2 DEF Fresh
<1>4. PICK top \in Nat : t.amount = Clamped(Excess(cap, high), top)
  BY DEF Fresh
<1>5. /\ balance'[t.chan][t.src] = high - t.amount
      /\ balance'[t.chan][t.dest] = low + t.amount
      /\ balance'[t.chan] \in [Ends[t.chan] -> Nat]
  BY <1>1, TransferProperties
<1>. HIDE DEF cap, high, low
<1>6. Abs((high - t.amount) - (low + t.amount)) < Abs(high - low)
  BY <1>1, <1>2, <1>3, <1>4, ExcessNarrows
<1>7. Gap(t.chan, balance) = Abs(high - low)
  BY <1>1, <1>2, GapFromAnyEnd DEF high, low
<1>8. Gap(t.chan, balance') = Abs((high - t.amount) - (low + t.amount))
  <2>1. Gap(t.chan, balance') =
          Abs(balance'[t.chan][t.src] - balance'[t.chan][Peer(t.chan, t.src)])
    BY <1>1, <1>5, GapFromAnyEnd
  <2>. QED  BY <1>1, <1>5, <2>1
<1>. QED  BY <1>6, <1>7, <1>8

-----------------------------------------------------------------------------
(* The invariant.                                                          *)

\* The indices of the tasks still to be paid.
Pending ==
  CASE pc \in {"snapshot", "list", "execute", "pay"} ->
         {i \in DOMAIN tasks : i >= next}
    [] pc \in {"count", "save"} ->
         {i \in DOMAIN tasks : i > next}
    [] OTHER -> {}

ListInv ==
  /\ active \subseteq Channels
  /\ tasks \in Seq(TaskSet)
  /\ \A i \in DOMAIN tasks : Formed(tasks[i])
  /\ next \in Nat \ {0}
  /\ OneTaskPerChannel

\* As long as nobody else moves the balances of its channel, no task goes
\* stale.
FreshInv == \A i \in Pending : tasks[i].chan \in crossed \/ Fresh(tasks[i])

\* A task in hand is on the list.
InHandInv == pc \in {"pay", "count", "save"} => next \in DOMAIN tasks

Inv == BalanceInv /\ ListInv /\ FreshInv /\ InHandInv

\* A way two ends can share a channel.
LEMMA SplitsAreBalances ==
  ASSUME balance \in Splits
  PROVE  BalanceInv
<1>1. /\ balance \in [Channels -> UNION {Split(ch) : ch \in Channels}]
      /\ \A ch \in Channels : balance[ch] \in Split(ch)
  BY DEF Splits
<1>2. \A ch \in Channels : Share(ch) \in Nat /\ Share(ch) <= Capacity[ch]
  BY DEF Share
<1>3. balance = [ch \in Channels |-> balance[ch]]
  BY <1>1
<1>4. SUFFICES ASSUME NEW ch \in Channels
               PROVE  /\ balance[ch] \in [Ends[ch] -> Nat]
                      /\ \A n \in Ends[ch] :
                           balance[ch][n] + balance[ch][Peer(ch, n)] <= Capacity[ch]
  BY <1>3 DEF BalanceInv
<1>5. PICK m \in Ends[ch], k \in 0..Share(ch) :
        balance[ch] = [n \in Ends[ch] |-> IF n = m THEN k ELSE Share(ch) - k]
  BY <1>1 DEF Split
<1>6. k \in Nat /\ Share(ch) - k \in Nat /\ Share(ch) \in Nat
  BY <1>2
<1>7. ASSUME NEW n \in Ends[ch]
      PROVE  balance[ch][n] + balance[ch][Peer(ch, n)] <= Capacity[ch]
  <2>1. /\ Peer(ch, n) \in Ends[ch] /\ Peer(ch, n) # n
        /\ m = n \/ m = Peer(ch, n)
    BY PeerProperties
  <2>2. balance[ch][n] + balance[ch][Peer(ch, n)] = Share(ch)
    BY <1>5, <1>6, <2>1
  <2>. QED  BY <1>2, <2>2
<1>. QED  BY <1>5, <1>6, <1>7

LEMMA InitInv == Init => Inv
<1>. SUFFICES ASSUME Init PROVE Inv
  OBVIOUS
<1>1. BalanceInv
  BY SplitsAreBalances DEF Init
<1>2. ListInv
  BY DEF Init, ListInv, OneTaskPerChannel
<1>3. FreshInv
  BY DEF Init, FreshInv, Pending
<1>4. InHandInv
  BY DEF Init, InHandInv
<1>. QED  BY <1>1, <1>2, <1>3, <1>4 DEF Inv

\* A task stays fresh while its channel's balances stay.
LEMMA FreshnessIsOfOneChannel ==
  ASSUME NEW t, Fresh(t), balance'[t.chan] = balance[t.chan]
  PROVE  Fresh(t)'
BY DEF Fresh

\* The steps that leave balances and tasks alone and make nothing pending.
LEMMA QuietStep ==
  ASSUME Inv, UNCHANGED <<balance, active, tasks, crossed>>, next' \in Nat \ {0},
         Pending' \subseteq Pending, InHandInv'
  PROVE  Inv'
<1>1. BalanceInv'
  BY DEF Inv, BalanceInv
<1>2. ListInv'
  BY DEF Inv, ListInv, OneTaskPerChannel, Formed
<1>3. FreshInv'
  BY FreshnessIsOfOneChannel DEF Inv, FreshInv, Fresh
<1>. QED  BY <1>1, <1>2, <1>3 DEF Inv

\* A payment of the task in hand, with next the same or one further: that
\* task is not pending afterwards, the others are of other channels.
LEMMA PaymentStep ==
  ASSUME Inv, pc = "pay", Payable(Current), balance' = Transfer(Current),
         UNCHANGED <<active, tasks, crossed>>, next' \in Nat \ {0}, InHandInv',
         Pending' \subseteq {i \in DOMAIN tasks : i > next}
  PROVE  Inv'
<1>1. /\ Formed(Current) /\ Current.chan \in Channels
      /\ Current.src \in Ends[Current.chan]
      /\ Current.dest = Peer(Current.chan, Current.src)
      /\ Current.amount \in Nat
      /\ Current.amount <= balance[Current.chan][Current.src]
  <2>1. Formed(Current)
    BY DEF Inv, ListInv, InHandInv, Current
  <2>2. Current.chan \in Channels /\ Current.amount \in Int
    BY <2>1 DEF Formed, TaskSet
  <2>3. balance[Current.chan][Current.src] \in Nat
    BY <2>1, <2>2 DEF Inv, BalanceInv, Formed
  <2>. QED  BY <2>1, <2>2, <2>3 DEF Formed, Payable
<1>2. BalanceInv'
  BY <1>1, TransferKeepsBalances DEF Inv
<1>3. ListInv'
  BY DEF Inv, ListInv, OneTaskPerChannel, Formed
<1>4. ASSUME NEW i \in Pending', tasks[i].chan \notin crossed
      PROVE  Fresh(tasks[i])'
  <2>1. i \in DOMAIN tasks /\ i > next /\ i # next
    BY DEF Inv, ListInv
  <2>2. i \in Pending
    BY <2>1 DEF Pending, Inv, ListInv
  <2>3. Fresh(tasks[i]) /\ tasks[i].chan \in Channels
    BY <1>4, <2>1, <2>2 DEF Inv, FreshInv, ListInv, Formed, TaskSet
  <2>4. tasks[i].chan # Current.chan
    BY <2>1 DEF Inv, ListInv, InHandInv, OneTaskPerChannel, Current
  <2>5. balance'[tasks[i].chan] = balance[tasks[i].chan]
    BY <1>1, <2>3, <2>4, TransferProperties DEF Inv
  <2>6. tasks'[i] = tasks[i]
    OBVIOUS
  <2>. QED  BY <2>3, <2>5, <2>6 DEF Fresh
<1>5. FreshInv'
  BY <1>4 DEF FreshInv
<1>. QED  BY <1>2, <1>3, <1>5 DEF Inv

\* Listing a member appends fresh tasks of channels that had none.
LEMMA ListChannelsInv == Inv /\ ListChannels => Inv'
<1>. SUFFICES ASSUME Inv, ListChannels PROVE Inv'
  OBVIOUS
<1>. DEFINE more == Tasks(Head(toList))
<1>1. /\ more \in Seq(TaskSet)
      /\ \A i \in DOMAIN more : /\ Formed(more[i]) /\ Fresh(more[i])
                                /\ ~HasTask(tasks, more[i].chan)
      /\ \A i, j \in DOMAIN more : more[i].chan = more[j].chan => i = j
  BY TasksProperties DEF Inv, ListInv
<1>2. tasks' = tasks \o more /\ UNCHANGED <<balance, active, next, pc, crossed>>
  BY DEF ListChannels, world, book
<1>. HIDE DEF more
<1>3. /\ tasks \in Seq(TaskSet) /\ Len(tasks) \in Nat /\ Len(more) \in Nat
      /\ DOMAIN tasks = 1..Len(tasks) /\ DOMAIN more = 1..Len(more)
  BY <1>1 DEF Inv, ListInv
<1>4. /\ tasks' \in Seq(TaskSet) /\ DOMAIN tasks' = 1..(Len(tasks) + Len(more))
      /\ \A i \in DOMAIN tasks : tasks'[i] = tasks[i]
      /\ \A i \in DOMAIN tasks' \ DOMAIN tasks :
           i - Len(tasks) \in DOMAIN more /\ tasks'[i] = more[i - Len(tasks)]
  BY <1>1, <1>2, <1>3
<1>5. BalanceInv'
  BY <1>2 DEF Inv, BalanceInv
<1>6. \A i \in DOMAIN tasks' : Formed(tasks'[i])
  BY <1>1, <1>4 DEF Inv, ListInv
<1>7. OneTaskPerChannel'
  <2>1. SUFFICES ASSUME NEW i \in DOMAIN tasks', NEW j \in DOMAIN tasks',
                        tasks'[i].chan = tasks'[j].chan
                 PROVE  i = j
    BY DEF OneTaskPerChannel
  <2>2. CASE i \in DOMAIN tasks /\ j \in DOMAIN tasks
    BY <1>4, <2>1, <2>2 DEF Inv, ListInv, OneTaskPerChannel
  <2>3. CASE i \in DOMAIN tasks /\ j \notin DOMAIN tasks
    BY <1>1, <1>4, <2>1, <2>3 DEF HasTask
  <2>4. CASE i \notin DOMAIN tasks /\ j \in DOMAIN tasks
    BY <1>1, <1>4, <2>1, <2>4 DEF HasTask
  <2>5. CASE i \notin DOMAIN tasks /\ j \notin DOMAIN tasks
    <3>1. i - Len(tasks) = j - Len(tasks)
      BY <1>1, <1>4, <2>1, <2>5
    <3>. QED  BY <1>3, <1>4, <3>1
  <2>. QED  BY <2>2, <2>3, <2>4, <2>5
<1>8. ListInv'
  BY <1>2, <1>4, <1>6, <1>7 DEF Inv, ListInv, Formed
<1>9. ASSUME NEW i \in Pending', tasks'[i].chan \notin crossed
      PROVE  Fresh(tasks'[i])
  <2>1. i \in DOMAIN tasks' /\ pc = "list" /\ i >= next
    BY <1>2 DEF Pending, ListChannels
  <2>2. CASE i \in DOMAIN tasks
    BY <1>4, <1>9, <2>1, <2>2 DEF Inv, FreshInv, Pending
  <2>3. CASE i \notin DOMAIN tasks
    BY <1>1, <1>4, <2>1, <2>3
  <2>. QED  BY <2>2, <2>3
<1>10. FreshInv'
  <2>1. ASSUME NEW i \in Pending', tasks'[i].chan \notin crossed
        PROVE  Fresh(tasks[i])'
    BY <1>2, <1>9, <2>1 DEF Fresh
  <2>. QED  BY <1>2, <2>1 DEF FreshInv
<1>11. InHandInv'
  BY <1>2 DEF ListChannels, InHandInv
<1>. QED  BY <1>5, <1>8, <1>10, <1>11 DEF Inv

\* Nothing is pending in a call that has just begun.
LEMMA CallInv == Inv /\ Call => Inv'
<1>. SUFFICES ASSUME Inv, Call PROVE Inv'
  OBVIOUS
<1>1. BalanceInv'
  BY DEF Inv, BalanceInv, Call, world
<1>2. ListInv'
  BY DEF Inv, ListInv, OneTaskPerChannel, Call, world
<1>3. FreshInv'
  BY DEF Call, FreshInv, Pending
<1>4. InHandInv'
  BY DEF Call, InHandInv
<1>. QED  BY <1>1, <1>2, <1>3, <1>4 DEF Inv

\* A payment of others crosses the channel of a task, or leaves it fresh.
LEMMA OthersPayInv == Inv /\ OthersPay => Inv'
<1>. SUFFICES ASSUME Inv, OthersPay PROVE Inv'
  OBVIOUS
<1>. DEFINE payment(ch, src, amount) ==
       [chan |-> ch, src |-> src, dest |-> Peer(ch, src), amount |-> amount]
<1>1. PICK ch \in Channels : \E src \in Ends[ch] :
        \E amount \in 1..balance[ch][src] :
          /\ balance' = Transfer(payment(ch, src, amount))
          /\ crossed' = IF HasTask(tasks, ch) THEN crossed \cup {ch} ELSE crossed
  BY DEF OthersPay
<1>2. PICK src \in Ends[ch] : \E amount \in 1..balance[ch][src] :
        balance' = Transfer(payment(ch, src, amount))
  BY <1>1
<1>3. PICK amount \in 1..balance[ch][src] : balance' = Transfer(payment(ch, src, amount))
  BY <1>2
<1>4. balance[ch][src] \in Nat
  BY DEF Inv, BalanceInv
<1>5. BalanceInv'
  BY <1>3, <1>4, TransferKeepsBalances DEF Inv
<1>6. ListInv'
  BY DEF Inv, ListInv, OneTaskPerChannel, Formed, OthersPay, local
<1>7. FreshInv'
  <2>1. \A x \in Channels \ {ch} : balance'[x] = balance[x]
    BY <1>3, <1>4, TransferProperties DEF Inv
  <2>2. UNCHANGED <<tasks, next, pc>>
    BY DEF OthersPay, local
  <2>3. ASSUME NEW i \in Pending', tasks[i].chan \notin crossed'
        PROVE  Fresh(tasks[i])'
    <3>1. i \in Pending /\ i \in DOMAIN tasks
      BY <2>2, <2>3 DEF Pending
    <3>2. tasks[i].chan \in Channels
      BY <3>1 DEF Inv, ListInv, Formed, TaskSet
    <3>3. tasks[i].chan # ch /\ tasks[i].chan \notin crossed
      BY <1>1, <2>3, <3>1 DEF HasTask
    <3>4. Fresh(tasks[i])
      BY <3>1, <3>3 DEF Inv, FreshInv
    <3>. QED  BY <2>1, <2>2, <3>2, <3>3, <3>4 DEF Fresh
  <2>. QED  BY <2>2, <2>3 DEF FreshInv
<1>8. InHandInv'
  BY DEF OthersPay, Inv, InHandInv, local
<1>. QED  BY <1>5, <1>6, <1>7, <1>8 DEF Inv

LEMMA NextInv == Inv /\ [Next]_vars => Inv'
<1>. SUFFICES ASSUME Inv, [Next]_vars PROVE Inv'
  OBVIOUS
<1>. USE DEF world, local, book
<1>0. /\ next \in Nat \ {0} /\ Len(tasks) \in Nat /\ DOMAIN tasks = 1..Len(tasks)
      /\ InHandInv
  BY DEF Inv, ListInv
<1>1. CASE Call
  BY <1>1, CallInv
<1>2. CASE Snapshot
  BY <1>0, <1>2, QuietStep DEF Snapshot, Pending, InHandInv
<1>3. CASE ListChannels
  BY <1>3, ListChannelsInv
<1>4. CASE ListFails
  BY <1>0, <1>4, QuietStep DEF ListFails, Pending, InHandInv
<1>5. CASE ListDone
  BY <1>0, <1>5, QuietStep DEF ListDone, Pending, InHandInv
<1>6. CASE Execute
  BY <1>0, <1>6, QuietStep DEF Execute, Pending, InHandInv
<1>7. CASE EndpointGone
  BY <1>0, <1>7, QuietStep DEF EndpointGone, Pending, InHandInv
<1>8. CASE Pay
  <2>1. /\ Pending' = {i \in DOMAIN tasks : i > next} /\ next' \in Nat \ {0}
        /\ InHandInv'
    BY <1>0, <1>8 DEF Pay, Pending, InHandInv
  <2>. QED  BY <1>8, <2>1, PaymentStep DEF Pay
<1>9. CASE PayReportsFailure
  BY <1>0, <1>9, QuietStep DEF PayReportsFailure, Pending, InHandInv
<1>10. CASE PayThrows
  <2>1. /\ Pending' \subseteq {i \in DOMAIN tasks : i > next} /\ next' \in Nat \ {0}
        /\ InHandInv'
    BY <1>0, <1>10 DEF PayThrows, Pending, InHandInv
  <2>2. CASE UNCHANGED balance
    BY <1>0, <1>10, <2>1, <2>2, QuietStep DEF PayThrows, Pending, InHandInv
  <2>3. CASE Payable(Current) /\ balance' = Transfer(Current)
    BY <1>0, <1>10, <2>1, <2>3, PaymentStep DEF PayThrows
  <2>. QED  BY <1>10, <2>2, <2>3 DEF PayThrows
<1>11. CASE CountTask
  BY <1>0, <1>11, QuietStep DEF CountTask, Pending, InHandInv
<1>12. CASE Save
  BY <1>0, <1>12, QuietStep DEF Save, Pending, InHandInv
<1>13. CASE SaveFails
  BY <1>0, <1>13, QuietStep DEF SaveFails, Pending, InHandInv
<1>14. CASE Return
  BY <1>0, <1>14, QuietStep DEF Return, Pending, InHandInv
<1>15. CASE Resume
  BY <1>0, <1>15, QuietStep DEF Resume, Pending, InHandInv
<1>16. CASE Environment
  <2>1. CASE MembershipChanges
    BY <1>0, <2>1, QuietStep DEF MembershipChanges, Pending, InHandInv
  <2>2. CASE PeersChange
    <3>1. active' \subseteq Channels
      BY <2>2 DEF PeersChange, Inv, ListInv
    <3>2. UNCHANGED <<balance, tasks, next, pc, crossed>>
      BY <2>2 DEF PeersChange
    <3>. QED
      BY <3>1, <3>2 DEF Inv, BalanceInv, ListInv, OneTaskPerChannel, Formed,
                        FreshInv, Fresh, Pending, InHandInv
  <2>3. CASE OthersPay
    BY <2>3, OthersPayInv
  <2>. QED  BY <1>16, <2>1, <2>2, <2>3 DEF Environment
<1>17. CASE UNCHANGED vars
  BY <1>0, <1>17, QuietStep DEF vars, Pending, InHandInv
<1>. QED
  BY <1>1, <1>2, <1>3, <1>4, <1>5, <1>6, <1>7, <1>8, <1>9, <1>10, <1>11,
     <1>12, <1>13, <1>14, <1>15, <1>16, <1>17 DEF Next, Rebalancing

-----------------------------------------------------------------------------
\* Whatever the network, the limits and what happens during the call, the
\* list of RebalanceNodePool never has two tasks of a channel, so that no
\* channel is pushed twice.
THEOREM OneTask == Spec => []OneTaskPerChannel
<1>1. Inv => OneTaskPerChannel
  BY DEF Inv, ListInv
<1>. QED  BY <1>1, InitInv, NextInv, PTL DEF Spec

-----------------------------------------------------------------------------
(* The types, and what a call that dies has stored.                        *)

\* What the invariant does not say of the types.
RestInv ==
  /\ ready \in Seq(Nodes) /\ toList \in Seq(Nodes)
  /\ pc \in {"idle", "snapshot", "list", "execute", "pay", "count", "save",
             "returned", "faulted"}
  /\ members \subseteq Nodes
  /\ next <= Len(tasks) + 1
  /\ stats \in [count : Nat, amount : Int]
  /\ saved \subseteq Channels
  /\ broken \subseteq moved /\ moved \subseteq Channels /\ crossed \subseteq Channels
  /\ calls \in 0..MaxCalls /\ disturbed \in 0..MaxDisturbances

\* What was paid and answered is saved, except the task whose saving is still
\* to come, or was when the call died.
SavedInv ==
  HasSaveAction =>
    \A ch \in moved \ broken :
      \/ ch \in saved
      \/ /\ pc \in {"count", "save", "faulted", "idle"}
         /\ next \in DOMAIN tasks /\ Current.chan = ch

LEMMA InitRest == Init => RestInv /\ SavedInv
<1>. SUFFICES ASSUME Init PROVE RestInv /\ SavedInv
  OBVIOUS
<1>1. ready \in Seq(Pool) /\ IsFiniteSet(Pool)
  BY SetToSeqProperties DEF Init
<1>2. ready \in Seq(Nodes)
  BY <1>1
<1>. QED  BY <1>2 DEF Init, RestInv, SavedInv, NoStats

\* A nonempty set of naturals has the minimum SequencesExt looks for.
LEMMA MinInSet ==
  ASSUME NEW I \in SUBSET Nat, I # {}
  PROVE  Min(I) \in I
<1>1. PICK x \in I : \A y \in I : ~(<<y, x>> \in OpToRel(<, Nat))
  BY NatLessThanWellFounded, WFMin
<1>2. \A y \in I : x <= y
  <2>1. SUFFICES ASSUME NEW y \in I PROVE ~(y < x)
    BY SMT
  <2>2. <<y, x>> \in OpToRel(<, Nat) <=> y < x
    BY DEF OpToRel
  <2>. QED  BY <1>1, <2>2
<1>. QED  BY <1>2 DEF Min

\* List.Remove brings no new element.
LEMMA RemovedIsSeq ==
  ASSUME NEW S, NEW s \in Seq(S), NEW x
  PROVE  RemoveFirst(s, x) \in Seq(S)
<1>1. CASE ~Contains(s, x)
  BY <1>1 DEF Contains, RemoveFirst
<1>2. CASE Contains(s, x)
  <2>. DEFINE I == {i \in 1..Len(s) : s[i] = x}
  <2>1. I \in SUBSET Nat /\ I # {} /\ RemoveFirst(s, x) = RemoveAt(s, Min(I))
    BY <1>2 DEF Contains, RemoveFirst, SelectInSeq
  <2>2. PICK k \in 1..Len(s) : RemoveFirst(s, x) = RemoveAt(s, k)
    BY <2>1, MinInSet
  <2>3. SubSeq(s, 1, k - 1) \in Seq(S) /\ SubSeq(s, k + 1, Len(s)) \in Seq(S)
    <3>1. \A i \in 1..Len(s) : s[i] \in S
      BY ElementOfSeq
    <3>2. PICK m, n : m = k + 1 /\ n = Len(s)
      OBVIOUS
    <3>3. m \in Int /\ n \in Int /\ \A i \in m..n : s[i] \in S
      BY <3>1, <3>2, LenProperties
    <3>4. SubSeq(s, m, n) \in Seq(S)
      BY <3>3, SubSeqProperties
    <3>5. SubSeq(s, 1, k - 1) \in Seq(S)
      BY <3>1, SubSeqProperties, k - 1 \in Int, 1 \in Int, LenProperties
    <3>. QED  BY <3>2, <3>4, <3>5
  <2>. QED  BY <2>2, <2>3, ConcatProperties DEF RemoveAt
<1>. QED  BY <1>1, <1>2

\* The lists of nodes.
LEMMA NodeLists ==
  Inv /\ RestInv /\ [Next]_vars =>
    /\ ready' \in Seq(Nodes) /\ toList' \in Seq(Nodes) /\ members' \subseteq Nodes
<1>. SUFFICES ASSUME Inv, RestInv, [Next]_vars
              PROVE  ready' \in Seq(Nodes) /\ toList' \in Seq(Nodes) /\ members' \subseteq Nodes
  OBVIOUS
<1>. USE DEF world, local, book
<1>1. ready' \in Seq(Nodes)
  <2>1. ready' = ready \/ MembershipChanges
    BY DEF Next, Rebalancing, Environment, Call, Snapshot, ListChannels, ListFails, ListDone,
       Execute, EndpointGone, Pay, PayReportsFailure, PayThrows, CountTask, Save, SaveFails,
       Return, Resume, PeersChange, OthersPay, vars
  <2>2. CASE MembershipChanges
    <3>1. PICK n \in Nodes : ready' = RemoveFirst(ready, n) \/ ready' = Append(ready, n)
      BY <2>2 DEF MembershipChanges
    <3>2. ready \in Seq(Nodes)
      BY DEF RestInv
    <3>3. RemoveFirst(ready, n) \in Seq(Nodes) /\ Append(ready, n) \in Seq(Nodes)
      BY <3>2, RemovedIsSeq, AppendProperties
    <3>. QED  BY <3>1, <3>3
  <2>. QED  BY <2>1, <2>2 DEF RestInv
<1>2. /\ toList' \in {toList, ready, <<>>} \/ (toList # <<>> /\ toList' = Tail(toList))
      /\ members' = members \/ members' = ToSet(ready)
  BY DEF Next, Rebalancing, Environment, Call, Snapshot, ListChannels, ListFails, ListDone,
     Execute, EndpointGone, Pay, PayReportsFailure, PayThrows, CountTask, Save, SaveFails,
     Return, Resume, MembershipChanges, PeersChange, OthersPay, vars
<1>3. toList' \in Seq(Nodes)
  <2>1. toList \in Seq(Nodes) /\ ready \in Seq(Nodes) /\ <<>> \in Seq(Nodes)
    BY DEF RestInv
  <2>2. toList # <<>> => Tail(toList) \in Seq(Nodes)
    BY <2>1
  <2>. QED  BY <1>2, <2>1, <2>2
<1>4. members' \subseteq Nodes
  BY <1>2 DEF RestInv, ToSet
<1>. QED  BY <1>1, <1>3, <1>4

\* Channels others have paid over.
LEMMA CrossedChannels == RestInv /\ [Next]_vars => crossed' \subseteq Channels
<1>. SUFFICES ASSUME RestInv, [Next]_vars PROVE crossed' \subseteq Channels
  OBVIOUS
<1>1. crossed' \in {crossed, {}} \/ \E ch \in Channels : crossed' = crossed \cup {ch}
  <2>1. CASE Environment /\ OthersPay
    BY <2>1 DEF OthersPay
  <2>2. CASE ~(Environment /\ OthersPay)
    BY <2>2 DEF Next, Rebalancing, Environment, Call, Snapshot, ListChannels, ListFails,
       ListDone, Execute, EndpointGone, Pay, PayReportsFailure, PayThrows, CountTask, Save,
       SaveFails, Return, Resume, MembershipChanges, PeersChange, vars, book
  <2>. QED  BY <2>1, <2>2
<1>. QED  BY <1>1 DEF RestInv

\* The counters of the model and the books of the call.
LEMMA NextRest == Inv /\ RestInv /\ SavedInv /\ [Next]_vars => RestInv' /\ SavedInv'
<1>. SUFFICES ASSUME Inv, RestInv, SavedInv, [Next]_vars PROVE RestInv' /\ SavedInv'
  OBVIOUS
<1>. USE DEF world, local, book
<1>1. /\ ready' \in Seq(Nodes) /\ toList' \in Seq(Nodes) /\ members' \subseteq Nodes
      /\ crossed' \subseteq Channels
  BY NodeLists, CrossedChannels
<1>2. /\ next \in Nat \ {0} /\ Len(tasks) \in Nat /\ DOMAIN tasks = 1..Len(tasks)
      /\ tasks \in Seq(TaskSet) /\ \A i \in DOMAIN tasks : tasks[i] \in TaskSet
  BY DEF Inv, ListInv
<1>3. pc \in {"pay", "count", "save"} =>
        next \in DOMAIN tasks /\ Current.chan \in Channels /\ Current.amount \in Int
  BY <1>2 DEF Inv, InHandInv, Current, TaskSet
<1>4. CASE \/ Snapshot \/ ListFails \/ ListDone \/ Execute \/ EndpointGone \/ PayReportsFailure
           \/ SaveFails \/ Return \/ Resume \/ Environment \/ UNCHANGED vars
  <2>1. /\ UNCHANGED <<tasks, next, stats, saved, moved, broken, calls>>
        /\ disturbed' \in 0..MaxDisturbances
        /\ pc' \in {"idle", "snapshot", "list", "execute", "pay", "count", "save",
                    "returned", "faulted"}
    BY <1>4 DEF RestInv, Snapshot, ListFails, ListDone, Execute, EndpointGone,
                PayReportsFailure, SaveFails, Return, Resume, Environment, MembershipChanges,
                PeersChange, OthersPay, vars
  <2>2. pc \in {"count", "save", "faulted", "idle"} =>
          pc' \in {"count", "save", "faulted", "idle"}
    BY <1>4 DEF Snapshot, ListFails, ListDone, Execute, EndpointGone, PayReportsFailure,
                SaveFails, Return, Resume, Environment, MembershipChanges, PeersChange,
                OthersPay, vars
  <2>3. RestInv'
    BY <1>1, <2>1 DEF RestInv
  <2>4. SavedInv'
    BY <2>1, <2>2 DEF SavedInv, Current
  <2>. QED  BY <2>3, <2>4
<1>5. CASE Call
  <2>1. /\ tasks' = <<>> /\ next' = 1 /\ stats' = NoStats /\ saved' = {} /\ moved' = {}
        /\ broken' = {} /\ pc' = "snapshot" /\ calls' = calls + 1 /\ calls < MaxCalls
        /\ UNCHANGED disturbed
    BY <1>5 DEF Call
  <2>2. RestInv'
    BY <1>1, <2>1 DEF RestInv, NoStats
  <2>. QED  BY <2>1, <2>2 DEF SavedInv
<1>6. CASE ListChannels
  <2>1. /\ UNCHANGED <<next, stats, saved, moved, broken, calls, disturbed, pc>> /\ pc = "list"
        /\ tasks' = tasks \o Tasks(Head(toList))
    BY <1>6 DEF ListChannels
  <2>2. Tasks(Head(toList)) \in Seq(TaskSet)
    BY TasksProperties DEF Inv, ListInv
  <2>3. Len(tasks') >= Len(tasks)
    BY <1>2, <2>1, <2>2
  <2>4. RestInv'
    BY <1>1, <1>2, <2>1, <2>2, <2>3 DEF RestInv
  <2>. QED  BY <2>1, <2>4 DEF SavedInv
<1>7. CASE Pay
  <2>1. /\ UNCHANGED <<tasks, next, stats, saved, broken, calls, disturbed>>
        /\ pc = "pay" /\ pc' = "count" /\ moved' = moved \cup {Current.chan}
    BY <1>7 DEF Pay
  <2>2. RestInv'
    BY <1>1, <1>3, <2>1 DEF RestInv
  <2>3. SavedInv'
    BY <1>3, <2>1 DEF SavedInv, Current
  <2>. QED  BY <2>2, <2>3
<1>8. CASE PayThrows
  <2>1. /\ UNCHANGED <<tasks, stats, saved, calls, disturbed>>
        /\ pc = "pay" /\ pc' = "execute" /\ next' = next + 1
        /\ \/ UNCHANGED <<moved, broken>>
           \/ moved' = moved \cup {Current.chan} /\ broken' = broken \cup {Current.chan}
    BY <1>8 DEF PayThrows
  <2>2. RestInv'
    BY <1>1, <1>2, <1>3, <2>1 DEF RestInv
  <2>3. SavedInv'
    BY <2>1 DEF SavedInv
  <2>. QED  BY <2>2, <2>3
<1>9. CASE CountTask
  <2>1. /\ UNCHANGED <<tasks, saved, moved, broken, calls, disturbed>> /\ pc = "count"
        /\ stats' = [count |-> stats.count + 1, amount |-> stats.amount + Current.amount]
        /\ \/ HasSaveAction /\ pc' = "save" /\ UNCHANGED next
           \/ ~HasSaveAction /\ pc' = "execute" /\ next' = next + 1
    BY <1>9 DEF CountTask
  <2>2. RestInv'
    BY <1>1, <1>2, <1>3, <2>1 DEF RestInv
  <2>3. SavedInv'
    BY <2>1 DEF SavedInv, Current
  <2>. QED  BY <2>2, <2>3
<1>10. CASE Save
  <2>1. /\ UNCHANGED <<tasks, stats, moved, broken, calls, disturbed>>
        /\ pc = "save" /\ pc' = "execute" /\ next' = next + 1
        /\ saved' = saved \cup {Current.chan}
    BY <1>10 DEF Save
  <2>2. RestInv'
    BY <1>1, <1>2, <1>3, <2>1 DEF RestInv
  <2>3. SavedInv'
    BY <2>1 DEF SavedInv
  <2>. QED  BY <2>2, <2>3
<1>. QED
  BY <1>4, <1>5, <1>6, <1>7, <1>8, <1>9, <1>10 DEF Next, Rebalancing

LEMMA AllInvariant == Spec => [](Inv /\ RestInv /\ SavedInv)
<1>1. Init => Inv /\ RestInv /\ SavedInv
  BY InitInv, InitRest
<1>2. Inv /\ RestInv /\ SavedInv /\ [Next]_vars => (Inv /\ RestInv /\ SavedInv)'
  BY NextInv, NextRest
<1>. QED  BY <1>1, <1>2, PTL DEF Spec

\* Every variable has its type: no balance falls below zero, whoever pays, and
\* the task in hand is one of the list.
THEOREM TypeCorrect == Spec => []TypeOK
<1>1. Inv /\ RestInv => TypeOK
  BY DEF Inv, BalanceInv, ListInv, RestInv, TypeOK
<1>. QED  BY <1>1, AllInvariant, PTL

\* In whatever way a call of RebalanceNodePool dies, every task that was paid
\* and answered has been saved, except at most the one in hand.
THEOREM SavesWhatItPaid == Spec => []PaidIsSaved
<1>1. Inv /\ SavedInv => PaidIsSaved
  <2>1. Inv => (next \in DOMAIN tasks => next <= Len(tasks))
    BY DEF Inv, ListInv
  <2>. QED  BY <2>1 DEF SavedInv, PaidIsSaved
<1>. QED  BY <1>1, AllInvariant, PTL

\* If the threshold is at least two satoshi, every payment of
\* InvoicePayRebalance narrows the gap of its channel, however many awaits,
\* payments and changes of peers and of ReadyNodes lie between the listing and
\* the payment, unless others have paid over that channel since.
THEOREM PaymentsNarrow ==
  ASSUME DeltaThreshold >= 2
  PROVE  Spec => PaymentsNarrowGaps
<1>. DEFINE Narrows ==
       disturbed' = disturbed =>
         \A ch \in Channels \ crossed :
           balance'[ch] # balance[ch] => Gap(ch, balance') < Gap(ch, balance)
<1>1. ASSUME Inv, pc = "pay", Payable(Current), balance' = Transfer(Current)
      PROVE  Narrows
  <2>1. /\ Formed(Current)
        /\ Current.chan \in crossed \/ Fresh(Current)
    BY <1>1 DEF Inv, ListInv, FreshInv, InHandInv, Pending, Current
  <2>2. /\ Current.chan \in Channels /\ Current.src \in Ends[Current.chan]
        /\ Current.dest = Peer(Current.chan, Current.src)
        /\ Current.amount \in Int
    BY <2>1 DEF Formed, TaskSet
  <2>3. balance[Current.chan][Current.src] \in Nat
    BY <1>1, <2>2 DEF Inv, BalanceInv
  <2>4. \A ch \in Channels \ {Current.chan} : balance'[ch] = balance[ch]
    <3>1. Current.amount \in Nat /\ Current.amount <= balance[Current.chan][Current.src]
      BY <1>1, <2>2, <2>3 DEF Payable
    <3>. QED  BY <1>1, <2>2, <3>1, TransferProperties DEF Inv
  <2>5. Current.chan \in crossed
          \/ Gap(Current.chan, balance') < Gap(Current.chan, balance)
    BY <1>1, <2>1, FreshPaymentNarrows DEF Inv
  <2>. QED  BY <2>4, <2>5
<1>2. ASSUME Inv, RestInv, [Next]_vars PROVE Narrows \/ UNCHANGED vars
  <2>1. CASE Pay
    BY <1>1, <1>2, <2>1 DEF Pay
  <2>2. CASE PayThrows
    BY <1>1, <1>2, <2>2 DEF PayThrows
  <2>3. CASE Environment /\ OthersPay
    <3>1. disturbed' # disturbed
      BY <1>2, <2>3 DEF Environment, RestInv
    <3>. QED  BY <3>1
  <2>4. CASE ~Pay /\ ~PayThrows /\ ~(Environment /\ OthersPay)
    BY <1>2, <2>4 DEF Next, Rebalancing, Environment, Call, Snapshot, ListChannels,
       ListFails, ListDone, Execute, EndpointGone, PayReportsFailure, CountTask,
       Save, SaveFails, Return, Resume, MembershipChanges, PeersChange, vars, world
  <2>. QED  BY <2>1, <2>2, <2>3, <2>4
<1>3. Inv /\ RestInv /\ [Next]_vars => [Narrows]_vars
  BY <1>2
<1>. QED  BY <1>3, AllInvariant, PTL DEF Spec, PaymentsNarrowGaps

-----------------------------------------------------------------------------
(* What an undisturbed call leaves.                                        *)

\* The channels of n to other members have a task or are not worth one.
Judged(n) ==
  \A ch \in active : n \in Ends[ch] /\ Peer(ch, n) \in members =>
    HasTask(tasks, ch) \/ ~Worthwhile(ch, n, balance)

\* A task not paid yet is for what its source has too much at this moment.
Exact(t) ==
  t.amount = Clamped(Excess(Capacity[t.chan], balance[t.chan][t.src]),
                     Ceiling(t.chan, t.src))

\* A task that was cut, or has left its source with half of the capacity, or
\* is not for LND to pay.
Settled(t) ==
  \/ t.amount = Ceiling(t.chan, t.src) - 1
  \/ t.chan \in moved /\ balance[t.chan][t.src] = Capacity[t.chan] \div 2
  \/ t.chan \notin moved /\ ("failures" \in Disturbances \/ ~Payable(t))

Executing == pc \in {"execute", "pay", "count", "save", "returned"}

UndisturbedInv ==
  disturbed = 0 =>
    /\ pc = "snapshot" => members = ToSet(ready)
    /\ pc \in {"snapshot", "list"} => moved = {} /\ next = 1
    /\ pc = "list" => \A n \in members : n \in ToSet(toList) \/ Judged(n)
    /\ Executing => \A n \in members : Judged(n)
    /\ \A i \in Pending : Exact(tasks[i]) /\ tasks[i].chan \notin moved
    /\ Executing => \A i \in DOMAIN tasks \ Pending : Settled(tasks[i])

\* SetToSeq lists the whole set.
LEMMA SetToSeqCovers ==
  ASSUME NEW S, IsFiniteSet(S)
  PROVE  \A x \in S : \E i \in DOMAIN SetToSeq(S) : SetToSeq(S)[i] = x
<1>1. PICK f : f \in Bijection(1..Cardinality(S), S)
  BY FS_CardinalityType DEF ExistsBijection
<1>2. f \in [1..Cardinality(S) -> S] /\ IsInjective(f)
  BY <1>1 DEF Bijection, Injection, IsInjective
<1>3. /\ SetToSeq(S) \in [1..Cardinality(S) -> S]
      /\ IsInjective(SetToSeq(S))
  BY <1>2 DEF SetToSeq
<1>. DEFINE g == SetToSeq(S)
            T == {g[i] : i \in DOMAIN g}
<1>4. g \in Bijection(1..Cardinality(S), T)
  BY <1>3 DEF Bijection, Injection, Surjection, IsInjective
<1>5. T \in SUBSET S
  BY <1>3
<1>6. Cardinality(T) = Cardinality(S)
  <2>1. IsFiniteSet(T)
    BY <1>5, FS_Subset
  <2>2. Cardinality(S) \in Nat /\ ExistsBijection(1..Cardinality(S), T)
    BY <1>4, FS_CardinalityType DEF ExistsBijection
  <2>. HIDE DEF T
  <2>. QED  BY <2>1, <2>2, FS_CountingElements
<1>7. T = S
  <2>. HIDE DEF T
  <2>. QED  BY <1>5, <1>6, FS_Subset
<1>. QED  BY <1>7

\* The limits are the same from both ends.
LEMMA LimitsOfBothEnds ==
  ASSUME NEW ch \in Channels, NEW n \in Ends[ch]
  PROVE  /\ Ceiling(ch, Peer(ch, n)) = Ceiling(ch, n)
         /\ Floor(ch, Peer(ch, n)) = Floor(ch, n)
         /\ Ceiling(ch, n) \in Nat /\ Floor(ch, n) \in Nat
<1>1. Peer(ch, n) \in Ends[ch] /\ Peer(ch, Peer(ch, n)) = n
  BY PeerProperties
<1>2. /\ MaxPendingMsat[ch][n] \in Nat /\ MaxPendingMsat[ch][Peer(ch, n)] \in Nat
      /\ MinHtlcMsat[ch][n] \in Nat /\ MinHtlcMsat[ch][Peer(ch, n)] \in Nat
  BY <1>1
<1>. QED  BY <1>1, <1>2 DEF Ceiling, Floor, Larger, Smaller

\* The tasks of one member are exact, and every channel chosen has one.
LEMMA TasksExact ==
  ASSUME BalanceInv, active \subseteq Channels, NEW n
  PROVE  /\ \A i \in DOMAIN Tasks(n) : Exact(Tasks(n)[i])
         /\ \A ch \in Chosen(n) : HasTask(Tasks(n), ch)
<1>. DEFINE chosen == SetToSeq(Chosen(n))
<1>1. Chosen(n) \subseteq Channels /\ \A ch \in Chosen(n) : n \in Ends[ch]
  BY DEF Chosen
<1>2. IsFiniteSet(Chosen(n))
  BY <1>1, FS_Subset
<1>3. /\ \A ch \in Chosen(n) : \E i \in DOMAIN chosen : chosen[i] = ch
      /\ \A i \in DOMAIN chosen : chosen[i] \in Chosen(n)
  BY <1>2, SetToSeqCovers, SetToSeqProperties
<1>. HIDE DEF chosen
<1>4. Tasks(n) = [i \in DOMAIN chosen |-> Task(chosen[i], n, balance)]
  BY DEF Tasks, chosen
<1>5. ASSUME NEW ch \in Channels, n \in Ends[ch]
      PROVE  Exact(Task(ch, n, balance)) /\ Task(ch, n, balance).chan = ch
  <2>1. Ceiling(ch, Peer(ch, n)) = Ceiling(ch, n)
    BY <1>5, LimitsOfBothEnds
  <2>. QED  BY <2>1 DEF Task, Exact
<1>. QED  BY <1>1, <1>3, <1>4, <1>5 DEF HasTask

\* Other channels do not matter to a channel or its task.
LEMMA OneChannelOnly ==
  ASSUME BalanceInv, BalanceInv', UNCHANGED active
  PROVE  /\ \A ch \in Channels, n \in Nodes :
              n \in Ends[ch] /\ balance'[ch] = balance[ch] =>
                (Worthwhile(ch, n, balance') <=> Worthwhile(ch, n, balance))
         /\ \A t : balance'[t.chan] = balance[t.chan] =>
              (Payable(t)' <=> Payable(t)) /\ (Exact(t)' <=> Exact(t))
<1>1. \A ch \in Channels, n \in Nodes :
        n \in Ends[ch] /\ balance'[ch] = balance[ch] =>
          (Worthwhile(ch, n, balance') <=> Worthwhile(ch, n, balance))
  BY DEF Worthwhile
<1>2. \A t : balance'[t.chan] = balance[t.chan] =>
        (Payable(t)' <=> Payable(t)) /\ (Exact(t)' <=> Exact(t))
  BY DEF Payable, Exact
<1>. QED  BY <1>1, <1>2

\* Steps that leave the task list and the balances alone.
LEMMA UndisturbedQuiet ==
  ASSUME UndisturbedInv, UNCHANGED <<balance, active, tasks, members, moved, disturbed>>,
         Pending' \subseteq Pending,
         disturbed = 0 /\ Executing' =>
           /\ \A n \in members : Judged(n)
           /\ \A i \in DOMAIN tasks \ Pending' : Settled(tasks[i]),
         disturbed = 0 => pc' # "snapshot",
         disturbed = 0 /\ pc' = "list" =>
           /\ moved = {} /\ next' = 1
           /\ \A n \in members : n \in ToSet(toList') \/ Judged(n)
  PROVE  UndisturbedInv'
<1>1. \A n : Judged(n)' <=> Judged(n)
  BY DEF Judged
<1>2. \A t : (Exact(t)' <=> Exact(t)) /\ (Settled(t)' <=> Settled(t))
  BY DEF Exact, Settled, Payable
<1>. QED  BY <1>1, <1>2 DEF UndisturbedInv

\* Listing a member makes a task of each of its channels that is worth one.
LEMMA UndisturbedListing ==
  ASSUME Inv, RestInv, UndisturbedInv, ListChannels
  PROVE  UndisturbedInv'
<1>. DEFINE who == Head(toList)
            more == Tasks(who)
<1>1. /\ tasks' = tasks \o more /\ toList' = Tail(toList) /\ toList # <<>>
      /\ pc = "list" /\ pc' = "list"
      /\ UNCHANGED <<balance, active, next, members, moved, disturbed>>
  BY DEF ListChannels, world, book
<1>2. /\ more \in Seq(TaskSet) /\ \A i \in DOMAIN more : Exact(more[i])
      /\ \A ch \in Chosen(who) : HasTask(more, ch)
  BY TasksProperties, TasksExact DEF Inv, ListInv
<1>. HIDE DEF more
<1>3. /\ tasks \in Seq(TaskSet) /\ Len(tasks) \in Nat /\ Len(more) \in Nat
      /\ DOMAIN tasks = 1..Len(tasks) /\ DOMAIN more = 1..Len(more)
  BY <1>2 DEF Inv, ListInv
<1>4. /\ DOMAIN tasks' = 1..(Len(tasks) + Len(more))
      /\ \A i \in DOMAIN tasks : tasks'[i] = tasks[i]
      /\ \A i \in DOMAIN tasks' \ DOMAIN tasks :
           i - Len(tasks) \in DOMAIN more /\ tasks'[i] = more[i - Len(tasks)]
      /\ \A j \in DOMAIN more :
           j + Len(tasks) \in DOMAIN tasks' /\ tasks'[j + Len(tasks)] = more[j]
  BY <1>1, <1>2, <1>3
<1>5. \A ch : HasTask(tasks, ch) \/ HasTask(more, ch) => HasTask(tasks', ch)
  BY <1>3, <1>4 DEF HasTask
<1>6. ASSUME NEW n \in members, Judged(n)
      PROVE  Judged(n)'
  BY <1>1, <1>5, <1>6 DEF Judged
<1>7. ASSUME NEW n \in members, n = who
      PROVE  Judged(n)'
  <2>1. SUFFICES ASSUME NEW ch \in active, n \in Ends[ch], Peer(ch, n) \in members,
                        ~HasTask(tasks', ch)
                 PROVE  ~Worthwhile(ch, n, balance)
    BY <1>1 DEF Judged
  <2>2. ~HasTask(tasks, ch) /\ ch \notin Chosen(n)
    BY <1>2, <1>5, <1>7, <2>1
  <2>. QED  BY <2>1, <2>2 DEF Chosen
<1>8. \A n \in ToSet(toList) : n = who \/ n \in ToSet(toList')
  <2>1. toList \in Seq(Nodes) /\ toList # <<>>
    BY <1>1 DEF RestInv
  <2>2. \A i \in DOMAIN toList : i = 1 \/ i - 1 \in DOMAIN toList'
    BY <1>1, <2>1
  <2>3. \A i \in DOMAIN toList' : toList'[i] = toList[i + 1]
    BY <1>1, <2>1
  <2>. QED  BY <2>1, <2>2, <2>3 DEF ToSet
<1>9. SUFFICES ASSUME disturbed = 0 PROVE UndisturbedInv'
  BY <1>1 DEF UndisturbedInv
<1>10. /\ moved = {} /\ next = 1
       /\ \A n \in members : n \in ToSet(toList) \/ Judged(n)
       /\ \A i \in DOMAIN tasks : Exact(tasks[i])
  BY <1>1, <1>3, <1>9 DEF UndisturbedInv, Pending
<1>11. \A n \in members : n \in ToSet(toList') \/ Judged(n)'
  BY <1>6, <1>7, <1>8, <1>10
<1>12. \A i \in DOMAIN tasks' : Exact(tasks'[i])
  BY <1>2, <1>3, <1>4, <1>10
<1>13. \A i \in DOMAIN tasks' : Exact(tasks[i])'
  BY <1>1, <1>12 DEF Exact
<1>14. Pending' \subseteq DOMAIN tasks' /\ ~Executing'
  BY <1>1 DEF Pending, Executing
<1>. QED  BY <1>1, <1>10, <1>11, <1>13, <1>14 DEF UndisturbedInv

\* The payment of the task in hand settles it and leaves the others alone.
LEMMA UndisturbedPayment ==
  ASSUME Inv, UndisturbedInv, pc = "pay", Payable(Current), balance' = Transfer(Current),
         moved' = moved \cup {Current.chan}, BalanceInv',
         UNCHANGED <<active, tasks, members, disturbed>>,
         Pending' = {i \in DOMAIN tasks : i > next}, pc' \in {"count", "execute"}
  PROVE  UndisturbedInv'
<1>. SUFFICES ASSUME disturbed = 0 PROVE UndisturbedInv'
  BY DEF UndisturbedInv
<1>1. /\ Formed(Current) /\ Current.chan \in Channels
      /\ Current.src \in Ends[Current.chan]
      /\ Current.dest = Peer(Current.chan, Current.src)
      /\ Current.amount \in Nat
      /\ balance[Current.chan][Current.src] \in Nat
      /\ Current.amount <= balance[Current.chan][Current.src]
  <2>1. Formed(Current)
    BY DEF Inv, ListInv, InHandInv, Current
  <2>2. Current.chan \in Channels /\ Current.amount \in Int
    BY <2>1 DEF Formed, TaskSet
  <2>3. balance[Current.chan][Current.src] \in Nat
    BY <2>1, <2>2 DEF Inv, BalanceInv, Formed
  <2>. QED  BY <2>1, <2>2, <2>3 DEF Formed, Payable
<1>2. /\ balance'[Current.chan][Current.src] =
           balance[Current.chan][Current.src] - Current.amount
      /\ \A ch \in Channels \ {Current.chan} : balance'[ch] = balance[ch]
  BY <1>1, TransferProperties DEF Inv
<1>3. /\ next \in DOMAIN tasks /\ tasks \in Seq(TaskSet) /\ active \subseteq Channels
      /\ \A i \in DOMAIN tasks : tasks[i].chan \in Channels
      /\ \A i \in DOMAIN tasks : i # next => tasks[i].chan # Current.chan
      /\ next \in Nat /\ \A i \in DOMAIN tasks : i \in Nat
  <2>1. /\ next \in DOMAIN tasks /\ tasks \in Seq(TaskSet) /\ active \subseteq Channels
        /\ next \in Nat /\ \A i \in DOMAIN tasks : tasks[i] \in TaskSet
    BY DEF Inv, ListInv, InHandInv
  <2>2. \A i \in DOMAIN tasks : i # next => tasks[i].chan # Current.chan
    BY <2>1 DEF Inv, ListInv, OneTaskPerChannel, Current
  <2>. QED  BY <2>1, <2>2 DEF TaskSet
<1>4. Pending = {i \in DOMAIN tasks : i >= next}
  BY DEF Pending
<1>5. ASSUME NEW n \in members PROVE Judged(n)'
  <2>1. Judged(n)
    BY DEF UndisturbedInv, Executing
  <2>2. SUFFICES ASSUME NEW ch \in active, n \in Ends[ch], Peer(ch, n) \in members,
                        ~HasTask(tasks, ch)
                 PROVE  ~Worthwhile(ch, n, balance')
    BY DEF Judged
  <2>3. ch # Current.chan /\ ch \in Channels
    BY <1>3, <2>2 DEF HasTask, Current
  <2>4. n \in Nodes
    BY <2>2, <2>3
  <2>5. ~Worthwhile(ch, n, balance)
    BY <2>1, <2>2 DEF Judged
  <2>. QED  BY <1>2, <2>2, <2>3, <2>4, <2>5, OneChannelOnly DEF Inv
<1>6. ASSUME NEW i \in DOMAIN tasks, i # next
      PROVE  /\ Exact(tasks[i]) => Exact(tasks[i])'
             /\ Settled(tasks[i]) => Settled(tasks[i])'
             /\ tasks[i].chan \in moved' <=> tasks[i].chan \in moved
  <2>1. balance'[tasks[i].chan] = balance[tasks[i].chan] /\ tasks[i].chan # Current.chan
    BY <1>2, <1>3, <1>6
  <2>. QED  BY <2>1 DEF Exact, Settled, Payable
<1>7. Exact(Current)
  BY <1>3, <1>4 DEF UndisturbedInv, Current
<1>8. ASSUME NEW i \in DOMAIN tasks, i = next
      PROVE  Settled(tasks[i])'
  <2>0. tasks'[i] = Current
    BY <1>8 DEF Current
  <2>1. CASE Current.amount = Ceiling(Current.chan, Current.src) - 1
    BY <2>0, <2>1 DEF Settled
  <2>2. CASE Current.amount # Ceiling(Current.chan, Current.src) - 1
    <3>1. /\ Current.amount = balance[Current.chan][Current.src]
                                - Capacity[Current.chan] \div 2
          /\ Capacity[Current.chan] \div 2 \in Int
      BY <1>1, <1>7, <2>2 DEF Exact, Clamped, Excess
    <3>2. balance'[Current.chan][Current.src] = Capacity[Current.chan] \div 2
      BY <1>1, <1>2, <3>1
    <3>. QED  BY <2>0, <3>2 DEF Settled
  <2>. QED  BY <2>1, <2>2
<1>9. \A i \in Pending' : Exact(tasks[i])' /\ tasks[i].chan \notin moved'
  BY <1>3, <1>4, <1>6 DEF UndisturbedInv
<1>10. \A i \in DOMAIN tasks \ Pending' : Settled(tasks[i])'
  <2>1. SUFFICES ASSUME NEW i \in DOMAIN tasks, ~(i > next) PROVE Settled(tasks[i])'
    OBVIOUS
  <2>2. CASE i = next
    BY <1>8, <2>2
  <2>3. CASE i # next
    <3>1. i \notin Pending
      BY <1>3, <1>4, <2>1, <2>3
    <3>. QED  BY <1>6, <2>3, <3>1 DEF UndisturbedInv, Executing
  <2>. QED  BY <2>2, <2>3
<1>. QED  BY <1>5, <1>9, <1>10 DEF UndisturbedInv

LEMMA NextUndisturbed ==
  Inv /\ RestInv /\ UndisturbedInv /\ Inv' /\ [Next]_vars => UndisturbedInv'
<1>. SUFFICES ASSUME Inv, RestInv, UndisturbedInv, Inv', [Next]_vars PROVE UndisturbedInv'
  OBVIOUS
<1>. USE DEF world, local, book
<1>0. /\ next \in Nat \ {0} /\ Len(tasks) \in Nat /\ DOMAIN tasks = 1..Len(tasks)
      /\ InHandInv /\ BalanceInv' /\ disturbed \in Nat
  BY DEF Inv, ListInv, RestInv
<1>1. CASE Call
  <2>1. /\ pc' = "snapshot" /\ members' = ToSet(ready) /\ tasks' = <<>> /\ moved' = {}
        /\ next' = 1 /\ UNCHANGED ready
    BY <1>1 DEF Call
  <2>. QED  BY <2>1 DEF UndisturbedInv, Pending, Executing
<1>2. CASE Snapshot
  <2>1. /\ pc = "snapshot" /\ pc' = "list" /\ toList' = ready
        /\ UNCHANGED <<world, members, tasks, next, moved>> /\ Pending' = Pending
    BY <1>2 DEF Snapshot, Pending
  <2>2. disturbed = 0 => moved = {} /\ next = 1 /\ members = ToSet(toList')
    BY <2>1 DEF UndisturbedInv
  <2>. QED  BY <2>1, <2>2, UndisturbedQuiet DEF Executing
<1>3. CASE ListChannels
  BY <1>3, UndisturbedListing
<1>4. CASE ListFails
  <2>1. /\ pc' = "faulted" /\ UNCHANGED <<world, members, tasks, moved>> /\ Pending' = {}
    BY <1>4 DEF ListFails, Pending
  <2>. QED  BY <2>1, UndisturbedQuiet DEF Executing
<1>5. CASE ListDone
  <2>1. /\ pc = "list" /\ pc' = "execute" /\ toList = <<>>
        /\ UNCHANGED <<world, members, tasks, next, moved>> /\ Pending' = Pending
    BY <1>5 DEF ListDone, Pending
  <2>2. ToSet(toList) = {}
    BY <2>1 DEF ToSet
  <2>3. disturbed = 0 => Pending' = DOMAIN tasks
    BY <1>0, <2>1 DEF UndisturbedInv, Pending
  <2>4. disturbed = 0 => \A n \in members : Judged(n)
    BY <2>1, <2>2 DEF UndisturbedInv
  <2>. QED  BY <2>1, <2>3, <2>4, UndisturbedQuiet
<1>6. CASE Execute \/ CountTask \/ Save \/ Return
  <2>1. /\ Executing /\ pc' \in {"execute", "pay", "save", "returned"}
        /\ UNCHANGED <<world, members, tasks, moved>> /\ Pending' = Pending
    <3>1. CASE Return
      BY <1>0, <3>1 DEF Return, Pending, Executing
    <3>2. CASE Execute
      BY <1>0, <3>2 DEF Execute, Pending, Executing
    <3>3. CASE CountTask
      BY <1>0, <3>3 DEF CountTask, Pending, Executing
    <3>4. CASE Save
      BY <1>0, <3>4 DEF Save, Pending, Executing
    <3>. QED  BY <1>6, <3>1, <3>2, <3>3, <3>4
  <2>. QED  BY <2>1, UndisturbedQuiet DEF UndisturbedInv
<1>7. CASE Pay
  <2>1. Pending' = {i \in DOMAIN tasks : i > next}
    BY <1>0, <1>7 DEF Pay, Pending
  <2>. QED  BY <1>0, <1>7, <2>1, UndisturbedPayment DEF Pay
<1>8. CASE PayReportsFailure \/ (PayThrows /\ UNCHANGED <<balance, moved>>)
  <2>1. /\ pc = "pay" /\ pc' \in {"count", "execute"}
        /\ UNCHANGED <<world, members, tasks, moved>>
        /\ Pending' = {i \in DOMAIN tasks : i > next}
        /\ "failures" \in Disturbances \/ ~Payable(Current)
    <3>1. CASE PayReportsFailure
      BY <1>0, <3>1 DEF PayReportsFailure, Pending
    <3>2. CASE PayThrows /\ UNCHANGED <<balance, moved>>
      <4>1. Current.amount \in Int /\ pc = "pay"
        <5>1. pc = "pay" /\ next \in DOMAIN tasks /\ tasks \in Seq(TaskSet)
          BY <1>0, <3>2 DEF PayThrows, Inv, InHandInv, ListInv
        <5>2. tasks[next] \in TaskSet
          BY <5>1
        <5>. QED  BY <5>1, <5>2 DEF Current, TaskSet
      <4>2. Current.amount <= 0 => ~Payable(Current)
        BY <4>1 DEF Payable
      <4>. QED  BY <1>0, <3>2, <4>2 DEF PayThrows, Pending
    <3>. QED  BY <1>8, <3>1, <3>2
  <2>2. Pending = {i \in DOMAIN tasks : i >= next} /\ Executing
    BY <2>1 DEF Pending, Executing
  <2>3. ASSUME disturbed = 0, NEW i \in DOMAIN tasks \ Pending' PROVE Settled(tasks[i])
    <3>1. CASE i = next
      BY <1>0, <2>1, <2>2, <2>3, <3>1 DEF UndisturbedInv, Settled, Current
    <3>2. CASE i # next
      BY <1>0, <2>1, <2>2, <2>3, <3>2 DEF UndisturbedInv
    <3>. QED  BY <3>1, <3>2
  <2>4. Pending' \subseteq Pending
    BY <1>0, <2>1, <2>2
  <2>. QED  BY <2>1, <2>2, <2>3, <2>4, UndisturbedQuiet DEF UndisturbedInv
<1>9. CASE PayThrows /\ Payable(Current) /\ balance' = Transfer(Current)
           /\ moved' = moved \cup {Current.chan}
  <2>1. Pending' = {i \in DOMAIN tasks : i > next}
    BY <1>0, <1>9 DEF PayThrows, Pending
  <2>. QED  BY <1>0, <1>9, <2>1, UndisturbedPayment DEF PayThrows
<1>10. CASE EndpointGone \/ SaveFails \/ Resume
  <2>1. /\ pc' \in {"faulted", "idle"} /\ UNCHANGED <<world, members, tasks, moved>>
        /\ Pending' = {}
    BY <1>10 DEF EndpointGone, SaveFails, Resume, Pending
  <2>. QED  BY <2>1, UndisturbedQuiet DEF Executing
<1>11. CASE Environment
  BY <1>0, <1>11 DEF Environment, UndisturbedInv
<1>12. CASE UNCHANGED vars
  <2>1. Pending' = Pending /\ UNCHANGED <<world, local, moved, pc>>
    BY <1>12 DEF vars, Pending
  <2>. QED
    BY <2>1 DEF UndisturbedInv, Executing, Judged, Exact, Settled, Payable
<1>13. PayThrows => \/ UNCHANGED <<balance, moved>>
                    \/ Payable(Current) /\ balance' = Transfer(Current)
                         /\ moved' = moved \cup {Current.chan}
  BY DEF PayThrows
<1>. QED
  BY <1>1, <1>2, <1>3, <1>4, <1>5, <1>6, <1>7, <1>8, <1>9, <1>10, <1>11, <1>12, <1>13
     DEF Next, Rebalancing

LEMMA UndisturbedInvariant == Spec => [](Inv /\ UndisturbedInv)
<1>1. Init => UndisturbedInv
  BY DEF Init, UndisturbedInv, Pending, Executing
<1>2. Inv /\ RestInv /\ UndisturbedInv /\ Inv' /\ [Next]_vars => UndisturbedInv'
  BY NextUndisturbed
<1>. QED  BY <1>1, <1>2, AllInvariant, PTL DEF Spec

\* A source left with half of the capacity has nothing in excess, and neither
\* has the other end unless the two are as good as even.
LEMMA HalfIsEven ==
  ASSUME NEW cap \in Nat, NEW here \in Nat, NEW there \in Nat, here + there <= cap,
         here = cap \div 2, NEW delta \in Nat, delta >= 2, Abs(here - there) >= delta
  PROVE  Excess(cap, here) < 1 /\ Excess(cap, there) < 1
<1>. DEFINE half == cap \div 2
<1>1. half \in Nat /\ cap <= 2 * half + 1
  OBVIOUS
<1>. HIDE DEF half
<1>2. here = half
  BY DEF half
<1>3. there <= half + 1
  BY <1>1, <1>2
<1>4. there < half
  BY <1>1, <1>2, <1>3 DEF Abs
<1>. QED  BY <1>1, <1>2, <1>4 DEF Excess, half

\* What a channel without a task has in excess is below the smallest HTLC.
LEMMA NotWorthOne ==
  ASSUME BalanceInv, NEW ch \in Channels, NEW n \in Ends[ch], DeltaThreshold >= 2,
         Gap(ch, balance) >= DeltaThreshold, ~Worthwhile(ch, n, balance)
  PROVE  \A m \in Ends[ch] : Excess(Capacity[ch], balance[ch][m]) < Floor(ch, m)
<1>. DEFINE p == Peer(ch, n)
<1>1. /\ p \in Ends[ch] /\ Ends[ch] = {n, p} /\ Floor(ch, p) = Floor(ch, n)
      /\ Floor(ch, n) \in Nat /\ Ceiling(ch, n) \in Nat
  BY PeerProperties, LimitsOfBothEnds
<1>2. /\ balance[ch] \in [Ends[ch] -> Nat]
      /\ balance[ch][n] \in Nat /\ balance[ch][p] \in Nat
  BY <1>1 DEF BalanceInv
<1>3. Abs(balance[ch][n] - balance[ch][p]) >= DeltaThreshold
  BY <1>2, GapFromAnyEnd
<1>. HIDE DEF p
<1>4. balance[ch][n] # balance[ch][p]
  BY <1>2, <1>3 DEF Abs
<1>5. PICK high \in Nat : high = Larger(balance[ch][n], balance[ch][p])
  BY <1>2 DEF Larger
<1>6. Capacity[ch] \div 2 \in Nat
  OBVIOUS
<1>7. Excess(Capacity[ch], high) < Floor(ch, n)
  <2>1. ~(Excess(Capacity[ch], high) >= Floor(ch, n))
    BY <1>3, <1>4, <1>5 DEF Worthwhile, p
  <2>2. Excess(Capacity[ch], high) \in Int
    BY <1>6 DEF Excess
  <2>. QED  BY <1>1, <2>1, <2>2
<1>8. balance[ch][n] <= high /\ balance[ch][p] <= high
  BY <1>2, <1>5 DEF Larger
<1>. QED  BY <1>1, <1>2, <1>6, <1>7, <1>8 DEF Excess

\* Undisturbed, a call leaves a channel between members uneven only for a
\* reason: its amount was cut to the limits, LND does not take the payment, or
\* what one end has in excess is below the smallest HTLC or a satoshi.
THEOREM NothingLeft ==
  ASSUME DeltaThreshold >= 2
  PROVE  Spec => []NothingLeftToPay
<1>1. ASSUME Inv, UndisturbedInv, pc = "returned", disturbed = 0, NEW ch \in active,
             Ends[ch] \subseteq members, Gap(ch, balance) >= DeltaThreshold
      PROVE  \/ \E i \in DOMAIN tasks :
                  /\ tasks[i].chan = ch
                  /\ \/ tasks[i].amount = Ceiling(ch, tasks[i].src) - 1
                     \/ /\ ch \notin moved
                        /\ "failures" \in Disturbances \/ ~Payable(tasks[i])
             \/ \A n \in Ends[ch] :
                  Excess(Capacity[ch], balance[ch][n]) < Larger(Floor(ch, n), 1)
  <2>1. /\ ch \in Channels /\ BalanceInv /\ Executing /\ Pending = {}
        /\ balance[ch] \in [Ends[ch] -> Nat]
    BY <1>1 DEF Inv, ListInv, Executing, Pending, BalanceInv
  <2>2. /\ \A n \in members : Judged(n)
        /\ \A i \in DOMAIN tasks : Settled(tasks[i])
    BY <1>1, <2>1 DEF UndisturbedInv
  <2>3. \A n \in Ends[ch] : Floor(ch, n) \in Nat
    BY <2>1, LimitsOfBothEnds
  <2>4. ASSUME NEW n \in Ends[ch], NEW x \in Int, x < Floor(ch, n) \/ x < 1
        PROVE  x < Larger(Floor(ch, n), 1)
    BY <2>3, <2>4 DEF Larger
  <2>5. \A n \in Ends[ch] : Excess(Capacity[ch], balance[ch][n]) \in Int
    <3>1. Capacity[ch] \div 2 \in Nat
      BY <2>1
    <3>. QED  BY <2>1, <3>1 DEF Excess
  <2>6. CASE HasTask(tasks, ch)
    <3>1. PICK i \in DOMAIN tasks : tasks[i].chan = ch
      BY <2>6 DEF HasTask
    <3>2. CASE ch \in moved /\ balance[ch][tasks[i].src] = Capacity[ch] \div 2
      <4>1. Formed(tasks[i])
        BY <1>1 DEF Inv, ListInv
      <4>2. PICK s \in Ends[ch] : balance[ch][s] = Capacity[ch] \div 2
        BY <3>1, <3>2, <4>1 DEF Formed
      <4>3. /\ Peer(ch, s) \in Ends[ch] /\ Ends[ch] = {s, Peer(ch, s)}
            /\ balance[ch][s] + balance[ch][Peer(ch, s)] <= Capacity[ch]
            /\ Abs(balance[ch][s] - balance[ch][Peer(ch, s)]) >= DeltaThreshold
        <5>1. Peer(ch, s) \in Ends[ch] /\ Ends[ch] = {s, Peer(ch, s)}
          BY <2>1, PeerProperties
        <5>2. balance[ch][s] + balance[ch][Peer(ch, s)] <= Capacity[ch]
          BY <2>1 DEF BalanceInv
        <5>3. Gap(ch, balance) = Abs(balance[ch][s] - balance[ch][Peer(ch, s)])
          BY <2>1, GapFromAnyEnd
        <5>. QED  BY <1>1, <5>1, <5>2, <5>3
      <4>4. /\ Excess(Capacity[ch], balance[ch][s]) < 1
            /\ Excess(Capacity[ch], balance[ch][Peer(ch, s)]) < 1
        <5>1. /\ balance[ch][s] \in Nat /\ balance[ch][Peer(ch, s)] \in Nat
              /\ Capacity[ch] \in Nat /\ DeltaThreshold \in Nat
          BY <2>1, <4>3
        <5>. QED  BY <4>2, <4>3, <5>1, HalfIsEven
      <4>. QED  BY <2>4, <2>5, <4>3, <4>4
    <3>3. CASE ~(ch \in moved /\ balance[ch][tasks[i].src] = Capacity[ch] \div 2)
      BY <2>2, <3>1, <3>3 DEF Settled
    <3>. QED  BY <3>2, <3>3
  <2>7. CASE ~HasTask(tasks, ch)
    <3>1. PICK n \in Ends[ch] : Peer(ch, n) \in Ends[ch]
      BY <2>1, PeerProperties
    <3>2. ~Worthwhile(ch, n, balance)
      BY <1>1, <2>2, <2>7, <3>1 DEF Judged
    <3>. QED  BY <1>1, <2>1, <2>4, <2>5, <3>2, NotWorthOne
  <2>. QED  BY <2>6, <2>7
<1>2. Inv /\ UndisturbedInv => NothingLeftToPay
  BY <1>1 DEF NothingLeftToPay
<1>. QED  BY <1>2, UndisturbedInvariant, PTL
=============================================================================
