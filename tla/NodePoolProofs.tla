--------------------------- MODULE NodePoolProofs ---------------------------
(***************************************************************************)
(* Theorems about NodePool, for any endpoints, callers and bounds.         *)
(***************************************************************************)
EXTENDS NodePool, Integers, FiniteSetTheorems, SequenceTheorems,
        WellFoundedInduction, TLAPS

-----------------------------------------------------------------------------
(* What the three operations the code performs on a List<T> do to the        *)
(* sequence that models it: Add is Append, Remove is RemoveFirst, Contains   *)
(* is Contains.                                                              *)

\* A nonempty set of naturals has the minimum SequencesExt looks for.
LEMMA MinInSet ==
  ASSUME NEW I \in SUBSET Nat, I # {}
  PROVE  Min(I) \in I /\ \A x \in I : Min(I) <= x
<1>1. PICK x \in I : \A y \in I : ~(<<y, x>> \in OpToRel(<, Nat))
  BY NatLessThanWellFounded, WFMin
<1>2. \A y \in I : x <= y
  <2>1. SUFFICES ASSUME NEW y \in I PROVE ~(y < x)
    BY SMT
  <2>2. <<y, x>> \in OpToRel(<, Nat) <=> y < x
    BY DEF OpToRel
  <2>. QED  BY <1>1, <2>2
<1>. QED  BY <1>2 DEF Min

\* Taking the item at one position out of a list closes the gap.
LEMMA RemoveAtCloses ==
  ASSUME NEW S, NEW s \in Seq(S), NEW k \in 1..Len(s)
  PROVE  /\ RemoveAt(s, k) \in Seq(S)
         /\ Len(RemoveAt(s, k)) = Len(s) - 1
         /\ \A i \in 1..(Len(s) - 1) :
              RemoveAt(s, k)[i] = IF i < k THEN s[i] ELSE s[i + 1]
<1>. DEFINE l == SubSeq(s, 1, k - 1)
            r == SubSeq(s, k + 1, Len(s))
<1>1. \A i \in 1..Len(s) : s[i] \in S
  BY ElementOfSeq
<1>2. l \in Seq(S) /\ Len(l) = k - 1 /\ \A i \in 1..(k - 1) : l[i] = s[i]
  BY <1>1, SubSeqProperties, k - 1 \in Int, 1 \in Int, LenProperties
<1>3. /\ r \in Seq(S) /\ Len(r) = Len(s) - k
      /\ \A i \in 1..(Len(s) - k) : r[i] = s[k + i]
  <2>1. Len(s) \in Nat
    BY LenProperties
  <2>2. /\ r \in Seq(S)
        /\ Len(r) = IF k + 1 <= Len(s) THEN Len(s) - (k + 1) + 1 ELSE 0
        /\ \A i \in 1..(Len(s) - (k + 1) + 1) : r[i] = s[(k + 1) + i - 1]
    <3>. DEFINE m == k + 1
                n == Len(s)
    <3>1. m \in Int /\ n \in Int /\ \A i \in m..n : s[i] \in S
      BY <2>1, <1>1
    <3>. HIDE DEF m, n
    <3>2. /\ SubSeq(s, m, n) \in Seq(S)
          /\ Len(SubSeq(s, m, n)) = IF m <= n THEN n - m + 1 ELSE 0
          /\ \A i \in 1..(n - m + 1) : SubSeq(s, m, n)[i] = s[m + i - 1]
      BY <3>1, SubSeqProperties
    <3>. QED  BY <3>2 DEF m, n
  <2>. QED  BY <2>1, <2>2
<1>4. RemoveAt(s, k) = l \o r
  BY DEF RemoveAt
<1>. HIDE DEF l, r
<1>5. /\ l \o r \in Seq(S)
      /\ Len(l \o r) = Len(l) + Len(r)
      /\ \A i \in 1..(Len(l) + Len(r)) :
           (l \o r)[i] = IF i <= Len(l) THEN l[i] ELSE r[i - Len(l)]
  BY <1>2, <1>3, ConcatProperties
<1>6. Len(s) \in Nat
  BY LenProperties
<1>. QED  BY <1>2, <1>3, <1>4, <1>5, <1>6

\* RemoveFirst leaves a list without the item alone, and otherwise closes the
\* gap at one position that held the item.
LEMMA RemoveFirstCloses ==
  ASSUME NEW S, NEW s \in Seq(S), NEW x
  PROVE  /\ ~Contains(s, x) => RemoveFirst(s, x) = s
         /\ Contains(s, x) =>
              \E k \in 1..Len(s) :
                /\ s[k] = x
                /\ RemoveFirst(s, x) \in Seq(S)
                /\ Len(RemoveFirst(s, x)) = Len(s) - 1
                /\ \A i \in 1..(Len(s) - 1) :
                     RemoveFirst(s, x)[i] = IF i < k THEN s[i] ELSE s[i + 1]
<1>1. ~Contains(s, x) => RemoveFirst(s, x) = s
  BY DEF Contains, RemoveFirst
<1>2. ASSUME Contains(s, x)
      PROVE  \E k \in 1..Len(s) : s[k] = x /\ RemoveFirst(s, x) = RemoveAt(s, k)
  <2>. DEFINE I == {i \in 1..Len(s) : s[i] = x}
  <2>1. I \in SUBSET Nat /\ I # {}
    BY <1>2 DEF Contains
  <2>2. RemoveFirst(s, x) = RemoveAt(s, Min(I))
    BY <1>2, <2>1 DEF Contains, RemoveFirst, SelectInSeq
  <2>3. Min(I) \in I
    BY <2>1, MinInSet
  <2>. QED  BY <2>2, <2>3
<1>3. ASSUME NEW k \in 1..Len(s)
      PROVE  /\ RemoveAt(s, k) \in Seq(S)
             /\ Len(RemoveAt(s, k)) = Len(s) - 1
             /\ \A i \in 1..(Len(s) - 1) :
                  RemoveAt(s, k)[i] = IF i < k THEN s[i] ELSE s[i + 1]
  BY RemoveAtCloses
<1>. QED  BY <1>1, <1>2, <1>3

\* List.Remove: no new element, at most one entry of x less, every other
\* element still there; from a list without repetition x is gone.
LEMMA RemoveFirstProperties ==
  ASSUME NEW S, NEW s \in Seq(S), NEW x
  PROVE  /\ RemoveFirst(s, x) \in Seq(S)
         /\ \A y : Contains(RemoveFirst(s, x), y) => Contains(s, y)
         /\ \A y : y # x /\ Contains(s, y) => Contains(RemoveFirst(s, x), y)
         /\ IsInjective(s) => /\ IsInjective(RemoveFirst(s, x))
                              /\ ~Contains(RemoveFirst(s, x), x)
<1>. DEFINE t == RemoveFirst(s, x)
<1>1. CASE ~Contains(s, x)
  BY <1>1, RemoveFirstCloses
<1>2. CASE Contains(s, x)
  <2>1. PICK k \in 1..Len(s) :
          /\ s[k] = x
          /\ t \in Seq(S)
          /\ Len(t) = Len(s) - 1
          /\ \A i \in 1..(Len(s) - 1) :
               t[i] = IF i < k THEN s[i] ELSE s[i + 1]
    BY <1>2, RemoveFirstCloses
  <2>. HIDE DEF t
  <2>2. Len(s) \in Nat /\ DOMAIN s = 1..Len(s) /\ DOMAIN t = 1..(Len(s) - 1)
    BY <2>1, LenProperties
  <2>3. \A y : Contains(t, y) => Contains(s, y)
    BY <2>1, <2>2 DEF Contains
  <2>4. ASSUME NEW y, y # x, Contains(s, y) PROVE Contains(t, y)
    <3>1. PICK i \in 1..Len(s) : s[i] = y
      BY <2>4 DEF Contains
    <3>2. CASE i < k
      BY <3>1, <3>2, <2>1, <2>2 DEF Contains
    <3>3. CASE i > k
      <4>1. i - 1 \in 1..(Len(s) - 1) /\ ~(i - 1 < k) /\ (i - 1) + 1 = i
        BY <3>3, <2>2
      <4>2. t[i - 1] = y
        BY <4>1, <2>1, <3>1
      <4>. QED  BY <4>1, <4>2, <2>1 DEF Contains
    <3>. QED  BY <3>1, <3>2, <3>3, <2>1, <2>2, <2>4
  <2>5. ASSUME IsInjective(s) PROVE IsInjective(t) /\ ~Contains(t, x)
    <3>1. \A i, j \in 1..Len(s) : s[i] = s[j] => i = j
      BY <2>5, <2>2 DEF IsInjective
    <3>2. \A i, j \in 1..(Len(s) - 1) : t[i] = t[j] => i = j
      BY <3>1, <2>1, <2>2
    <3>3. \A i \in 1..(Len(s) - 1) : t[i] # s[k]
      BY <3>1, <2>1, <2>2
    <3>. QED  BY <3>2, <3>3, <2>1, <2>2 DEF IsInjective, Contains
  <2>. QED  BY <2>1, <2>3, <2>4, <2>5 DEF t
<1>. QED  BY <1>1, <1>2

\* List.Add: the list then contains x and what it contained before; adding an
\* absent item keeps the list free of repetition.
LEMMA AddProperties ==
  ASSUME NEW S, NEW s \in Seq(S), NEW x \in S
  PROVE  /\ Append(s, x) \in Seq(S)
         /\ \A y : Contains(Append(s, x), y) <=> Contains(s, y) \/ y = x
         /\ IsInjective(s) /\ ~Contains(s, x) => IsInjective(Append(s, x))
<1>. DEFINE t == Append(s, x)
<1>1. /\ t \in Seq(S)
      /\ Len(t) = Len(s) + 1
      /\ \A i \in 1..Len(s) : t[i] = s[i]
      /\ t[Len(s) + 1] = x
  BY AppendProperties
<1>. HIDE DEF t
<1>2. Len(s) \in Nat /\ DOMAIN s = 1..Len(s) /\ DOMAIN t = 1..(Len(s) + 1)
  BY <1>1, LenProperties
<1>3. \A y : Contains(t, y) <=> Contains(s, y) \/ y = x
  <2>1. ASSUME NEW y, Contains(t, y) PROVE Contains(s, y) \/ y = x
    BY <2>1, <1>1, <1>2 DEF Contains
  <2>2. ASSUME NEW y, Contains(s, y) \/ y = x PROVE Contains(t, y)
    <3>1. CASE Contains(s, y)
      BY <3>1, <1>1, <1>2 DEF Contains
    <3>2. CASE y = x
      <4>1. Len(s) + 1 \in 1..Len(t)
        BY <1>1, <1>2
      <4>. QED  BY <3>2, <4>1, <1>1 DEF Contains
    <3>. QED  BY <2>2, <3>1, <3>2
  <2>. QED  BY <2>1, <2>2
<1>4. ASSUME IsInjective(s), ~Contains(s, x) PROVE IsInjective(t)
  <2>1. \A i, j \in 1..Len(s) : s[i] = s[j] => i = j
    BY <1>4, <1>2 DEF IsInjective
  <2>2. \A i \in 1..Len(s) : s[i] # x
    BY <1>4 DEF Contains
  <2>3. \A i, j \in 1..(Len(s) + 1) : t[i] = t[j] => i = j
    BY <2>1, <2>2, <1>1, <1>2
  <2>. QED  BY <2>3, <1>2 DEF IsInjective
<1>. QED  BY <1>1, <1>3, <1>4 DEF t

-----------------------------------------------------------------------------
(* The invariants.                                                           *)

\* TypeOK, with what the loop variables need to be inductive: the settings
\* just connected are still at the head of the copy, and inside the foreach
\* the index is past the start and the element is a connection.
TypeInv ==
  /\ TypeOK
  /\ mpc = "forget" => todo # <<>>
  /\ mpc \in ScanLabels \cup {"copy"} => pos > 0
  /\ mpc \in ScanLabels \ {"scan"} => node \in Connections

USE EndpointsAssumption, BoundAssumption

LEMMA TypeInit == Init => TypeInv
<1>. SUFFICES ASSUME Init PROVE TypeInv
  OBVIOUS
<1>1. [i \in DOMAIN Enlisted |-> i] \in Seq(DOMAIN Enlisted)
  <2>1. DOMAIN Enlisted = 1..Len(Enlisted) /\ Len(Enlisted) \in Nat
    BY LenProperties
  <2>. QED  BY <2>1, IsASeq
<1>2. /\ notYetInitialized \in Seq(Settings)
      /\ source \in Seq(Settings \cup {0}) /\ Len(source) = Len(conns)
  <2>1. /\ DOMAIN Enlisted = 1..Len(Enlisted) /\ Len(Enlisted) \in Nat
        /\ DOMAIN ConnectTo = 1..Len(ConnectTo) /\ Len(ConnectTo) \in Nat
    BY LenProperties
  <2>2. [s \in DOMAIN ConnectTo |-> s] \in Seq(DOMAIN ConnectTo)
    BY <2>1, IsASeq
  <2>. DEFINE none == [i \in DOMAIN Enlisted |-> 0]
  <2>3. none \in Seq(Settings \cup {0}) /\ DOMAIN none = 1..Len(Enlisted)
    BY <2>1, IsASeq
  <2>4. Len(none) = Len(Enlisted)
    BY <2>1, <2>3, LenProperties
  <2>. QED  BY <2>2, <2>3, <2>4 DEF Init, Settings
<1>3. caller \in [Callers -> CallerStates]
  BY DEF Init, Idle, CallerStates
<1>4. nodes \in Seq(Connections) /\ readyNodes \in Seq(Connections)
  BY <1>1, EmptySeq DEF Init, Connections
<1>5. todo \in Seq(Settings)
  BY EmptySeq DEF Init
<1>. QED
  BY <1>2, <1>3, <1>4, <1>5
  DEF Init, TypeInv, TypeOK, Connections, Settings, MonitorLabels, ScanLabels

\* What was made, or given, so far and the next one.
LEMMA ConnectionsGrow ==
  ASSUME NEW s \in Seq(Endpoints), NEW e \in Endpoints
  PROVE  /\ Append(s, e) \in Seq(Endpoints)
         /\ DOMAIN Append(s, e) = DOMAIN s \cup {Len(s) + 1}
         /\ Len(s) + 1 \notin DOMAIN s
         /\ \A i \in DOMAIN s : Append(s, e)[i] = s[i]
         /\ DOMAIN s \subseteq Nat
<1>1. /\ Append(s, e) \in Seq(Endpoints)
      /\ Len(Append(s, e)) = Len(s) + 1
      /\ \A i \in 1..Len(s) : Append(s, e)[i] = s[i]
  BY AppendProperties
<1>2. /\ DOMAIN s = 1..Len(s) /\ Len(s) \in Nat
      /\ DOMAIN Append(s, e) = 1..(Len(s) + 1)
  BY <1>1, LenProperties
<1>. QED  BY <1>1, <1>2

\* Forget takes one item out of the list: the first with the endpoint.
LEMMA ForgetTakes ==
  ASSUME NEW S, notYetInitialized \in Seq(S)
  PROVE  \/ /\ \A i \in 1..Len(notYetInitialized) : ~OfHead(notYetInitialized[i])
            /\ RemoveFirstMatch(notYetInitialized, OfHead) = notYetInitialized
         \/ \E k \in 1..Len(notYetInitialized) :
              /\ OfHead(notYetInitialized[k])
              /\ \A i \in 1..(k - 1) : ~OfHead(notYetInitialized[i])
              /\ RemoveFirstMatch(notYetInitialized, OfHead)
                   = RemoveAt(notYetInitialized, k)
<1>. DEFINE n == Len(notYetInitialized)
            I == {i \in 1..n : OfHead(notYetInitialized[i])}
<1>0. n \in Nat
  BY LenProperties
<1>1. CASE I = {}
  BY <1>1 DEF RemoveFirstMatch
<1>2. CASE I # {}
  <2>1. I \in SUBSET Nat
    BY <1>0
  <2>2. Min(I) \in I /\ \A i \in I : Min(I) <= i
    BY <1>2, <2>1, MinInSet
  <2>3. RemoveFirstMatch(notYetInitialized, OfHead)
          = RemoveAt(notYetInitialized, Min(I))
    BY <1>2 DEF RemoveFirstMatch, SelectInSeq
  <2>4. PICK k \in 1..n : k = Min(I)
    BY <2>2
  <2>5. k \in I /\ \A i \in I : k <= i
    BY <2>2, <2>4, Zenon
  <2>6. OfHead(notYetInitialized[k])
    BY <2>5
  <2>7. ASSUME NEW i \in 1..(k - 1) PROVE ~OfHead(notYetInitialized[i])
    <3>1. i \in 1..n /\ ~(k <= i)
      BY <1>0
    <3>2. i \notin I
      BY <2>5, <3>1
    <3>. QED  BY <3>1, <3>2
  <2>. QED  BY <2>3, <2>4, <2>6, <2>7, Zenon
<1>. QED  BY <1>1, <1>2

LEMMA ForgetKeeps ==
  ASSUME NEW S, notYetInitialized \in Seq(S)
  PROVE  RemoveFirstMatch(notYetInitialized, OfHead) \in Seq(S)
BY ForgetTakes, RemoveAtCloses

LEMMA TypeStep == TypeInv /\ [Next]_vars => TypeInv'
<1>. SUFFICES ASSUME TypeInv, [Next]_vars PROVE TypeInv'
  OBVIOUS
<1>. USE DEF TypeInv, TypeOK, MonitorLabels, ScanLabels, serverVars, listVars,
             monitorVars, callerVars, Connections, Settings
<1>0. conns' = conns => CallerStates' = CallerStates
  BY DEF CallerStates
<1>1. CASE Tick
  BY <1>0, <1>1 DEF Tick
<1>2. CASE Stop
  BY <1>0, <1>2 DEF Stop
<1>3. CASE Connect
  <2>. DEFINE e == given[Head(todo)]
  <2>0. Head(todo) \in Settings
    BY <1>3, HeadTailProperties DEF Connect
  <2>1. e \in Endpoints
    BY <2>0, ElementOfSeq, LenProperties
  <2>2. /\ conns' \in Seq(Endpoints)
        /\ Connections' = Connections \cup {Len(conns) + 1}
    BY <1>3, <2>1, ConnectionsGrow DEF Connect
  <2>3. nodes \in Seq(Connections') /\ readyNodes \in Seq(Connections')
    BY <2>2, SeqMonotonic
  <2>4. nodes' \in Seq(Connections')
    BY <1>3, <2>2, <2>3, AppendProperties DEF Connect
  <2>5. caller \in [Callers -> CallerStates']
    BY <2>2 DEF CallerStates
  <2>6. source' \in Seq(Settings \cup {0}) /\ Len(source') = Len(conns')
    BY <1>3, <2>0, <2>1, AppendProperties DEF Connect
  <2>. QED  BY <1>3, <2>2, <2>3, <2>4, <2>5, <2>6 DEF Connect, CallerStates
<1>4. CASE ConnectFails
  <2>1. Tail(todo) \in Seq(Settings)
    BY <1>4, HeadTailProperties DEF ConnectFails
  <2>2. \A s \in ToSet(Tail(todo)) : given[s] \in Endpoints
    BY <2>1, ElementOfSeq, LenProperties DEF ToSet
  <2>. QED  BY <1>0, <1>4, <2>1, <2>2 DEF ConnectFails
<1>5. CASE Forget
  BY <1>0, <1>5, HeadTailProperties, ForgetKeeps DEF Forget
<1>6. CASE BeginScan
  BY <1>0, <1>6 DEF BeginScan
<1>7. CASE ScanNext
  <2>1. pos \in 1..Len(nodes) /\ node' \in Connections
    BY <1>7, ElementOfSeq, LenProperties DEF ScanNext
  <2>2. node' \in Connections' /\ node' \in Nat /\ pos' \in Nat /\ pos' > 0
    BY <1>7, <2>1, LenProperties DEF ScanNext
  <2>. QED  BY <1>0, <1>7, <2>2 DEF ScanNext
<1>8. CASE ScanThrows
  BY <1>0, <1>8 DEF ScanThrows
<1>9. CASE ScanEnds
  BY <1>0, <1>9 DEF ScanEnds
<1>10. CASE JudgeReady
  BY <1>0, <1>10 DEF JudgeReady
<1>11. CASE Admit
  BY <1>0, <1>11, AppendProperties DEF Admit
<1>12. CASE Probe
  BY <1>0, <1>12 DEF Probe
<1>13. CASE Keep
  BY <1>0, <1>13, AppendProperties DEF Keep
<1>14. CASE Drop
  BY <1>0, <1>14, RemoveFirstProperties DEF Drop
<1>15. CASE Pace
  BY <1>0, <1>15 DEF Pace
<1>16. ASSUME NEW p \in Callers, NEW e \in Endpoints, AddNode(p, e)
       PROVE  TypeInv'
  <2>1. /\ given' \in Seq(Endpoints)
        /\ Settings' = Settings \cup {Len(given) + 1}
    BY <1>16, ConnectionsGrow DEF AddNode
  <2>2. /\ notYetInitialized \in Seq(Settings') /\ todo \in Seq(Settings')
        /\ source \in Seq(Settings' \cup {0})
    BY <2>1, SeqMonotonic
  <2>3. notYetInitialized' \in Seq(Settings')
    BY <1>16, <2>1, <2>2, AppendProperties DEF AddNode
  <2>. QED  BY <1>0, <1>16, <2>1, <2>2, <2>3 DEF AddNode
<1>17. ASSUME NEW p \in Callers, NEW c \in Connections, RemoveNode(p, c)
       PROVE  TypeInv'
  <2>1. nodes' \in Seq(Connections)
    BY <1>17, RemoveFirstProperties DEF RemoveNode
  <2>2. caller' \in [Callers -> CallerStates]
    BY <1>17 DEF RemoveNode, Removing, CallerStates
  <2>3. version' \in Nat
    BY <1>17 DEF RemoveNode
  <2>. QED  BY <1>0, <1>17, <2>1, <2>2, <2>3 DEF RemoveNode
<1>18. ASSUME NEW p \in Callers, RemoveReady(p)
       PROVE  TypeInv'
  BY <1>0, <1>18, RemoveFirstProperties DEF RemoveReady, CallerStates, Idle
<1>19. ASSUME NEW p \in Callers, Dispose(p)
       PROVE  TypeInv'
  BY <1>0, <1>19 DEF Dispose, CallerStates, Disposing
<1>20. ASSUME NEW p \in Callers, DisposeNext(p)
       PROVE  TypeInv'
  <2>1. caller[p] \in [op : {"disposing"}, next : Nat \ {0}, from : Nat]
    BY <1>20 DEF DisposeNext, CallerStates
  <2>2. disposed' \subseteq Connections \cup {nodes[caller[p].next]}
    BY <1>20 DEF DisposeNext
  <2>3. nodes[caller[p].next] \in Connections
    BY <1>20, <2>1, ElementOfSeq, LenProperties DEF DisposeNext
  <2>4. caller' \in [Callers -> CallerStates]
    <3>. DEFINE n == Disposing(caller[p].next + 1, caller[p].from)
    <3>1. n \in CallerStates
      BY <2>1 DEF Disposing, CallerStates
    <3>2. caller' = [caller EXCEPT ![p] = n]
      BY <1>20 DEF DisposeNext
    <3>. QED  BY <3>1, <3>2
  <2>. QED  BY <1>0, <1>20, <2>2, <2>3, <2>4 DEF DisposeNext
<1>21. ASSUME NEW p \in Callers, DisposeReturns(p)
       PROVE  TypeInv'
  BY <1>0, <1>21 DEF DisposeReturns, CallerStates, Idle
<1>22. CASE Environment
  BY <1>0, <1>22 DEF Environment, ServerChanges, StartupTimeElapses
<1>23. CASE UNCHANGED vars
  BY <1>0, <1>23 DEF vars
<1>24. CASE CopyNext
  <2>1. pos \in 1..Len(notYetInitialized) /\ notYetInitialized[pos] \in Settings
    BY <1>24, ElementOfSeq, LenProperties DEF CopyNext
  <2>2. todo' \in Seq(Settings)
    BY <1>24, <2>1, AppendProperties DEF CopyNext
  <2>. QED  BY <1>0, <1>24, <2>2 DEF CopyNext
<1>25. CASE CopyEnds
  BY <1>0, <1>25 DEF CopyEnds
<1>26. CASE CopyThrows
  BY <1>0, <1>26, EmptySeq DEF CopyThrows
<1>. QED
  BY <1>1, <1>2, <1>3, <1>4, <1>5, <1>6, <1>7, <1>8, <1>9, <1>10, <1>11,
     <1>12, <1>13, <1>14, <1>15, <1>16, <1>17, <1>18, <1>19, <1>20, <1>21,
     <1>22, <1>23, <1>24, <1>25, <1>26
  DEF Next, Monitor, Call, Finish

\* Every reference the pool holds, in its lists, its loop variables and the
\* calls in progress, is to a connection that was made.
THEOREM TypeCorrect == Spec => []TypeOK
<1>1. TypeInv => TypeOK
  BY DEF TypeInv
<1>. QED  BY TypeInit, TypeStep, <1>1, PTL DEF Spec

-----------------------------------------------------------------------------
\* An enumeration never runs ahead of the list, and the element it yielded is
\* in the list unless the list was modified since the enumeration began.
EnumerationInv ==
  /\ mpc \in ScanLabels => seen <= version
  /\ mpc \in ScanLabels \ {"scan"} /\ ~Contains(nodes, node)
       => seen # version

\* The inductive invariant behind the safety theorems.
SafeInv ==
  /\ EnumerationInv
  /\ NoDoubleListing
  /\ OnlyModificationKillsMonitor
  /\ GhostsHaveNoMonitor

LEMMA SafeInit == Init => SafeInv
<1>. SUFFICES ASSUME Init PROVE SafeInv
  OBVIOUS
<1>1. mpc = "tick" /\ readyNodes = <<>>
  BY DEF Init
<1>2. EnumerationInv /\ OnlyModificationKillsMonitor
  BY <1>1 DEF EnumerationInv, OnlyModificationKillsMonitor, Doomed, ScanLabels
<1>3. NoDoubleListing
  <2>1. IsInjective(nodes)
    BY DEF Init, IsInjective
  <2>2. IsInjective(readyNodes)
    BY <1>1 DEF IsInjective
  <2>. QED  BY <2>1, <2>2 DEF NoDoubleListing
<1>4. GhostsHaveNoMonitor
  BY <1>1 DEF GhostsHaveNoMonitor, Contains
<1>. QED  BY <1>2, <1>3, <1>4 DEF SafeInv

\* Every step preserves SafeInv.  The delicate ones are those that add to
\* ReadyNodes (a ghost can only be added by a foreach that is no longer
\* valid) and the two statements of RemoveNode.
LEMMA SafeStep == TypeInv /\ SafeInv /\ [Next]_vars => SafeInv'
<1>. SUFFICES ASSUME TypeInv, SafeInv, [Next]_vars PROVE SafeInv'
  OBVIOUS
<1>. USE DEF ScanLabels, serverVars, listVars, monitorVars, callerVars
<1>t. /\ nodes \in Seq(Connections) /\ readyNodes \in Seq(Connections)
      /\ version \in Nat /\ seen \in Nat
      /\ IsInjective(nodes) /\ IsInjective(readyNodes)
  BY DEF TypeInv, TypeOK, SafeInv, NoDoubleListing
<1>. USE DEF SafeInv, EnumerationInv, NoDoubleListing,
             OnlyModificationKillsMonitor, GhostsHaveNoMonitor, Doomed,
             Connections
\* The lists, the callers and conns are unchanged by these actions.
<1>1. CASE Tick \/ Stop \/ ConnectFails \/ Pace
  BY <1>1 DEF Tick, Stop, ConnectFails, Pace
<1>c. CASE CopyNext \/ CopyEnds \/ CopyThrows
  BY <1>c DEF CopyNext, CopyEnds, CopyThrows
<1>2. CASE Connect
  <2>. DEFINE new == Len(conns) + 1
  <2>1. new \notin Connections /\ Connections' = Connections \cup {new}
    <3>1. given[Head(todo)] \in Endpoints /\ conns \in Seq(Endpoints)
      <4>1. Head(todo) \in Settings
        BY <1>2, HeadTailProperties DEF Connect, TypeInv, TypeOK
      <4>. QED  BY <4>1, ElementOfSeq, LenProperties DEF TypeInv, TypeOK, Settings
    <3>. QED  BY <1>2, <3>1, ConnectionsGrow DEF Connect
  <2>2. ~Contains(nodes, new) /\ ~Contains(readyNodes, new)
    BY <1>t, <2>1, ElementOfSeq DEF Contains
  <2>3. /\ IsInjective(nodes')
        /\ \A y : Contains(nodes', y) <=> Contains(nodes, y) \/ y = new
    <3>1. nodes \in Seq(Connections')
      BY <1>t, <2>1, SeqMonotonic
    <3>. QED  BY <1>2, <1>t, <2>1, <2>2, <3>1, AddProperties DEF Connect
  <2>4. /\ mpc = "setup" /\ mpc' = "forget"
        /\ readyNodes' = readyNodes /\ caller' = caller
        /\ seen' = seen /\ version' = version + 1 /\ struck' = struck
    BY <1>2 DEF Connect
  <2>5. EnumerationInv' /\ NoDoubleListing' /\ OnlyModificationKillsMonitor'
    BY <1>t, <2>3, <2>4
  <2>6. GhostsHaveNoMonitor'
    BY <2>1, <2>2, <2>3, <2>4
  <2>. QED  BY <2>5, <2>6
<1>3. CASE Forget
  BY <1>3 DEF Forget
<1>4. CASE BeginScan
  BY <1>4, <1>t DEF BeginScan
<1>5. CASE ScanNext
  <2>1. pos \in 1..Len(nodes)
    BY <1>5, <1>t, LenProperties DEF ScanNext, TypeInv, TypeOK
  <2>2. Contains(nodes, node')
    BY <1>5, <2>1 DEF ScanNext, Contains
  <2>. QED  BY <1>5, <2>2 DEF ScanNext
<1>6. CASE ScanThrows
  BY <1>6, <1>t DEF ScanThrows
<1>7. CASE ScanEnds
  BY <1>7, <1>t DEF ScanEnds
<1>8. CASE JudgeReady
  BY <1>8 DEF JudgeReady
<1>9. CASE Probe
  BY <1>9 DEF Probe
<1>10. ASSUME mpc \in ScanLabels \ {"scan"}, mpc' = "scan",
              ~Contains(readyNodes, node),
              readyNodes' = Append(readyNodes, node),
              UNCHANGED <<conns, nodes, version, seen, caller, given, struck>>
       PROVE  SafeInv'
  <2>1. node \in Connections
    BY <1>10 DEF TypeInv
  <2>2. /\ IsInjective(readyNodes')
        /\ \A y : Contains(readyNodes', y)
                    <=> Contains(readyNodes, y) \/ y = node
    BY <1>10, <1>t, <2>1, AddProperties
  <2>3. EnumerationInv' /\ NoDoubleListing' /\ OnlyModificationKillsMonitor'
    BY <1>10, <1>t, <2>2
  <2>4. GhostsHaveNoMonitor'
    BY <1>10, <2>2
  <2>. QED  BY <2>3, <2>4
<1>11. CASE Admit
  BY <1>10, <1>11 DEF Admit
<1>12. CASE Keep
  <2>1. CASE Contains(readyNodes, node)
    BY <1>12, <2>1 DEF Keep
  <2>2. CASE ~Contains(readyNodes, node)
    BY <1>10, <1>12, <2>2 DEF Keep
  <2>. QED  BY <2>1, <2>2
<1>13. CASE Drop
  <2>1. /\ IsInjective(readyNodes')
        /\ \A y : Contains(readyNodes', y) => Contains(readyNodes, y)
    BY <1>13, <1>t, RemoveFirstProperties DEF Drop
  <2>. QED  BY <1>13, <1>t, <2>1 DEF Drop
<1>14. ASSUME NEW p \in Callers, NEW e \in Endpoints, AddNode(p, e)
       PROVE  SafeInv'
  BY <1>14 DEF AddNode
<1>15. ASSUME NEW p \in Callers, NEW c \in Connections, RemoveNode(p, c)
       PROVE  SafeInv'
  <2>1. /\ IsInjective(nodes')
        /\ ~Contains(nodes', c)
        /\ \A y : Contains(nodes', y) => Contains(nodes, y)
        /\ \A y : y # c /\ Contains(nodes, y) => Contains(nodes', y)
    BY <1>15, <1>t, RemoveFirstProperties DEF RemoveNode
  <2>2. /\ version' \in Nat /\ version <= version'
        /\ Contains(nodes, c) => version' = version + 1
    BY <1>15, <1>t DEF RemoveNode
  <2>3. /\ readyNodes' = readyNodes /\ conns' = conns
        /\ mpc' = mpc /\ node' = node /\ seen' = seen
        /\ given' = given /\ struck' = struck
    BY <1>15 DEF RemoveNode
  <2>4. EnumerationInv'
    BY <1>t, <2>1, <2>2, <2>3
  <2>5. OnlyModificationKillsMonitor'
    BY <2>1, <2>3
  <2>6. GhostsHaveNoMonitor'
    <3>1. /\ caller[p] = Idle /\ caller' = [caller EXCEPT ![p] = Removing(c)]
          /\ caller \in [Callers -> CallerStates]
      BY <1>15 DEF RemoveNode, TypeInv, TypeOK
    <3>2. caller'[p] = Removing(c)
      BY <3>1
    <3>3. \A d, q : q \in Callers /\ caller[q] = Removing(d)
                      => caller'[q] = Removing(d)
      BY <3>1 DEF Idle, Removing
    <3>4. version' = version \/ ~(mpc \in ScanLabels) \/ seen # version'
      BY <1>15, <1>t, <2>2 DEF RemoveNode
    <3>5. SUFFICES ASSUME NEW d \in Connections,
                          Contains(readyNodes, d), ~Contains(nodes', d)
                   PROVE  \/ \E q \in Callers : caller'[q] = Removing(d)
                          \/ mpc = "dead"
                          \/ mpc \in ScanLabels /\ seen # version'
      BY <2>3
    <3>6. CASE d = c
      BY <3>2, <3>6
    <3>7. CASE d # c
      BY <2>1, <3>3, <3>4, <3>5, <3>7
    <3>. QED  BY <3>6, <3>7
  <2>. QED  BY <1>t, <2>1, <2>3, <2>4, <2>5, <2>6
<1>16. ASSUME NEW p \in Callers, RemoveReady(p)
       PROVE  SafeInv'
  <2>. DEFINE c == caller[p].conn
  <2>1. /\ IsInjective(readyNodes')
        /\ ~Contains(readyNodes', c)
        /\ \A y : Contains(readyNodes', y) => Contains(readyNodes, y)
    BY <1>16, <1>t, RemoveFirstProperties DEF RemoveReady
  <2>2. /\ nodes' = nodes /\ conns' = conns /\ version' = version
        /\ mpc' = mpc /\ node' = node /\ seen' = seen
        /\ given' = given /\ struck' = struck
    BY <1>16 DEF RemoveReady
  <2>3. EnumerationInv' /\ NoDoubleListing' /\ OnlyModificationKillsMonitor'
    BY <1>t, <2>1, <2>2
  <2>4. GhostsHaveNoMonitor'
    <3>1. \A d, q : d # c /\ q \in Callers /\ caller[q] = Removing(d)
                      => caller'[q] = Removing(d)
      BY <1>16 DEF RemoveReady, Removing, TypeInv, TypeOK
    <3>. QED  BY <2>1, <2>2, <3>1
  <2>. QED  BY <2>3, <2>4
<1>17. ASSUME NEW p \in Callers,
              caller[p].op # "removing",
              \E s : caller' = [caller EXCEPT ![p] = s],
              UNCHANGED <<listVars, mpc, node, seen, given, struck>>
       PROVE  SafeInv'
  <2>1. \A d, q : q \in Callers /\ caller[q] = Removing(d)
                    => caller'[q] = Removing(d)
    BY <1>17 DEF Removing, TypeInv, TypeOK
  <2>. QED  BY <1>17, <2>1
<1>18. ASSUME NEW p \in Callers,
              Dispose(p) \/ DisposeNext(p) \/ DisposeReturns(p)
       PROVE  SafeInv'
  <2>1. caller[p].op # "removing" /\ \E s : caller' = [caller EXCEPT ![p] = s]
    BY <1>18 DEF Dispose, DisposeNext, DisposeReturns, Idle
  <2>2. UNCHANGED <<listVars, mpc, node, seen, given, struck>>
    BY <1>18 DEF Dispose, DisposeNext, DisposeReturns
  <2>. QED  BY <1>17, <2>1, <2>2
<1>19. CASE Environment
  BY <1>19 DEF Environment, ServerChanges, StartupTimeElapses
<1>20. CASE UNCHANGED vars
  BY <1>20 DEF vars
<1>. QED
  BY <1>1, <1>c, <1>2, <1>3, <1>4, <1>5, <1>6, <1>7, <1>8, <1>9, <1>11,
     <1>12, <1>13, <1>14, <1>15, <1>16, <1>18, <1>19, <1>20
  DEF Next, Monitor, Call, Finish

LEMMA SafeAlways == Spec => [](TypeInv /\ SafeInv)
BY TypeInit, TypeStep, SafeInit, SafeStep, PTL DEF Spec

\* No connection is ever listed twice in _nodes or in ReadyNodes, whatever
\* the monitoring task and the callers interleave.
THEOREM NeverListedTwice == Spec => []NoDoubleListing
<1>1. SafeInv => NoDoubleListing
  BY DEF SafeInv
<1>. QED  BY SafeAlways, <1>1, PTL

\* Nothing kills the monitoring task but taking a connection out of the pool
\* and adding settings while the task copies them.
THEOREM ModificationAloneKillsMonitor == Spec => []OnlyModificationKillsMonitor
<1>1. SafeInv => OnlyModificationKillsMonitor
  BY DEF SafeInv
<1>. QED  BY SafeAlways, <1>1, PTL

\* A connection that outlives its removal in ReadyNodes does so because the
\* monitoring task is dead or about to die: nothing will ever take it out.
THEOREM GhostsAreUnmonitored == Spec => []GhostsHaveNoMonitor
<1>1. SafeInv => GhostsHaveNoMonitor
  BY DEF SafeInv
<1>. QED  BY SafeAlways, <1>1, PTL

-----------------------------------------------------------------------------
(* The settings.                                                           *)

\* The settings come into a list in the order they were given.
Ascending(s) == \A i, j \in DOMAIN s : i < j => s[i] < s[j]

\* t is the first n items of s.
CopyOf(t, s, n) == /\ Len(t) = n /\ n <= Len(s)
                   /\ \A i \in 1..n : t[i] = s[i]

Within(t, s) == \A x : Contains(t, x) => Contains(s, x)

\* What t holds for an endpoint that did not fail in between are the oldest
\* settings for it in s.
Oldest(t, s) ==
  \A x, y \in Settings :
    /\ Contains(t, x) /\ Contains(s, y) /\ y < x
    /\ given[x] = given[y] /\ given[x] \notin mixed
    => Contains(t, y)

\* What is left of the copy is in the list it was taken from, in that order.
RestInv ==
  /\ Ascending(todo)
  /\ Within(todo, notYetInitialized)
  /\ Oldest(todo, notYetInitialized)

\* The copy is taken item by item.
CopyInv ==
  /\ Ascending(notYetInitialized)
  /\ mpc = "copy" => CopyOf(todo, notYetInitialized, pos - 1)
  /\ mpc \in {"setup", "forget"} => RestInv
  /\ mpc \notin {"copy", "setup", "forget"} => todo = <<>>

\* A connection is to the endpoint its settings name.
SourceInv ==
  \A k \in Connections :
    source[k] # 0 => source[k] \in Settings /\ conns[k] = given[source[k]]

ConserveInv == CopyInv /\ SourceInv /\ SettingsConserved

LEMMA ConserveInit == Init => ConserveInv
<1>. SUFFICES ASSUME Init PROVE ConserveInv
  OBVIOUS
<1>1. /\ notYetInitialized = [s \in DOMAIN ConnectTo |-> s] /\ given = ConnectTo
      /\ mpc = "tick" /\ todo = <<>> /\ conns = Enlisted
      /\ source = [i \in DOMAIN Enlisted |-> 0]
  BY DEF Init
<1>2. CopyInv
  BY <1>1 DEF CopyInv, Ascending
<1>3. SourceInv
  BY <1>1 DEF SourceInv, Connections
<1>4. \A s \in Settings : Contains(notYetInitialized, s)
  <2>1. DOMAIN notYetInitialized = 1..Len(ConnectTo) /\ Len(ConnectTo) \in Nat
    BY <1>1, LenProperties
  <2>2. notYetInitialized \in Seq(Settings)
    BY <1>1, <2>1, IsASeq, LenProperties DEF Settings
  <2>3. DOMAIN notYetInitialized = 1..Len(notYetInitialized)
    BY <2>2, LenProperties
  <2>. QED  BY <1>1, <2>1, <2>3, LenProperties DEF Contains, Settings
<1>5. 0 \notin Settings
  BY <1>1, LenProperties DEF Settings
<1>6. SettingsConserved
  BY <1>1, <1>4, <1>5 DEF SettingsConserved, InHand, Connections
<1>. QED  BY <1>2, <1>3, <1>6 DEF ConserveInv

\* The lists of the settings, their endpoints, and what became of them are as
\* they were: so is the invariant.
LEMMA ConserveStutter ==
  ASSUME ConserveInv,
         UNCHANGED <<given, notYetInitialized, todo, conns, source, mixed>>,
         \/ mpc' = mpc /\ (mpc = "copy" => pos' = pos)
         \/ mpc \notin {"copy", "setup", "forget"} /\ mpc' \notin {"copy", "setup", "forget"}
  PROVE  ConserveInv'
<1>1. CopyInv'
  BY DEF ConserveInv, CopyInv, RestInv, CopyOf, Oldest, Settings, Ascending, Within
<1>2. SourceInv'
  BY DEF ConserveInv, SourceInv, Settings, Connections
<1>3. SettingsConserved'
  BY DEF ConserveInv, SettingsConserved, InHand, Settings, Connections
<1>. QED  BY <1>1, <1>2, <1>3 DEF ConserveInv

\* A list in ascending order: its head comes before all others, and taking an
\* item out takes out just that.
LEMMA AscendingTail ==
  ASSUME NEW S \in SUBSET Nat, NEW t \in Seq(S), t # <<>>, Ascending(t)
  PROVE  /\ Ascending(Tail(t)) /\ Tail(t) \in Seq(S) /\ Head(t) \in S
         /\ \A x : Contains(t, x) <=> x = Head(t) \/ Contains(Tail(t), x)
         /\ \A x \in Nat : Contains(Tail(t), x) => Head(t) < x
<1>. DEFINE u == Tail(t)
<1>1. /\ u \in Seq(S) /\ Len(u) = Len(t) - 1 /\ Head(t) \in S
      /\ \A i \in 1..(Len(t) - 1) : u[i] = t[i + 1]
  BY HeadTailProperties
<1>2. /\ Len(t) \in Nat /\ 1 \in 1..Len(t) /\ t[1] = Head(t)
      /\ DOMAIN t = 1..Len(t) /\ DOMAIN u = 1..(Len(t) - 1)
  BY <1>1, LenProperties
<1>. HIDE DEF u
<1>3. Ascending(u)
  <2>1. SUFFICES ASSUME NEW i \in 1..(Len(t) - 1), NEW j \in 1..(Len(t) - 1), i < j
                 PROVE  u[i] < u[j]
    BY <1>2 DEF Ascending
  <2>2. i + 1 \in 1..Len(t) /\ j + 1 \in 1..Len(t) /\ i + 1 < j + 1
    BY <1>2, <2>1
  <2>3. t[i + 1] < t[j + 1]
    BY <1>2, <2>2 DEF Ascending
  <2>. QED  BY <1>1, <2>3
<1>4. ASSUME NEW x PROVE Contains(t, x) <=> x = Head(t) \/ Contains(u, x)
  <2>1. ASSUME Contains(t, x), x # Head(t) PROVE Contains(u, x)
    <3>1. PICK i \in 1..Len(t) : t[i] = x
      BY <2>1 DEF Contains
    <3>2. i - 1 \in 1..(Len(t) - 1) /\ (i - 1) + 1 = i
      BY <1>2, <2>1, <3>1
    <3>3. u[i - 1] = x
      BY <1>1, <3>1, <3>2
    <3>. QED  BY <1>1, <3>2, <3>3 DEF Contains
  <2>2. ASSUME Contains(u, x) PROVE Contains(t, x)
    BY <1>1, <1>2, <2>2 DEF Contains
  <2>3. Contains(t, Head(t))
    BY <1>2 DEF Contains
  <2>. QED  BY <2>1, <2>2, <2>3
<1>5. ASSUME NEW x \in Nat, Contains(u, x) PROVE Head(t) < x
  <2>1. PICK i \in 1..(Len(t) - 1) : u[i] = x
    BY <1>1, <1>5 DEF Contains
  <2>2. i + 1 \in 1..Len(t) /\ 1 < i + 1 /\ t[i + 1] = x
    BY <1>1, <1>2, <2>1
  <2>. QED  BY <1>2, <2>2 DEF Ascending
<1>. QED  BY <1>1, <1>3, <1>4, <1>5 DEF u

LEMMA AscendingRemoveAt ==
  ASSUME NEW S \in SUBSET Nat, NEW s \in Seq(S), NEW k \in 1..Len(s), Ascending(s)
  PROVE  /\ Ascending(RemoveAt(s, k))
         /\ \A x : Contains(RemoveAt(s, k), x) <=> Contains(s, x) /\ x # s[k]
<1>. DEFINE u == RemoveAt(s, k)
<1>1. /\ u \in Seq(S) /\ Len(u) = Len(s) - 1
      /\ \A i \in 1..(Len(s) - 1) : u[i] = IF i < k THEN s[i] ELSE s[i + 1]
  BY RemoveAtCloses
<1>2. /\ Len(s) \in Nat /\ DOMAIN s = 1..Len(s) /\ DOMAIN u = 1..(Len(s) - 1)
      /\ \A i \in 1..Len(s) : s[i] \in Nat
  BY <1>1, LenProperties, ElementOfSeq
<1>. HIDE DEF u
<1>3. \A i, j \in 1..Len(s) : i < j => s[i] < s[j]
  BY <1>2 DEF Ascending
<1>4. ASSUME NEW i \in 1..(Len(s) - 1), NEW j \in 1..(Len(s) - 1), i < j
      PROVE  u[i] < u[j]
  <2>. DEFINE to(m) == IF m < k THEN m ELSE m + 1
  <2>1. /\ to(i) \in 1..Len(s) /\ to(j) \in 1..Len(s) /\ to(i) < to(j)
    BY <1>2, <1>4
  <2>2. u[i] = s[to(i)] /\ u[j] = s[to(j)]
    BY <1>1
  <2>. HIDE DEF to
  <2>. QED  BY <1>3, <2>1, <2>2
<1>5. ASSUME NEW x, Contains(u, x) PROVE Contains(s, x) /\ x # s[k]
  <2>1. PICK i \in 1..(Len(s) - 1) : u[i] = x
    BY <1>1, <1>5 DEF Contains
  <2>2. PICK j \in 1..Len(s) : j # k /\ s[j] = x
    BY <1>1, <1>2, <2>1
  <2>3. s[j] # s[k]
    BY <1>2, <1>3, <2>2
  <2>. QED  BY <2>2, <2>3 DEF Contains
<1>6. ASSUME NEW x, Contains(s, x), x # s[k] PROVE Contains(u, x)
  <2>1. PICK j \in 1..Len(s) : s[j] = x
    BY <1>6 DEF Contains
  <2>2. CASE j < k
    <3>1. j \in 1..(Len(s) - 1) /\ u[j] = x
      BY <1>1, <1>2, <2>1, <2>2
    <3>. QED  BY <1>1, <3>1 DEF Contains
  <2>3. CASE j > k
    <3>1. j - 1 \in 1..(Len(s) - 1) /\ ~(j - 1 < k) /\ (j - 1) + 1 = j
      BY <1>2, <2>3
    <3>2. u[j - 1] = x
      BY <1>1, <2>1, <3>1
    <3>. QED  BY <1>1, <3>1, <3>2 DEF Contains
  <2>. QED  BY <1>2, <1>6, <2>1, <2>2, <2>3
<1>. QED  BY <1>2, <1>4, <1>5, <1>6 DEF u, Ascending

\* What the types say of the lists of settings.
ListTypes ==
  /\ given \in Seq(Endpoints) /\ notYetInitialized \in Seq(Settings)
  /\ todo \in Seq(Settings) /\ Settings \in SUBSET Nat /\ 0 \notin Settings
  /\ conns \in Seq(Endpoints) /\ source \in Seq(Settings \cup {0})
  /\ Len(source) = Len(conns) /\ Connections = 1..Len(conns) /\ Len(conns) \in Nat
  /\ mpc = "forget" => todo # <<>>
  /\ mpc = "copy" => pos \in Nat \ {0}

LEMMA ListsTyped == TypeInv => ListTypes
<1>. SUFFICES ASSUME TypeInv PROVE ListTypes
  OBVIOUS
<1>1. Settings = 1..Len(given) /\ Len(given) \in Nat
  BY LenProperties DEF TypeInv, TypeOK, Settings
<1>2. Connections = 1..Len(conns) /\ Len(conns) \in Nat
  BY LenProperties DEF TypeInv, TypeOK, Connections
<1>. QED  BY <1>1, <1>2 DEF TypeInv, TypeOK, ListTypes

\* The task copies the list.
LEMMA TickConserves == ASSUME ListTypes, ConserveInv, Tick PROVE ConserveInv'
<1>1. /\ mpc = "tick" /\ todo = <<>> /\ todo' = <<>> /\ pos' = 1
      /\ UNCHANGED <<given, notYetInitialized, conns, source, mixed>>
      /\ \/ mpc' = "setup"
         \/ mpc' = "copy"
  BY DEF Tick, ConserveInv, CopyInv, listVars, callerVars
<1>2. Ascending(notYetInitialized')
  BY <1>1 DEF ConserveInv, CopyInv, Ascending
<1>3. CopyOf(todo', notYetInitialized', pos' - 1)
  BY <1>1, LenProperties DEF CopyOf, ListTypes
<1>4. RestInv'
  <2>1. \A x : ~Contains(todo', x) /\ DOMAIN todo' = {}
    BY <1>1 DEF Contains
  <2>. QED  BY <2>1 DEF RestInv, Ascending, Within, Oldest
<1>5. CopyInv'
  BY <1>1, <1>2, <1>3, <1>4 DEF CopyInv
<1>6. SourceInv' /\ SettingsConserved'
  BY <1>1 DEF ConserveInv, SourceInv, SettingsConserved, InHand, Settings, Connections
<1>. QED  BY <1>5, <1>6 DEF ConserveInv

LEMMA CopyNextConserves == ASSUME ListTypes, ConserveInv, CopyNext PROVE ConserveInv'
<1>1. /\ mpc = "copy" /\ mpc' = "copy" /\ pos' = pos + 1
      /\ todo' = Append(todo, notYetInitialized[pos])
      /\ pos <= Len(notYetInitialized) /\ pos \in Nat \ {0}
      /\ UNCHANGED <<given, notYetInitialized, conns, source, mixed>>
  BY DEF CopyNext, ListTypes, listVars, callerVars
<1>2. CopyOf(todo, notYetInitialized, pos - 1) /\ Ascending(notYetInitialized)
  BY <1>1 DEF ConserveInv, CopyInv
<1>3. Len(notYetInitialized) \in Nat /\ Len(todo) = pos - 1
  BY <1>2, LenProperties DEF ListTypes, CopyOf
<1>4. notYetInitialized[pos] \in Settings
  BY <1>1, <1>3, ElementOfSeq DEF ListTypes
<1>5. /\ Len(todo') = pos /\ todo'[pos] = notYetInitialized[pos]
      /\ \A i \in 1..(pos - 1) : todo'[i] = todo[i]
  BY <1>1, <1>3, <1>4, AppendProperties DEF ListTypes
<1>6. \A i \in 1..pos : todo'[i] = notYetInitialized[i]
  BY <1>1, <1>2, <1>5 DEF CopyOf
<1>7. CopyOf(todo', notYetInitialized', pos' - 1)
  BY <1>1, <1>5, <1>6 DEF CopyOf
<1>8. CopyInv'
  BY <1>1, <1>2, <1>7 DEF CopyInv, Ascending
<1>9. SourceInv' /\ SettingsConserved'
  BY <1>1 DEF ConserveInv, SourceInv, SettingsConserved, InHand, Settings, Connections
<1>. QED  BY <1>8, <1>9 DEF ConserveInv

LEMMA CopyEndsConserves == ASSUME ListTypes, ConserveInv, CopyEnds PROVE ConserveInv'
<1>1. /\ mpc = "copy" /\ mpc' = "setup" /\ pos \in Nat
      /\ pos > Len(notYetInitialized)
      /\ UNCHANGED <<given, notYetInitialized, todo, conns, source, mixed>>
  BY DEF CopyEnds, ListTypes, listVars, callerVars
<1>2. CopyOf(todo, notYetInitialized, pos - 1) /\ Ascending(notYetInitialized)
  BY <1>1 DEF ConserveInv, CopyInv
<1>3. todo = notYetInitialized
  <2>1. Len(notYetInitialized) \in Nat /\ pos - 1 = Len(notYetInitialized)
    BY <1>1, <1>2, LenProperties DEF ListTypes, CopyOf
  <2>2. Len(todo) = Len(notYetInitialized)
    BY <1>2, <2>1 DEF CopyOf
  <2>3. \A i \in 1..Len(notYetInitialized) : todo[i] = notYetInitialized[i]
    BY <1>2, <2>1 DEF CopyOf
  <2>. QED  BY <2>2, <2>3, SeqEqual DEF ListTypes
<1>4. RestInv'
  <2>1. todo' = notYetInitialized /\ notYetInitialized' = notYetInitialized
    BY <1>1, <1>3
  <2>. QED  BY <1>2, <2>1 DEF RestInv, Ascending, Within, Oldest
<1>5. CopyInv'
  BY <1>1, <1>2, <1>4 DEF CopyInv, Ascending
<1>6. SourceInv' /\ SettingsConserved'
  BY <1>1 DEF ConserveInv, SourceInv, SettingsConserved, InHand, Settings, Connections
<1>. QED  BY <1>5, <1>6 DEF ConserveInv

LEMMA PassEndsConserves ==
  ASSUME ConserveInv, CopyThrows \/ BeginScan PROVE ConserveInv'
<1>1. /\ mpc \in {"copy", "setup"} /\ mpc' \in {"dead", "scan"} /\ todo' = <<>>
      /\ UNCHANGED <<given, notYetInitialized, conns, source, mixed>>
  BY DEF CopyThrows, BeginScan, listVars, callerVars
<1>2. CopyInv'
  BY <1>1 DEF ConserveInv, CopyInv, Ascending
<1>3. SourceInv' /\ SettingsConserved'
  BY <1>1 DEF ConserveInv, SourceInv, SettingsConserved, InHand, Settings, Connections
<1>. QED  BY <1>2, <1>3 DEF ConserveInv

LEMMA ConnectConserves == ASSUME ListTypes, ConserveInv, Connect PROVE ConserveInv'
<1>. DEFINE h == Head(todo)
            new == Len(conns) + 1
<1>1. /\ mpc = "setup" /\ mpc' = "forget" /\ todo # <<>>
      /\ conns' = Append(conns, given[h]) /\ source' = Append(source, h)
      /\ UNCHANGED <<given, notYetInitialized, todo, mixed>>
  BY DEF Connect, callerVars
<1>2. /\ Ascending(notYetInitialized) /\ RestInv
      /\ SourceInv /\ SettingsConserved
  BY <1>1 DEF ConserveInv, CopyInv
<1>3. h \in Settings /\ Contains(todo, h) /\ given[h] \in Endpoints
  <2>1. h \in Settings /\ Len(todo) \in Nat /\ 1 \in 1..Len(todo) /\ todo[1] = h
    BY <1>1, HeadTailProperties, LenProperties DEF ListTypes
  <2>. QED  BY <2>1, ElementOfSeq, LenProperties DEF ListTypes, Contains, Settings
<1>4. Contains(notYetInitialized, h)
  BY <1>2, <1>3 DEF RestInv, Within
<1>5. /\ Connections' = Connections \cup {new} /\ new \notin Connections
      /\ \A k \in Connections : conns'[k] = conns[k] /\ source'[k] = source[k]
      /\ conns'[new] = given[h] /\ source'[new] = h
  <2>1. /\ Len(conns') = new /\ conns' \in Seq(Endpoints)
        /\ \A k \in 1..Len(conns) : conns'[k] = conns[k]
        /\ conns'[new] = given[h]
    BY <1>1, <1>3, AppendProperties DEF ListTypes
  <2>2. /\ \A k \in 1..Len(source) : source'[k] = source[k]
        /\ source'[Len(source) + 1] = h
    BY <1>1, <1>3, AppendProperties DEF ListTypes
  <2>3. Connections' = 1..new
    BY <2>1, LenProperties DEF Connections
  <2>. QED  BY <2>1, <2>2, <2>3 DEF ListTypes
<1>. HIDE DEF h, new
<1>6. h # 0 /\ Settings' = Settings
  BY <1>1, <1>3 DEF ListTypes, Settings
<1>7. CopyInv'
  BY <1>1, <1>2, <1>6 DEF CopyInv, RestInv, Ascending, Within, Oldest
<1>8. SourceInv'
  BY <1>1, <1>2, <1>3, <1>5, <1>6 DEF SourceInv
\* The settings at the head have no connection yet.
<1>9. given[h] \notin mixed => \A k \in Connections : source[k] # h
  BY <1>1, <1>2, <1>3, <1>4 DEF SettingsConserved, InHand
<1>10. ASSUME NEW s \in Settings', given'[s] \notin mixed'
       PROVE  Contains(notYetInitialized', s) /\ ~InHand(s)'
                <=> \A k \in Connections' : source'[k] # s
  <2>1. InHand(s)' <=> s = h
    BY <1>1 DEF InHand, h
  <2>2. CASE s = h
    BY <1>5, <2>1, <2>2
  <2>3. CASE s # h
    <3>1. Contains(notYetInitialized, s) <=> \A k \in Connections : source[k] # s
      BY <1>1, <1>2, <1>6, <1>10 DEF SettingsConserved, InHand
    <3>. QED  BY <1>1, <1>5, <2>1, <2>3, <3>1
  <2>. QED  BY <2>2, <2>3
<1>11. ASSUME NEW k \in Connections', NEW l \in Connections',
              source'[k] # 0, source'[k] = source'[l], conns'[k] \notin mixed'
       PROVE  k = l
  <2>1. CASE k \in Connections /\ l \in Connections
    <3>1. source[k] # 0 /\ source[k] = source[l] /\ conns[k] \notin mixed
      BY <1>1, <1>5, <1>11, <2>1
    <3>. QED  BY <1>2, <2>1, <3>1 DEF SettingsConserved
  <2>2. CASE k = new /\ l \in Connections
    BY <1>1, <1>5, <1>9, <1>11, <2>2
  <2>3. CASE k \in Connections /\ l = new
    <3>1. source[k] = h /\ conns[k] = given[h]
      BY <1>2, <1>5, <1>6, <1>11, <2>3 DEF SourceInv
    <3>. QED  BY <1>1, <1>5, <1>9, <1>11, <2>3, <3>1
  <2>. QED  BY <1>5, <2>1, <2>2, <2>3
<1>12. SettingsConserved'
  BY <1>10, <1>11 DEF SettingsConserved
<1>. QED  BY <1>7, <1>8, <1>12 DEF ConserveInv

LEMMA ConnectFailsConserves ==
  ASSUME ListTypes, ConserveInv, ConnectFails PROVE ConserveInv'
<1>. DEFINE h == Head(todo)
            u == Tail(todo)
<1>1. /\ mpc = "setup" /\ mpc' = "setup" /\ todo # <<>> /\ todo' = u
      /\ UNCHANGED <<given, notYetInitialized, conns, source>>
      /\ mixed' = mixed \cup {given[s] : s \in {s \in ToSet(u) : given[s] = given[h]}}
  BY DEF ConnectFails, callerVars, listVars
<1>2. /\ Ascending(notYetInitialized) /\ RestInv
      /\ SourceInv /\ SettingsConserved
  BY <1>1 DEF ConserveInv, CopyInv
<1>3. /\ Ascending(u) /\ u \in Seq(Settings)
      /\ \A x : Contains(todo, x) <=> x = h \/ Contains(u, x)
  BY <1>1, <1>2, AscendingTail DEF RestInv, ListTypes
<1>4. \A x : Contains(u, x) => x \in ToSet(u)
  BY <1>3, LenProperties DEF Contains, ToSet
<1>. HIDE DEF h, u
<1>5. RestInv'
  <2>1. ASSUME NEW x \in Settings, NEW y \in Settings, Contains(u, x),
               Contains(notYetInitialized, y), y < x,
               given[x] = given[y], given[x] \notin mixed'
        PROVE  Contains(u, y)
    <3>1. Contains(todo, y)
      BY <1>1, <1>2, <1>3, <2>1 DEF RestInv, Oldest
    <3>2. y # h
      BY <1>1, <1>4, <2>1
    <3>. QED  BY <1>3, <3>1, <3>2
  <2>2. Within(u, notYetInitialized)
    BY <1>2, <1>3 DEF RestInv, Within
  <2>3. Settings' = Settings
    BY <1>1 DEF Settings
  <2>. QED  BY <1>1, <1>3, <2>1, <2>2, <2>3 DEF RestInv, Ascending, Within, Oldest
<1>6. CopyInv'
  BY <1>1, <1>2, <1>5 DEF CopyInv, Ascending
<1>7. SourceInv'
  BY <1>1, <1>2 DEF SourceInv, Settings, Connections
<1>8. SettingsConserved'
  <2>1. Settings' = Settings /\ Connections' = Connections /\ mixed \subseteq mixed'
    BY <1>1 DEF Settings, Connections
  <2>2. \A s : ~InHand(s) /\ ~InHand(s)'
    BY <1>1 DEF InHand
  <2>. QED  BY <1>1, <1>2, <2>1, <2>2 DEF SettingsConserved
<1>. QED  BY <1>6, <1>7, <1>8 DEF ConserveInv

\* What Forget takes off the list is for the endpoint just connected to; where
\* nothing failed in between, it is the settings just connected.
LEMMA ForgetConserves == ASSUME ListTypes, ConserveInv, Forget PROVE ConserveInv'
<1>. DEFINE h == Head(todo)
            u == Tail(todo)
<1>1. /\ mpc = "forget" /\ mpc' = "setup" /\ todo # <<>> /\ todo' = u
      /\ notYetInitialized' = RemoveFirstMatch(notYetInitialized, OfHead)
      /\ UNCHANGED <<given, conns, source, mixed>>
  BY DEF Forget, ListTypes, callerVars
<1>2. /\ Ascending(notYetInitialized) /\ RestInv
      /\ SourceInv /\ SettingsConserved
  BY <1>1 DEF ConserveInv, CopyInv
<1>3. /\ Ascending(u) /\ u \in Seq(Settings) /\ h \in Settings
      /\ \A x : Contains(todo, x) <=> x = h \/ Contains(u, x)
      /\ \A x \in Nat : Contains(u, x) => h < x
  BY <1>1, <1>2, AscendingTail DEF RestInv, ListTypes
<1>4. Contains(notYetInitialized, h)
  BY <1>2, <1>3 DEF RestInv, Within
<1>5. PICK k \in 1..Len(notYetInitialized) :
        /\ OfHead(notYetInitialized[k])
        /\ \A i \in 1..(k - 1) : ~OfHead(notYetInitialized[i])
        /\ notYetInitialized' = RemoveAt(notYetInitialized, k)
  <2>1. PICK i \in 1..Len(notYetInitialized) : notYetInitialized[i] = h
    BY <1>4 DEF Contains
  <2>2. OfHead(notYetInitialized[i])
    BY <2>1 DEF OfHead
  <2>. QED  BY <1>1, <2>2, ForgetTakes DEF ListTypes
<1>. DEFINE x == notYetInitialized[k]
<1>6. /\ Ascending(notYetInitialized')
      /\ \A y : Contains(notYetInitialized', y) <=> Contains(notYetInitialized, y) /\ y # x
  BY <1>2, <1>5, AscendingRemoveAt DEF ListTypes
<1>7. x \in Settings /\ Contains(notYetInitialized, x) /\ given[x] = given[h]
  <2>1. Len(notYetInitialized) \in Nat /\ x \in Settings
    BY <1>5, ElementOfSeq, LenProperties DEF ListTypes
  <2>. QED  BY <1>5, <2>1 DEF OfHead, Contains
\* The first settings with the endpoint come no later than those at the head.
<1>8. x = h \/ x < h
  <2>1. PICK i \in 1..Len(notYetInitialized) : notYetInitialized[i] = h
    BY <1>4 DEF Contains
  <2>2. Len(notYetInitialized) \in Nat /\ DOMAIN notYetInitialized = 1..Len(notYetInitialized)
    BY LenProperties DEF ListTypes
  <2>3. ~(i < k)
    BY <1>5, <2>1, <2>2 DEF OfHead
  <2>4. i = k \/ k < i
    BY <2>2, <2>3
  <2>. QED  BY <1>2, <2>1, <2>2, <2>4 DEF Ascending
<1>. HIDE DEF h, u, x
<1>9. \A y \in Settings : y \in Nat
  BY DEF ListTypes
<1>10. given[h] \notin mixed => x = h
  <2>1. ASSUME given[h] \notin mixed, x < h PROVE FALSE
    <3>1. Contains(todo, x)
      BY <1>2, <1>3, <1>7, <2>1 DEF RestInv, Oldest
    <3>2. Contains(u, x)
      BY <1>3, <1>9, <2>1, <3>1
    <3>. QED  BY <1>3, <1>7, <1>9, <2>1, <3>2
  <2>. QED  BY <1>8, <2>1
<1>11. Settings' = Settings /\ Connections' = Connections
  BY <1>1 DEF Settings, Connections
<1>12. RestInv'
  <2>1. ASSUME NEW y, Contains(u, y) PROVE Contains(notYetInitialized, y) /\ y # x
    <3>1. Contains(notYetInitialized, y)
      BY <1>2, <1>3, <2>1 DEF RestInv, Within
    <3>2. y \in Settings
      BY <1>3, <2>1, ElementOfSeq DEF Contains
    <3>. QED  BY <1>3, <1>7, <1>8, <1>9, <2>1, <3>1, <3>2
  <2>2. ASSUME NEW y \in Settings, NEW z \in Settings, Contains(u, y),
               Contains(notYetInitialized', z), z < y,
               given[y] = given[z], given[y] \notin mixed
        PROVE  Contains(u, z)
    <3>1. Contains(todo, z)
      BY <1>2, <1>3, <1>6, <2>2 DEF RestInv, Oldest
    <3>2. z # h
      BY <1>6, <1>10, <2>2
    <3>. QED  BY <1>3, <3>1, <3>2
  <2>3. Within(u, notYetInitialized')
    BY <1>6, <2>1 DEF Within
  <2>. QED  BY <1>1, <1>3, <1>11, <2>2, <2>3 DEF RestInv, Ascending, Within, Oldest
<1>13. CopyInv'
  BY <1>1, <1>6, <1>12 DEF CopyInv, Ascending
<1>14. SourceInv'
  BY <1>1, <1>2, <1>11 DEF SourceInv
<1>15. ASSUME NEW s \in Settings, given[s] \notin mixed
       PROVE  Contains(notYetInitialized', s)
                <=> Contains(notYetInitialized, s) /\ ~InHand(s)
  <2>1. InHand(s) <=> s = h
    BY <1>1 DEF InHand, h
  <2>2. s = x <=> s = h
    BY <1>7, <1>10, <1>15
  <2>. QED  BY <1>6, <2>1, <2>2
<1>16. SettingsConserved'
  <2>1. \A s : ~InHand(s)'
    BY <1>1 DEF InHand
  <2>. QED  BY <1>1, <1>2, <1>11, <1>15, <2>1 DEF SettingsConserved
<1>. QED  BY <1>13, <1>14, <1>16 DEF ConserveInv

LEMMA AddNodeConserves ==
  ASSUME ListTypes, ConserveInv, NEW p \in Callers, NEW e \in Endpoints, AddNode(p, e)
  PROVE  ConserveInv'
<1>. DEFINE new == Len(given) + 1
<1>1. /\ given' = Append(given, e)
      /\ notYetInitialized' = Append(notYetInitialized, new)
      /\ UNCHANGED <<mpc, pos, todo, conns, source, mixed>>
  BY DEF AddNode, monitorVars
<1>2. /\ Ascending(notYetInitialized) /\ SourceInv /\ SettingsConserved /\ CopyInv
  BY DEF ConserveInv, CopyInv
<1>3. /\ Settings' = Settings \cup {new} /\ new \in Nat \ {0}
      /\ \A s \in Settings : given'[s] = given[s] /\ s < new /\ s \in Nat
  <2>1. /\ Len(given') = new /\ given' \in Seq(Endpoints)
        /\ \A s \in 1..Len(given) : given'[s] = given[s]
    BY <1>1, AppendProperties DEF ListTypes
  <2>2. Settings' = 1..new /\ Settings = 1..Len(given) /\ Len(given) \in Nat
    BY <2>1, LenProperties DEF Settings, ListTypes
  <2>. QED  BY <2>1, <2>2
<1>. DEFINE s == notYetInitialized
            r == notYetInitialized'
<1>4. /\ Len(r) = Len(s) + 1 /\ r[Len(s) + 1] = new /\ Len(s) \in Nat
      /\ \A i \in 1..Len(s) : r[i] = s[i] /\ s[i] \in Settings
      /\ DOMAIN s = 1..Len(s) /\ DOMAIN r = 1..(Len(s) + 1)
  <2>1. s \in Seq(Settings \cup {new})
    BY SeqMonotonic DEF ListTypes
  <2>2. /\ r \in Seq(Settings \cup {new}) /\ Len(r) = Len(s) + 1
        /\ \A i \in 1..Len(s) : r[i] = s[i]
        /\ r[Len(s) + 1] = new
    BY <1>1, <2>1, AppendProperties
  <2>3. \A i \in 1..Len(s) : s[i] \in Settings
    BY ElementOfSeq DEF ListTypes
  <2>. QED  BY <2>1, <2>2, <2>3, LenProperties
<1>5. \A y : Contains(r, y) <=> Contains(s, y) \/ y = new
  <2>1. \A y : Contains(r, y) => Contains(s, y) \/ y = new
    BY <1>4 DEF Contains
  <2>2. \A y : Contains(s, y) => Contains(r, y)
    BY <1>4 DEF Contains
  <2>3. Contains(r, new)
    <3>1. Len(s) + 1 \in 1..Len(r)
      BY <1>4
    <3>. QED  BY <1>4, <3>1 DEF Contains
  <2>. QED  BY <2>1, <2>2, <2>3
<1>. HIDE DEF new
<1>6. Ascending(r)
  BY <1>2, <1>3, <1>4 DEF Ascending
<1>7. mpc = "copy" => CopyOf(todo, s, pos - 1) /\ pos \in Nat \ {0}
  BY <1>2 DEF CopyInv, ListTypes
<1>8. mpc = "copy" => CopyOf(todo, r, pos - 1)
  BY <1>4, <1>7 DEF CopyOf
<1>9. \A y : Contains(todo, y) => y \in Settings
  BY ElementOfSeq DEF ListTypes, Contains
<1>10. ASSUME RestInv PROVE RestInv'
  <2>1. Within(todo, r)
    BY <1>5, <1>10 DEF RestInv, Within
  <2>2. ASSUME NEW x \in Settings', NEW y \in Settings', Contains(todo, x),
               Contains(r, y), y < x, given'[x] = given'[y], given'[x] \notin mixed
        PROVE  Contains(todo, y)
    <3>1. x \in Settings /\ y # new
      BY <1>3, <1>9, <2>2
    <3>2. y \in Settings /\ Contains(s, y)
      BY <1>3, <1>5, <2>2, <3>1
    <3>. QED  BY <1>3, <1>10, <2>2, <3>1, <3>2 DEF RestInv, Oldest
  <2>. QED  BY <1>1, <1>10, <2>1, <2>2 DEF RestInv, Ascending, Within, Oldest
<1>11. CopyInv'
  <2>1. Ascending(notYetInitialized')
    BY <1>6
  <2>. QED  BY <1>1, <1>2, <1>8, <1>10, <2>1 DEF CopyInv
<1>12. SourceInv'
  BY <1>1, <1>2, <1>3 DEF SourceInv, Connections
<1>13. \A x \in Settings : InHand(x)' <=> InHand(x)
  BY <1>1 DEF InHand
<1>14. ASSUME NEW x, x \notin Settings PROVE ~InHand(x)'
  <2>1. mpc = "forget" => Head(todo) \in Settings
    BY HeadTailProperties DEF ListTypes
  <2>. QED  BY <1>1, <1>14, <2>1 DEF InHand
<1>15. \A k \in Connections : source[k] \in Settings \cup {0} /\ source[k] # new
  BY <1>3, ElementOfSeq DEF ListTypes
<1>16. Connections' = Connections
  BY <1>1 DEF Connections
<1>17. ASSUME NEW x \in Settings', given'[x] \notin mixed
       PROVE  Contains(r, x) /\ ~InHand(x)' <=> \A k \in Connections : source[k] # x
  <2>1. CASE x = new
    <3>1. Contains(r, x) /\ x \notin Settings
      BY <1>3, <1>5, <2>1
    <3>2. ~InHand(x)'
      BY <1>14, <3>1
    <3>. QED  BY <1>15, <2>1, <3>1, <3>2
  <2>2. CASE x # new
    <3>1. x \in Settings /\ given[x] \notin mixed
      BY <1>3, <1>17, <2>2
    <3>. QED  BY <1>2, <1>5, <1>13, <2>2, <3>1 DEF SettingsConserved
  <2>. QED  BY <2>1, <2>2
<1>18. SettingsConserved'
  BY <1>1, <1>2, <1>16, <1>17 DEF SettingsConserved
<1>. QED  BY <1>11, <1>12, <1>18 DEF ConserveInv

LEMMA ConserveStep == TypeInv /\ ConserveInv /\ [Next]_vars => ConserveInv'
<1>. SUFFICES ASSUME TypeInv, ConserveInv, [Next]_vars PROVE ConserveInv'
  OBVIOUS
<1>. USE ListsTyped DEF ScanLabels, serverVars, listVars, monitorVars, callerVars
<1>1. CASE Tick \/ CopyNext \/ CopyEnds \/ CopyThrows \/ BeginScan
  BY <1>1, TickConserves, CopyNextConserves, CopyEndsConserves, PassEndsConserves
<1>2. CASE Connect \/ ConnectFails \/ Forget
  BY <1>2, ConnectConserves, ConnectFailsConserves, ForgetConserves
<1>3. CASE Stop \/ ScanNext \/ ScanThrows \/ ScanEnds \/ JudgeReady
  BY <1>3, ConserveStutter DEF Stop, ScanNext, ScanThrows, ScanEnds, JudgeReady
<1>4. CASE Admit \/ Probe \/ Keep \/ Drop \/ Pace
  BY <1>4, ConserveStutter DEF Admit, Probe, Keep, Drop, Pace
<1>5. ASSUME NEW p \in Callers, NEW e \in Endpoints, AddNode(p, e) PROVE ConserveInv'
  BY <1>5, AddNodeConserves
<1>6. ASSUME NEW p \in Callers,
             (\E c \in Connections : RemoveNode(p, c)) \/ Dispose(p) \/ Finish(p)
      PROVE  ConserveInv'
  BY <1>6, ConserveStutter DEF RemoveNode, Dispose, Finish, RemoveReady, DisposeNext,
                              DisposeReturns
<1>7. CASE Environment \/ UNCHANGED vars
  BY <1>7, ConserveStutter DEF Environment, ServerChanges, StartupTimeElapses, vars
<1>. QED
  BY <1>1, <1>2, <1>3, <1>4, <1>5, <1>6, <1>7 DEF Next, Monitor, Call

\* However the callers add settings while the task works through its copy of
\* them, all settings whose endpoint did not fail and succeed in one pass are
\* waiting or have become exactly one connection.
THEOREM NoSettingsLost == Spec => []SettingsConserved
<1>1. ConserveInv => SettingsConserved
  BY DEF ConserveInv
<1>. QED  BY TypeInit, TypeStep, ConserveInit, ConserveStep, <1>1, PTL DEF Spec
=============================================================================
