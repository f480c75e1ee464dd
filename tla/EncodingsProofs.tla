-------------------------- MODULE EncodingsProofs --------------------------
(***************************************************************************)
(* Theorems about Onion, for packets, payloads and HMACs of any size and   *)
(* routes of any length, and about Bech32, for texts and data of any       *)
(* length.                                                                 *)
(***************************************************************************)
EXTENDS Onion, Bech32, Integers, SequenceTheorems,
        WellFoundedInduction, TLAPS

-----------------------------------------------------------------------------
(* Induction, which goes over the hops of a route, and parts of sequences. *)

\* A set of naturals with 0 and the successor of each of its members.
LEMMA Counting ==
  ASSUME NEW S, 0 \in S, \A n \in Nat : n \in S => n + 1 \in S
  PROVE  Nat \subseteq S
<1>. DEFINE T == Nat \ S
<1>. SUFFICES ASSUME T # {} PROVE FALSE
  OBVIOUS
<1>1. PICK x \in T : \A y \in T : ~(<<y, x>> \in OpToRel(<, Nat))
  BY NatLessThanWellFounded, WFMin
<1>2. \A y \in T : ~(y < x)
  <2>1. SUFFICES ASSUME NEW y \in T PROVE ~(y < x)
    OBVIOUS
  <2>2. <<y, x>> \in OpToRel(<, Nat) <=> y < x
    BY DEF OpToRel
  <2>. QED  BY <1>1, <2>2
<1>3. x # 0 /\ x - 1 \in Nat
  BY <1>2
<1>4. x - 1 \in S
  BY <1>2, <1>3
<1>. QED  BY <1>3, <1>4

LEMMA AsSeq ==
  ASSUME NEW n \in Nat, NEW s, s = [j \in 1..n |-> s[j]]
  PROVE  s \in Seq({s[j] : j \in 1..n}) /\ Len(s) = n
OBVIOUS

LEMMA SeqAs ==
  ASSUME NEW S, NEW s \in Seq(S), NEW n, Len(s) = n
  PROVE  n \in Nat /\ s = [j \in 1..n |-> s[j]]
OBVIOUS

LEMMA PartOf ==
  ASSUME NEW S, NEW s, NEW a \in Int, NEW b \in Int, a - 1 <= b,
         \A i \in a..b : s[i] \in S
  PROVE  /\ SubSeq(s, a, b) \in Seq(S)
         /\ Len(SubSeq(s, a, b)) = b - a + 1
         /\ \A i \in 1..(b - a + 1) : SubSeq(s, a, b)[i] = s[a + i - 1]
<1>1. /\ SubSeq(s, a, b) \in Seq(S)
      /\ Len(SubSeq(s, a, b)) = IF a <= b THEN b - a + 1 ELSE 0
      /\ \A i \in 1..(b - a + 1) : SubSeq(s, a, b)[i] = s[a + i - 1]
  BY SubSeqProperties
<1>2. CASE a <= b
  BY <1>1, <1>2
<1>3. CASE ~(a <= b)
  <2>1. b - a + 1 = 0
    BY <1>3
  <2>2. Len(SubSeq(s, a, b)) = 0
    BY <1>1, <1>3, Zenon
  <2>. QED  BY <1>1, <2>1, <2>2
<1>. QED  BY <1>2, <1>3

LEMMA PartWithin ==
  ASSUME NEW S, NEW s, NEW n \in Nat, NEW a \in Int, NEW b \in Int,
         1 <= a, a <= n + 1, a - 1 <= b, b <= n,
         \A i \in 1..n : s[i] \in S
  PROVE  /\ SubSeq(s, a, b) \in Seq(S)
         /\ Len(SubSeq(s, a, b)) = b - a + 1
         /\ \A i \in 1..(b - a + 1) : SubSeq(s, a, b)[i] = s[a + i - 1]
<1>1. \A i \in a..b : s[i] \in S
  OBVIOUS
<1>. QED  BY <1>1, PartOf

LEMMA SliceOf ==
  ASSUME NEW n \in Nat, NEW s, s = [j \in 1..n |-> s[j]],
         NEW a \in Int, NEW b \in Int, 1 <= a, a <= n + 1, a - 1 <= b, b <= n
  PROVE  SubSeq(s, a, b) = [j \in 1..(b - a + 1) |-> s[a + j - 1]]
<1>1. PICK S : \A i \in 1..n : s[i] \in S
  <2>. WITNESS {s[j] : j \in 1..n}
  <2>. QED  OBVIOUS
<1>2. /\ SubSeq(s, a, b) \in Seq(S)
      /\ Len(SubSeq(s, a, b)) = b - a + 1
      /\ \A i \in 1..(b - a + 1) : SubSeq(s, a, b)[i] = s[a + i - 1]
  BY <1>1, PartWithin
<1>. QED  BY <1>2

LEMMA Joined ==
  ASSUME NEW m \in Nat, NEW n \in Nat, NEW s, s = [j \in 1..m |-> s[j]],
         NEW t, t = [j \in 1..n |-> t[j]]
  PROVE  s \o t = [j \in 1..(m + n) |-> IF j <= m THEN s[j] ELSE t[j - m]]
<1>. DEFINE S == {s[j] : j \in 1..m} \cup {t[j] : j \in 1..n}
<1>0. (\A j \in 1..m : s[j] \in S) /\ (\A j \in 1..n : t[j] \in S)
  OBVIOUS
<1>1. s \in Seq(S) /\ t \in Seq(S) /\ Len(s) = m /\ Len(t) = n
  <2>. HIDE DEF S
  <2>1. s \in [1..m -> S] /\ t \in [1..n -> S]
    BY <1>0
  <2>. QED  BY <2>1
<1>. HIDE DEF S
<1>2. /\ s \o t \in Seq(S) /\ Len(s \o t) = m + n
      /\ \A i \in 1..(m + n) : (s \o t)[i] = IF i <= m THEN s[i] ELSE t[i - m]
  BY <1>1, ConcatProperties
<1>3. s \o t = [j \in 1..(m + n) |-> (s \o t)[j]]
  BY <1>2, SeqAs
<1>. QED  BY <1>2, <1>3

LEMMA TailOf ==
  ASSUME NEW n \in Nat \ {0}, NEW s, s = [j \in 1..n |-> s[j]]
  PROVE  Tail(s) = [j \in 1..(n - 1) |-> s[j + 1]]
<1>1. s \in Seq({s[j] : j \in 1..n}) /\ Len(s) = n
  BY AsSeq
<1>. DEFINE t == Tail(s)
<1>2. t \in Seq({s[j] : j \in 1..n}) /\ Len(t) = n - 1
      /\ \A i \in 1..(n - 1) : t[i] = s[i + 1]
  BY <1>1, HeadTailProperties
<1>. HIDE DEF t
<1>3. t = [j \in 1..(n - 1) |-> t[j]]
  BY <1>2, SeqAs
<1>4. t = [j \in 1..(n - 1) |-> s[j + 1]]
  BY <1>2, <1>3
<1>. QED  BY <1>4 DEF t

-----------------------------------------------------------------------------
(* The recursive functions and their equations.                            *)

\* Functions on 1..n that are made from left to right.
LEMMA Recurrence ==
  ASSUME NEW n \in Nat, NEW r, \A h \in 1..n : r[h] \in Nat
  PROVE  \E f : /\ f = [h \in 1..(n + 1) |-> IF h = 1 THEN 0
                                             ELSE f[h - 1] + r[h - 1] + HMAC_LENGTH]
<1>. DEFINE Sums(f, m) == f = [h \in 1..(m + 1) |-> IF h = 1 THEN 0
                                             ELSE f[h - 1] + r[h - 1] + HMAC_LENGTH]
            S == {m \in Nat : \E f : Sums(f, m)}
<1>1. 0 \in S
  <2>1. Sums([h \in 1..1 |-> 0], 0)
    OBVIOUS
  <2>. QED  BY <2>1
<1>2. ASSUME NEW m \in Nat, m \in S PROVE m + 1 \in S
  <2>1. PICK f : Sums(f, m)
    BY <1>2
  <2>. DEFINE g == [h \in 1..(m + 2) |-> IF h <= m + 1 THEN f[h]
                     ELSE f[m + 1] + r[m + 1] + HMAC_LENGTH]
  <2>2. \A h \in 1..(m + 2) :
          g[h] = IF h = 1 THEN 0 ELSE g[h - 1] + r[h - 1] + HMAC_LENGTH
    <3>1. TAKE h \in 1..(m + 2)
    <3>2. CASE h <= m + 1
      <4>1. g[h] = f[h] /\ (h # 1 => g[h - 1] = f[h - 1])
        BY <3>2
      <4>2. f[h] = IF h = 1 THEN 0 ELSE f[h - 1] + r[h - 1] + HMAC_LENGTH
        BY <2>1, <3>2
      <4>. QED  BY <4>1, <4>2
    <3>3. CASE h = m + 2
      BY <3>3
    <3>. QED  BY <3>2, <3>3
  <2>3. Sums(g, m + 1)
    BY <2>2
  <2>. HIDE DEF Sums, g
  <2>. QED  BY <2>3
<1>. HIDE DEF S
<1>3. n \in S
  BY <1>1, <1>2, Counting
<1>. QED  BY <1>3 DEF S

\* And from right to left, as the rounds of the construction.
LEMMA RecurrenceDown ==
  ASSUME Len(route) \in Nat, NEW buffers
  PROVE  \E f : f = [h \in 1..(Len(route) + 1) |->
                      IF h > Len(route) THEN [packet |-> Zeros(P), hmac |-> Zeros(HMAC_LENGTH)]
                      ELSE Round(h, buffers[h], f[h + 1])]
<1>. DEFINE Z == [packet |-> Zeros(P), hmac |-> Zeros(HMAC_LENGTH)]
<1>0. PICK L \in Nat : L = Len(route)
  OBVIOUS
<1>1. PICK z : z = Z
  OBVIOUS
<1>. HIDE DEF Z
<1>. DEFINE Steps(f, m) == f = [h \in (L + 1 - m)..(L + 1) |->
                               IF h > L THEN z ELSE Round(h, buffers[h], f[h + 1])]
            S == {m \in Nat : m <= L => \E f : Steps(f, m)}
<1>2. 0 \in S
  <2>1. Steps([h \in (L + 1)..(L + 1) |-> z], 0)
    OBVIOUS
  <2>. QED  BY <2>1
<1>3. ASSUME NEW m \in Nat, m \in S PROVE m + 1 \in S
  <2>0. SUFFICES ASSUME m + 1 <= L PROVE \E f : Steps(f, m + 1)
    OBVIOUS
  <2>1. PICK f : Steps(f, m)
    BY <1>3, <2>0
  <2>. DEFINE g == [h \in (L - m)..(L + 1) |-> IF h > L - m THEN f[h]
                     ELSE Round(h, buffers[h], f[h + 1])]
  <2>2. \A h \in (L - m)..(L + 1) :
          g[h] = IF h > L THEN z ELSE Round(h, buffers[h], g[h + 1])
    <3>1. TAKE h \in (L - m)..(L + 1)
    <3>2. CASE h > L - m
      <4>1. g[h] = f[h] /\ (h <= L => g[h + 1] = f[h + 1])
        BY <2>0, <3>2
      <4>2. f[h] = IF h > L THEN z ELSE Round(h, buffers[h], f[h + 1])
        BY <2>1, <3>2
      <4>. QED  BY <4>1, <4>2
    <3>3. CASE h = L - m
      BY <2>0, <3>3
    <3>. QED  BY <3>2, <3>3
  <2>3. Steps(g, m + 1)
    BY <2>2
  <2>. HIDE DEF Steps, g
  <2>. QED  BY <2>3
<1>. HIDE DEF S
<1>4. L \in S
  BY <1>2, <1>3, Counting
<1>5. \E f : Steps(f, L)
  BY <1>4 DEF S
<1>. QED  BY <1>0, <1>1, <1>5 DEF Z

\* The assumptions on the constants, spelled out.
LEMMA Constants ==
  /\ HMAC_LENGTH \in Nat /\ HMAC_LENGTH >= 1 /\ P \in Nat
  /\ \A s \in Sizes : s \in Nat /\ s >= 2 /\ s + HMAC_LENGTH <= P
<1>1. HMAC_LENGTH \in Nat /\ HMAC_LENGTH >= 1 /\ P \in Nat
  BY LengthsAssumption
<1>2. ASSUME NEW s \in Sizes PROVE s \in Nat /\ s >= 2 /\ s + HMAC_LENGTH <= P
  <2>1. s \in 2..(P - HMAC_LENGTH)
    BY SizesAssumption
  <2>. QED  BY <1>1, <2>1
<1>. QED  BY <1>1, <1>2

LEMMA RouteSizes ==
  ASSUME route \in Seq(Sizes)
  PROVE  /\ Len(route) \in Nat
         /\ \A h \in 1..Len(route) : route[h] \in Sizes /\ route[h] \in Nat /\ route[h] >= 2
BY Constants

LEMMA TrailingEquations ==
  ASSUME route \in Seq(Sizes)
  PROVE  /\ \A h \in 1..(Len(route) + 1) : Trailing[h] \in Nat
         /\ Trailing[1] = 0
         /\ \A h \in Hops : Trailing[h + 1] = Trailing[h] + ShiftSize(h)
         /\ \A g, h \in 1..(Len(route) + 1) : g <= h => Trailing[g] <= Trailing[h]
<1>. DEFINE L == Len(route)
<1>0. HMAC_LENGTH \in Nat
  BY Constants
<1>1. L \in Nat /\ \A h \in 1..L : route[h] \in Nat
  BY RouteSizes
<1>. HIDE DEF L
<1>2. Trailing = [h \in 1..(L + 1) |->
                   IF h = 1 THEN 0 ELSE Trailing[h - 1] + route[h - 1] + HMAC_LENGTH]
  BY <1>1, Recurrence DEF Trailing, L
<1>3. Trailing[1] = 0
  BY <1>1, <1>2
<1>4. \A h \in 1..L : Trailing[h + 1] = Trailing[h] + route[h] + HMAC_LENGTH
  BY <1>1, <1>2
<1>. DEFINE S == {m \in Nat : m <= L =>
                    \A g \in 1..(m + 1) : Trailing[g] \in Nat /\ Trailing[g] <= Trailing[m + 1]}
<1>5. 0 \in S
  BY <1>3
<1>6. ASSUME NEW m \in Nat, m \in S PROVE m + 1 \in S
  <2>1. SUFFICES ASSUME m + 1 <= L, NEW g \in 1..(m + 2)
                 PROVE  Trailing[g] \in Nat /\ Trailing[g] <= Trailing[m + 2]
    OBVIOUS
  <2>2. Trailing[m + 2] = Trailing[m + 1] + route[m + 1] + HMAC_LENGTH
    BY <1>1, <1>4, <2>1
  <2>3. \A f \in 1..(m + 1) : Trailing[f] \in Nat /\ Trailing[f] <= Trailing[m + 1]
    BY <1>1, <1>6, <2>1
  <2>4. route[m + 1] \in Nat /\ Trailing[m + 1] \in Nat
    BY <1>1, <2>1, <2>3
  <2>5. Trailing[m + 2] \in Nat /\ Trailing[m + 1] <= Trailing[m + 2]
    BY <1>0, <2>2, <2>4
  <2>6. CASE g = m + 2
    BY <2>5, <2>6
  <2>7. CASE g \in 1..(m + 1)
    BY <2>3, <2>4, <2>5, <2>7
  <2>. QED  BY <2>6, <2>7
<1>. HIDE DEF S
<1>7. Nat \subseteq S
  BY <1>5, <1>6, Counting
<1>8. ASSUME NEW h \in 1..(L + 1)
      PROVE  \A g \in 1..h : Trailing[g] \in Nat /\ Trailing[g] <= Trailing[h]
  <2>1. h - 1 \in S /\ (h - 1) + 1 = h
    BY <1>1, <1>7
  <2>. QED  BY <1>1, <2>1 DEF S
<1>9. \A h \in 1..(L + 1) : Trailing[h] \in Nat
  BY <1>1, <1>8
<1>10. \A g, h \in 1..(L + 1) : g <= h => Trailing[g] <= Trailing[h]
  BY <1>1, <1>8
<1>11. \A h \in Hops : Trailing[h + 1] = Trailing[h] + ShiftSize(h)
  <2>1. SUFFICES ASSUME NEW h \in 1..L PROVE Trailing[h + 1] = Trailing[h] + ShiftSize(h)
    BY DEF Hops, L
  <2>2. Trailing[h + 1] = Trailing[h] + route[h] + HMAC_LENGTH
    BY <1>4
  <2>3. Trailing[h] \in Nat /\ route[h] \in Nat
    BY <1>1, <1>9
  <2>. QED  BY <1>0, <2>2, <2>3 DEF ShiftSize
<1>. QED  BY <1>3, <1>9, <1>10, <1>11 DEF L

LEMMA RoundsEquations ==
  ASSUME route \in Seq(Sizes), NEW buffers
  PROVE  /\ Rounds(buffers)[Len(route) + 1] = [packet |-> Zeros(P), hmac |-> Zeros(HMAC_LENGTH)]
         /\ \A h \in Hops :
              Rounds(buffers)[h] = Round(h, buffers[h], Rounds(buffers)[h + 1])
<1>. DEFINE R == Rounds(buffers)
<1>1. Len(route) \in Nat
  BY RouteSizes
<1>2. R = [h \in 1..(Len(route) + 1) |->
            IF h > Len(route) THEN [packet |-> Zeros(P), hmac |-> Zeros(HMAC_LENGTH)]
            ELSE Round(h, buffers[h], R[h + 1])]
  BY <1>1, RecurrenceDown DEF Rounds
<1>. HIDE DEF R
<1>3. R[Len(route) + 1] = [packet |-> Zeros(P), hmac |-> Zeros(HMAC_LENGTH)]
  BY <1>1, <1>2
<1>4. \A h \in Hops : R[h] = Round(h, buffers[h], R[h + 1])
  BY <1>1, <1>2 DEF Hops
<1>. QED  BY <1>3, <1>4 DEF R

-----------------------------------------------------------------------------
(* Bytes and layers.                                                       *)

IsByte(x) == x = [b |-> x.b, s |-> x.s]
AreBytes(t, n) == t = [j \in 1..n |-> t[j]] /\ \A j \in 1..n : IsByte(t[j])

\* The route of an onion that fits.
Routed == route \in Seq(Sizes) /\ Len(route) >= 1 /\ Trailing[Len(route) + 1] <= P

LEMMA XoredByte ==
  ASSUME NEW x, IsByte(x), NEW t
  PROVE  /\ IsByte(Xored(x, t))
         /\ Xored(x, t).b = x.b
         /\ Xored(x, t).s = (x.s \ t) \cup (t \ x.s)
<1>1. Xored(x, t) = [b |-> x.b, s |-> (x.s \ t) \cup (t \ x.s)]
  BY DEF IsByte, Xored
<1>. QED  BY <1>1 DEF IsByte

LEMMA XoredRecord ==
  ASSUME NEW b, NEW s, NEW t
  PROVE  Xored([b |-> b, s |-> s], t) = [b |-> b, s |-> (s \ t) \cup (t \ s)]
BY DEF Xored

LEMMA XoredTwice ==
  ASSUME NEW x, IsByte(x), NEW t
  PROVE  Xored(Xored(x, t), t) = x
<1>1. Xored(x, t) = [b |-> x.b, s |-> (x.s \ t) \cup (t \ x.s)]
  BY DEF IsByte, Xored
<1>. DEFINE y == Xored(x, t)
<1>2. y = [b |-> x.b, s |-> (x.s \ t) \cup (t \ x.s)]
  BY <1>1
<1>. HIDE DEF y
<1>3. Xored(y, t) = [b |-> x.b, s |-> (y.s \ t) \cup (t \ y.s)]
  BY <1>2 DEF Xored
<1>4. (y.s \ t) \cup (t \ y.s) = x.s
  BY <1>2
<1>. QED  BY <1>3, <1>4 DEF IsByte, y

LEMMA ZerosAreBytes ==
  ASSUME NEW n \in Nat
  PROVE  AreBytes(Zeros(n), n) /\ \A j \in 1..n : Zeros(n)[j] = Zero
BY DEF AreBytes, IsByte, Zeros, Zero

\* u is s followed by t, or the part of s from a to b: named, so that the provers
\* match them.
IsJoint(u, s, m, t, n) ==
  /\ AreBytes(u, m + n)
  /\ Len(u) = m + n
  /\ \A j \in 1..m : u[j] = s[j]
  /\ \A j \in (m + 1)..(m + n) : u[j] = t[j - m]

IsPart(u, s, a, b) ==
  /\ AreBytes(u, b - a + 1)
  /\ \A j \in 1..(b - a + 1) : u[j] = s[a + j - 1]

LEMMA BytesJoined ==
  ASSUME NEW m \in Nat, NEW n \in Nat, NEW s, AreBytes(s, m), NEW t, AreBytes(t, n)
  PROVE  IsJoint(s \o t, s, m, t, n)
<1>1. PICK u : u = s \o t
  OBVIOUS
<1>2. s = [j \in 1..m |-> s[j]] /\ t = [j \in 1..n |-> t[j]]
  BY DEF AreBytes
<1>3. u = [j \in 1..(m + n) |-> IF j <= m THEN s[j] ELSE t[j - m]]
  BY <1>1, <1>2, Joined
<1>4. Len(u) = m + n
  BY <1>3
<1>5. \A j \in 1..m : u[j] = s[j]
  BY <1>3
<1>6. \A j \in (m + 1)..(m + n) : u[j] = t[j - m]
  BY <1>3
<1>7. \A j \in 1..m : IsByte(u[j])
  BY <1>5 DEF AreBytes
<1>8. \A j \in (m + 1)..(m + n) : IsByte(u[j])
  <2>1. \A j \in (m + 1)..(m + n) : j - m \in 1..n
    OBVIOUS
  <2>2. \A i \in 1..n : IsByte(t[i])
    BY DEF AreBytes
  <2>3. \A j \in (m + 1)..(m + n) : IsByte(t[j - m])
    BY <2>1, <2>2
  <2>. QED  BY <1>6, <2>3
<1>9. \A j \in 1..(m + n) : IsByte(u[j])
  BY <1>7, <1>8
<1>10. u = [j \in 1..(m + n) |-> u[j]]
  BY <1>3
<1>. QED  BY <1>1, <1>4, <1>5, <1>6, <1>9, <1>10 DEF IsJoint, AreBytes

LEMMA BytesSliced ==
  ASSUME NEW n \in Nat, NEW s, AreBytes(s, n),
         NEW a \in Int, NEW b \in Int, 1 <= a, a <= n + 1, a - 1 <= b, b <= n
  PROVE  IsPart(SubSeq(s, a, b), s, a, b)
<1>1. PICK u : u = SubSeq(s, a, b)
  OBVIOUS
<1>2. u = [j \in 1..(b - a + 1) |-> s[a + j - 1]]
  BY <1>1, SliceOf DEF AreBytes
<1>3. \A j \in 1..(b - a + 1) : IsByte(u[j])
  BY <1>2 DEF AreBytes
<1>. QED  BY <1>1, <1>2, <1>3 DEF AreBytes, IsPart

\* The onion has room for what each hop takes.
HasRoom(h) ==
  /\ h \in Nat /\ h >= 1 /\ h <= Len(route)
  /\ route[h] \in Nat /\ route[h] >= 2
  /\ ShiftSize(h) \in Nat /\ ShiftSize(h) = route[h] + HMAC_LENGTH
  /\ Trailing[h] \in Nat
  /\ Trailing[h + 1] = Trailing[h] + ShiftSize(h)
  /\ Trailing[h] + ShiftSize(h) <= P /\ ShiftSize(h) <= P /\ Trailing[h] <= P
  /\ P \in Nat /\ HMAC_LENGTH \in Nat

LEMMA Room ==
  ASSUME Routed
  PROVE  /\ Len(route) \in Nat /\ Len(route) \in Hops
         /\ \A h \in Hops : HasRoom(h)
<1>1. Len(route) \in Nat /\ Len(route) >= 1
  BY RouteSizes DEF Routed
<1>2. ASSUME NEW h \in Hops PROVE HasRoom(h)
  <2>1. h \in Nat /\ h >= 1 /\ h <= Len(route) /\ route[h] \in Nat /\ route[h] >= 2
    BY <1>1, RouteSizes DEF Hops, Routed
  <2>2. ShiftSize(h) \in Nat /\ ShiftSize(h) = route[h] + HMAC_LENGTH
    BY <2>1, Constants DEF ShiftSize
  <2>3. /\ Trailing[h] \in Nat /\ Trailing[Len(route) + 1] \in Nat
        /\ Trailing[h + 1] = Trailing[h] + ShiftSize(h)
        /\ Trailing[h + 1] <= Trailing[Len(route) + 1]
    BY <1>1, <2>1, TrailingEquations DEF Routed
  <2>4. Trailing[Len(route) + 1] <= P /\ P \in Nat
    BY Constants DEF Routed
  <2>5. Trailing[h] + ShiftSize(h) <= P
    BY <2>2, <2>3, <2>4
  <2>6. ShiftSize(h) <= P /\ Trailing[h] <= P
    <3>1. \A x, y \in Nat : x + y <= P => x <= P /\ y <= P
      BY <2>4
    <3>. QED  BY <2>2, <2>3, <2>5, <3>1, Zenon
  <2>7. P \in Nat /\ HMAC_LENGTH \in Nat
    BY Constants
  <2>. QED  BY <2>1, <2>2, <2>3, <2>5, <2>6, <2>7 DEF HasRoom
<1>. QED  BY <1>1, <1>2 DEF Hops

\* What a round makes of a buffer of n bytes and of the layer within, byte by byte.
IsRound(R, h, n, buffer, inner) ==
  /\ AreBytes(R.packet, P)
  /\ R.hmac = Hmac(h, R.packet, associated)
  /\ \A j \in 1..P : h < Len(route) \/ j <= P - FillerSize =>
       /\ j <= n => R.packet[j] = Xored(buffer[j], Stream(h, j))
       /\ j > n /\ j <= n + HMAC_LENGTH =>
            R.packet[j] = Xored(inner.hmac[j - n], Stream(h, j))
       /\ j > ShiftSize(h) =>
            R.packet[j] = Xored(inner.packet[j - ShiftSize(h)], Stream(h, j))
  /\ h = Len(route) =>
       \A m \in 1..FillerSize : R.packet[P - FillerSize + m] = GenerateFiller[m]

LEMMA RoundShape ==
  ASSUME Routed, NEW h \in Hops, NEW n \in Nat, n <= route[h], route[h] <= n + 1,
         NEW buffer, AreBytes(buffer, n),
         NEW inner, AreBytes(inner.packet, P), AreBytes(inner.hmac, HMAC_LENGTH),
         AreBytes(GenerateFiller, FillerSize)
  PROVE  IsRound(Round(h, buffer, inner), h, n, buffer, inner)
<1>. DEFINE data == buffer \o inner.hmac
            shifted == [j \in 1..P |->
              CASE j <= Len(data) -> data[j]
                [] j \in (Len(data) + 1)..ShiftSize(h) -> inner.packet[j]
                [] OTHER -> inner.packet[j - ShiftSize(h)]]
            streamed == [j \in 1..P |-> Xored(shifted[j], Stream(h, j))]
            packet == IF h < Len(route) THEN streamed
                      ELSE SubSeq(streamed, 1, P - FillerSize) \o GenerateFiller
            R == Round(h, buffer, inner)
<1>1. R = [packet |-> packet, hmac |-> Hmac(h, packet, associated)]
  BY DEF Round
<1>2. HMAC_LENGTH \in Nat /\ P \in Nat /\ ShiftSize(h) \in Nat /\ ShiftSize(h) <= P
      /\ n + HMAC_LENGTH <= ShiftSize(h) /\ FillerSize \in Nat /\ FillerSize <= P
      /\ h <= Len(route) /\ h \in Nat /\ Len(route) \in Nat
  <2>. HIDE DEF data, R, shifted, streamed, packet
  <2>1. HMAC_LENGTH \in Nat /\ P \in Nat
    BY Constants
  <2>2. HasRoom(h) /\ HasRoom(Len(route)) /\ Len(route) \in Nat
    BY Room
  <2>3. FillerSize \in Nat /\ FillerSize <= P
    BY <2>2 DEF FillerSize, HasRoom
  <2>4. ShiftSize(h) \in Nat /\ ShiftSize(h) <= P /\ ShiftSize(h) = route[h] + HMAC_LENGTH
        /\ route[h] \in Nat /\ h \in Nat /\ h <= Len(route)
    BY <2>2 DEF HasRoom
  <2>5. n + HMAC_LENGTH <= ShiftSize(h)
    BY <2>1, <2>4
  <2>. QED  BY <2>1, <2>2, <2>3, <2>4, <2>5
<1>3. AreBytes(data, n + HMAC_LENGTH) /\ Len(data) = n + HMAC_LENGTH
      /\ (\A j \in 1..n : data[j] = buffer[j])
      /\ \A j \in (n + 1)..(n + HMAC_LENGTH) : data[j] = inner.hmac[j - n]
  <2>1. IsJoint(data, buffer, n, inner.hmac, HMAC_LENGTH)
    BY <1>2, BytesJoined
  <2>. HIDE DEF data, R, shifted, streamed, packet
  <2>. QED  BY <2>1 DEF IsJoint
<1>. HIDE DEF data, R
<1>4. /\ \A j \in 1..P : IsByte(shifted[j])
      /\ \A j \in 1..P : j <= n + HMAC_LENGTH => shifted[j] = data[j]
      /\ \A j \in 1..P : j > ShiftSize(h) => shifted[j] = inner.packet[j - ShiftSize(h)]
  <2>1. SUFFICES ASSUME NEW j \in 1..P
                 PROVE  /\ IsByte(shifted[j])
                        /\ j <= n + HMAC_LENGTH => shifted[j] = data[j]
                        /\ j > ShiftSize(h) => shifted[j] = inner.packet[j - ShiftSize(h)]
    OBVIOUS
  <2>2. CASE j <= n + HMAC_LENGTH
    <3>1. shifted[j] = data[j] /\ ~(j > ShiftSize(h))
      BY <1>2, <1>3, <2>2
    <3>. QED  BY <1>2, <1>3, <2>2, <3>1 DEF AreBytes
  <2>3. CASE j > n + HMAC_LENGTH /\ j <= ShiftSize(h)
    <3>1. shifted[j] = inner.packet[j]
      BY <1>2, <1>3, <2>3
    <3>. QED  BY <1>2, <2>3, <3>1 DEF AreBytes
  <2>4. CASE j > ShiftSize(h)
    <3>1. shifted[j] = inner.packet[j - ShiftSize(h)]
      BY <1>2, <1>3, <2>4
    <3>. QED  BY <1>2, <2>4, <3>1 DEF AreBytes
  <2>. QED  BY <1>2, <2>2, <2>3, <2>4
<1>. HIDE DEF shifted
<1>5. AreBytes(streamed, P) /\ \A j \in 1..P : streamed[j] = Xored(shifted[j], Stream(h, j))
  <2>1. \A j \in 1..P : IsByte(Xored(shifted[j], Stream(h, j)))
    BY <1>4, XoredByte
  <2>. QED  BY <2>1 DEF AreBytes
<1>. HIDE DEF streamed
<1>6. /\ AreBytes(packet, P)
      /\ \A j \in 1..P : h < Len(route) \/ j <= P - FillerSize => packet[j] = streamed[j]
      /\ h = Len(route) =>
           \A m \in 1..FillerSize : packet[P - FillerSize + m] = GenerateFiller[m]
  <2>1. CASE h < Len(route)
    BY <1>2, <1>5, <2>1
  <2>2. CASE h = Len(route)
    <3>. HIDE DEF data, R
    <3>. DEFINE k == P - FillerSize
                part == SubSeq(streamed, 1, k)
    <3>1. k \in Nat /\ k <= P /\ k + FillerSize = P /\ k - 1 + 1 = k
      BY <1>2
    <3>2. packet = part \o GenerateFiller
      BY <1>2, <2>2
    <3>. HIDE DEF k, packet
    <3>3. AreBytes(part, k) /\ \A j \in 1..k : part[j] = streamed[j]
      <4>1. IsPart(part, streamed, 1, k)
        BY <1>2, <1>5, <3>1, BytesSliced
      <4>. HIDE DEF part
      <4>. QED  BY <3>1, <4>1 DEF IsPart
    <3>. HIDE DEF part
    <3>4. IsJoint(packet, part, k, GenerateFiller, FillerSize)
      BY <1>2, <3>1, <3>2, <3>3, BytesJoined
    <3>. HIDE DEF packet
    <3>5. AreBytes(packet, P)
      BY <3>1, <3>4 DEF IsJoint
    <3>6. \A j \in 1..k : packet[j] = streamed[j]
      BY <3>3, <3>4 DEF IsJoint
    <3>7. \A m \in 1..FillerSize : packet[k + m] = GenerateFiller[m]
      <4>1. SUFFICES ASSUME NEW m \in 1..FillerSize
                     PROVE  packet[k + m] = GenerateFiller[m]
        OBVIOUS
      <4>2. k + m \in (k + 1)..(k + FillerSize) /\ (k + m) - k = m
        BY <1>2, <3>1
      <4>. QED  BY <3>4, <4>2 DEF IsJoint
    <3>. QED  BY <1>2, <2>2, <3>5, <3>6, <3>7 DEF k
  <2>. HIDE DEF packet
  <2>. QED  BY <1>2, <2>1, <2>2
<1>. HIDE DEF packet
<1>7. R.packet = packet /\ R.hmac = Hmac(h, packet, associated)
  BY <1>1
<1>8. ASSUME NEW j \in 1..P, h < Len(route) \/ j <= P - FillerSize
      PROVE  /\ j <= n => packet[j] = Xored(buffer[j], Stream(h, j))
             /\ j > n /\ j <= n + HMAC_LENGTH =>
                  packet[j] = Xored(inner.hmac[j - n], Stream(h, j))
             /\ j > ShiftSize(h) =>
                  packet[j] = Xored(inner.packet[j - ShiftSize(h)], Stream(h, j))
  <2>1. packet[j] = Xored(shifted[j], Stream(h, j))
    BY <1>5, <1>6, <1>8
  <2>2. j <= n => shifted[j] = buffer[j]
    BY <1>2, <1>3, <1>4
  <2>3. j > n /\ j <= n + HMAC_LENGTH => shifted[j] = inner.hmac[j - n]
    BY <1>2, <1>3, <1>4
  <2>. QED  BY <1>2, <1>4, <2>1, <2>2, <2>3
<1>9. IsRound(R, h, n, buffer, inner)
  BY <1>6, <1>7, <1>8 DEF IsRound
<1>. QED  BY <1>9 DEF R

\* How long the buffers of the sender are.
BufferSize(h) == IF sender = "LND" THEN route[h] ELSE route[h] - 1

PayloadByte(h, j) == [b |-> <<h, j>>, s |-> {}]

LEMMA BufferShape ==
  ASSUME Routed, NEW h \in Hops
  PROVE  /\ BufferSize(h) \in Nat /\ BufferSize(h) <= route[h] /\ route[h] <= BufferSize(h) + 1
         /\ AreBytes(Buffer(h), BufferSize(h))
         /\ sender = "LND" =>
              \A j \in 1..BufferSize(h) : Buffer(h)[j] = PayloadByte(h, j)
         /\ sender # "LND" =>
              \A j \in 1..BufferSize(h) : Buffer(h)[j] = PayloadByte(h, j + 1)
<1>1. route[h] \in Nat \ {0}
  BY Room DEF HasRoom
<1>2. CASE sender = "LND"
  <2>1. Buffer(h) = SphinxBuffer(h) /\ BufferSize(h) = route[h]
    BY <1>2 DEF Buffer, BufferSize
  <2>2. AreBytes(SphinxBuffer(h), route[h])
    BY DEF SphinxBuffer, AreBytes, IsByte
  <2>3. \A j \in 1..route[h] : SphinxBuffer(h)[j] = PayloadByte(h, j)
    BY DEF SphinxBuffer, PayloadByte
  <2>. QED  BY <1>1, <1>2, <2>1, <2>2, <2>3
<1>3. CASE sender # "LND"
  <2>. DEFINE full == SphinxBuffer(h)
  <2>0. PICK n \in Nat : n = route[h] - 1 /\ route[h] = n + 1
    BY <1>1
  <2>1. full = [j \in 1..(n + 1) |-> full[j]]
        /\ \A j \in 1..(n + 1) : full[j] = PayloadByte(h, j)
    BY <2>0 DEF SphinxBuffer, PayloadByte
  <2>2. Buffer(h) = Tail(full) /\ BufferSize(h) = n
    BY <1>3, <2>0 DEF Buffer, BufferSize, DataBuffer
  <2>. HIDE DEF full
  <2>3. Tail(full) = [j \in 1..n |-> full[j + 1]]
    <3>1. n + 1 \in Nat \ {0} /\ (n + 1) - 1 = n
      OBVIOUS
    <3>. QED  BY <2>1, <3>1, TailOf
  <2>4. \A j \in 1..n : full[j + 1] = PayloadByte(h, j + 1)
    BY <2>1
  <2>5. \A j \in 1..n : Buffer(h)[j] = PayloadByte(h, j + 1)
    BY <2>2, <2>3, <2>4
  <2>6. Buffer(h) = [j \in 1..n |-> Buffer(h)[j]]
    BY <2>2, <2>3
  <2>7. \A j \in 1..n : IsByte(Buffer(h)[j])
    <3>1. \A i : IsByte(PayloadByte(h, i))
      BY DEF IsByte, PayloadByte
    <3>. QED  BY <2>5, <3>1
  <2>8. AreBytes(Buffer(h), n)
    BY <2>6, <2>7 DEF AreBytes
  <2>9. BufferSize(h) \in Nat /\ BufferSize(h) <= route[h] /\ route[h] <= BufferSize(h) + 1
    <3>1. n <= n + 1 /\ n + 1 <= n + 1
      OBVIOUS
    <3>2. n <= route[h] /\ route[h] <= n + 1
      BY <2>0, <3>1, Zenon
    <3>3. BufferSize(h) = n
      BY <2>2
    <3>. QED  BY <3>2, <3>3, Zenon
  <2>10. \A j \in 1..BufferSize(h) : Buffer(h)[j] = PayloadByte(h, j + 1)
    BY <2>2, <2>5
  <2>. QED  BY <1>3, <2>2, <2>8, <2>9, <2>10
<1>. QED  BY <1>2, <1>3

LEMMA FillerShape == AreBytes(GenerateFiller, FillerSize)
BY DEF AreBytes, IsByte, GenerateFiller

LEMMA HmacShape ==
  ASSUME NEW h, NEW packet, NEW data
  PROVE  AreBytes(Hmac(h, packet, data), HMAC_LENGTH)
BY DEF AreBytes, IsByte, Hmac

LEMMA LayerEquations ==
  ASSUME Routed
  PROVE  /\ Layer(Len(route) + 1) = [packet |-> Zeros(P), hmac |-> Zeros(HMAC_LENGTH)]
         /\ \A h \in Hops : Layer(h) = Round(h, Buffer(h), Layer(h + 1))
<1>. DEFINE buffers == [h \in Hops |-> Buffer(h)]
<1>1. \A h : Layer(h) = Rounds(buffers)[h]
  BY DEF Layer, LndOnion, ConstructOnion, Buffer
<1>2. \A h \in Hops : buffers[h] = Buffer(h)
  OBVIOUS
<1>. HIDE DEF buffers
<1>3. /\ Rounds(buffers)[Len(route) + 1] = [packet |-> Zeros(P), hmac |-> Zeros(HMAC_LENGTH)]
      /\ \A h \in Hops : Rounds(buffers)[h] = Round(h, buffers[h], Rounds(buffers)[h + 1])
  BY RoundsEquations DEF Routed
<1>. QED  BY <1>1, <1>2, <1>3

LayerIsRound(h) == IsRound(Layer(h), h, BufferSize(h), Buffer(h), Layer(h + 1))

\* Every layer is a packet and an HMAC, and comes from the layer within.
LEMMA LayerShape ==
  ASSUME Routed
  PROVE  \A h \in Hops : /\ LayerIsRound(h)
                        /\ AreBytes(Layer(h).packet, P)
                        /\ AreBytes(Layer(h).hmac, HMAC_LENGTH)
<1>. DEFINE Shaped(h) == AreBytes(Layer(h).packet, P) /\ AreBytes(Layer(h).hmac, HMAC_LENGTH)
<1>1. PICK L \in Nat : L = Len(route)
  BY Room
<1>2. Hops = 1..L /\ P \in Nat /\ HMAC_LENGTH \in Nat
  BY <1>1, Constants DEF Hops
<1>3. Shaped(L + 1)
  BY <1>1, <1>2, LayerEquations, ZerosAreBytes
<1>4. ASSUME NEW h \in Hops, Shaped(h + 1) PROVE LayerIsRound(h) /\ Shaped(h)
  <2>1. Layer(h) = Round(h, Buffer(h), Layer(h + 1))
    BY LayerEquations
  <2>2. LayerIsRound(h)
    BY <1>4, <2>1, BufferShape, FillerShape, RoundShape DEF LayerIsRound
  <2>3. AreBytes(Layer(h).packet, P) /\ Layer(h).hmac = Hmac(h, Layer(h).packet, associated)
    BY <2>2 DEF LayerIsRound, IsRound
  <2>. QED  BY <2>2, <2>3, HmacShape
<1>. DEFINE S == {m \in Nat : m <= L => Shaped(L + 1 - m)}
<1>. HIDE DEF Shaped
<1>5. 0 \in S
  BY <1>3
<1>6. ASSUME NEW m \in Nat, m \in S PROVE m + 1 \in S
  <2>1. SUFFICES ASSUME m + 1 <= L PROVE Shaped(L - m)
    <3>1. L + 1 - (m + 1) = L - m
      OBVIOUS
    <3>. QED  BY <3>1
  <2>2. L - m \in Hops /\ (L - m) + 1 = L + 1 - m
    BY <1>2, <2>1
  <2>3. Shaped((L - m) + 1)
    BY <1>6, <2>1, <2>2
  <2>. QED  BY <1>4, <2>2, <2>3
<1>. HIDE DEF S
<1>7. Nat \subseteq S
  BY <1>5, <1>6, Counting
<1>8. ASSUME NEW h \in Hops PROVE Shaped(h + 1)
  <2>1. L - h \in Nat /\ L - h <= L /\ L + 1 - (L - h) = h + 1
    BY <1>2
  <2>2. L - h \in S
    BY <1>7, <2>1
  <2>. QED  BY <2>1, <2>2 DEF S
<1>9. \A h \in Hops : LayerIsRound(h) /\ Shaped(h)
  BY <1>4, <1>8
<1>. QED  BY <1>9 DEF Shaped

-----------------------------------------------------------------------------
(* What the filler leaves behind, and LayersNest.                          *)

\* Byte m of the last bytes of layer h: what the streams of the hops before h will
\* have made of the zeros that these hops add when they peel.
Remnant(h, m) ==
  [b |-> <<>>, s |-> {<<g, P - Trailing[g] + m>> :
                        g \in {f \in 1..(h - 1) : m <= Trailing[f + 1]}}]
EndsWithRemnant(h) ==
  \A m \in 1..Trailing[h] : Layer(h).packet[P - Trailing[h] + m] = Remnant(h, m)

LEMMA LastLayerEnds ==
  ASSUME Routed
  PROVE  EndsWithRemnant(Len(route))
<1>1. LayerIsRound(Len(route))
  BY LayerShape, Room
<1>2. \A m \in 1..FillerSize :
        Layer(Len(route)).packet[P - FillerSize + m] = GenerateFiller[m]
  BY <1>1 DEF LayerIsRound, IsRound
<1>3. \A m \in 1..FillerSize : GenerateFiller[m] = Remnant(Len(route), m)
  BY DEF GenerateFiller, Remnant
<1>. QED  BY <1>2, <1>3 DEF EndsWithRemnant, FillerSize

LEMMA RemnantXored ==
  ASSUME NEW h \in Nat \ {0}, NEW m \in Nat, m <= Trailing[h + 1]
  PROVE  Xored(Remnant(h + 1, m), Stream(h, P - Trailing[h] + m)) = Remnant(h, m)
<1>. DEFINE last == <<h, P - Trailing[h] + m>>
            Before(k) == {f \in 1..k : m <= Trailing[f + 1]}
            some == {<<g, P - Trailing[g] + m>> : g \in Before(h - 1)}
            all == {<<g, P - Trailing[g] + m>> : g \in Before(h)}
<1>1. Remnant(h + 1, m) = [b |-> <<>>, s |-> all] /\ Remnant(h, m) = [b |-> <<>>, s |-> some]
  <2>1. (h + 1) - 1 = h
    OBVIOUS
  <2>. QED  BY <2>1 DEF Remnant
<1>2. all = some \cup {last} /\ last \notin some
  <2>1. Before(h) = Before(h - 1) \cup {h} /\ h \notin Before(h - 1)
    OBVIOUS
  <2>. HIDE DEF Before
  <2>. QED  BY <2>1
<1>. HIDE DEF last, some, all
<1>3. (all \ {last}) \cup ({last} \ all) = some
  BY <1>2
<1>4. Xored(Remnant(h + 1, m), {last}) = [b |-> <<>>, s |-> (all \ {last}) \cup ({last} \ all)]
  BY <1>1, XoredRecord
<1>. QED  BY <1>1, <1>3, <1>4 DEF Stream, last

LEMMA LayerEnds ==
  ASSUME Routed, NEW h \in Hops, h < Len(route), EndsWithRemnant(h + 1)
  PROVE  EndsWithRemnant(h)
<1>1. SUFFICES ASSUME NEW m \in 1..Trailing[h]
               PROVE  Layer(h).packet[P - Trailing[h] + m] = Remnant(h, m)
  BY DEF EndsWithRemnant
<1>. DEFINE t == Trailing[h]
            j == P - t + m
<1>2. HasRoom(h)
  BY Room
<1>3. /\ t \in Nat /\ ShiftSize(h) \in Nat /\ P \in Nat /\ m \in 1..t /\ h \in Nat \ {0}
      /\ t + ShiftSize(h) <= P /\ Trailing[h + 1] = t + ShiftSize(h)
  BY <1>2 DEF HasRoom
<1>. HIDE DEF t
<1>4. j \in 1..P /\ j > ShiftSize(h) /\ j - ShiftSize(h) = P - Trailing[h + 1] + m
      /\ m \in 1..Trailing[h + 1] /\ m \in Nat /\ m <= Trailing[h + 1]
  BY <1>3
<1>. HIDE DEF j
<1>5. LayerIsRound(h)
  BY LayerShape
<1>6. Layer(h).packet[j] = Xored(Layer(h + 1).packet[j - ShiftSize(h)], Stream(h, j))
  BY <1>4, <1>5 DEF LayerIsRound, IsRound
<1>7. Layer(h + 1).packet[j - ShiftSize(h)] = Remnant(h + 1, m)
  BY <1>4 DEF EndsWithRemnant
<1>8. Xored(Remnant(h + 1, m), Stream(h, j)) = Remnant(h, m)
  <2>1. Xored(Remnant(h + 1, m), Stream(h, P - Trailing[h] + m)) = Remnant(h, m)
    BY <1>3, <1>4, RemnantXored
  <2>. QED  BY <2>1 DEF j, t
<1>. QED  BY <1>6, <1>7, <1>8 DEF j, t

LEMMA LayersEnd ==
  ASSUME Routed
  PROVE  \A h \in Hops : EndsWithRemnant(h)
<1>1. PICK L \in Nat : L = Len(route)
  BY Room
<1>2. Hops = 1..L /\ L >= 1
  BY <1>1 DEF Hops, Routed
<1>. DEFINE S == {m \in Nat : m < L => EndsWithRemnant(L - m)}
<1>3. 0 \in S
  <2>1. L - 0 = L
    OBVIOUS
  <2>. QED  BY <1>1, <2>1, LastLayerEnds
<1>4. ASSUME NEW m \in Nat, m \in S PROVE m + 1 \in S
  <2>1. SUFFICES ASSUME m + 1 < L PROVE EndsWithRemnant(L - (m + 1))
    OBVIOUS
  <2>2. L - (m + 1) \in Hops /\ L - (m + 1) < L /\ L - (m + 1) + 1 = L - m /\ m < L
    BY <1>2, <2>1
  <2>3. EndsWithRemnant(L - (m + 1) + 1)
    BY <1>4, <2>2
  <2>. QED  BY <1>1, <2>2, <2>3, LayerEnds
<1>. HIDE DEF S
<1>5. Nat \subseteq S
  BY <1>3, <1>4, Counting
<1>6. ASSUME NEW h \in Hops PROVE EndsWithRemnant(h)
  <2>1. L - h \in Nat /\ L - h < L /\ L - (L - h) = h
    BY <1>2
  <2>. QED  BY <1>5, <2>1 DEF S
<1>. QED  BY <1>6

\* From the bytes of layer h and the zeros behind them the hop makes layer h + 1.
LEMMA NextLayer ==
  ASSUME Routed, NEW h \in Hops, h < Len(route)
  PROVE  \A j \in 1..P :
           LET end == route[h] + HMAC_LENGTH
               byte == IF end + j <= P THEN Layer(h).packet[end + j] ELSE Zero
           IN Xored(byte, Stream(h, end + j)) = Layer(h + 1).packet[j]
<1>. DEFINE end == ShiftSize(h)
            t == Trailing[h]
<1>1. h + 1 \in Hops /\ h \in Nat \ {0}
  BY Room DEF Hops, HasRoom
<1>2. HasRoom(h) /\ HasRoom(h + 1)
  BY <1>1, Room
<1>3. /\ t \in Nat /\ end \in Nat /\ P \in Nat /\ t + end <= P
      /\ Trailing[h + 1] = t + end /\ end = route[h] + HMAC_LENGTH
  BY <1>2 DEF HasRoom
<1>. HIDE DEF end, t
<1>4. LayerIsRound(h) /\ AreBytes(Layer(h + 1).packet, P) /\ EndsWithRemnant(h + 1)
  BY <1>1, LayerShape, LayersEnd
<1>5. SUFFICES ASSUME NEW j \in 1..P
               PROVE  /\ end + j <= P => Xored(Layer(h).packet[end + j], Stream(h, end + j))
                                          = Layer(h + 1).packet[j]
                      /\ ~(end + j <= P) => Xored(Zero, Stream(h, end + j))
                                             = Layer(h + 1).packet[j]
  BY <1>3
<1>6. CASE end + j <= P
  <2>1. end + j \in 1..P /\ end + j > end /\ (end + j) - end = j
    BY <1>3, <1>6
  <2>2. Layer(h).packet[end + j] = Xored(Layer(h + 1).packet[j], Stream(h, end + j))
    BY <1>4, <2>1 DEF LayerIsRound, IsRound, end
  <2>3. IsByte(Layer(h + 1).packet[j])
    BY <1>4 DEF AreBytes
  <2>. QED  BY <1>6, <2>2, <2>3, XoredTwice
<1>7. CASE ~(end + j <= P)
  <2>. DEFINE m == j - P + t + end
  <2>1. /\ m \in 1..(t + end) /\ m \in Nat /\ m > t
        /\ P - (t + end) + m = j /\ P - t + m = end + j
    <3>1. PICK p, x, y, i \in Nat : p = P /\ x = t /\ y = end /\ i = j /\ 1 <= i /\ i <= p
      <4>1. j \in Nat /\ 1 <= j /\ j <= P
        BY <1>3
      <4>. QED  BY <1>3, <4>1, Zenon
    <3>2. ~(y + i <= p) /\ x + y <= p
      BY <1>3, <1>7, <3>1, Zenon
    <3>3. PICK k : k = i - p + x + y
      OBVIOUS
    <3>4. k \in 1..(x + y) /\ k \in Nat /\ k > x /\ p - (x + y) + k = i /\ p - x + k = y + i
      BY <3>1, <3>2, <3>3
    <3>5. m = k
      BY <3>1, <3>3, Zenon
    <3>. QED  BY <3>1, <3>4, <3>5, Zenon
  <2>. HIDE DEF m
  <2>2. Layer(h + 1).packet[j] = Remnant(h + 1, m)
    BY <1>3, <1>4, <2>1 DEF EndsWithRemnant
  <2>3. {f \in 1..h : m <= Trailing[f + 1]} = {h}
    <3>1. m <= Trailing[h + 1]
      BY <1>3, <2>1
    <3>2. ASSUME NEW f \in 1..h, f # h PROVE ~(m <= Trailing[f + 1])
      <4>1. Trailing[f + 1] \in Nat /\ Trailing[f + 1] <= t
        <5>1. f + 1 \in 1..(Len(route) + 1) /\ h \in 1..(Len(route) + 1) /\ f + 1 <= h
          BY <1>1, <3>2, Room DEF Hops
        <5>. QED  BY <5>1, TrailingEquations DEF Routed, t
      <4>. QED  BY <1>3, <2>1, <4>1
    <3>. QED  BY <1>1, <3>1, <3>2
  <2>4. Remnant(h + 1, m) = [b |-> <<>>, s |-> {<<h, end + j>>}]
    <3>1. Remnant(h + 1, m) = [b |-> <<>>, s |-> {<<g, P - Trailing[g] + m>> :
                                 g \in {f \in 1..h : m <= Trailing[f + 1]}}]
      <4>1. (h + 1) - 1 = h
        BY <1>1
      <4>. QED  BY <4>1 DEF Remnant
    <3>2. {<<g, P - Trailing[g] + m>> : g \in {h}} = {<<h, P - Trailing[h] + m>>}
      OBVIOUS
    <3>. QED  BY <2>1, <2>3, <3>1, <3>2 DEF t
  <2>5. Xored(Zero, Stream(h, end + j)) = [b |-> <<>>, s |-> {<<h, end + j>>}]
    <3>1. ({} \ {<<h, end + j>>}) \cup ({<<h, end + j>>} \ {}) = {<<h, end + j>>}
      OBVIOUS
    <3>. QED  BY <3>1, XoredRecord DEF Zero, Stream
  <2>. QED  BY <1>7, <2>2, <2>4, <2>5
<1>. QED  BY <1>6, <1>7

LEMMA LayersNestInRoute ==
  ASSUME Routed
  PROVE  LayersNest
<1>1. SUFFICES ASSUME NEW h \in 1..(Len(route) - 1)
               PROVE  LET bytes == Layer(h).packet \o Zeros(P) IN
                      Layer(h + 1).packet =
                        [j \in 1..P |-> LET end == route[h] + HMAC_LENGTH IN
                                         Xored(bytes[end + j], Stream(h, end + j))]
  BY DEF LayersNest
<1>2. h \in Hops /\ h < Len(route) /\ h + 1 \in Hops
  BY Room DEF Hops
<1>. DEFINE bytes == Layer(h).packet \o Zeros(P)
            end == route[h] + HMAC_LENGTH
<1>3. P \in Nat /\ end \in Nat /\ end <= P
  <2>1. HasRoom(h)
    BY <1>2, Room
  <2>. QED  BY <2>1 DEF HasRoom
<1>4. IsJoint(bytes, Layer(h).packet, P, Zeros(P), P)
  BY <1>2, <1>3, LayerShape, ZerosAreBytes, BytesJoined
<1>. HIDE DEF bytes, end
<1>5. \A j \in 1..P :
        bytes[end + j] = IF end + j <= P THEN Layer(h).packet[end + j] ELSE Zero
  <2>1. TAKE j \in 1..P
  <2>2. CASE end + j <= P
    <3>1. end + j \in 1..P
      BY <1>3, <2>2
    <3>. QED  BY <1>4, <2>2, <3>1 DEF IsJoint
  <2>3. CASE ~(end + j <= P)
    <3>1. end + j \in (P + 1)..(P + P) /\ (end + j) - P \in 1..P
      BY <1>3, <2>3
    <3>2. bytes[end + j] = Zeros(P)[(end + j) - P]
      BY <1>4, <3>1 DEF IsJoint
    <3>. QED  BY <1>3, <2>3, <3>1, <3>2, ZerosAreBytes
  <2>. QED  BY <2>2, <2>3
<1>6. \A j \in 1..P : Xored(bytes[end + j], Stream(h, end + j)) = Layer(h + 1).packet[j]
  BY <1>2, <1>5, NextLayer DEF end
<1>7. Layer(h + 1).packet = [j \in 1..P |-> Layer(h + 1).packet[j]]
  BY <1>2, LayerShape DEF AreBytes
<1>. QED  BY <1>6, <1>7 DEF bytes, end

\* The route is fixed, and what follows from it with it.
RouteInv ==
  /\ Routed
  /\ sender = "LND" => \A h \in Hops : readSize[h] \in 1..route[h]

LEMMA InitRoute == Init => RouteInv
<1>. SUFFICES ASSUME Init PROVE RouteInv
  OBVIOUS
<1>1. route \in Seq(Sizes) /\ route # <<>>
  <2>1. PICK n \in 0..MaxHops : route \in [1..n -> Sizes]
    BY Zenon DEF Init, BoundedSeq, SeqOf
  <2>. QED  BY <2>1, BoundsAssumption DEF Init
<1>2. Len(route) >= 1
  BY <1>1
<1>. QED  BY <1>1, <1>2 DEF Init, RouteInv, Routed

LEMMA RouteFixed ==
  ASSUME UNCHANGED <<route, readSize, sender, associated>>
  PROVE  /\ RouteInv => RouteInv'
         /\ \A h : Layer(h)' = Layer(h)
<1>1. Trailing' = Trailing
  BY DEF Trailing
<1>2. Routed => Routed'
  BY <1>1 DEF Routed
<1>3. RouteInv => RouteInv'
  BY <1>2 DEF RouteInv, Hops
<1>4. ASSUME NEW h PROVE Layer(h)' = Layer(h)
  BY DEF Layer, SphinxBuffer, DataBuffer, LndOnion, ConstructOnion, Rounds, Round, Trailing,
         FillerSize, GenerateFiller, ShiftSize, Hops
<1>. QED  BY <1>3, <1>4

LEMMA StepFixesRoute == [Next]_vars => UNCHANGED <<route, readSize, sender, associated>>
BY DEF Next, Peel, vars

\* LayersNest, of the onions of ConstructOnion and of LND, for every route, size of
\* payload and of HMAC.
THEOREM LayersAlwaysNest == Spec => []LayersNest
<1>1. Init => RouteInv
  BY InitRoute
<1>2. RouteInv /\ [Next]_vars => RouteInv'
  BY StepFixesRoute, RouteFixed
<1>3. RouteInv => LayersNest
  BY LayersNestInRoute DEF RouteInv
<1>. QED  BY <1>1, <1>2, <1>3, PTL DEF Spec

-----------------------------------------------------------------------------
(* Peeling.                                                                *)

LEMMA SameBytes ==
  ASSUME NEW n, NEW u, AreBytes(u, n), NEW v, AreBytes(v, n), \A j \in 1..n : u[j] = v[j]
  PROVE  u = v
BY DEF AreBytes

\* The HMAC names the hop whose key it was computed with.
LEMMA HmacNames ==
  ASSUME NEW g, NEW h, NEW p, NEW q, NEW c, NEW d, Hmac(g, p, c) = Hmac(h, q, d)
  PROVE  g = h
<1>1. 1 \in 1..HMAC_LENGTH
  BY Constants
<1>2. Hmac(g, p, c)[1].b = <<"hmac", g, p, c, 1>> /\ Hmac(h, q, d)[1].b = <<"hmac", h, q, d, 1>>
  BY <1>1 DEF Hmac
<1>. QED  BY <1>2

LEMMA HmacIsNotZeros ==
  ASSUME NEW h, NEW p, NEW c
  PROVE  Hmac(h, p, c) # Zeros(HMAC_LENGTH)
<1>1. 1 \in 1..HMAC_LENGTH
  BY Constants
<1>2. Hmac(h, p, c)[1].b = <<"hmac", h, p, c, 1>> /\ Zeros(HMAC_LENGTH)[1].b = <<>>
  BY <1>1 DEF Hmac, Zeros, Zero
<1>3. <<"hmac", h, p, c, 1>> # <<>>
  OBVIOUS
<1>. QED  BY <1>2, <1>3

\* What the bytes of layer h are after the stream of hop h: the buffer, the HMAC of the
\* layer within, and its packet.
Unwrapped(E, h) ==
  /\ AreBytes(E, 2 * P)
  /\ \A j \in 1..BufferSize(h) : E[j] = Buffer(h)[j]
  /\ \A j \in 1..HMAC_LENGTH : E[BufferSize(h) + j] = Layer(h + 1).hmac[j]
  /\ h < Len(route) => \A j \in 1..P : E[ShiftSize(h) + j] = Layer(h + 1).packet[j]

LEMMA InnerHmac ==
  ASSUME Routed, NEW h \in Hops
  PROVE  AreBytes(Layer(h + 1).hmac, HMAC_LENGTH)
<1>1. CASE h = Len(route)
  BY <1>1, Constants, LayerEquations, ZerosAreBytes
<1>2. CASE h # Len(route)
  BY <1>2, Room, LayerShape DEF Hops
<1>. QED  BY <1>1, <1>2

\* The first bytes of a layer are no filler.
LEMMA HeadIsPlain ==
  ASSUME Routed, NEW h \in Hops, NEW j \in 1..ShiftSize(h)
  PROVE  j \in 1..P /\ (h < Len(route) \/ j <= P - FillerSize)
<1>1. HasRoom(h)
  BY Room
<1>. DEFINE t == Trailing[h]
            n == ShiftSize(h)
<1>2. /\ t \in Nat /\ n \in Nat /\ P \in Nat /\ t + n <= P /\ n <= P
      /\ h \in Nat /\ h <= Len(route) /\ j \in 1..n /\ j \in Nat
  BY <1>1 DEF HasRoom
<1>3. h = Len(route) => t = FillerSize
  BY DEF FillerSize
<1>. HIDE DEF t, n
<1>4. j \in 1..P /\ j <= P - t
  BY <1>2
<1>. QED  BY <1>2, <1>3, <1>4, Room

LEMMA ExtendedShape ==
  ASSUME Routed, NEW h \in Hops, blob.packet = Layer(h).packet
  PROVE  Unwrapped(Extended(h), h)
<1>. DEFINE E == Extended(h)
            n == BufferSize(h)
            packet == Layer(h).packet
<1>1. P \in Nat /\ HMAC_LENGTH \in Nat /\ HasRoom(h)
  BY Constants, Room
<1>2. /\ n \in Nat /\ n <= route[h] /\ AreBytes(Buffer(h), n)
      /\ LayerIsRound(h) /\ AreBytes(packet, P) /\ AreBytes(Layer(h + 1).hmac, HMAC_LENGTH)
  BY BufferShape, LayerShape, InnerHmac
<1>3. n \in Nat /\ ShiftSize(h) \in Nat /\ n + HMAC_LENGTH <= ShiftSize(h)
      /\ ShiftSize(h) = route[h] + HMAC_LENGTH /\ ShiftSize(h) <= P
  <2>. HIDE DEF n
  <2>1. /\ ShiftSize(h) \in Nat /\ ShiftSize(h) = route[h] + HMAC_LENGTH /\ ShiftSize(h) <= P
        /\ route[h] \in Nat
    BY <1>1 DEF HasRoom
  <2>. QED  BY <1>1, <1>2, <2>1
<1>. HIDE DEF n
<1>4. E = [j \in 1..(2 * P) |-> Xored(IF j <= P THEN packet[j] ELSE Zero, Stream(h, j))]
  BY DEF Extended
<1>. HIDE DEF E, packet
<1>5. \A j \in 1..(2 * P) : E[j] = Xored(IF j <= P THEN packet[j] ELSE Zero, Stream(h, j))
  BY <1>4
<1>6. AreBytes(E, 2 * P)
  <2>1. \A j \in 1..(2 * P) : IsByte(IF j <= P THEN packet[j] ELSE Zero)
    <3>1. IsByte(Zero)
      BY DEF IsByte, Zero
    <3>. QED  BY <1>1, <1>2, <3>1 DEF AreBytes
  <2>2. \A j \in 1..(2 * P) : IsByte(E[j])
    BY <1>5, <2>1, XoredByte
  <2>. QED  BY <1>4, <2>2 DEF AreBytes
<1>7. ASSUME NEW j \in 1..n PROVE E[j] = Buffer(h)[j]
  <2>1. j \in 1..ShiftSize(h) /\ j <= n /\ j \in 1..(2 * P) /\ j <= P
    BY <1>1, <1>3
  <2>2. packet[j] = Xored(Buffer(h)[j], Stream(h, j))
    BY <1>2, <2>1, HeadIsPlain DEF LayerIsRound, IsRound, packet, n
  <2>3. E[j] = Xored(packet[j], Stream(h, j))
    BY <1>5, <2>1
  <2>4. IsByte(Buffer(h)[j])
    BY <1>2 DEF AreBytes
  <2>. QED  BY <2>2, <2>3, <2>4, XoredTwice
<1>8. ASSUME NEW j \in 1..HMAC_LENGTH PROVE E[n + j] = Layer(h + 1).hmac[j]
  <2>1. n + j \in 1..ShiftSize(h) /\ n + j > n /\ n + j <= n + HMAC_LENGTH /\ (n + j) - n = j
        /\ n + j \in 1..(2 * P) /\ n + j <= P
    BY <1>1, <1>3
  <2>2. packet[n + j] = Xored(Layer(h + 1).hmac[j], Stream(h, n + j))
    BY <1>2, <2>1, HeadIsPlain DEF LayerIsRound, IsRound, packet, n
  <2>3. E[n + j] = Xored(packet[n + j], Stream(h, n + j))
    BY <1>5, <2>1
  <2>4. IsByte(Layer(h + 1).hmac[j])
    BY <1>2 DEF AreBytes
  <2>. QED  BY <2>2, <2>3, <2>4, XoredTwice
<1>9. ASSUME h < Len(route), NEW j \in 1..P PROVE E[ShiftSize(h) + j] = Layer(h + 1).packet[j]
  <2>1. ShiftSize(h) + j \in 1..(2 * P)
    BY <1>1, <1>3
  <2>2. E[ShiftSize(h) + j] = Xored(IF ShiftSize(h) + j <= P THEN packet[ShiftSize(h) + j]
                                    ELSE Zero, Stream(h, ShiftSize(h) + j))
    BY <1>5, <2>1
  <2>. QED  BY <1>9, <2>2, NextLayer DEF ShiftSize, packet
<1>. QED  BY <1>6, <1>7, <1>8, <1>9 DEF Unwrapped, E, n

\* The first bytes of what a hop has unwrapped from an onion of LND are those of its
\* own payload.
LEMMA ParsedShape ==
  ASSUME Routed, sender = "LND", NEW t \in Hops, NEW E, Unwrapped(E, t)
  PROVE  /\ \A h \in Parsed(E) : h = t
         /\ readSize[t] > 0 => t \in Parsed(E)
<1>1. ASSUME NEW h \in Hops
      PROVE  /\ IsPart(SubSeq(E, 1, route[h]), E, 1, route[h])
             /\ route[h] \in Nat /\ route[h] >= 2
  <2>1. HasRoom(h)
    BY Room
  <2>2. route[h] \in Nat /\ route[h] >= 2 /\ route[h] <= P /\ P \in Nat
    <3>1. /\ route[h] \in Nat /\ route[h] >= 2 /\ P \in Nat /\ HMAC_LENGTH \in Nat
          /\ route[h] + HMAC_LENGTH <= P
      BY <2>1 DEF HasRoom
    <3>. QED  BY <3>1
  <2>3. AreBytes(E, 2 * P) /\ 2 * P \in Nat /\ 1 - 1 <= route[h] /\ route[h] <= 2 * P
    BY <2>2 DEF Unwrapped
  <2>. QED  BY <2>2, <2>3, BytesSliced
<1>2. \A h \in Hops : SubSeq(E, 1, route[h])[1] = E[1] /\ SphinxBuffer(h)[1] = PayloadByte(h, 1)
  <2>1. SUFFICES ASSUME NEW h \in Hops
                 PROVE  SubSeq(E, 1, route[h])[1] = E[1] /\ SphinxBuffer(h)[1] = PayloadByte(h, 1)
    OBVIOUS
  <2>. DEFINE u == SubSeq(E, 1, route[h])
  <2>2. IsPart(u, E, 1, route[h]) /\ route[h] \in Nat /\ route[h] >= 2
    BY <1>1
  <2>. HIDE DEF u
  <2>3. u[1] = E[1]
    BY <2>2 DEF IsPart
  <2>4. SphinxBuffer(h)[1] = PayloadByte(h, 1)
    BY <2>2 DEF SphinxBuffer, PayloadByte
  <2>. QED  BY <2>3, <2>4 DEF u
<1>3. route[t] >= 2 /\ \A j \in 1..route[t] : E[j] = PayloadByte(t, j)
  <2>1. BufferSize(t) = route[t]
    BY DEF BufferSize
  <2>2. \A j \in 1..BufferSize(t) : E[j] = PayloadByte(t, j)
    BY BufferShape DEF Unwrapped
  <2>. QED  BY <1>1, <2>1, <2>2
<1>4. \A g, h, i, j : PayloadByte(g, i) = PayloadByte(h, j) => g = h
  BY DEF PayloadByte
<1>5. \A h \in Hops : /\ SphinxBuffer(h) = Buffer(h)
                      /\ Len(Buffer(h)) = route[h]
  <2>1. ASSUME NEW h \in Hops PROVE SphinxBuffer(h) = Buffer(h) /\ Len(Buffer(h)) = route[h]
    <3>1. SphinxBuffer(h) = Buffer(h)
      BY DEF Buffer
    <3>2. PICK n \in Nat : n = route[h]
      BY <1>1
    <3>3. SphinxBuffer(h) = [j \in 1..n |-> PayloadByte(h, j)]
      BY <3>2 DEF SphinxBuffer, PayloadByte
    <3>4. Len([j \in 1..n |-> PayloadByte(h, j)]) = n
      OBVIOUS
    <3>. QED  BY <3>1, <3>2, <3>3, <3>4
  <2>. QED  BY <2>1
<1>6. \A h \in Parsed(E) : h = t
  <2>1. \A h \in Parsed(E) : h \in Hops /\ E[1] = PayloadByte(h, 1)
    BY <1>2, <1>5, Zenon DEF Parsed
  <2>2. E[1] = PayloadByte(t, 1)
    BY <1>1, <1>3
  <2>. QED  BY <1>4, <2>1, <2>2
<1>7. SubSeq(E, 1, route[t]) = SphinxBuffer(t)
  <2>. DEFINE u == SubSeq(E, 1, route[t])
              n == route[t]
  <2>2. IsPart(u, E, 1, n) /\ n \in Nat /\ \A j \in 1..n : E[j] = PayloadByte(t, j)
    BY <1>1, <1>3
  <2>3. SphinxBuffer(t) = [j \in 1..n |-> PayloadByte(t, j)]
    BY DEF SphinxBuffer, PayloadByte
  <2>. HIDE DEF u, n
  <2>4. n - 1 + 1 = n
    BY <2>2
  <2>5. u = [j \in 1..n |-> u[j]]
    BY <2>2, <2>4 DEF IsPart, AreBytes
  <2>6. \A j \in 1..n : u[j] = E[j]
    BY <2>2, <2>4 DEF IsPart
  <2>7. u = SphinxBuffer(t)
    BY <2>2, <2>3, <2>5, <2>6
  <2>. QED  BY <2>7 DEF u
<1>8. readSize[t] > 0 => t \in Parsed(E)
  BY <1>5, <1>7, Zenon DEF Parsed
<1>. QED  BY <1>6, <1>8

\* Where the next HMAC was expected begins with a byte of a payload: no HMAC does.
HmacIsPayload == \E h, j : blob.hmac[1] = PayloadByte(h, j)

\* What Peel may give for a blob of LND that is layer t: the payload, and the next layer
\* only if SphinxSize has counted all of it.
IsNextLayer(r, t) ==
  /\ t = Len(route) => r.blob = blob
  /\ t < Len(route) => /\ r.blob.packet = Layer(t + 1).packet
                       /\ r.blob.hmac = Layer(t + 1).hmac

LEMMA PeeledShape ==
  ASSUME RouteInv, sender = "LND", NEW t \in Hops,
         blob.packet = Layer(t).packet, blob.hmac = Layer(t).hmac,
         NEW k, NEW data, NEW r \in Peeled(k, data)
  PROVE  /\ r.hop = t
         /\ readSize[t] = route[t] => IsNextLayer(r, t)
         /\ readSize[t] # route[t] => \E j : r.blob.hmac[1] = PayloadByte(t, j)
<1>. DEFINE E == Extended(k)
            end(h) == readSize[h] + HMAC_LENGTH
            next(h) == SubSeq(E, readSize[h] + 1, end(h))
<1>0. Routed /\ readSize[t] \in 1..route[t]
  BY DEF RouteInv
<1>1. PICK h \in Parsed(E) :
        /\ blob.hmac = Hmac(k, blob.packet, data)
        /\ r = Result(h, IF next(h) = Zeros(HMAC_LENGTH) THEN blob
                         ELSE [key |-> NextKey(k),
                               packet |-> SubSeq(E, end(h) + 1, end(h) + P), hmac |-> next(h)])
  BY DEF Peeled
<1>. HIDE DEF E, end, next
<1>2. k = t
  <2>1. blob.hmac = Hmac(t, Layer(t).packet, associated)
    BY <1>0, LayerShape DEF LayerIsRound, IsRound
  <2>2. Hmac(k, blob.packet, data) = Hmac(t, Layer(t).packet, associated)
    BY <1>1, <2>1
  <2>. QED  BY <2>2, HmacNames
<1>3. Unwrapped(E, t)
  BY <1>0, <1>2, ExtendedShape DEF E
<1>4. h = t
  BY <1>0, <1>1, <1>3, ParsedShape
<1>5. /\ route[t] \in Nat /\ P \in Nat /\ HMAC_LENGTH \in Nat
      /\ readSize[t] \in Nat /\ readSize[t] >= 1 /\ readSize[t] <= route[t]
      /\ ShiftSize(t) = route[t] + HMAC_LENGTH /\ ShiftSize(t) <= P
      /\ end(t) = readSize[t] + HMAC_LENGTH
      /\ end(t) \in Nat /\ end(t) <= P /\ BufferSize(t) = route[t] /\ AreBytes(E, 2 * P)
  <2>1. HasRoom(t)
    BY <1>0, Room
  <2>2. /\ route[t] \in Nat /\ P \in Nat /\ HMAC_LENGTH \in Nat
        /\ ShiftSize(t) = route[t] + HMAC_LENGTH /\ ShiftSize(t) <= P
    BY <2>1 DEF HasRoom
  <2>3. end(t) = readSize[t] + HMAC_LENGTH /\ BufferSize(t) = route[t] /\ AreBytes(E, 2 * P)
    BY <1>3 DEF end, BufferSize, Unwrapped
  <2>. QED  BY <1>0, <2>2, <2>3
<1>6. AreBytes(next(t), HMAC_LENGTH)
      /\ \A j \in 1..HMAC_LENGTH : next(t)[j] = E[readSize[t] + j]
  <2>1. PICK n \in Nat, e \in Nat, x \in Nat :
          n = readSize[t] /\ e = end(t) /\ x = 2 * P /\ e = n + HMAC_LENGTH /\ e <= x
    BY <1>5
  <2>2. /\ n + 1 \in Int /\ e \in Int /\ 1 <= n + 1 /\ n + 1 <= x + 1
        /\ (n + 1) - 1 <= e /\ e - (n + 1) + 1 = HMAC_LENGTH
    BY <1>5, <2>1
  <2>3. IsPart(next(t), E, n + 1, e)
    BY <1>5, <2>1, <2>2, BytesSliced DEF next
  <2>4. AreBytes(next(t), HMAC_LENGTH)
    BY <2>2, <2>3 DEF IsPart
  <2>5. \A j \in 1..HMAC_LENGTH : next(t)[j] = E[n + j]
    <3>1. \A j \in 1..HMAC_LENGTH : (n + 1) + j - 1 = n + j
      OBVIOUS
    <3>. QED  BY <2>2, <2>3, <3>1 DEF IsPart
  <2>. QED  BY <2>1, <2>4, <2>5
<1>9. ASSUME readSize[t] # route[t] PROVE \E j : r.blob.hmac[1] = PayloadByte(t, j)
  <2>1. readSize[t] + 1 \in 1..route[t] /\ 1 \in 1..HMAC_LENGTH
    BY <1>5, <1>9, Constants
  <2>2. E[readSize[t] + 1] = PayloadByte(t, readSize[t] + 1)
    BY <1>0, <1>3, <1>5, <2>1, BufferShape DEF Unwrapped
  <2>3. next(t)[1] = PayloadByte(t, readSize[t] + 1)
    BY <1>6, <2>1, <2>2
  <2>4. next(t) # Zeros(HMAC_LENGTH)
    <3>1. Zeros(HMAC_LENGTH)[1].b = <<>>
      BY <2>1 DEF Zeros, Zero
    <3>2. PayloadByte(t, readSize[t] + 1).b = <<t, readSize[t] + 1>>
      BY DEF PayloadByte
    <3>3. <<t, readSize[t] + 1>> # <<>>
      OBVIOUS
    <3>. QED  BY <2>3, <3>1, <3>2, <3>3
  <2>5. r.blob.hmac = next(t)
    BY <1>1, <1>4, <2>4 DEF Result
  <2>. QED  BY <2>3, <2>5
<1>10. r.hop = t
  BY <1>1, <1>4 DEF Result
<1>12. ASSUME readSize[t] = route[t] PROVE IsNextLayer(r, t)
  <2>1. next(t) = Layer(t + 1).hmac
    BY <1>0, <1>3, <1>5, <1>6, <1>12, InnerHmac, SameBytes DEF Unwrapped
  <2>2. CASE t = Len(route)
    <3>1. next(t) = Zeros(HMAC_LENGTH)
      BY <1>0, <2>1, <2>2, LayerEquations
    <3>2. r = Result(t, blob)
      BY <1>1, <1>4, <3>1
    <3>. QED  BY <1>0, <2>2, <3>2, Room DEF Result, IsNextLayer
  <2>3. CASE t < Len(route)
    <3>1. t + 1 \in Hops
      BY <1>0, <2>3, Room DEF Hops
    <3>2. next(t) # Zeros(HMAC_LENGTH)
      BY <1>0, <2>1, <3>1, LayerShape, HmacIsNotZeros DEF LayerIsRound, IsRound
    <3>3. r = Result(t, [key |-> NextKey(k), packet |-> SubSeq(E, end(t) + 1, end(t) + P),
                         hmac |-> next(t)])
      BY <1>1, <1>4, <3>2
    <3>4. SubSeq(E, end(t) + 1, end(t) + P) = Layer(t + 1).packet
      <4>1. PICK e \in Nat, x \in Nat : e = end(t) /\ x = 2 * P /\ e <= P
        BY <1>5
      <4>2. /\ e + 1 \in Int /\ e + P \in Int /\ 1 <= e + 1 /\ e + 1 <= x + 1
            /\ (e + 1) - 1 <= e + P /\ e + P <= x /\ (e + P) - (e + 1) + 1 = P
        BY <1>5, <4>1
      <4>. DEFINE u == SubSeq(E, e + 1, e + P)
      <4>3. IsPart(u, E, e + 1, e + P)
        BY <1>5, <4>1, <4>2, BytesSliced
      <4>. HIDE DEF u
      <4>4. AreBytes(u, P)
        BY <4>2, <4>3 DEF IsPart
      <4>5. \A j \in 1..P : u[j] = E[e + j]
        <5>1. \A j \in 1..P : (e + 1) + j - 1 = e + j
          BY <1>5
        <5>. QED  BY <4>2, <4>3, <5>1 DEF IsPart
      <4>6. \A j \in 1..P : E[e + j] = Layer(t + 1).packet[j]
        BY <1>3, <1>5, <1>12, <2>3, <4>1 DEF Unwrapped
      <4>7. u = Layer(t + 1).packet
        BY <1>0, <3>1, <4>4, <4>5, <4>6, LayerShape, SameBytes
      <4>. QED  BY <4>1, <4>7 DEF u
    <3>5. t # Len(route)
      BY <1>0, <2>3, Room
    <3>6. r.hop = t /\ r.blob.packet = Layer(t + 1).packet /\ r.blob.hmac = next(t)
      BY <3>3, <3>4 DEF Result
    <3>. QED  BY <2>1, <3>5, <3>6 DEF IsNextLayer
  <2>. QED  BY <1>0, <2>2, <2>3, Room DEF Hops, IsNextLayer
<1>. QED  BY <1>9, <1>10, <1>12

\* Conversely, whoever has the secret of the hop gets its payload.
LEMMA HopGetsPayload ==
  ASSUME RouteInv, sender = "LND", NEW t \in Hops,
         blob.packet = Layer(t).packet, blob.hmac = Layer(t).hmac
  PROVE  \E r \in Peeled(t, associated) : r.hop = t
<1>0. Routed /\ readSize[t] > 0
  BY Room DEF RouteInv
<1>1. t \in Parsed(Extended(t))
  BY <1>0, ExtendedShape, ParsedShape
<1>2. blob.hmac = Hmac(t, blob.packet, associated)
  BY <1>0, LayerShape DEF LayerIsRound, IsRound
<1>. DEFINE E == Extended(t)
            result(h) ==
              Result(h, IF SubSeq(E, readSize[h] + 1, readSize[h] + HMAC_LENGTH)
                             = Zeros(HMAC_LENGTH)
                        THEN blob
                        ELSE [key |-> NextKey(t),
                              packet |-> SubSeq(E, readSize[h] + HMAC_LENGTH + 1,
                                                readSize[h] + HMAC_LENGTH + P),
                              hmac |-> SubSeq(E, readSize[h] + 1, readSize[h] + HMAC_LENGTH)])
<1>3. Peeled(t, associated) =
        {result(h) : h \in {g \in Parsed(E) : blob.hmac = Hmac(t, blob.packet, associated)}}
  BY DEF Peeled
<1>4. result(t).hop = t
  BY DEF Result
<1>. HIDE DEF result
<1>. QED  BY <1>1, <1>2, <1>3, <1>4

\* No HMAC begins with a byte of a payload, so that such a blob is the end.
LEMMA PayloadIsNoHmac ==
  ASSUME HmacIsPayload, NEW k, NEW data
  PROVE  Peeled(k, data) = {}
<1>1. SUFFICES ASSUME blob.hmac = Hmac(k, blob.packet, data) PROVE FALSE
  BY DEF Peeled
<1>2. PICK h, j : blob.hmac[1] = PayloadByte(h, j)
  BY DEF HmacIsPayload
<1>3. 1 \in 1..HMAC_LENGTH
  BY Constants
<1>4. Hmac(k, blob.packet, data)[1].b = <<"hmac", k, blob.packet, data, 1>>
  BY <1>3 DEF Hmac
<1>5. PayloadByte(h, j).b = <<h, j>>
  BY DEF PayloadByte
<1>6. PICK p : p = blob.packet
  OBVIOUS
<1>7. Len(<<"hmac", k, p, data, 1>>) = 5 /\ Len(<<h, j>>) = 2
  OBVIOUS
<1>. QED  BY <1>1, <1>2, <1>4, <1>5, <1>6, <1>7

\* The inductive invariant: the blob of an onion of LND is the layer of the hop whose
\* turn it is, or has a payload where its HMAC should be.
InTurn == blob.packet = Layer(Turn).packet /\ blob.hmac = Layer(Turn).hmac
LndInv ==
  /\ peeled \in Seq(Nat) /\ PeelsInOrder
  /\ Spoiled => HmacIsPayload
  /\ ~Spoiled => InTurn
PeelInv == RouteInv /\ (sender = "LND" => LndInv)

LEMMA TurnIsHop ==
  ASSUME Routed, peeled \in Seq(Nat)
  PROVE  /\ Turn \in Hops /\ Len(route) \in Nat /\ Len(route) >= 1 /\ Len(peeled) \in Nat
         /\ Turn < Len(route) => Turn = Len(peeled) + 1
         /\ Turn = Len(route) => Len(peeled) + 1 >= Len(route)
         /\ Turn <= Len(route)
<1>1. Len(peeled) \in Nat /\ Len(route) \in Nat /\ Len(route) >= 1
  BY Room DEF Routed
<1>. QED  BY <1>1 DEF Turn, Hops

LEMMA InitPeel == Init => PeelInv
<1>. SUFFICES ASSUME Init PROVE PeelInv
  OBVIOUS
<1>1. RouteInv
  BY InitRoute
<1>2. peeled = <<>>
  BY DEF Init
<1>3. Len(peeled) = 0 /\ peeled \in Seq(Nat) /\ PeelsInOrder /\ ~Spoiled
  BY <1>2 DEF PeelsInOrder, Spoiled
<1>4. Turn = 1
  BY <1>1, <1>3, Room DEF Turn, RouteInv, Routed
<1>5. blob.packet = Layer(1).packet /\ blob.hmac = Layer(1).hmac
  BY DEF Init, OnionBlob
<1>6. InTurn
  BY <1>4, <1>5 DEF InTurn
<1>. QED  BY <1>1, <1>3, <1>6 DEF PeelInv, LndInv

\* A call that throws, or that is none, changes nothing of this.
LEMMA SameBlob ==
  ASSUME PeelInv, UNCHANGED <<route, readSize, sender, associated, blob, peeled>>
  PROVE  PeelInv'
<1>1. RouteInv' /\ \A h : Layer(h)' = Layer(h)
  BY RouteFixed DEF PeelInv
<1>2. /\ Turn' = Turn /\ (PeelsInOrder <=> PeelsInOrder') /\ (Spoiled <=> Spoiled')
      /\ (HmacIsPayload <=> HmacIsPayload')
  BY DEF Turn, PeelsInOrder, Spoiled, HmacIsPayload, PayloadByte
<1>3. Layer(Turn)' = Layer(Turn)
  <2>1. PICK t : t = Turn
    OBVIOUS
  <2>2. t = Turn'
    BY <1>2, <2>1
  <2>3. Layer(t)' = Layer(t)
    BY <1>1
  <2>. QED  BY <2>1, <2>2, <2>3
<1>4. InTurn <=> InTurn'
  BY <1>3 DEF InTurn
<1>5. LndInv => LndInv'
  BY <1>2, <1>4 DEF LndInv
<1>. QED  BY <1>1, <1>5 DEF PeelInv

LEMMA StepPeel == PeelInv /\ [Next]_vars => PeelInv'
<1>. SUFFICES ASSUME PeelInv, [Next]_vars PROVE PeelInv'
  OBVIOUS
<1>1. UNCHANGED <<route, readSize, sender, associated>> /\ RouteInv'
      /\ \A h : Layer(h)' = Layer(h)
  BY StepFixesRoute, RouteFixed DEF PeelInv
<1>2. ASSUME UNCHANGED <<blob, peeled>> PROVE PeelInv'
  BY <1>1, <1>2, SameBlob
<1>3. ASSUME NEW k, NEW data, NEW r \in Peeled(k, data), sender = "LND",
             blob' = r.blob, peeled' = Append(peeled, r.hop)
      PROVE  LndInv'
  <2>1. RouteInv /\ Routed /\ peeled \in Seq(Nat) /\ PeelsInOrder /\ ~Spoiled /\ InTurn
    <3>1. RouteInv /\ LndInv
      BY <1>3 DEF PeelInv
    <3>2. ~HmacIsPayload
      BY <1>3, PayloadIsNoHmac
    <3>. QED  BY <3>1, <3>2 DEF LndInv, RouteInv
  <2>2. PICK t : t = Turn
    OBVIOUS
  <2>3. t \in Hops /\ blob.packet = Layer(t).packet /\ blob.hmac = Layer(t).hmac
    BY <2>1, <2>2, TurnIsHop DEF InTurn
  <2>4. /\ r.hop = t
        /\ readSize[t] = route[t] => IsNextLayer(r, t)
        /\ readSize[t] # route[t] => \E j : r.blob.hmac[1] = PayloadByte(t, j)
    BY <1>3, <2>1, <2>3, PeeledShape
  <2>5. PICK L, n : L = Len(route) /\ n = Len(peeled)
    OBVIOUS
  <2>6. /\ L \in Nat /\ L >= 1 /\ n \in Nat /\ t \in 1..L
        /\ t = IF n < L THEN n + 1 ELSE L
    BY <2>1, <2>2, <2>3, <2>5, TurnIsHop DEF Turn, Hops
  <2>7. /\ peeled' \in Seq(Nat) /\ Len(peeled') = n + 1
        /\ peeled'[n + 1] = t /\ \A i \in 1..n : peeled'[i] = peeled[i]
    BY <1>3, <2>1, <2>4, <2>5, <2>6
  <2>8. PeelsInOrder'
    <3>1. SUFFICES ASSUME NEW i \in 1..(n + 1)
                   PROVE  peeled'[i] = IF i < L THEN i ELSE L
      BY <1>1, <2>5, <2>7 DEF PeelsInOrder
    <3>2. CASE i = n + 1
      BY <2>6, <2>7, <3>2
    <3>3. CASE i \in 1..n
      BY <2>1, <2>5, <2>7, <3>3 DEF PeelsInOrder
    <3>. QED  BY <2>6, <3>2, <3>3
  <2>9. Spoiled' <=> readSize[t] # route[t]
    <3>1. Spoiled' <=> \E i \in 1..(n + 1) : readSize[peeled'[i]] # route[peeled'[i]]
      BY <1>1, <2>7 DEF Spoiled
    <3>2. \A i \in 1..n : readSize[peeled'[i]] = route[peeled'[i]]
      BY <2>1, <2>5, <2>7 DEF Spoiled
    <3>3. \A i \in 1..(n + 1) : i \in 1..n \/ i = n + 1
      BY <2>6
    <3>4. n + 1 \in 1..(n + 1)
      BY <2>6
    <3>. QED  BY <2>7, <3>1, <3>2, <3>3, <3>4
  <2>10. Spoiled' => HmacIsPayload'
    <3>1. ASSUME readSize[t] # route[t] PROVE HmacIsPayload'
      <4>1. PICK j : r.blob.hmac[1] = PayloadByte(t, j)
        BY <2>4, <3>1
      <4>. QED  BY <1>3, <4>1 DEF HmacIsPayload, PayloadByte
    <3>. QED  BY <2>9, <3>1
  <2>11. Turn' = IF n + 1 < L THEN n + 2 ELSE L
    BY <1>1, <2>5, <2>6, <2>7 DEF Turn
  <2>12. ASSUME readSize[t] = route[t] PROVE InTurn'
    <3>0. IsNextLayer(r, t)
      BY <2>4, <2>12
    <3>1. CASE t = L
      <4>1. Turn' = t /\ blob' = blob
        BY <1>3, <2>5, <2>6, <2>11, <3>0, <3>1 DEF IsNextLayer
      <4>2. Layer(t)' = Layer(t)
        BY <1>1
      <4>. QED  BY <2>3, <4>1, <4>2 DEF InTurn
    <3>2. CASE t < L
      <4>1. PICK u : u = t + 1
        OBVIOUS
      <4>2. Turn' = u
        BY <2>6, <2>11, <3>2, <4>1
      <4>3. Layer(u)' = Layer(u)
        BY <1>1
      <4>4. blob'.packet = Layer(u).packet /\ blob'.hmac = Layer(u).hmac
        BY <1>3, <2>5, <3>0, <3>2, <4>1 DEF IsNextLayer
      <4>. QED  BY <4>2, <4>3, <4>4 DEF InTurn
    <3>. QED  BY <2>6, <3>1, <3>2
  <2>. QED  BY <2>7, <2>8, <2>9, <2>10, <2>12 DEF LndInv
<1>4. CASE Next
  <2>1. PICK h \in Hops, byKey \in BOOLEAN, data \in {"none", "payment"} : Peel(h, byKey, data)
    BY <1>4 DEF Next
  <2>. DEFINE k == IF byKey THEN DeriveSharedSecret(blob.key, h) ELSE h
  <2>2. \/ \E r \in Peeled(k, data) : blob' = r.blob /\ peeled' = Append(peeled, r.hop)
        \/ UNCHANGED <<blob, peeled>>
    BY <2>1 DEF Peel
  <2>. HIDE DEF k
  <2>3. ASSUME NEW r \in Peeled(k, data), blob' = r.blob, peeled' = Append(peeled, r.hop)
        PROVE  PeelInv'
    <3>1. sender = "LND" => LndInv'
      BY <1>3, <2>3
    <3>. QED  BY <1>1, <3>1 DEF PeelInv
  <2>. QED  BY <1>2, <2>2, <2>3
<1>5. CASE UNCHANGED vars
  BY <1>2, <1>5 DEF vars
<1>. QED  BY <1>4, <1>5

\* EveryHopPeels, for every route, size of payload, of what SphinxSize counts of it and of
\* HMAC, and every sequence of calls of Peel.
THEOREM EveryHopAlwaysPeels == Spec => []EveryHopPeels
<1>1. PeelInv => EveryHopPeels
  <2>. SUFFICES ASSUME PeelInv, sender = "LND" PROVE EveryHopPeels
    BY DEF EveryHopPeels
  <2>1. RouteInv /\ LndInv /\ Turn \in Hops
    BY TurnIsHop DEF PeelInv, LndInv, RouteInv
  <2>2. CASE Spoiled
    BY <2>1, <2>2, PayloadIsNoHmac DEF LndInv, EveryHopPeels
  <2>3. CASE ~Spoiled
    BY <2>1, <2>3, HopGetsPayload DEF LndInv, InTurn, EveryHopPeels
  <2>. QED  BY <2>2, <2>3
<1>. QED  BY <1>1, InitPeel, StepPeel, PTL DEF Spec

-----------------------------------------------------------------------------
(* Sequences of a length, their parts, and one that differs in a place.    *)

\* A sequence of length n.
IsSeq(s, n) == n \in Nat /\ s = [j \in 1..n |-> s[j]]

\* One of length m before one of length n.
IsJoined(u, s, m, t, n) ==
  /\ IsSeq(u, m + n)
  /\ \A j \in 1..m : u[j] = s[j]
  /\ \A j \in 1..n : u[m + j] = t[j]

LEMMA JoinedParts ==
  ASSUME NEW s, NEW m, IsSeq(s, m), NEW t, NEW n, IsSeq(t, n)
  PROVE  IsJoined(s \o t, s, m, t, n)
<1>. m \in Nat /\ n \in Nat
  BY DEF IsSeq
<1>. DEFINE u == s \o t
<1>1. u = [j \in 1..(m + n) |-> IF j <= m THEN s[j] ELSE t[j - m]]
  BY Joined DEF IsSeq
<1>. HIDE DEF u
<1>2. u = [j \in 1..(m + n) |-> u[j]]
  BY <1>1
<1>3. \A j \in 1..m : u[j] = s[j]
  BY <1>1
<1>4. \A j \in 1..n : u[m + j] = t[j]
  <2>1. TAKE j \in 1..n
  <2>2. m + j \in 1..(m + n) /\ ~(m + j <= m) /\ (m + j) - m = j
    OBVIOUS
  <2>. QED  BY <1>1, <2>2
<1>. QED  BY <1>2, <1>3, <1>4 DEF IsSeq, IsJoined, u

LEMMA LenOf ==
  ASSUME NEW s, NEW n, IsSeq(s, n)
  PROVE  Len(s) = n
BY AsSeq DEF IsSeq

LEMMA SeqIs ==
  ASSUME NEW S, NEW s \in Seq(S)
  PROVE  IsSeq(s, Len(s)) /\ \A i \in 1..Len(s) : s[i] \in S
BY SeqAs DEF IsSeq

LEMMA IsInSeq ==
  ASSUME NEW S, NEW s, NEW n, IsSeq(s, n), \A i \in 1..n : s[i] \in S
  PROVE  s \in Seq(S)
<1>1. n \in Nat /\ s \in [1..n -> S]
  BY DEF IsSeq
<1>. QED  BY <1>1

LEMMA SameSeq ==
  ASSUME NEW s, NEW t, NEW n, IsSeq(s, n), IsSeq(t, n), \A i \in 1..n : s[i] = t[i]
  PROVE  s = t
BY DEF IsSeq

\* From place a to place b of s.
IsStretch(u, s, a, b) ==
  /\ IsSeq(u, b - a + 1)
  /\ \A j \in 1..(b - a + 1) : u[j] = s[a + j - 1]

LEMMA StretchIs ==
  ASSUME NEW s, NEW n, IsSeq(s, n), NEW a \in Int, NEW b \in Int,
         1 <= a, a <= n + 1, a - 1 <= b, b <= n
  PROVE  IsStretch(SubSeq(s, a, b), s, a, b)
<1>1. n \in Nat /\ s = [j \in 1..n |-> s[j]]
  BY DEF IsSeq
<1>2. PICK u : u = SubSeq(s, a, b)
  OBVIOUS
<1>3. u = [j \in 1..(b - a + 1) |-> s[a + j - 1]]
  BY <1>1, <1>2, SliceOf
<1>4. IsStretch(u, s, a, b)
  BY <1>3 DEF IsStretch, IsSeq
<1>. QED  BY <1>2, <1>4

\* The sequence s with x at place i.
IsChanged(r, s, n, i, x) ==
  IsSeq(r, n) /\ r[i] = x /\ \A j \in 1..n : j # i => r[j] = s[j]

LEMMA Changed ==
  ASSUME NEW s, NEW n, IsSeq(s, n), NEW i \in 1..n, NEW x
  PROVE  IsChanged([s EXCEPT ![i] = x], s, n, i, x)
BY DEF IsSeq, IsChanged

-----------------------------------------------------------------------------
(* Bech32. A byte and its bits.                                            *)

LEMMA Powers ==
  /\ 2^0 = 1 /\ 2^1 = 2 /\ 2^2 = 4 /\ 2^3 = 8 /\ 2^4 = 16
  /\ 2^5 = 32 /\ 2^6 = 64 /\ 2^7 = 128 /\ 2^8 = 256 /\ 2^9 = 512
  /\ 2^10 = 1024 /\ 2^11 = 2048 /\ 2^12 = 4096 /\ 2^13 = 8192 /\ 2^14 = 16384
  /\ 2^15 = 32768 /\ 2^16 = 65536 /\ 2^17 = 131072 /\ 2^18 = 262144 /\ 2^19 = 524288
  /\ 2^20 = 1048576 /\ 2^21 = 2097152 /\ 2^22 = 4194304 /\ 2^23 = 8388608
  /\ 2^24 = 16777216 /\ 2^25 = 33554432 /\ 2^26 = 67108864 /\ 2^27 = 134217728
  /\ 2^28 = 268435456 /\ 2^29 = 536870912
OBVIOUS

LEMMA BitsOfByte ==
  ASSUME NEW c \in Byte
  PROVE  /\ Bits(c) \subseteq 0..7
         /\ 0 \in Bits(c) <=> c % 2 = 1
         /\ 1 \in Bits(c) <=> (c \div 2) % 2 = 1
         /\ 2 \in Bits(c) <=> (c \div 4) % 2 = 1
         /\ 3 \in Bits(c) <=> (c \div 8) % 2 = 1
         /\ 4 \in Bits(c) <=> (c \div 16) % 2 = 1
         /\ 5 \in Bits(c) <=> (c \div 32) % 2 = 1
         /\ 6 \in Bits(c) <=> (c \div 64) % 2 = 1
         /\ 7 \in Bits(c) <=> (c \div 128) % 2 = 1
<1>1. ASSUME NEW b \in 0..29, b > 7 PROVE c \div 2^b = 0
  <2>8. b = 8 => 2^b = 256
    OBVIOUS
  <2>9. b = 9 => 2^b = 512
    OBVIOUS
  <2>10. b = 10 => 2^b = 1024
    OBVIOUS
  <2>11. b = 11 => 2^b = 2048
    OBVIOUS
  <2>12. b = 12 => 2^b = 4096
    OBVIOUS
  <2>13. b = 13 => 2^b = 8192
    OBVIOUS
  <2>14. b = 14 => 2^b = 16384
    OBVIOUS
  <2>15. b = 15 => 2^b = 32768
    OBVIOUS
  <2>16. b = 16 => 2^b = 65536
    OBVIOUS
  <2>17. b = 17 => 2^b = 131072
    OBVIOUS
  <2>18. b = 18 => 2^b = 262144
    OBVIOUS
  <2>19. b = 19 => 2^b = 524288
    OBVIOUS
  <2>20. b = 20 => 2^b = 1048576
    OBVIOUS
  <2>21. b = 21 => 2^b = 2097152
    OBVIOUS
  <2>22. b = 22 => 2^b = 4194304
    OBVIOUS
  <2>23. b = 23 => 2^b = 8388608
    OBVIOUS
  <2>24. b = 24 => 2^b = 16777216
    OBVIOUS
  <2>25. b = 25 => 2^b = 33554432
    OBVIOUS
  <2>26. b = 26 => 2^b = 67108864
    OBVIOUS
  <2>27. b = 27 => 2^b = 134217728
    OBVIOUS
  <2>28. b = 28 => 2^b = 268435456
    OBVIOUS
  <2>29. b = 29 => 2^b = 536870912
    OBVIOUS
  <2>. DEFINE m == 2^b
  <2>30. m \in Nat /\ m >= 256
    BY <1>1, <2>8, <2>9, <2>10, <2>11, <2>12, <2>13, <2>14, <2>15, <2>16, <2>17, <2>18,
       <2>19, <2>20, <2>21, <2>22, <2>23, <2>24, <2>25, <2>26, <2>27, <2>28, <2>29
  <2>. HIDE DEF m
  <2>31. c \div m = 0
    BY <2>30 DEF Byte
  <2>. QED  BY <2>31 DEF m
<1>2. Bits(c) \subseteq 0..7
  <2>1. \A b \in Bits(c) : b \in 0..29 /\ (c \div 2^b) % 2 = 1
    BY DEF Bits
  <2>2. 0 % 2 # 1
    OBVIOUS
  <2>3. \A b \in Bits(c) : ~(b > 7)
    BY <1>1, <2>1, <2>2
  <2>. QED  BY <2>1, <2>3
<1>3. \A b \in 0..29 : b \in Bits(c) <=> (c \div 2^b) % 2 = 1
  BY DEF Bits
<1>4. /\ c \div 1 = c
      /\ \A b \in 0..7 : b \in 0..29
  BY DEF Byte
<1>5. /\ 0 \in Bits(c) <=> (c \div 2^0) % 2 = 1
      /\ 1 \in Bits(c) <=> (c \div 2^1) % 2 = 1
      /\ 2 \in Bits(c) <=> (c \div 2^2) % 2 = 1
      /\ 3 \in Bits(c) <=> (c \div 2^3) % 2 = 1
      /\ 4 \in Bits(c) <=> (c \div 2^4) % 2 = 1
      /\ 5 \in Bits(c) <=> (c \div 2^5) % 2 = 1
      /\ 6 \in Bits(c) <=> (c \div 2^6) % 2 = 1
      /\ 7 \in Bits(c) <=> (c \div 2^7) % 2 = 1
  BY <1>3
<1>. QED  BY <1>2, <1>4, <1>5, Powers

\* A byte has its bits only, and there is one for any bits.
LEMMA BitsTell ==
  ASSUME NEW c \in Byte, NEW d \in Byte, Bits(c) = Bits(d)
  PROVE  c = d
<1>1. ASSUME NEW x \in Byte
      PROVE  /\ x = 2 * (x \div 2) + (x % 2) /\ x \div 2 = 2 * (x \div 4) + ((x \div 2) % 2)
             /\ x \div 4 = 2 * (x \div 8) + ((x \div 4) % 2)
             /\ x \div 8 = 2 * (x \div 16) + ((x \div 8) % 2)
             /\ x \div 16 = 2 * (x \div 32) + ((x \div 16) % 2)
             /\ x \div 32 = 2 * (x \div 64) + ((x \div 32) % 2)
             /\ x \div 64 = 2 * (x \div 128) + ((x \div 64) % 2)
             /\ x \div 128 = (x \div 128) % 2
  BY DEF Byte
<1>2. \A x, y \in Nat : (x % 2 = 1 <=> y % 2 = 1) => x % 2 = y % 2
  OBVIOUS
<1>3. \A x \in Byte : /\ x \in Nat /\ x \div 2 \in Nat /\ x \div 4 \in Nat /\ x \div 8 \in Nat
                      /\ x \div 16 \in Nat /\ x \div 32 \in Nat /\ x \div 64 \in Nat
                      /\ x \div 128 \in Nat
  BY DEF Byte
<1>4. /\ c % 2 = d % 2
      /\ (c \div 2) % 2 = (d \div 2) % 2
      /\ (c \div 4) % 2 = (d \div 4) % 2
      /\ (c \div 8) % 2 = (d \div 8) % 2
  <2>1. /\ c % 2 = 1 <=> d % 2 = 1
        /\ (c \div 2) % 2 = 1 <=> (d \div 2) % 2 = 1
        /\ (c \div 4) % 2 = 1 <=> (d \div 4) % 2 = 1
        /\ (c \div 8) % 2 = 1 <=> (d \div 8) % 2 = 1
    BY BitsOfByte
  <2>. QED  BY <1>2, <1>3, <2>1
<1>5. /\ (c \div 16) % 2 = (d \div 16) % 2
      /\ (c \div 32) % 2 = (d \div 32) % 2
      /\ (c \div 64) % 2 = (d \div 64) % 2
      /\ (c \div 128) % 2 = (d \div 128) % 2
  <2>1. /\ (c \div 16) % 2 = 1 <=> (d \div 16) % 2 = 1
        /\ (c \div 32) % 2 = 1 <=> (d \div 32) % 2 = 1
        /\ (c \div 64) % 2 = 1 <=> (d \div 64) % 2 = 1
        /\ (c \div 128) % 2 = 1 <=> (d \div 128) % 2 = 1
    BY BitsOfByte
  <2>. QED  BY <1>2, <1>3, <2>1
<1>6. c \div 16 = d \div 16
  BY <1>1, <1>3, <1>5
<1>. QED  BY <1>1, <1>3, <1>4, <1>6

LEMMA ByteWithBits ==
  ASSUME NEW S \in SUBSET (0..7)
  PROVE  \E n \in Byte : Bits(n) = S /\ (S \subseteq 0..4 => n <= 31)
<1>. DEFINE W(b, w) == IF b \in S THEN w ELSE 0
            n == W(0, 1) + W(1, 2) + W(2, 4) + W(3, 8) + W(4, 16) + W(5, 32) + W(6, 64) + W(7, 128)
<1>1. n \in Byte /\ (S \subseteq 0..4 => n <= 31)
  BY DEF Byte
<1>2. /\ n % 2 = 1 <=> 0 \in S
      /\ (n \div 2) % 2 = 1 <=> 1 \in S
      /\ (n \div 4) % 2 = 1 <=> 2 \in S
      /\ (n \div 8) % 2 = 1 <=> 3 \in S
      /\ (n \div 16) % 2 = 1 <=> 4 \in S
      /\ (n \div 32) % 2 = 1 <=> 5 \in S
      /\ (n \div 64) % 2 = 1 <=> 6 \in S
      /\ (n \div 128) % 2 = 1 <=> 7 \in S
  OBVIOUS
<1>. HIDE DEF n, W
<1>3. Bits(n) = S
  <2>1. \A b \in 0..7 : b \in Bits(n) <=> b \in S
    BY <1>1, <1>2, BitsOfByte
  <2>. QED  BY <1>1, <2>1, BitsOfByte
<1>. QED  BY <1>1, <1>3

LEMMA ByteOfBits ==
  ASSUME NEW S \in SUBSET (0..7)
  PROVE  /\ ByteOf(S) \in Byte /\ Bits(ByteOf(S)) = S
         /\ S \subseteq 0..4 => ByteOf(S) \in 0..31
<1>1. PICK n \in Byte : Bits(n) = S /\ (S \subseteq 0..4 => n <= 31)
  BY ByteWithBits
<1>2. ByteOf(S) \in Byte /\ Bits(ByteOf(S)) = S
  BY <1>1 DEF ByteOf
<1>3. ByteOf(S) = n
  BY <1>1, <1>2, BitsTell
<1>. QED  BY <1>1, <1>2, <1>3 DEF Byte

LEMMA BitsOfByteOf ==
  ASSUME NEW c \in Byte
  PROVE  ByteOf(Bits(c)) = c /\ (c <= 31 => Bits(c) \subseteq 0..4)
<1>1. Bits(c) \in SUBSET (0..7)
  BY BitsOfByte
<1>2. ByteOf(Bits(c)) = c
  BY <1>1, ByteOfBits, BitsTell
<1>3. ASSUME c <= 31 PROVE 5 \notin Bits(c) /\ 6 \notin Bits(c) /\ 7 \notin Bits(c)
  BY <1>3, BitsOfByte DEF Byte
<1>. QED  BY <1>1, <1>2, <1>3

-----------------------------------------------------------------------------
(* The checksum.                                                           *)

Symbol == 0..31
State  == SUBSET (0..29)

\* What a turn of the loop adds to the bits of the value.
Rest(chk) ==
  {b + 5 : b \in chk \cap 0..24} ++ Feedback(chk, 1) ++ Feedback(chk, 2)
    ++ Feedback(chk, 3) ++ Feedback(chk, 4) ++ Feedback(chk, 5)

LEMMA XorSwaps ==
  ASSUME NEW a, NEW b, NEW c
  PROVE  (a ++ b) ++ c = (a ++ c) ++ b
BY DEF ++

LEMMA TurnIsRest ==
  ASSUME NEW chk, NEW value
  PROVE  Turn5(chk, value) = Rest(chk) ++ Bits(value)
<1>. DEFINE s == {b + 5 : b \in chk \cap 0..24}
            v == Bits(value)
            F(i) == Feedback(chk, i)
<1>1. Turn5(chk, value) = (((((s ++ v) ++ F(1)) ++ F(2)) ++ F(3)) ++ F(4)) ++ F(5)
  BY DEF Turn5
<1>2. Rest(chk) = ((((s ++ F(1)) ++ F(2)) ++ F(3)) ++ F(4)) ++ F(5)
  BY DEF Rest
<1>. HIDE DEF s, v, F
<1>3. (s ++ v) ++ F(1) = (s ++ F(1)) ++ v
  BY XorSwaps
<1>4. ((s ++ F(1)) ++ v) ++ F(2) = ((s ++ F(1)) ++ F(2)) ++ v
  BY XorSwaps
<1>5. (((s ++ F(1)) ++ F(2)) ++ v) ++ F(3) = (((s ++ F(1)) ++ F(2)) ++ F(3)) ++ v
  BY XorSwaps
<1>6. ((((s ++ F(1)) ++ F(2)) ++ F(3)) ++ v) ++ F(4)
        = ((((s ++ F(1)) ++ F(2)) ++ F(3)) ++ F(4)) ++ v
  BY XorSwaps
<1>7. (((((s ++ F(1)) ++ F(2)) ++ F(3)) ++ F(4)) ++ v) ++ F(5)
        = (((((s ++ F(1)) ++ F(2)) ++ F(3)) ++ F(4)) ++ F(5)) ++ v
  BY XorSwaps
<1>8. Turn5(chk, value) = (((((s ++ F(1)) ++ F(2)) ++ F(3)) ++ F(4)) ++ F(5)) ++ v
  BY <1>1, <1>3, <1>4, <1>5, <1>6, <1>7, Zenon
<1>. QED  BY <1>2, <1>8, Zenon DEF v

LEMMA XorType ==
  ASSUME NEW S, NEW a \in SUBSET S, NEW b \in SUBSET S
  PROVE  a ++ b \in SUBSET S
BY DEF ++

LEMMA RestType ==
  ASSUME NEW chk
  PROVE  Rest(chk) \in State
<1>1. {b + 5 : b \in chk \cap 0..24} \in State
  BY DEF State
<1>2. \A i : Feedback(chk, i) \in State
  BY DEF Feedback, Bits, State
<1>3. \A a, b : a \in State /\ b \in State => a ++ b \in State
  BY XorType DEF State
<1>. DEFINE s == {b + 5 : b \in chk \cap 0..24}
<1>4. Rest(chk) = ((((s ++ Feedback(chk, 1)) ++ Feedback(chk, 2)) ++ Feedback(chk, 3))
                     ++ Feedback(chk, 4)) ++ Feedback(chk, 5)
  BY DEF Rest
<1>5. s \in State
  BY <1>1
<1>. HIDE DEF s
<1>6. s ++ Feedback(chk, 1) \in State
  BY <1>2, <1>3, <1>5
<1>7. (s ++ Feedback(chk, 1)) ++ Feedback(chk, 2) \in State
  BY <1>2, <1>3, <1>6
<1>8. ((s ++ Feedback(chk, 1)) ++ Feedback(chk, 2)) ++ Feedback(chk, 3) \in State
  BY <1>2, <1>3, <1>7
<1>9. (((s ++ Feedback(chk, 1)) ++ Feedback(chk, 2)) ++ Feedback(chk, 3)) ++ Feedback(chk, 4) \in State
  BY <1>2, <1>3, <1>8
<1>. QED  BY <1>2, <1>3, <1>4, <1>9

\* Bits that nothing feeds back are only shifted.
LEMMA RestOfLow ==
  ASSUME NEW chk \in State, NEW low \in SUBSET (0..24)
  PROVE  Rest(chk ++ low) = Rest(chk) ++ {b + 5 : b \in low}
<1>. DEFINE s(c) == {b + 5 : b \in c \cap 0..24}
            F(i) == Feedback(chk, i)
            d == {b + 5 : b \in low}
<1>1. \A i \in 1..5 : Feedback(chk ++ low, i) = Feedback(chk, i)
  <2>1. \A i \in 1..5 : 24 + i \in chk ++ low <=> 24 + i \in chk
    BY DEF ++
  <2>. QED  BY <2>1 DEF Feedback
<1>2. s(chk ++ low) = s(chk) ++ d
  <2>1. \A x, y \in Int : x + 5 = y + 5 => x = y
    OBVIOUS
  <2>2. \A b \in Int : b + 5 \in s(chk) <=> b \in chk \cap 0..24
    BY <2>1 DEF State
  <2>3. \A b \in Int : b + 5 \in d <=> b \in low
    BY <2>1
  <2>4. \A b \in Int : b + 5 \in s(chk ++ low) <=> b \in (chk ++ low) \cap 0..24
    BY <2>1 DEF State
  <2>5. \A b \in Int : b + 5 \in s(chk ++ low) <=> b + 5 \in s(chk) ++ d
    <3>. HIDE DEF s, d
    <3>. QED  BY <2>2, <2>3, <2>4 DEF ++
  <2>6. \A x \in s(chk ++ low) \cup s(chk) \cup d : \E b \in Int : x = b + 5
    <3>1. \A c : \A x \in s(c) : \E b \in Int : x = b + 5
      <4>1. \A c : \A b \in c \cap 0..24 : b \in Int
        OBVIOUS
      <4>. QED  BY <4>1, Zenon
    <3>2. \A x \in d : \E b \in Int : x = b + 5
      <4>1. \A b \in low : b \in Int
        OBVIOUS
      <4>. QED  BY <4>1, Zenon
    <3>. QED  BY <3>1, <3>2, Zenon
  <2>. HIDE DEF s, d
  <2>. QED  BY <2>5, <2>6 DEF ++
<1>3. Rest(chk) = ((((s(chk) ++ F(1)) ++ F(2)) ++ F(3)) ++ F(4)) ++ F(5)
  BY DEF Rest
<1>4. Rest(chk ++ low) = (((((s(chk) ++ d) ++ F(1)) ++ F(2)) ++ F(3)) ++ F(4)) ++ F(5)
  <2>1. Rest(chk ++ low) = ((((s(chk ++ low) ++ Feedback(chk ++ low, 1)) ++ Feedback(chk ++ low, 2))
                              ++ Feedback(chk ++ low, 3)) ++ Feedback(chk ++ low, 4)) ++ Feedback(chk ++ low, 5)
    BY DEF Rest
  <2>2. /\ Feedback(chk ++ low, 1) = F(1) /\ Feedback(chk ++ low, 2) = F(2)
        /\ Feedback(chk ++ low, 3) = F(3) /\ Feedback(chk ++ low, 4) = F(4)
        /\ Feedback(chk ++ low, 5) = F(5)
    BY <1>1
  <2>. HIDE DEF s, d, F
  <2>. QED  BY <1>2, <2>1, <2>2, Zenon
<1>5. d = {b + 5 : b \in low}
  OBVIOUS
<1>. HIDE DEF s, d, F
<1>6. (s(chk) ++ d) ++ F(1) = (s(chk) ++ F(1)) ++ d
  BY XorSwaps
<1>7. ((s(chk) ++ F(1)) ++ d) ++ F(2) = ((s(chk) ++ F(1)) ++ F(2)) ++ d
  BY XorSwaps
<1>8. (((s(chk) ++ F(1)) ++ F(2)) ++ d) ++ F(3) = (((s(chk) ++ F(1)) ++ F(2)) ++ F(3)) ++ d
  BY XorSwaps
<1>9. ((((s(chk) ++ F(1)) ++ F(2)) ++ F(3)) ++ d) ++ F(4)
        = ((((s(chk) ++ F(1)) ++ F(2)) ++ F(3)) ++ F(4)) ++ d
  BY XorSwaps
<1>10. (((((s(chk) ++ F(1)) ++ F(2)) ++ F(3)) ++ F(4)) ++ d) ++ F(5)
        = (((((s(chk) ++ F(1)) ++ F(2)) ++ F(3)) ++ F(4)) ++ F(5)) ++ d
  BY XorSwaps
<1>11. Rest(chk ++ low) = (((((s(chk) ++ F(1)) ++ F(2)) ++ F(3)) ++ F(4)) ++ F(5)) ++ d
  BY <1>4, <1>6, <1>7, <1>8, <1>9, <1>10, Zenon
<1>. QED  BY <1>3, <1>5, <1>11, Zenon

\* The five lowest bits of the numbers in generator.
LEMMA GeneratorLow ==
  /\ Bits(generator[1]) \cap 0..4 = {1, 4}
  /\ Bits(generator[2]) \cap 0..4 = {0, 2, 3}
  /\ Bits(generator[3]) \cap 0..4 = {1, 3, 4}
  /\ Bits(generator[4]) \cap 0..4 = {0, 2, 3, 4}
  /\ Bits(generator[5]) \cap 0..4 = {0, 1, 4}
<1>1. /\ generator[1] = 996825010 /\ generator[2] = 642813549 /\ generator[3] = 513874426
      /\ generator[4] = 1027748829 /\ generator[5] = 705979059
  BY DEF generator
<1>2. ASSUME NEW n \in Nat
      PROVE  /\ 0 \in Bits(n) <=> n % 2 = 1
             /\ 1 \in Bits(n) <=> (n \div 2) % 2 = 1
             /\ 2 \in Bits(n) <=> (n \div 4) % 2 = 1
             /\ 3 \in Bits(n) <=> (n \div 8) % 2 = 1
             /\ 4 \in Bits(n) <=> (n \div 16) % 2 = 1
  <2>1. \A b \in 0..29 : b \in Bits(n) <=> (n \div 2^b) % 2 = 1
    BY DEF Bits
  <2>2. /\ 0 \in Bits(n) <=> (n \div 2^0) % 2 = 1
        /\ 1 \in Bits(n) <=> (n \div 2^1) % 2 = 1
        /\ 2 \in Bits(n) <=> (n \div 2^2) % 2 = 1
        /\ 3 \in Bits(n) <=> (n \div 2^3) % 2 = 1
        /\ 4 \in Bits(n) <=> (n \div 2^4) % 2 = 1
    BY <2>1
  <2>3. n \div 1 = n
    OBVIOUS
  <2>. QED  BY <2>2, <2>3, Powers
<1>3. \A n \in Nat : \A b \in Bits(n) \cap 0..4 : b = 0 \/ b = 1 \/ b = 2 \/ b = 3 \/ b = 4
  OBVIOUS
<1>4. Bits(996825010) \cap 0..4 = {1, 4}
  BY <1>2, <1>3
<1>5. Bits(642813549) \cap 0..4 = {0, 2, 3}
  BY <1>2, <1>3
<1>6. Bits(513874426) \cap 0..4 = {1, 3, 4}
  BY <1>2, <1>3
<1>7. Bits(1027748829) \cap 0..4 = {0, 2, 3, 4}
  BY <1>2, <1>3
<1>8. Bits(705979059) \cap 0..4 = {0, 1, 4}
  BY <1>2, <1>3
<1>. QED  BY <1>1, <1>4, <1>5, <1>6, <1>7, <1>8

\* No two states have one successor: the five bits fed back can be told from the
\* lowest bits of the result.
LEMMA RestTells ==
  ASSUME NEW c \in State, NEW d \in State, Rest(c) = Rest(d)
  PROVE  c = d
<1>. DEFINE s(x) == {b + 5 : b \in x \cap 0..24}
<1>1. \A x : \A b \in 0..4 : b \notin s(x)
  OBVIOUS
<1>2. \A b \in 0..29 : b \in Rest(c) <=> b \in Rest(d)
  BY <1>1
<1>3. ASSUME NEW x \in State, NEW b \in 0..29
      PROVE  b \in Rest(x) <=>
               ~(b \in s(x) <=> ~(b \in Feedback(x, 1) <=> ~(b \in Feedback(x, 2) <=>
               ~(b \in Feedback(x, 3) <=> ~(b \in Feedback(x, 4) <=> b \in Feedback(x, 5))))))
  <2>. HIDE DEF s
  <2>1. Rest(x) = ((((s(x) ++ Feedback(x, 1)) ++ Feedback(x, 2)) ++ Feedback(x, 3))
                     ++ Feedback(x, 4)) ++ Feedback(x, 5)
    BY DEF Rest, s
  <2>2. \A p, q : b \in p ++ q <=> ~(b \in p <=> b \in q)
    BY DEF ++
  <2>. QED  BY <2>1, <2>2
<1>4. ASSUME NEW x \in State
      PROVE  /\ 0 \in Rest(x) <=> ~(26 \in x <=> ~(28 \in x <=> 29 \in x))
             /\ 1 \in Rest(x) <=> ~(25 \in x <=> ~(27 \in x <=> 29 \in x))
             /\ 2 \in Rest(x) <=> ~(26 \in x <=> 28 \in x)
             /\ 3 \in Rest(x) <=> ~(26 \in x <=> ~(27 \in x <=> 28 \in x))
             /\ 4 \in Rest(x) <=> ~(25 \in x <=> ~(27 \in x <=> ~(28 \in x <=> 29 \in x)))
  <2>1. \A b \in 0..4 : /\ b \in Feedback(x, 1) <=> 25 \in x /\ b \in {1, 4}
                        /\ b \in Feedback(x, 2) <=> 26 \in x /\ b \in {0, 2, 3}
                        /\ b \in Feedback(x, 3) <=> 27 \in x /\ b \in {1, 3, 4}
                        /\ b \in Feedback(x, 4) <=> 28 \in x /\ b \in {0, 2, 3, 4}
                        /\ b \in Feedback(x, 5) <=> 29 \in x /\ b \in {0, 1, 4}
    <3>1. 24 + 1 = 25 /\ 24 + 2 = 26 /\ 24 + 3 = 27 /\ 24 + 4 = 28 /\ 24 + 5 = 29
      OBVIOUS
    <3>. QED  BY <3>1, GeneratorLow DEF Feedback
  <2>2. \A b \in 0..4 : b \in 0..29 /\ b \notin s(x)
    OBVIOUS
  <2>3. \A b \in 0..4 : b \in Rest(x) <=>
               ~(b \in Feedback(x, 1) <=> ~(b \in Feedback(x, 2) <=>
               ~(b \in Feedback(x, 3) <=> ~(b \in Feedback(x, 4) <=> b \in Feedback(x, 5)))))
    <3>. HIDE DEF s
    <3>. QED  BY <2>2, <1>3
  <2>. QED  BY <2>1, <2>3
<1>5. \A b \in 25..29 : b \in c <=> b \in d
  <2>1. /\ 25 \in c <=> 25 \in d
        /\ 26 \in c <=> 26 \in d
        /\ 27 \in c <=> 27 \in d
        /\ 28 \in c <=> 28 \in d
        /\ 29 \in c <=> 29 \in d
    BY <1>4
  <2>. QED  BY <2>1
<1>6. \A i \in 1..5 : Feedback(c, i) = Feedback(d, i)
  BY <1>5 DEF Feedback
<1>7. \A b \in 0..29 : b \in s(c) <=> b \in s(d)
  <2>. HIDE DEF s
  <2>. QED  BY <1>2, <1>3, <1>6
<1>8. \A b \in 0..24 : b \in c <=> b \in d
  <2>1. \A b \in 0..24 : \A x \in State : b + 5 \in s(x) <=> b \in x
    BY DEF State
  <2>2. \A b \in 0..24 : b + 5 \in 0..29
    OBVIOUS
  <2>. HIDE DEF s
  <2>. QED  BY <1>7, <2>1, <2>2
<1>9. \A b \in 0..29 : b \in c <=> b \in d
  BY <1>5, <1>8
<1>. QED  BY <1>9 DEF State

-----------------------------------------------------------------------------
(* The loop over values, from any state and for any values: it is linear in *)
(* its state, and two states never become one.                             *)

\* The states that the loop over values goes through.
Run(values, n, f) ==
  f = [i \in 0..n |-> IF i = 0 THEN Bits(1) ELSE Turn5(f[i - 1], values[i])]

LEMMA RunExists ==
  ASSUME NEW values, NEW n \in Nat
  PROVE  \E f : Run(values, n, f)
<1>. DEFINE S == {m \in Nat : \E f : Run(values, m, f)}
<1>1. 0 \in S
  <2>1. Run(values, 0, [i \in 0..0 |-> Bits(1)])
    BY DEF Run
  <2>. QED  BY <2>1
<1>2. ASSUME NEW m \in Nat, m \in S PROVE m + 1 \in S
  <2>1. PICK f : Run(values, m, f)
    BY <1>2
  <2>. DEFINE g == [i \in 0..(m + 1) |-> IF i <= m THEN f[i] ELSE Turn5(f[m], values[m + 1])]
  <2>2. \A i \in 0..(m + 1) :
          g[i] = IF i = 0 THEN Bits(1) ELSE Turn5(g[i - 1], values[i])
    <3>1. TAKE i \in 0..(m + 1)
    <3>2. CASE i <= m
      <4>1. g[i] = f[i] /\ (i # 0 => g[i - 1] = f[i - 1])
        BY <3>2
      <4>2. f[i] = IF i = 0 THEN Bits(1) ELSE Turn5(f[i - 1], values[i])
        BY <2>1, <3>2 DEF Run
      <4>. QED  BY <4>1, <4>2
    <3>3. CASE i = m + 1
      BY <3>3
    <3>. QED  BY <3>2, <3>3
  <2>3. Run(values, m + 1, g)
    BY <2>2 DEF Run
  <2>. HIDE DEF g
  <2>. QED  BY <2>3
<1>. HIDE DEF S
<1>3. n \in S
  BY <1>1, <1>2, Counting
<1>. QED  BY <1>3 DEF S

LEMMA RunOf ==
  ASSUME NEW values, NEW n \in Nat, Len(values) = n
  PROVE  \E f : Run(values, n, f) /\ PolyMod(values) = f[n]
<1>. DEFINE f == CHOOSE f : Run(values, n, f)
<1>1. Run(values, n, f)
  BY RunExists
<1>2. PolyMod(values) = f[n]
  BY DEF PolyMod, Run
<1>. HIDE DEF f
<1>. QED  BY <1>1, <1>2

LEMMA RunFacts ==
  ASSUME NEW values, NEW n \in Nat, NEW f, Run(values, n, f)
  PROVE  /\ f[0] = Bits(1)
         /\ \A i \in 1..n : f[i] = Rest(f[i - 1]) ++ Bits(values[i])
         /\ \A i \in 0..n : f[i] \in State
<1>1. f[0] = Bits(1)
  BY DEF Run
<1>2. \A i \in 1..n : f[i] = Rest(f[i - 1]) ++ Bits(values[i])
  <2>1. \A i \in 1..n : f[i] = Turn5(f[i - 1], values[i])
    BY DEF Run
  <2>. QED  BY <2>1, TurnIsRest
<1>3. \A v : Bits(v) \in State
  BY DEF Bits, State
<1>4. \A i \in 0..n : f[i] \in State
  <2>1. \A i \in 1..n : f[i] \in State
    <3>1. TAKE i \in 1..n
    <3>2. /\ Rest(f[i - 1]) \in SUBSET (0..29) /\ Bits(values[i]) \in SUBSET (0..29)
      BY <1>3, RestType DEF State
    <3>. DEFINE r == Rest(f[i - 1])
                u == Bits(values[i])
    <3>3. f[i] = r ++ u
      BY <1>2
    <3>. HIDE DEF r, u
    <3>4. r ++ u \in SUBSET (0..29)
      <4>1. r \in SUBSET (0..29) /\ u \in SUBSET (0..29)
        BY <3>2 DEF r, u
      <4>. QED  BY <4>1, XorType
    <3>. QED  BY <3>3, <3>4 DEF State
  <2>. QED  BY <1>1, <1>3, <2>1
<1>. QED  BY <1>1, <1>2, <1>4

LEMMA SameRuns ==
  ASSUME NEW v, NEW w, NEW m \in Nat, NEW n \in Nat, NEW f, NEW g, NEW k \in Nat,
         Run(v, m, f), Run(w, n, g), k <= m, k <= n, \A i \in 1..k : v[i] = w[i]
  PROVE  f[k] = g[k]
<1>. DEFINE S == {j \in Nat : j <= k => f[j] = g[j]}
<1>1. 0 \in S
  BY RunFacts
<1>2. ASSUME NEW j \in Nat, j \in S PROVE j + 1 \in S
  <2>1. SUFFICES ASSUME j + 1 <= k PROVE f[j + 1] = g[j + 1]
    OBVIOUS
  <2>2. f[j] = g[j] /\ (j + 1) - 1 = j /\ j + 1 \in 1..m /\ j + 1 \in 1..n /\ j + 1 \in 1..k
    BY <1>2, <2>1
  <2>3. /\ f[j + 1] = Rest(f[(j + 1) - 1]) ++ Bits(v[j + 1])
        /\ g[j + 1] = Rest(g[(j + 1) - 1]) ++ Bits(w[j + 1])
    BY <2>2, RunFacts
  <2>4. v[j + 1] = w[j + 1]
    BY <2>2
  <2>. QED  BY <2>2, <2>3, <2>4
<1>. HIDE DEF S
<1>3. k \in S
  BY <1>1, <1>2, Counting
<1>. QED  BY <1>3 DEF S

LEMMA XorCancels ==
  ASSUME NEW a, NEW b, NEW c
  PROVE  /\ a ++ c = b ++ c => a = b
         /\ c ++ a = c ++ b => a = b
<1>2. ASSUME a ++ c = b ++ c PROVE a = b
  <2>1. ASSUME NEW z PROVE z \in a <=> z \in b
    <3>1. z \in a ++ c <=> z \in b ++ c
      BY <1>2
    <3>. QED  BY <3>1 DEF ++
  <2>. QED  BY <2>1
<1>3. c ++ a = a ++ c /\ c ++ b = b ++ c
  BY DEF ++
<1>. QED  BY <1>2, <1>3

\* One value that is another one changes the result.
LEMMA RunsDiffer ==
  ASSUME NEW v, NEW w, NEW n \in Nat, NEW f, NEW g, Run(v, n, f), Run(w, n, g),
         NEW i \in 1..n, v[i] \in Symbol, w[i] \in Symbol, v[i] # w[i],
         \A j \in 1..n : j # i => v[j] = w[j]
  PROVE  f[n] # g[n]
<1>1. f[i - 1] = g[i - 1]
  <2>1. i - 1 \in Nat /\ i - 1 <= n /\ \A j \in 1..(i - 1) : v[j] = w[j]
    OBVIOUS
  <2>. QED  BY <2>1, SameRuns
<1>2. f[i] # g[i]
  <2>1. Bits(v[i]) # Bits(w[i])
    <3>1. v[i] \in Byte /\ w[i] \in Byte
      BY DEF Symbol, Byte
    <3>. QED  BY <3>1, BitsTell
  <2>2. f[i] = Rest(f[i - 1]) ++ Bits(v[i]) /\ g[i] = Rest(g[i - 1]) ++ Bits(w[i])
    BY RunFacts
  <2>. QED  BY <1>1, <2>1, <2>2, XorCancels
<1>. DEFINE S == {k \in Nat : i + k <= n => f[i + k] # g[i + k]}
<1>3. 0 \in S
  BY <1>2
<1>4. ASSUME NEW k \in Nat, k \in S PROVE k + 1 \in S
  <2>1. SUFFICES ASSUME i + (k + 1) <= n PROVE f[i + (k + 1)] # g[i + (k + 1)]
    OBVIOUS
  <2>. DEFINE j == i + (k + 1)
  <2>2. j - 1 = i + k /\ j \in 1..n /\ j # i /\ j - 1 \in 0..n
    BY <2>1
  <2>3. f[j - 1] # g[j - 1] /\ v[j] = w[j]
    BY <1>4, <2>1, <2>2
  <2>. HIDE DEF j
  <2>4. f[j - 1] \in State /\ g[j - 1] \in State
    BY <2>2, RunFacts
  <2>5. Rest(f[j - 1]) # Rest(g[j - 1])
    BY <2>3, <2>4, RestTells
  <2>6. f[j] = Rest(f[j - 1]) ++ Bits(v[j]) /\ g[j] = Rest(g[j - 1]) ++ Bits(w[j])
    BY <2>2, RunFacts
  <2>7. f[j] # g[j]
    BY <2>3, <2>5, <2>6, XorCancels
  <2>. QED  BY <2>7 DEF j
<1>. HIDE DEF S
<1>5. n - i \in S
  BY <1>3, <1>4, Counting
<1>. QED  BY <1>5 DEF S

-----------------------------------------------------------------------------
(* The six symbols of a checksum.                                          *)

LEMMA SmallBits ==
  /\ Bits(0) = {} /\ Bits(1) = {0}
  /\ \A c \in Symbol : Bits(c) \subseteq 0..4
<1>1. 0 \in Byte /\ 1 \in Byte /\ \A c \in Symbol : c \in Byte /\ c <= 31
  BY DEF Byte, Symbol
<1>2. \A c \in Byte : c < 2 => /\ 1 \notin Bits(c) /\ 2 \notin Bits(c) /\ 3 \notin Bits(c)
                               /\ 4 \notin Bits(c) /\ 5 \notin Bits(c) /\ 6 \notin Bits(c)
                               /\ 7 \notin Bits(c)
  <2>1. SUFFICES ASSUME NEW c \in Byte, c < 2
                 PROVE  /\ 1 \notin Bits(c) /\ 2 \notin Bits(c) /\ 3 \notin Bits(c)
                        /\ 4 \notin Bits(c) /\ 5 \notin Bits(c) /\ 6 \notin Bits(c)
                        /\ 7 \notin Bits(c)
    OBVIOUS
  <2>2. c \div 2 = 0 /\ c \div 4 = 0 /\ c \div 8 = 0 /\ c \div 16 = 0 /\ c \div 32 = 0
        /\ c \div 64 = 0 /\ c \div 128 = 0 /\ 0 % 2 # 1
    BY <2>1 DEF Byte
  <2>. QED  BY <2>2, BitsOfByte
<1>3. 0 \notin Bits(0) /\ 0 \in Bits(1)
  <2>1. 0 % 2 # 1 /\ 1 % 2 = 1
    OBVIOUS
  <2>. QED  BY <1>1, <2>1, BitsOfByte
<1>4. Bits(0) \subseteq 0..7 /\ Bits(1) \subseteq 0..7
  BY <1>1, BitsOfByte
<1>5. \A c \in Symbol : Bits(c) \subseteq 0..4
  BY <1>1, BitsOfByteOf
<1>. QED  BY <1>1, <1>2, <1>3, <1>4, <1>5

\* The bits of the first k symbols of a checksum, the last one being the lowest.
Packed(c, k) == {b \in 0..29 : b < 5 * k /\ b % 5 \in Bits(c[k - (b \div 5)])}

LEMMA PackedGrows ==
  ASSUME NEW c, \A i \in 1..6 : c[i] \in Symbol, NEW k \in 0..5
  PROVE  /\ Packed(c, k) \in SUBSET (0..24)
         /\ Packed(c, k + 1) = {b + 5 : b \in Packed(c, k)} ++ Bits(c[k + 1])
<1>1. Packed(c, k) \in SUBSET (0..24)
  BY DEF Packed
<1>2. Bits(c[k + 1]) \subseteq 0..4
  BY SmallBits
<1>. DEFINE d == {b + 5 : b \in Packed(c, k)}
<1>3. \A b \in Int : b \in d <=> b - 5 \in Packed(c, k)
  <2>1. \A x, y \in Int : x + 5 = y + 5 => x = y
    OBVIOUS
  <2>2. \A b \in Packed(c, k) : b \in Int
    BY <1>1
  <2>3. \A b \in Int : (b - 5) + 5 = b /\ (b + 5) - 5 = b
    OBVIOUS
  <2>. QED  BY <2>1, <2>2, <2>3
<1>4. \A b \in d : b \in 5..29
  BY <1>1
<1>. HIDE DEF d
<1>5. ASSUME NEW b \in 0..29 PROVE b \in Packed(c, k + 1) <=> b \in d ++ Bits(c[k + 1])
  <2>1. b \in Packed(c, k + 1) <=> b < 5 * (k + 1) /\ b % 5 \in Bits(c[(k + 1) - (b \div 5)])
    BY DEF Packed
  <2>2. CASE b < 5
    <3>1. b \div 5 = 0 /\ b % 5 = b /\ b < 5 * (k + 1) /\ (k + 1) - 0 = k + 1
      BY <2>2
    <3>2. b \notin d
      BY <1>4, <2>2
    <3>. QED  BY <2>1, <3>1, <3>2 DEF ++
  <2>3. CASE b >= 5
    <3>1. b - 5 \in 0..29 /\ (b < 5 * (k + 1) <=> b - 5 < 5 * k)
      BY <2>3
    <3>2. (b - 5) \div 5 = (b \div 5) - 1 /\ (b - 5) % 5 = b % 5
      BY <2>3
    <3>3. k - ((b - 5) \div 5) = (k + 1) - (b \div 5)
      BY <3>2
    <3>4. b \in d <=> b \in Packed(c, k + 1)
      BY <1>3, <2>1, <3>1, <3>2, <3>3 DEF Packed
    <3>5. b \notin Bits(c[k + 1])
      BY <1>2, <2>3
    <3>. QED  BY <3>4, <3>5 DEF ++
  <2>. QED  BY <2>2, <2>3
<1>6. Packed(c, k + 1) \subseteq 0..29 /\ d ++ Bits(c[k + 1]) \subseteq 0..29
  <2>1. Packed(c, k + 1) \subseteq 0..29
    BY DEF Packed
  <2>2. d \subseteq 0..29 /\ Bits(c[k + 1]) \subseteq 0..29
    BY <1>2, <1>4
  <2>. QED  BY <2>1, <2>2 DEF ++
<1>7. Packed(c, k + 1) = d ++ Bits(c[k + 1])
  BY <1>5, <1>6
<1>. QED  BY <1>1, <1>7 DEF d

LEMMA XorJoins ==
  ASSUME NEW a, NEW b, NEW c
  PROVE  /\ (a ++ b) ++ c = a ++ (b ++ c)
         /\ a ++ {} = a
<1>1. (a ++ b) ++ c = a ++ (b ++ c)
  BY DEF ++
<1>2. a ++ {} = a
  BY DEF ++
<1>. QED  BY <1>1, <1>2

\* Six symbols at the end are added to what six zeros there would give.
LEMMA RunsOfChecksum ==
  ASSUME NEW n \in Nat, NEW v, NEW w, NEW f, NEW g, NEW c,
         Run(v, n + 6, f), Run(w, n + 6, g),
         \A i \in 1..n : v[i] = w[i],
         \A i \in 1..6 : v[n + i] = 0 /\ w[n + i] = c[i] /\ c[i] \in Symbol
  PROVE  g[n + 6] = f[n + 6] ++ Packed(c, 6)
<1>. DEFINE S == {k \in Nat : k <= 6 => g[n + k] = f[n + k] ++ Packed(c, k)}
<1>1. 0 \in S
  <2>1. f[n] = g[n]
    BY SameRuns
  <2>2. Packed(c, 0) = {}
    BY DEF Packed
  <2>. QED  BY <2>1, <2>2, XorJoins
<1>2. ASSUME NEW k \in Nat, k \in S PROVE k + 1 \in S
  <2>1. SUFFICES ASSUME k + 1 <= 6
                 PROVE  g[n + (k + 1)] = f[n + (k + 1)] ++ Packed(c, k + 1)
    OBVIOUS
  <2>. DEFINE j == n + (k + 1)
              p == Packed(c, k)
              d == {b + 5 : b \in p}
              u == Bits(c[k + 1])
  <2>2. /\ j \in 1..(n + 6) /\ j - 1 = n + k /\ j - 1 \in 0..(n + 6)
        /\ k + 1 \in 1..6 /\ k \in 0..5 /\ k <= 6
    BY <2>1
  <2>3. v[j] = 0 /\ w[j] = c[k + 1]
    BY <2>2
  <2>4. g[j - 1] = f[j - 1] ++ p
    BY <1>2, <2>2
  <2>5. p \in SUBSET (0..24) /\ Packed(c, k + 1) = d ++ u
    BY <2>2, PackedGrows
  <2>. HIDE DEF j, p, u
  <2>6. /\ f[j] = Rest(f[j - 1]) ++ Bits(v[j]) /\ g[j] = Rest(g[j - 1]) ++ Bits(w[j])
        /\ f[j - 1] \in State
    BY <2>2, RunFacts
  <2>7. f[j] = Rest(f[j - 1])
    BY <2>3, <2>6, SmallBits, XorJoins
  <2>8. Rest(g[j - 1]) = Rest(f[j - 1]) ++ d
    BY <2>4, <2>5, <2>6, RestOfLow
  <2>9. g[j] = (f[j] ++ d) ++ u
    BY <2>3, <2>6, <2>7, <2>8 DEF u
  <2>. HIDE DEF d
  <2>10. g[j] = f[j] ++ (d ++ u)
    BY <2>9, XorJoins
  <2>. QED  BY <2>5, <2>10 DEF j
<1>. HIDE DEF S
<1>3. 6 \in S
  BY <1>1, <1>2, Counting
<1>. QED  BY <1>3 DEF S

LEMMA ExpandedShape ==
  ASSUME NEW hrp \in Seq(Ascii)
  PROVE  IsSeq(HRPExpand(hrp), 2 * Len(hrp) + 1)
<1>. DEFINE n == Len(hrp)
            a == [i \in 1..n |-> hrp[i] \div 32]
            b == [i \in 1..n |-> hrp[i] % 32]
<1>1. n \in Nat
  OBVIOUS
<1>2. IsSeq(a, n) /\ IsSeq(b, n) /\ IsSeq(<<0>>, 1)
  BY <1>1 DEF IsSeq
<1>3. HRPExpand(hrp) = (a \o <<0>>) \o b
  BY DEF HRPExpand
<1>. HIDE DEF n, a, b
<1>4. IsSeq(a \o <<0>>, n + 1)
  BY <1>2, JoinedParts DEF IsJoined
<1>5. IsSeq((a \o <<0>>) \o b, (n + 1) + n)
  BY <1>2, <1>4, JoinedParts DEF IsJoined
<1>6. (n + 1) + n = 2 * n + 1
  BY <1>1
<1>. QED  BY <1>3, <1>5, <1>6 DEF n

LEMMA Division5 ==
  /\ \A b \in 0..29 : b % 5 \in 0..4 /\ b \div 5 \in 0..5 /\ 6 - (b \div 5) \in 1..6
                      /\ (b % 5) + 5 * (6 - (6 - (b \div 5))) = b
  /\ \A i \in 1..6, a \in 0..4 : a + 5 * (6 - i) \in 0..29 /\ a + 5 * (6 - i) < 30
                      /\ (a + 5 * (6 - i)) % 5 = a /\ 6 - ((a + 5 * (6 - i)) \div 5) = i
OBVIOUS

\* Six symbols have the bits that a checksum has iff they are its symbols.
Unpacked(sum) == [i \in 1..6 |-> ByteOf({b \in 0..4 : b + 5 * (6 - i) \in sum})]

LEMMA PackedIs ==
  ASSUME NEW c, \A i \in 1..6 : c[i] \in Symbol, NEW sum \in State,
         NEW d, d = Unpacked(sum)
  PROVE  /\ \A i \in 1..6 : d[i] \in Symbol
         /\ Packed(c, 6) = sum <=> \A i \in 1..6 : c[i] = d[i]
<1>1. ASSUME NEW i \in 1..6
      PROVE  d[i] \in Symbol /\ Bits(d[i]) = {b \in 0..4 : b + 5 * (6 - i) \in sum}
  <2>. DEFINE T == {b \in 0..4 : b + 5 * (6 - i) \in sum}
  <2>1. T \in SUBSET (0..7) /\ T \subseteq 0..4
    OBVIOUS
  <2>2. d[i] = ByteOf(T)
    BY DEF Unpacked
  <2>. HIDE DEF T
  <2>3. d[i] \in 0..31 /\ Bits(d[i]) = T
    BY <2>1, <2>2, ByteOfBits
  <2>. QED  BY <2>3 DEF T, Symbol
<1>2. \A i \in 1..6, a \in 0..4 : a \in Bits(d[i]) <=> a + 5 * (6 - i) \in sum
  BY <1>1
<1>3. \A b \in 0..29 : b \in Packed(c, 6) <=> b % 5 \in Bits(c[6 - (b \div 5)])
  BY DEF Packed
<1>4. ASSUME \A i \in 1..6 : c[i] = d[i] PROVE Packed(c, 6) = sum
  <2>1. ASSUME NEW b \in 0..29 PROVE b \in Packed(c, 6) <=> b \in sum
    <3>1. c[6 - (b \div 5)] = d[6 - (b \div 5)]
      BY <1>4, Division5
    <3>2. b % 5 \in Bits(d[6 - (b \div 5)]) <=> (b % 5) + 5 * (6 - (6 - (b \div 5))) \in sum
      BY <1>2, Division5
    <3>. QED  BY <1>3, <3>1, <3>2, Division5
  <2>2. Packed(c, 6) \subseteq 0..29 /\ sum \subseteq 0..29
    BY DEF Packed, State
  <2>. QED  BY <2>1, <2>2
<1>5. ASSUME Packed(c, 6) = sum, NEW i \in 1..6 PROVE c[i] = d[i]
  <2>1. ASSUME NEW a \in 0..4 PROVE a \in Bits(c[i]) <=> a \in Bits(d[i])
    <3>1. a \in Bits(d[i]) <=> a + 5 * (6 - i) \in sum
      BY <1>2
    <3>. DEFINE b == a + 5 * (6 - i)
    <3>2. b \in 0..29 /\ b % 5 = a /\ 6 - (b \div 5) = i
      BY Division5
    <3>. HIDE DEF b
    <3>3. b \in sum <=> a \in Bits(c[i])
      BY <1>3, <1>5, <3>2
    <3>. QED  BY <3>1, <3>3 DEF b
  <2>2. Bits(c[i]) \subseteq 0..4 /\ Bits(d[i]) \subseteq 0..4
    BY <1>1, SmallBits
  <2>3. Bits(c[i]) = Bits(d[i])
    BY <2>1, <2>2
  <2>4. c[i] \in Byte /\ d[i] \in Byte
    <3>1. c[i] \in Symbol /\ d[i] \in Symbol
      BY <1>1
    <3>. QED  BY <3>1 DEF Symbol, Byte
  <2>. QED  BY <2>3, <2>4, BitsTell
<1>. QED  BY <1>1, <1>4, <1>5

\* VerifyChecksum accepts one checksum, that of CreateChecksum.
LEMMA ChecksumTells ==
  ASSUME NEW hrp \in Seq(Ascii), NEW m, NEW data, IsSeq(data, m),
         NEW s, IsSeq(s, m + 6), \A j \in 1..m : s[j] = data[j],
         \A i \in 1..6 : s[m + i] \in Symbol
  PROVE  /\ IsSeq(CreateChecksum(hrp, data), 6)
         /\ \A i \in 1..6 : CreateChecksum(hrp, data)[i] \in Symbol
         /\ VerifyChecksum(hrp, s) <=>
              \A i \in 1..6 : s[m + i] = CreateChecksum(hrp, data)[i]
<1>1. PICK H : H = HRPExpand(hrp)
  OBVIOUS
<1>2. PICK h : h = 2 * Len(hrp) + 1
  OBVIOUS
<1>3. IsSeq(H, h) /\ h \in Nat /\ m \in Nat
  BY <1>1, <1>2, ExpandedShape DEF IsSeq
<1>4. PICK z : z = <<0, 0, 0, 0, 0, 0>>
  OBVIOUS
<1>5. IsSeq(z, 6) /\ \A i \in 1..6 : z[i] = 0
  BY <1>4 DEF IsSeq
<1>6. PICK pre : pre = H \o data
  OBVIOUS
<1>7. /\ IsSeq(pre, h + m)
      /\ \A j \in 1..h : pre[j] = H[j]
      /\ \A j \in 1..m : pre[h + j] = data[j]
  <2>1. IsJoined(pre, H, h, data, m)
    BY <1>3, <1>6, JoinedParts
  <2>. QED  BY <2>1 DEF IsJoined
<1>8. PICK v : v = pre \o z
  OBVIOUS
<1>9. /\ IsSeq(v, (h + m) + 6)
      /\ \A j \in 1..(h + m) : v[j] = pre[j]
      /\ \A i \in 1..6 : v[(h + m) + i] = 0
  <2>1. IsJoined(v, pre, h + m, z, 6)
    BY <1>5, <1>7, <1>8, JoinedParts
  <2>. QED  BY <1>5, <2>1 DEF IsJoined
<1>10. PICK w : w = H \o s
  OBVIOUS
<1>11. /\ IsSeq(w, h + (m + 6))
       /\ \A j \in 1..h : w[j] = H[j]
       /\ \A j \in 1..(m + 6) : w[h + j] = s[j]
  <2>1. IsJoined(w, H, h, s, m + 6)
    BY <1>3, <1>10, JoinedParts
  <2>. QED  BY <2>1 DEF IsJoined
<1>12. PICK n : n = h + m
  OBVIOUS
<1>13. n \in Nat /\ h + (m + 6) = n + 6 /\ (h + m) + 6 = n + 6
  BY <1>3, <1>12
<1>14. \A j \in 1..n : v[j] = w[j]
  <2>1. ASSUME NEW j \in 1..n PROVE v[j] = w[j]
    <3>1. v[j] = pre[j]
      BY <1>9, <1>12
    <3>2. CASE j <= h
      <4>1. j \in 1..h
        BY <1>3, <1>13, <3>2
      <4>. QED  BY <1>7, <1>11, <3>1, <4>1
    <3>3. CASE j > h
      <4>1. PICK k \in 1..m : j = h + k
        <5>1. j - h \in 1..m /\ j = h + (j - h)
          BY <1>3, <1>12, <3>3
        <5>. QED  BY <5>1
      <4>2. k \in 1..(m + 6)
        BY <1>3
      <4>. QED  BY <1>7, <1>11, <3>1, <4>1, <4>2
    <3>. QED  BY <1>3, <1>13, <3>2, <3>3
  <2>. QED  BY <2>1
<1>15. PICK c : c = [i \in 1..6 |-> s[m + i]]
  OBVIOUS
<1>16. \A i \in 1..6 : v[n + i] = 0 /\ w[n + i] = c[i] /\ c[i] \in Symbol
  <2>1. ASSUME NEW i \in 1..6 PROVE w[n + i] = c[i]
    <3>1. m + i \in 1..(m + 6) /\ h + (m + i) = n + i
      BY <1>3, <1>12
    <3>. QED  BY <1>11, <1>15, <3>1
  <2>. QED  BY <1>9, <1>12, <1>15, <2>1
<1>17. Len(v) = n + 6 /\ Len(w) = n + 6 /\ n + 6 \in Nat
  BY <1>9, <1>11, <1>13, LenOf
<1>18. PICK f : Run(v, n + 6, f) /\ PolyMod(v) = f[n + 6]
  BY <1>17, RunOf
<1>19. PICK g : Run(w, n + 6, g) /\ PolyMod(w) = g[n + 6]
  BY <1>17, RunOf
<1>20. PolyMod(w) = PolyMod(v) ++ Packed(c, 6)
  BY <1>13, <1>14, <1>16, <1>18, <1>19, RunsOfChecksum
<1>21. PolyMod(v) \in State /\ Bits(1) \in State
  <2>1. \A i \in 0..(n + 6) : f[i] \in State
    BY <1>17, <1>18, RunFacts
  <2>2. n + 6 \in 0..(n + 6)
    BY <1>17
  <2>. QED  BY <1>18, <2>1, <2>2 DEF Bits, State
<1>22. PICK sum : sum = PolyMod(v) ++ Bits(1)
  OBVIOUS
<1>23. sum \in State
  BY <1>21, <1>22 DEF State, ++
<1>24. PICK d : d = CreateChecksum(hrp, data)
  OBVIOUS
<1>25. d = Unpacked(sum)
  BY <1>1, <1>4, <1>6, <1>8, <1>22, <1>24 DEF CreateChecksum, Unpacked
<1>26. /\ \A i \in 1..6 : d[i] \in Symbol
       /\ Packed(c, 6) = sum <=> \A i \in 1..6 : c[i] = d[i]
  BY <1>16, <1>23, <1>25, PackedIs
<1>27. VerifyChecksum(hrp, s) <=> PolyMod(v) ++ Packed(c, 6) = Bits(1)
  BY <1>1, <1>10, <1>20 DEF VerifyChecksum
<1>28. PolyMod(v) ++ Packed(c, 6) = Bits(1) <=> Packed(c, 6) = sum
  <2>1. \A a, p, b : a ++ p = b <=> p = a ++ b
    <3>1. ASSUME NEW a, NEW p, NEW b PROVE a ++ p = b <=> p = a ++ b
      <4>1. a ++ (a ++ p) = p /\ a ++ (a ++ b) = b
        BY DEF ++
      <4>. QED  BY <4>1
    <3>. QED  BY <3>1
  <2>. QED  BY <1>22, <2>1
<1>29. IsSeq(d, 6)
  BY <1>25 DEF IsSeq, Unpacked
<1>30. VerifyChecksum(hrp, s) <=> \A i \in 1..6 : s[m + i] = d[i]
  BY <1>15, <1>26, <1>27, <1>28
<1>. QED  BY <1>24, <1>26, <1>29, <1>30

-----------------------------------------------------------------------------
(* Bytes in groups of bits of another width, and back.                     *)

\* The numbers that have w bits.
Below(w) == {c \in Byte : Bits(c) \subseteq 0..(w - 1)}

LEMMA WidthsBelow ==
  /\ Below(5) = Symbol /\ Below(8) = Byte
  /\ 2^5 = 32 /\ 2^8 = 256
<1>1. Below(8) = Byte
  BY BitsOfByte DEF Below
<1>2. \A c \in Symbol : c \in Below(5)
  <2>1. \A c \in Symbol : c \in Byte
    BY DEF Symbol, Byte
  <2>. QED  BY <2>1, SmallBits DEF Below
<1>3. \A c \in Below(5) : c \in Symbol
  <2>1. SUFFICES ASSUME NEW c \in Below(5) PROVE c \in Symbol
    OBVIOUS
  <2>2. c \in Byte /\ Bits(c) \subseteq 0..4
    BY <2>1 DEF Below
  <2>3. ByteOf(Bits(c)) \in 0..31 /\ ByteOf(Bits(c)) = c
    <3>1. Bits(c) \in SUBSET (0..7) /\ Bits(c) \subseteq 0..4
      BY <2>2
    <3>. QED  BY <2>2, <3>1, ByteOfBits, BitsOfByteOf
  <2>. QED  BY <2>3 DEF Symbol
<1>4. 2^5 = 32 /\ 2^8 = 256
  OBVIOUS
<1>. QED  BY <1>1, <1>2, <1>3, <1>4

\* The place p is in group PlaceGroup, of which it is the bit PlaceBit.
LEMMA Places ==
  ASSUME NEW w \in {5, 8}
  PROVE  /\ \A p \in Nat : /\ w - 1 - (p % w) \in 0..(w - 1)
                           /\ (p \div w) + 1 \in Nat \ {0}
                           /\ ((p \div w) + 1) * w - 1 - (w - 1 - (p % w)) = p
         /\ \A n \in Nat : \A p \in 0..(w * n - 1) : (p \div w) + 1 \in 1..n
         /\ \A i \in Nat \ {0} : \A b \in 0..(w - 1) :
              /\ i * w - 1 - b \in Nat
              /\ ((i * w - 1 - b) \div w) + 1 = i
              /\ w - 1 - ((i * w - 1 - b) % w) = b
         /\ \A n \in Nat : \A i \in 1..n : \A b \in 0..(w - 1) : i * w - 1 - b \in 0..(w * n - 1)
<1>1. CASE w = 5
  <2>1. \A p \in Nat : /\ 5 - 1 - (p % 5) \in 0..(5 - 1)
                       /\ (p \div 5) + 1 \in Nat \ {0}
                       /\ ((p \div 5) + 1) * 5 - 1 - (5 - 1 - (p % 5)) = p
    OBVIOUS
  <2>2. \A n \in Nat : \A p \in 0..(5 * n - 1) : (p \div 5) + 1 \in 1..n
    OBVIOUS
  <2>3. \A i \in Nat \ {0} : \A b \in 0..(5 - 1) :
              /\ i * 5 - 1 - b \in Nat
              /\ ((i * 5 - 1 - b) \div 5) + 1 = i
              /\ 5 - 1 - ((i * 5 - 1 - b) % 5) = b
    OBVIOUS
  <2>4. \A n \in Nat : \A i \in 1..n : \A b \in 0..(5 - 1) : i * 5 - 1 - b \in 0..(5 * n - 1)
    OBVIOUS
  <2>. QED  BY <1>1, <2>1, <2>2, <2>3, <2>4, Zenon
<1>2. CASE w = 8
  <2>1. \A p \in Nat : /\ 8 - 1 - (p % 8) \in 0..(8 - 1)
                       /\ (p \div 8) + 1 \in Nat \ {0}
                       /\ ((p \div 8) + 1) * 8 - 1 - (8 - 1 - (p % 8)) = p
    OBVIOUS
  <2>2. \A n \in Nat : \A p \in 0..(8 * n - 1) : (p \div 8) + 1 \in 1..n
    OBVIOUS
  <2>3. \A i \in Nat \ {0} : \A b \in 0..(8 - 1) :
              /\ i * 8 - 1 - b \in Nat
              /\ ((i * 8 - 1 - b) \div 8) + 1 = i
              /\ 8 - 1 - ((i * 8 - 1 - b) % 8) = b
    OBVIOUS
  <2>4. \A n \in Nat : \A i \in 1..n : \A b \in 0..(8 - 1) : i * 8 - 1 - b \in 0..(8 * n - 1)
    OBVIOUS
  <2>. QED  BY <1>2, <2>1, <2>2, <2>3, <2>4, Zenon
<1>. QED  BY <1>1, <1>2

AreGroups(g, ones, n, w) ==
  /\ IsSeq(g, n)
  /\ \A i \in 1..n : g[i] \in Below(w)
  /\ \A i \in 1..n : \A b \in 0..(w - 1) : b \in Bits(g[i]) <=> i * w - 1 - b \in ones

LEMMA GroupsShape ==
  ASSUME NEW ones, NEW n \in Nat, NEW w \in {5, 8}
  PROVE  AreGroups(Groups(ones, n, w), ones, n, w)
<1>1. IsSeq(Groups(ones, n, w), n)
  BY DEF IsSeq, Groups
<1>2. ASSUME NEW i \in 1..n
      PROVE  /\ Groups(ones, n, w)[i] \in Below(w)
             /\ Bits(Groups(ones, n, w)[i]) = {b \in 0..(w - 1) : i * w - 1 - b \in ones}
  <2>. DEFINE T == {b \in 0..(w - 1) : i * w - 1 - b \in ones}
  <2>1. Groups(ones, n, w)[i] = ByteOf(T)
    BY DEF Groups
  <2>2. T \subseteq 0..(w - 1)
    OBVIOUS
  <2>. HIDE DEF T
  <2>3. 0..(w - 1) \subseteq 0..7
    OBVIOUS
  <2>4. ByteOf(T) \in Byte /\ Bits(ByteOf(T)) = T
    BY <2>2, <2>3, ByteOfBits
  <2>5. ByteOf(T) \in Below(w)
    BY <2>2, <2>4 DEF Below
  <2>. QED  BY <2>1, <2>4, <2>5 DEF T
<1>3. \A i \in 1..n : \A b \in 0..(w - 1) :
        b \in Bits(Groups(ones, n, w)[i]) <=> i * w - 1 - b \in ones
  BY <1>2
<1>. QED  BY <1>1, <1>2, <1>3 DEF AreGroups

LEMMA OnesOfGroups ==
  ASSUME NEW n \in Nat, NEW w \in {5, 8}, NEW ones \in SUBSET (0..(w * n - 1))
  PROVE  Ones(Groups(ones, n, w), w) = ones
<1>. DEFINE g == Groups(ones, n, w)
<1>0. AreGroups(g, ones, n, w)
  BY GroupsShape
<1>. HIDE DEF g
<1>1. Len(g) = n
  BY <1>0, LenOf DEF AreGroups
<1>2. \A i \in 1..n : \A b \in 0..(w - 1) : b \in Bits(g[i]) <=> i * w - 1 - b \in ones
  BY <1>0 DEF AreGroups
<1>3. Ones(g, w) = {p \in 0..(w * n - 1) : w - 1 - (p % w) \in Bits(g[(p \div w) + 1])}
  BY <1>1 DEF Ones
<1>4. ASSUME NEW p \in 0..(w * n - 1)
      PROVE  w - 1 - (p % w) \in Bits(g[(p \div w) + 1]) <=> p \in ones
  <2>1. p \in Nat
    OBVIOUS
  <2>2. PICK i : i = (p \div w) + 1
    OBVIOUS
  <2>3. PICK b : b = w - 1 - (p % w)
    OBVIOUS
  <2>4. i \in 1..n
    BY <2>2, Places
  <2>5. b \in 0..(w - 1) /\ i * w - 1 - b = p
    BY <2>1, <2>2, <2>3, Places
  <2>6. b \in Bits(g[i]) <=> i * w - 1 - b \in ones
    BY <1>2, <2>4, <2>5
  <2>. QED  BY <2>2, <2>3, <2>5, <2>6
<1>5. Ones(g, w) = ones
  BY <1>3, <1>4
<1>. QED  BY <1>5 DEF g

LEMMA GroupsOfOnes ==
  ASSUME NEW n, NEW w \in {5, 8}, NEW s, IsSeq(s, n), \A i \in 1..n : s[i] \in Below(w)
  PROVE  Groups(Ones(s, w), n, w) = s
<1>1. Len(s) = n /\ n \in Nat
  BY LenOf DEF IsSeq
<1>. DEFINE g == Groups(Ones(s, w), n, w)
<1>0. AreGroups(g, Ones(s, w), n, w)
  BY <1>1, GroupsShape
<1>. HIDE DEF g
<1>2. IsSeq(g, n) /\ \A i \in 1..n : g[i] \in Below(w)
  BY <1>0 DEF AreGroups
<1>3. ASSUME NEW i \in 1..n
      PROVE  Bits(g[i]) = Bits(s[i])
  <2>1. \A b \in 0..(w - 1) : b \in Bits(g[i]) <=> i * w - 1 - b \in Ones(s, w)
    BY <1>0 DEF AreGroups
  <2>2. ASSUME NEW b \in 0..(w - 1)
        PROVE  i * w - 1 - b \in Ones(s, w) <=> b \in Bits(s[i])
    <3>1. PICK p : p = i * w - 1 - b
      OBVIOUS
    <3>2. i \in Nat \ {0}
      BY <1>1
    <3>3. p \in 0..(w * n - 1) /\ (p \div w) + 1 = i /\ w - 1 - (p % w) = b
      BY <1>1, <3>1, <3>2, Places
    <3>4. p \in Ones(s, w) <=> b \in Bits(s[i])
      BY <1>1, <3>3 DEF Ones
    <3>. QED  BY <3>1, <3>4
  <2>3. Bits(s[i]) \subseteq 0..(w - 1) /\ Bits(g[i]) \subseteq 0..(w - 1)
    <3>1. s[i] \in Below(w) /\ g[i] \in Below(w)
      BY <1>2
    <3>. QED  BY <3>1 DEF Below
  <2>. QED  BY <2>1, <2>2, <2>3
<1>4. \A i \in 1..n : g[i] = s[i]
  <2>1. SUFFICES ASSUME NEW i \in 1..n PROVE g[i] = s[i]
    OBVIOUS
  <2>2. g[i] \in Byte /\ s[i] \in Byte
    <3>1. g[i] \in Below(w) /\ s[i] \in Below(w)
      BY <1>2
    <3>. QED  BY <3>1 DEF Below
  <2>. QED  BY <1>3, <2>2, BitsTell
<1>5. g = s
  BY <1>2, <1>4, SameSeq
<1>. QED  BY <1>5 DEF g

LEMMA OnesWithin ==
  ASSUME NEW s, NEW n \in Nat, Len(s) = n, NEW w
  PROVE  Ones(s, w) \subseteq 0..(w * n - 1)
BY DEF Ones

\* Bytes to symbols, and from them the bytes.
LEMMA SquashedBack ==
  ASSUME NEW data, NEW m, IsSeq(data, m), \A i \in 1..m : data[i] \in Byte
  PROVE  \E symbols, k : /\ ByteSquasher(data, 8, 5) = {symbols}
                         /\ IsSeq(symbols, k)
                         /\ \A i \in 1..k : symbols[i] \in Symbol
                         /\ ByteSquasher(symbols, 5, 8) = {data}
<1>1. Len(data) = m /\ m \in Nat
  BY LenOf DEF IsSeq
<1>2. PICK k : k = (8 * m + 5 - 1) \div 5
  OBVIOUS
<1>3. k \in Nat /\ 8 * m <= 5 * k /\ 5 * k <= 8 * m + 4
  BY <1>1, <1>2
<1>4. PICK ones : ones = Ones(data, 8)
  OBVIOUS
<1>5. ones \subseteq 0..(8 * m - 1)
  BY <1>1, <1>4, OnesWithin
<1>6. PICK symbols : symbols = Groups(ones, k, 5)
  OBVIOUS
<1>7. IsSeq(symbols, k) /\ \A i \in 1..k : symbols[i] \in Symbol
  BY <1>3, <1>6, GroupsShape, WidthsBelow DEF AreGroups
<1>8. ByteSquasher(data, 8, 5) = {symbols}
  <2>1. \A i \in 1..m : ~(data[i] >= 2^8)
    BY WidthsBelow DEF Byte
  <2>. QED  BY <1>1, <1>2, <1>4, <1>6, <2>1 DEF ByteSquasher
<1>9. Len(symbols) = k
  BY <1>7, LenOf
<1>10. Ones(symbols, 5) = ones
  <2>1. ones \in SUBSET (0..(5 * k - 1))
    BY <1>1, <1>3, <1>5
  <2>. QED  BY <1>3, <1>6, <2>1, OnesOfGroups
<1>11. Groups(ones, m, 8) = data
  BY <1>4, GroupsOfOnes, WidthsBelow
<1>12. ByteSquasher(symbols, 5, 8) = {data}
  <2>1. \A i \in 1..k : ~(symbols[i] >= 2^5)
    BY <1>7, WidthsBelow DEF Symbol
  <2>2. (5 * k) \div 8 = m /\ (5 * k) % 8 < 5
    BY <1>1, <1>3
  <2>3. \A p \in ones : ~(p >= m * 8)
    BY <1>1, <1>5
  <2>4. ~((5 * k) % 8 >= 5)
    BY <1>3, <2>2
  <2>. QED  BY <1>9, <1>10, <1>11, <2>1, <2>2, <2>3, <2>4 DEF ByteSquasher
<1>. QED  BY <1>7, <1>8, <1>12

\* Symbols that are accepted, and from the bytes the symbols.
LEMMA UnsquashedBack ==
  ASSUME NEW symbols, NEW k, IsSeq(symbols, k), \A i \in 1..k : symbols[i] \in Symbol,
         NEW data \in ByteSquasher(symbols, 5, 8)
  PROVE  /\ ByteSquasher(data, 8, 5) = {symbols}
         /\ \E m : IsSeq(data, m) /\ \A i \in 1..m : data[i] \in Byte
<1>1. Len(symbols) = k /\ k \in Nat
  BY LenOf DEF IsSeq
<1>2. PICK m : m = (5 * k) \div 8
  OBVIOUS
<1>3. PICK ones : ones = Ones(symbols, 5)
  OBVIOUS
<1>4. /\ ~((5 * k) % 8 >= 5)
      /\ \A p \in ones : ~(p >= m * 8)
      /\ data = Groups(ones, m, 8)
  BY <1>1, <1>2, <1>3 DEF ByteSquasher
<1>5. m \in Nat /\ 8 * m <= 5 * k /\ 5 * k <= 8 * m + 4
  BY <1>1, <1>2, <1>4
<1>6. ones \subseteq 0..(8 * m - 1)
  <2>1. ones \subseteq 0..(5 * k - 1)
    BY <1>1, <1>3, OnesWithin
  <2>. QED  BY <1>4, <1>5, <2>1
<1>7. IsSeq(data, m) /\ \A i \in 1..m : data[i] \in Byte
  BY <1>4, <1>5, GroupsShape, WidthsBelow DEF AreGroups
<1>8. Ones(data, 8) = ones
  BY <1>4, <1>5, <1>6, OnesOfGroups
<1>9. Groups(ones, k, 5) = symbols
  BY <1>3, GroupsOfOnes, WidthsBelow
<1>10. (8 * m + 5 - 1) \div 5 = k
  BY <1>1, <1>5
<1>11. \A i \in 1..m : ~(data[i] >= 2^8)
  BY <1>7, WidthsBelow DEF Byte
<1>12. Len(data) = m
  BY <1>7, LenOf
<1>13. ByteSquasher(data, 8, 5) = {symbols}
  BY <1>8, <1>9, <1>10, <1>11, <1>12 DEF ByteSquasher
<1>. QED  BY <1>7, <1>13

-----------------------------------------------------------------------------
(* Characters, cases and the separator.                                    *)

LEMMA CharsetTells ==
  /\ Len(charset) = 32
  /\ \A n \in 1..32 : charset[n] \in Ascii \ Upper /\ charset[n] # Separator
  /\ \A m, n \in 1..32 : charset[m] = charset[n] => m = n
<1>1. Len(charset) = 32
  BY DEF charset
<1>2. /\ charset[1] = 113 /\ charset[2] = 112 /\ charset[3] = 122 /\ charset[4] = 114
      /\ charset[5] = 121 /\ charset[6] = 57 /\ charset[7] = 120 /\ charset[8] = 56
      /\ charset[9] = 103 /\ charset[10] = 102 /\ charset[11] = 50 /\ charset[12] = 116
      /\ charset[13] = 118 /\ charset[14] = 100 /\ charset[15] = 119 /\ charset[16] = 48
      /\ charset[17] = 115 /\ charset[18] = 51 /\ charset[19] = 106 /\ charset[20] = 110
      /\ charset[21] = 53 /\ charset[22] = 52 /\ charset[23] = 107 /\ charset[24] = 104
      /\ charset[25] = 99 /\ charset[26] = 101 /\ charset[27] = 54 /\ charset[28] = 109
      /\ charset[29] = 117 /\ charset[30] = 97 /\ charset[31] = 55 /\ charset[32] = 108
  BY DEF charset
<1>3. \A n \in 1..32 :
        \/ n = 1 \/ n = 2 \/ n = 3 \/ n = 4 \/ n = 5 \/ n = 6 \/ n = 7 \/ n = 8
        \/ n = 9 \/ n = 10 \/ n = 11 \/ n = 12 \/ n = 13 \/ n = 14 \/ n = 15 \/ n = 16
        \/ n = 17 \/ n = 18 \/ n = 19 \/ n = 20 \/ n = 21 \/ n = 22 \/ n = 23 \/ n = 24
        \/ n = 25 \/ n = 26 \/ n = 27 \/ n = 28 \/ n = 29 \/ n = 30 \/ n = 31 \/ n = 32
  OBVIOUS
<1>4. \A n \in 1..32 : charset[n] \in Ascii \ Upper /\ charset[n] # Separator
  BY <1>2, <1>3 DEF Ascii, Upper, Separator
<1>5. \A m, n \in 1..32 : charset[m] = charset[n] => m = n
  BY <1>2, <1>3
<1>. QED  BY <1>1, <1>4, <1>5

\* The characters of the symbols s.
Spells(t, s, n) ==
  /\ IsSeq(t, n) /\ IsSeq(s, n)
  /\ \A j \in 1..n : s[j] \in Symbol /\ t[j] = charset[s[j] + 1]

LEMMA Unspelled ==
  ASSUME NEW t, NEW s, NEW n, Spells(t, s, n)
  PROVE  StringToSquashedBytes(t) = {s}
<1>1. Len(t) = n
  BY LenOf DEF Spells
<1>2. \A j \in 1..n : s[j] + 1 \in 1..32 /\ charset[s[j] + 1] = t[j] /\ (s[j] + 1) - 1 = s[j]
  BY DEF Spells, Symbol
<1>3. \A j \in 1..n : Contains(charset, t[j])
  BY <1>2, CharsetTells DEF Contains
<1>. DEFINE Found(j) == CHOOSE c \in 1..32 : charset[c] = t[j]
<1>4. ASSUME NEW j \in 1..n PROVE Found(j) = s[j] + 1
  <2>. DEFINE c == CHOOSE c \in 1..32 : charset[c] = t[j]
  <2>1. c \in 1..32 /\ charset[c] = t[j]
    BY <1>2
  <2>. HIDE DEF c
  <2>2. c = s[j] + 1
    BY <1>2, <2>1, CharsetTells
  <2>. QED  BY <2>2 DEF c
<1>5. [i \in 1..n |-> Found(i) - 1] = [i \in 1..n |-> s[i]]
  <2>. HIDE DEF Found
  <2>1. \A i \in 1..n : Found(i) - 1 = s[i]
    BY <1>2, <1>4
  <2>. QED  BY <2>1
<1>6. s = [i \in 1..n |-> s[i]]
  BY DEF Spells, IsSeq
<1>. QED  BY <1>1, <1>3, <1>5, <1>6 DEF StringToSquashedBytes

LEMMA SpelledBy ==
  ASSUME NEW t, NEW n, IsSeq(t, n), NEW s \in StringToSquashedBytes(t)
  PROVE  Spells(t, s, n)
<1>1. Len(t) = n
  BY LenOf
<1>2. /\ \A i \in 1..n : Contains(charset, t[i])
      /\ s = [i \in 1..n |-> (CHOOSE c \in 1..32 : charset[c] = t[i]) - 1]
  BY <1>1 DEF StringToSquashedBytes
<1>3. ASSUME NEW j \in 1..n
      PROVE  s[j] \in Symbol /\ t[j] = charset[s[j] + 1]
  <2>. DEFINE c == CHOOSE c \in 1..32 : charset[c] = t[j]
  <2>1. c \in 1..32 /\ charset[c] = t[j]
    BY <1>2, CharsetTells DEF Contains
  <2>2. s[j] = c - 1
    BY <1>2
  <2>. HIDE DEF c
  <2>3. c - 1 \in 0..31 /\ (c - 1) + 1 = c
    BY <2>1
  <2>. QED  BY <2>1, <2>2, <2>3 DEF Symbol
<1>4. IsSeq(s, n)
  BY <1>2 DEF IsSeq
<1>. QED  BY <1>3, <1>4 DEF Spells

\* Letters in one case.
LEMMA LowerShape ==
  ASSUME NEW text \in Seq(Ascii)
  PROVE  /\ IsSeq(ToLower(text), Len(text))
         /\ \A i \in 1..Len(text) : ToLower(text)[i] \in Ascii \ Upper
<1>1. \A i \in 1..Len(text) : text[i] \in Ascii
  OBVIOUS
<1>2. \A c \in Ascii : (IF c \in Upper THEN c + 32 ELSE c) \in Ascii \ Upper
  BY DEF Ascii, Upper
<1>. QED  BY <1>1, <1>2 DEF IsSeq, ToLower

LEMMA LowerKept ==
  ASSUME NEW n, NEW text, IsSeq(text, n), \A i \in 1..n : text[i] \in Ascii \ Upper
  PROVE  /\ ToLower(text) = text
         /\ ToLower(ToUpper(text)) = text
         /\ ToUpper(ToUpper(text)) = ToUpper(text)
         /\ IsSeq(ToUpper(text), n)
         /\ \A i \in 1..n : ToUpper(text)[i] \in Ascii
<1>1. Len(text) = n /\ n \in Nat
  BY LenOf DEF IsSeq
<1>. DEFINE U(c) == IF c \in Lower THEN c - 32 ELSE c
            L(c) == IF c \in Upper THEN c + 32 ELSE c
<1>2. \A c \in Ascii \ Upper : L(c) = c /\ L(U(c)) = c /\ U(U(c)) = U(c) /\ U(c) \in Ascii
  BY DEF Ascii, Upper, Lower
<1>3. PICK up : up = ToUpper(text)
  OBVIOUS
<1>4. up = [i \in 1..n |-> U(text[i])]
  BY <1>1, <1>3 DEF ToUpper
<1>5. \A t : Len(t) = n => /\ ToUpper(t) = [i \in 1..n |-> U(t[i])]
                           /\ ToLower(t) = [i \in 1..n |-> L(t[i])]
  BY DEF ToUpper, ToLower
<1>. HIDE DEF U, L
<1>6. IsSeq(up, n) /\ \A i \in 1..n : up[i] = U(text[i])
  BY <1>1, <1>4 DEF IsSeq
<1>7. Len(up) = n
  BY <1>6, LenOf
<1>8. \A i \in 1..n : up[i] \in Ascii
  BY <1>2, <1>6
<1>9. text = [i \in 1..n |-> text[i]] /\ up = [i \in 1..n |-> up[i]]
  BY <1>6 DEF IsSeq
<1>10. ToLower(text) = text
  BY <1>1, <1>2, <1>5, <1>9
<1>11. ToLower(up) = text
  <2>1. \A i \in 1..n : L(up[i]) = text[i]
    BY <1>2, <1>6
  <2>2. ToLower(up) = [i \in 1..n |-> L(up[i])]
    BY <1>5, <1>7
  <2>. QED  BY <1>9, <2>1, <2>2
<1>12. ToUpper(up) = up
  <2>1. \A i \in 1..n : U(up[i]) = up[i]
    BY <1>2, <1>6
  <2>2. ToUpper(up) = [i \in 1..n |-> U(up[i])]
    BY <1>5, <1>7
  <2>. QED  BY <1>9, <2>1, <2>2
<1>. QED  BY <1>3, <1>6, <1>8, <1>10, <1>11, <1>12

\* The last separator.
LEMMA SplitIs ==
  ASSUME NEW n, NEW t, IsSeq(t, n), NEW p \in 1..n, t[p] = Separator,
         \A j \in 1..n : j > p => t[j] # Separator
  PROVE  SplitLoc(t) = p
<1>. DEFINE I == {i \in 1..n : t[i] = Separator}
<1>1. Len(t) = n /\ n \in Nat
  BY LenOf DEF IsSeq
<1>2. SplitLoc(t) = IF I # {} THEN Max(I) ELSE 0
  BY <1>1 DEF SplitLoc, SelectLastInSeq
<1>3. p \in I /\ \A i \in I : p >= i /\ i \in Int
  BY <1>1
<1>. HIDE DEF I
<1>4. Max(I) = p
  <2>1. Max(I) \in I /\ \A y \in I : Max(I) >= y
    BY <1>3 DEF Max
  <2>2. PICK x : x = Max(I)
    OBVIOUS
  <2>3. p >= x /\ x >= p /\ x \in Int /\ p \in Int
    BY <1>1, <1>3, <2>1, <2>2
  <2>. QED  BY <2>2, <2>3
<1>. QED  BY <1>2, <1>3, <1>4

LEMMA SplitFound ==
  ASSUME NEW n, NEW t, IsSeq(t, n), SplitLoc(t) # 0
  PROVE  SplitLoc(t) \in 1..n /\ t[SplitLoc(t)] = Separator
<1>. DEFINE I == {i \in 1..n : t[i] = Separator}
<1>1. Len(t) = n /\ n \in Nat
  BY LenOf DEF IsSeq
<1>2. SplitLoc(t) = IF I # {} THEN Max(I) ELSE 0
  BY <1>1 DEF SplitLoc, SelectLastInSeq
<1>3. I # {} /\ SplitLoc(t) = Max(I)
  BY <1>2
<1>. DEFINE S == {k \in Nat : (\E i \in I : i >= n - k) => \E i \in I : \A j \in I : i >= j}
<1>4. 0 \in S
  BY <1>1
<1>5. ASSUME NEW k \in Nat, k \in S PROVE k + 1 \in S
  <2>1. SUFFICES ASSUME NEW i \in I, i >= n - (k + 1)
                 PROVE  \E x \in I : \A j \in I : x >= j
    OBVIOUS
  <2>2. CASE \E x \in I : x >= n - k
    BY <1>5, <2>2
  <2>3. CASE ~\E x \in I : x >= n - k
    <3>1. \A j \in I : i >= j
      BY <1>1, <2>1, <2>3
    <3>. QED  BY <3>1
  <2>. QED  BY <2>2, <2>3
<1>. HIDE DEF S
<1>6. n \in S
  BY <1>1, <1>4, <1>5, Counting
<1>7. \E i \in I : i >= n - n
  BY <1>1, <1>3
<1>8. \E i \in I : \A j \in I : i >= j
  BY <1>6, <1>7 DEF S
<1>9. Max(I) \in I
  BY <1>8 DEF Max
<1>. QED  BY <1>3, <1>9

-----------------------------------------------------------------------------
(* What Decode reads and what Encode writes.                               *)

\* A text adr of n characters: hrp, a separator at p and the characters of s.
IsText(adr, n, p, hrp, s) ==
  /\ IsSeq(adr, n) /\ p \in 1..n
  /\ IsSeq(hrp, p - 1) /\ \A i \in 1..(p - 1) : adr[i] = hrp[i]
  /\ adr[p] = Separator
  /\ IsSeq(s, n - p) /\ \A j \in 1..(n - p) : s[j] \in Symbol /\ adr[p + j] = charset[s[j] + 1]

LEMMA TextParts ==
  ASSUME NEW adr, NEW n, NEW p, NEW hrp, NEW s, IsText(adr, n, p, hrp, s)
  PROVE  /\ n \in Nat /\ p \in Int /\ p >= 1 /\ p <= n /\ Len(adr) = n
         /\ SplitLoc(adr) = p
         /\ SubSeq(adr, 1, p - 1) = hrp
         /\ Spells(SubSeq(adr, p + 1, n), s, n - p)
         /\ \A i \in 1..n : adr[i] \in Ascii \ Upper \/ (i < p /\ adr[i] = hrp[i])
<1>1. n \in Nat /\ p \in Int /\ p >= 1 /\ p <= n /\ Len(adr) = n
  BY LenOf DEF IsText, IsSeq
<1>2. ASSUME NEW i \in 1..n, i > p PROVE adr[i] \in Ascii \ Upper /\ adr[i] # Separator
  <2>1. PICK j : j = i - p
    OBVIOUS
  <2>2. j \in 1..(n - p) /\ p + j = i
    BY <1>1, <1>2, <2>1
  <2>3. s[j] \in Symbol /\ adr[i] = charset[s[j] + 1]
    BY <2>2 DEF IsText
  <2>4. s[j] + 1 \in 1..32
    BY <2>3 DEF Symbol
  <2>. QED  BY <2>3, <2>4, CharsetTells
<1>3. SplitLoc(adr) = p
  BY <1>1, <1>2, SplitIs DEF IsText
<1>4. SubSeq(adr, 1, p - 1) = hrp
  <2>1. PICK u : u = SubSeq(adr, 1, p - 1)
    OBVIOUS
  <2>2. IsStretch(u, adr, 1, p - 1)
    <3>1. IsSeq(adr, n) /\ p - 1 \in Int /\ 1 <= n + 1 /\ 1 - 1 <= p - 1 /\ p - 1 <= n
      BY <1>1 DEF IsText
    <3>. QED  BY <2>1, <3>1, StretchIs
  <2>3. (p - 1) - 1 + 1 = p - 1 /\ \A j \in 1..(p - 1) : 1 + j - 1 = j
    BY <1>1
  <2>4. IsSeq(u, p - 1) /\ \A j \in 1..(p - 1) : u[j] = hrp[j]
    BY <2>2, <2>3 DEF IsStretch, IsText
  <2>. QED  BY <2>1, <2>4, SameSeq DEF IsText
<1>5. Spells(SubSeq(adr, p + 1, n), s, n - p)
  <2>1. PICK u : u = SubSeq(adr, p + 1, n)
    OBVIOUS
  <2>2. IsStretch(u, adr, p + 1, n)
    <3>1. IsSeq(adr, n) /\ p + 1 \in Int /\ n \in Int /\ 1 <= p + 1 /\ p + 1 <= n + 1 /\ (p + 1) - 1 <= n
      BY <1>1 DEF IsText
    <3>. QED  BY <2>1, <3>1, StretchIs
  <2>3. n - (p + 1) + 1 = n - p /\ \A j \in 1..(n - p) : (p + 1) + j - 1 = p + j
    BY <1>1
  <2>4. IsSeq(u, n - p) /\ \A j \in 1..(n - p) : u[j] = adr[p + j]
    BY <2>2, <2>3 DEF IsStretch
  <2>. QED  BY <2>1, <2>4 DEF Spells, IsText
<1>6. \A i \in 1..n : adr[i] \in Ascii \ Upper \/ (i < p /\ adr[i] = hrp[i])
  <2>1. Separator \in Ascii \ Upper
    BY DEF Separator, Ascii, Upper
  <2>2. \A i \in 1..n : i < p => i \in 1..(p - 1)
    BY <1>1
  <2>. QED  BY <1>1, <1>2, <2>1, <2>2 DEF IsText
<1>. QED  BY <1>1, <1>3, <1>4, <1>5, <1>6

\* The symbols q behind the separator of the text adr, when they are accepted.
Accepted(adr, p, hrp, q, d) ==
  /\ q \in StringToSquashedBytes(SubSeq(adr, p + 1, Len(adr)))
  /\ VerifyChecksum(hrp, q) /\ Len(q) >= 6
  /\ \E data \in ByteSquasher(SubSeq(q, 1, Len(q) - 6), 5, 8) : d = [hrp |-> hrp, data |-> data]

Reads(t, adr, p, hrp, d) ==
  /\ t = adr \/ t = ToUpper(t)
  /\ p # 0
  /\ \E q : Accepted(adr, p, hrp, q, d)

LEMMA DecodeReads ==
  ASSUME NEW t, NEW d
  PROVE  d \in Decode(t) <=>
           Reads(t, ToLower(t), SplitLoc(ToLower(t)),
                 SubSeq(ToLower(t), 1, SplitLoc(ToLower(t)) - 1), d)
<1>. DEFINE adr == ToLower(t)
            p == SplitLoc(adr)
            hrp == SubSeq(adr, 1, p - 1)
            Data(q) == {[hrp |-> hrp, data |-> data] : data \in ByteSquasher(SubSeq(q, 1, Len(q) - 6), 5, 8)}
            Good == {q \in StringToSquashedBytes(SubSeq(adr, p + 1, Len(adr))) :
                       VerifyChecksum(hrp, q) /\ Len(q) >= 6}
            bad == (t # adr /\ t # ToUpper(t)) \/ p = 0
<1>1. Decode(t) = IF bad THEN {} ELSE UNION {Data(q) : q \in Good}
  BY Zenon DEF Decode
<1>2. \A q : d \in Data(q) <=> \E data \in ByteSquasher(SubSeq(q, 1, Len(q) - 6), 5, 8) :
                                 d = [hrp |-> hrp, data |-> data]
  BY Zenon
<1>3. \A q : q \in Good <=> /\ q \in StringToSquashedBytes(SubSeq(adr, p + 1, Len(adr)))
                            /\ VerifyChecksum(hrp, q) /\ Len(q) >= 6
  BY Zenon
<1>4. bad <=> (t # adr /\ t # ToUpper(t)) \/ p = 0
  OBVIOUS
<1>. HIDE DEF Data, Good, bad
<1>5. d \in Decode(t) <=> ~bad /\ \E q \in Good : d \in Data(q)
  BY <1>1
<1>6. \A q : Accepted(adr, p, hrp, q, d) <=> q \in Good /\ d \in Data(q)
  BY <1>2, <1>3, Zenon DEF Accepted
<1>. HIDE DEF hrp
<1>7. d \in Decode(t) <=> ~bad /\ \E q : Accepted(adr, p, hrp, q, d)
  BY <1>5, <1>6
<1>. HIDE DEF p, adr
<1>8. d \in Decode(t) <=> Reads(t, adr, p, hrp, d)
  BY <1>4, <1>7 DEF Reads
<1>. QED  BY <1>8 DEF hrp, p, adr

LEMMA DecodeMeans ==
  ASSUME NEW t, NEW d, NEW adr, adr = ToLower(t), NEW p, p = SplitLoc(adr),
         NEW hrp, hrp = SubSeq(adr, 1, p - 1)
  PROVE  d \in Decode(t) <=> Reads(t, adr, p, hrp, d)
BY DecodeReads

\* What Decode makes of a text, given in one case.
LEMMA DecodeOf ==
  ASSUME NEW t, NEW adr, NEW n, NEW p, NEW hrp, NEW s, IsText(adr, n, p, hrp, s),
         ToLower(t) = adr, t = adr \/ t = ToUpper(t)
  PROVE  Decode(t) =
           IF VerifyChecksum(hrp, s) /\ n - p >= 6
           THEN {[hrp |-> hrp, data |-> data] : data \in ByteSquasher(SubSeq(s, 1, n - p - 6), 5, 8)}
           ELSE {}
<1>1. /\ n \in Nat /\ p \in Int /\ p >= 1 /\ Len(adr) = n
      /\ SplitLoc(adr) = p
      /\ SubSeq(adr, 1, p - 1) = hrp
      /\ Spells(SubSeq(adr, p + 1, n), s, n - p)
  BY TextParts
<1>2. StringToSquashedBytes(SubSeq(adr, p + 1, n)) = {s}
  BY <1>1, Unspelled
<1>3. Len(s) = n - p
  BY LenOf DEF IsText
<1>4. ASSUME NEW d
      PROVE  d \in Decode(t) <=> \E q : Accepted(adr, p, hrp, q, d)
  <2>1. d \in Decode(t) <=> Reads(t, adr, p, hrp, d)
    BY <1>1, DecodeMeans
  <2>. QED  BY <1>1, <2>1 DEF Reads
<1>5. \A d, q : Accepted(adr, p, hrp, q, d) <=>
                  /\ q = s /\ VerifyChecksum(hrp, s) /\ n - p >= 6
                  /\ \E data \in ByteSquasher(SubSeq(s, 1, n - p - 6), 5, 8) :
                       d = [hrp |-> hrp, data |-> data]
  BY <1>1, <1>2, <1>3 DEF Accepted
<1>6. \A d : d \in Decode(t) <=>
                /\ VerifyChecksum(hrp, s) /\ n - p >= 6
                /\ \E data \in ByteSquasher(SubSeq(s, 1, n - p - 6), 5, 8) :
                     d = [hrp |-> hrp, data |-> data]
  BY <1>4, <1>5
<1>. QED  BY <1>6

LEMMA SameText ==
  ASSUME NEW a, NEW b, NEW n, NEW p, NEW hrp, NEW s,
         IsText(a, n, p, hrp, s), IsText(b, n, p, hrp, s)
  PROVE  a = b
<1>1. IsSeq(a, n) /\ IsSeq(b, n) /\ n \in Nat /\ p \in Int
  BY DEF IsText, IsSeq
<1>2. ASSUME NEW i \in 1..n PROVE a[i] = b[i]
  <2>1. CASE i < p
    <3>1. i \in 1..(p - 1)
      BY <1>1, <2>1
    <3>. QED  BY <3>1 DEF IsText
  <2>2. CASE i = p
    BY <2>2 DEF IsText
  <2>3. CASE i > p
    <3>1. PICK j : j = i - p
      OBVIOUS
    <3>2. j \in 1..(n - p) /\ p + j = i
      BY <1>1, <2>3, <3>1
    <3>. QED  BY <3>2 DEF IsText
  <2>. QED  BY <1>1, <2>1, <2>2, <2>3
<1>. QED  BY <1>1, <1>2, SameSeq

LEMMA EncodedIsText ==
  ASSUME NEW hrp \in Seq(Ascii), NEW h, h = Len(hrp),
         NEW symbols, NEW k, IsSeq(symbols, k), \A i \in 1..k : symbols[i] \in Symbol
  PROVE  \E s : /\ IsText(Text(hrp, symbols), h + 1 + (k + 6), h + 1, hrp, s)
                /\ IsJoined(s, symbols, k, CreateChecksum(hrp, symbols), 6)
                /\ VerifyChecksum(hrp, s)
<1>1. PICK c : c = CreateChecksum(hrp, symbols)
  OBVIOUS
<1>2. k \in Nat /\ h \in Nat
  BY DEF IsSeq
<1>3. IsSeq(c, 6) /\ \A i \in 1..6 : c[i] \in Symbol
  <2>1. PICK z : z = <<0, 0, 0, 0, 0, 0>>
    OBVIOUS
  <2>2. IsSeq(z, 6) /\ \A i \in 1..6 : z[i] \in Symbol
    BY <2>1 DEF IsSeq, Symbol
  <2>3. PICK q : q = symbols \o z
    OBVIOUS
  <2>4. IsJoined(q, symbols, k, z, 6)
    BY <2>2, <2>3, JoinedParts
  <2>5. IsSeq(q, k + 6) /\ (\A j \in 1..k : q[j] = symbols[j]) /\ \A i \in 1..6 : q[k + i] \in Symbol
    BY <2>2, <2>4 DEF IsJoined
  <2>. QED  BY <1>1, <2>5, ChecksumTells
<1>4. PICK s : s = symbols \o c
  OBVIOUS
<1>5. IsJoined(s, symbols, k, c, 6)
  BY <1>3, <1>4, JoinedParts
<1>6. /\ IsSeq(s, k + 6) /\ \A j \in 1..k : s[j] = symbols[j]
      /\ \A i \in 1..6 : s[k + i] = c[i]
  BY <1>5 DEF IsJoined
<1>7. VerifyChecksum(hrp, s)
  <2>1. \A i \in 1..6 : s[k + i] \in Symbol
    BY <1>3, <1>6
  <2>. QED  BY <1>1, <1>6, <2>1, ChecksumTells
<1>8. \A j \in 1..(k + 6) : s[j] \in Symbol
  <2>1. ASSUME NEW j \in 1..(k + 6), j > k PROVE s[j] \in Symbol
    <3>1. PICK i : i = j - k
      OBVIOUS
    <3>2. i \in 1..6 /\ k + i = j
      BY <1>2, <2>1, <3>1
    <3>. QED  BY <1>3, <1>6, <3>2
  <2>2. \A j \in 1..(k + 6) : j > k \/ j \in 1..k
    BY <1>2
  <2>. QED  BY <1>6, <2>1, <2>2
<1>9. PICK chars : chars = [i \in 1..Len(s) |-> charset[s[i] + 1]]
  OBVIOUS
<1>10. IsSeq(chars, k + 6) /\ \A i \in 1..(k + 6) : chars[i] = charset[s[i] + 1]
  <2>1. Len(s) = k + 6 /\ k + 6 \in Nat
    BY <1>2, <1>6, LenOf
  <2>. QED  BY <1>9, <2>1 DEF IsSeq
<1>11. PICK one : one = <<Separator>>
  OBVIOUS
<1>12. IsSeq(one, 1) /\ one[1] = Separator
  BY <1>11 DEF IsSeq
<1>13. IsSeq(hrp, h)
  BY SeqIs
<1>14. PICK front : front = hrp \o one
  OBVIOUS
<1>15. IsJoined(front, hrp, h, one, 1)
  BY <1>12, <1>13, <1>14, JoinedParts
<1>16. IsSeq(front, h + 1) /\ (\A j \in 1..h : front[j] = hrp[j]) /\ front[h + 1] = Separator
  BY <1>12, <1>15 DEF IsJoined
<1>17. PICK t : t = front \o chars
  OBVIOUS
<1>18. IsJoined(t, front, h + 1, chars, k + 6)
  BY <1>10, <1>16, <1>17, JoinedParts
<1>19. /\ IsSeq(t, h + 1 + (k + 6)) /\ \A j \in 1..(h + 1) : t[j] = front[j]
       /\ \A j \in 1..(k + 6) : t[h + 1 + j] = chars[j]
  BY <1>18 DEF IsJoined
<1>20. t = Text(hrp, symbols)
  BY <1>1, <1>4, <1>9, <1>11, <1>14, <1>17 DEF Text
<1>21. IsText(t, h + 1 + (k + 6), h + 1, hrp, s)
  <2>1. /\ h + 1 \in 1..(h + 1 + (k + 6)) /\ (h + 1) - 1 = h /\ (h + 1 + (k + 6)) - (h + 1) = k + 6
        /\ \A i \in 1..h : i \in 1..(h + 1)
    BY <1>2
  <2>2. h + 1 \in 1..(h + 1)
    BY <1>2
  <2>3. t[h + 1] = Separator /\ \A i \in 1..h : t[i] = hrp[i]
    BY <1>16, <1>19, <2>1, <2>2
  <2>4. \A j \in 1..(k + 6) : s[j] \in Symbol /\ t[h + 1 + j] = charset[s[j] + 1]
    BY <1>8, <1>10, <1>19
  <2>. QED  BY <1>6, <1>13, <1>19, <2>1, <2>3, <2>4 DEF IsText
<1>. QED  BY <1>1, <1>5, <1>7, <1>20, <1>21

LEMMA JoinedFront ==
  ASSUME NEW s, NEW a, NEW m, IsSeq(a, m), NEW b, IsJoined(s, a, m, b, 6)
  PROVE  SubSeq(s, 1, m) = a
<1>1. m \in Nat /\ IsSeq(s, m + 6) /\ \A j \in 1..m : s[j] = a[j]
  BY DEF IsSeq, IsJoined
<1>2. PICK u : u = SubSeq(s, 1, m)
  OBVIOUS
<1>3. IsStretch(u, s, 1, m)
  <2>1. m \in Int /\ 1 <= m + 6 + 1 /\ 1 - 1 <= m /\ m <= m + 6
    BY <1>1
  <2>. QED  BY <1>1, <1>2, <2>1, StretchIs
<1>4. m - 1 + 1 = m /\ \A j \in 1..m : 1 + j - 1 = j
  BY <1>1
<1>5. IsSeq(u, m) /\ \A j \in 1..m : u[j] = a[j]
  BY <1>1, <1>3, <1>4 DEF IsStretch
<1>. QED  BY <1>2, <1>5, SameSeq

\* What Encode writes, lower case throughout.
Spelt(inv, adr, n, p, s, symbols, k) ==
  /\ Encode(inv.hrp, inv.data) = {adr}
  /\ IsText(adr, n, p, inv.hrp, s)
  /\ \A i \in 1..n : adr[i] \in Ascii \ Upper
  /\ n - p = k + 6 /\ p = Len(inv.hrp) + 1 /\ k \in Nat
  /\ SubSeq(s, 1, k) = symbols
  /\ VerifyChecksum(inv.hrp, s)
  /\ ByteSquasher(symbols, 5, 8) = {inv.data}

LEMMA EncodeWrites ==
  ASSUME NEW inv, inv.hrp \in Seq(Ascii \ Upper), inv.data \in Seq(Byte)
  PROVE  \E adr, n, p, s, symbols, k : Spelt(inv, adr, n, p, s, symbols, k)
<1>1. PICK hrp, data : hrp = inv.hrp /\ data = inv.data
  OBVIOUS
<1>2. PICK m : m = Len(data)
  OBVIOUS
<1>3. IsSeq(data, m) /\ \A i \in 1..m : data[i] \in Byte
  BY <1>1, <1>2, SeqIs
<1>4. PICK symbols, k : /\ ByteSquasher(data, 8, 5) = {symbols}
                        /\ IsSeq(symbols, k)
                        /\ \A i \in 1..k : symbols[i] \in Symbol
                        /\ ByteSquasher(symbols, 5, 8) = {data}
  BY <1>3, SquashedBack
<1>5. hrp \in Seq(Ascii)
  BY <1>1
<1>6. PICK h : h = Len(hrp)
  OBVIOUS
<1>7. PICK s : /\ IsText(Text(hrp, symbols), h + 1 + (k + 6), h + 1, hrp, s)
               /\ IsJoined(s, symbols, k, CreateChecksum(hrp, symbols), 6)
               /\ VerifyChecksum(hrp, s)
  BY <1>4, <1>5, <1>6, EncodedIsText
<1>8. PICK adr, n, p : adr = Text(hrp, symbols) /\ n = h + 1 + (k + 6) /\ p = h + 1
  OBVIOUS
<1>9. k \in Nat /\ h \in Nat
  BY <1>4, <1>5, <1>6 DEF IsSeq
<1>10. n - p = k + 6
  BY <1>8, <1>9
<1>11. Encode(hrp, data) = {adr}
  BY <1>4, <1>8 DEF Encode
<1>12. SubSeq(s, 1, k) = symbols
  BY <1>4, <1>7, JoinedFront
<1>13. ASSUME NEW i \in 1..n PROVE adr[i] \in Ascii \ Upper
  <2>1. adr[i] \in Ascii \ Upper \/ (i < p /\ adr[i] = hrp[i])
    BY <1>7, <1>8, TextParts
  <2>2. ASSUME i < p PROVE hrp[i] \in Ascii \ Upper
    <3>1. i \in 1..Len(hrp)
      BY <1>6, <1>8, <1>9, <2>2
    <3>2. hrp \in Seq(Ascii \ Upper)
      BY <1>1
    <3>. QED  BY <3>1, <3>2, SeqIs
  <2>. QED  BY <2>1, <2>2
<1>14. IsText(adr, n, p, hrp, s)
  BY <1>7, <1>8
<1>15. Spelt(inv, adr, n, p, s, symbols, k)
  BY <1>1, <1>4, <1>6, <1>7, <1>8, <1>9, <1>10, <1>11, <1>12, <1>13, <1>14 DEF Spelt
<1>. QED  BY <1>15

-----------------------------------------------------------------------------
(* Encode and Decode are inverses, and one wrong symbol is detected.       *)

LEMMA WrittenIsRead ==
  ASSUME NEW inv, inv.hrp \in Seq(Ascii \ Upper), inv.data \in Seq(Byte)
  PROVE  \E text \in Encode(inv.hrp, inv.data) :
           \A t \in {text, ToUpper(text)} : Decode(t) = {[hrp |-> inv.hrp, data |-> inv.data]}
<1>1. PICK adr, n, p, s, symbols, k : Spelt(inv, adr, n, p, s, symbols, k)
  BY EncodeWrites
<1>2. /\ Encode(inv.hrp, inv.data) = {adr}
      /\ IsText(adr, n, p, inv.hrp, s)
      /\ \A i \in 1..n : adr[i] \in Ascii \ Upper
      /\ n - p = k + 6 /\ k \in Nat
      /\ SubSeq(s, 1, k) = symbols
      /\ VerifyChecksum(inv.hrp, s)
      /\ ByteSquasher(symbols, 5, 8) = {inv.data}
  BY <1>1 DEF Spelt
<1>3. IsSeq(adr, n)
  BY <1>2 DEF IsText
<1>4. /\ ToLower(adr) = adr /\ ToLower(ToUpper(adr)) = adr
      /\ ToUpper(ToUpper(adr)) = ToUpper(adr)
  BY <1>2, <1>3, LowerKept
<1>5. ASSUME NEW t \in {adr, ToUpper(adr)}
      PROVE  Decode(t) = {[hrp |-> inv.hrp, data |-> inv.data]}
  <2>1. ToLower(t) = adr /\ (t = adr \/ t = ToUpper(t))
    BY <1>4
  <2>2. Decode(t) =
           IF VerifyChecksum(inv.hrp, s) /\ n - p >= 6
           THEN {[hrp |-> inv.hrp, data |-> data] : data \in ByteSquasher(SubSeq(s, 1, n - p - 6), 5, 8)}
           ELSE {}
    BY <1>2, <2>1, DecodeOf
  <2>3. n - p >= 6 /\ n - p - 6 = k
    BY <1>2
  <2>4. ByteSquasher(SubSeq(s, 1, n - p - 6), 5, 8) = {inv.data}
    BY <1>2, <2>3
  <2>. QED  BY <1>2, <2>2, <2>3, <2>4
<1>. QED  BY <1>2, <1>5

LEMMA ReadIsWritten ==
  ASSUME NEW text \in Seq(Ascii), NEW d \in Decode(text)
  PROVE  Encode(d.hrp, d.data) = {ToLower(text)}
<1>1. PICK adr : adr = ToLower(text)
  OBVIOUS
<1>2. PICK n : n = Len(text)
  OBVIOUS
<1>3. PICK p : p = SplitLoc(adr)
  OBVIOUS
<1>4. PICK hrp : hrp = SubSeq(adr, 1, p - 1)
  OBVIOUS
<1>5. Reads(text, adr, p, hrp, d)
  BY <1>1, <1>3, <1>4, DecodeMeans
<1>6. PICK q : Accepted(adr, p, hrp, q, d)
  BY <1>5 DEF Reads
<1>7. p # 0
  BY <1>5 DEF Reads
<1>8. IsSeq(adr, n) /\ \A i \in 1..n : adr[i] \in Ascii
  BY <1>1, <1>2, LowerShape
<1>9. n \in Nat /\ Len(adr) = n
  BY <1>8, LenOf DEF IsSeq
<1>10. p \in 1..n /\ adr[p] = Separator
  BY <1>3, <1>7, <1>8, SplitFound
<1>11. IsStretch(hrp, adr, 1, p - 1)
  <2>1. p - 1 \in Int /\ 1 <= n + 1 /\ 1 - 1 <= p - 1 /\ p - 1 <= n
    BY <1>9, <1>10
  <2>. QED  BY <1>4, <1>8, <2>1, StretchIs
<1>12. IsSeq(hrp, p - 1) /\ \A j \in 1..(p - 1) : adr[j] = hrp[j]
  <2>1. (p - 1) - 1 + 1 = p - 1 /\ \A j \in 1..(p - 1) : 1 + j - 1 = j
    BY <1>10
  <2>. QED  BY <1>11, <2>1 DEF IsStretch
<1>13. hrp \in Seq(Ascii)
  <2>1. \A j \in 1..(p - 1) : j \in 1..n
    BY <1>9, <1>10
  <2>2. \A j \in 1..(p - 1) : hrp[j] \in Ascii
    BY <1>8, <1>12, <2>1
  <2>. QED  BY <1>12, <2>2, IsInSeq
<1>14. PICK tail : tail = SubSeq(adr, p + 1, n)
  OBVIOUS
<1>15. IsStretch(tail, adr, p + 1, n)
  <2>1. p + 1 \in Int /\ n \in Int /\ 1 <= p + 1 /\ p + 1 <= n + 1 /\ (p + 1) - 1 <= n
    BY <1>9, <1>10
  <2>. QED  BY <1>8, <1>14, <2>1, StretchIs
<1>16. IsSeq(tail, n - p) /\ \A j \in 1..(n - p) : tail[j] = adr[p + j]
  <2>1. n - (p + 1) + 1 = n - p /\ \A j \in 1..(n - p) : (p + 1) + j - 1 = p + j
    BY <1>9, <1>10
  <2>. QED  BY <1>15, <2>1 DEF IsStretch
<1>17. Spells(tail, q, n - p)
  <2>1. q \in StringToSquashedBytes(tail)
    BY <1>6, <1>9, <1>14 DEF Accepted
  <2>. QED  BY <1>16, <2>1, SpelledBy
<1>18. IsText(adr, n, p, hrp, q)
  BY <1>8, <1>10, <1>12, <1>16, <1>17 DEF IsText, Spells
<1>19. Len(q) = n - p /\ VerifyChecksum(hrp, q) /\ n - p >= 6
  <2>1. Len(q) = n - p
    BY <1>17, LenOf DEF Spells
  <2>. QED  BY <1>6, <2>1 DEF Accepted
<1>20. PICK k : k = n - p - 6
  OBVIOUS
<1>21. k \in Nat /\ n - p = k + 6
  BY <1>9, <1>10, <1>19, <1>20
<1>22. PICK symbols : symbols = SubSeq(q, 1, k)
  OBVIOUS
<1>23. PICK data \in ByteSquasher(symbols, 5, 8) : d = [hrp |-> hrp, data |-> data]
  BY <1>6, <1>19, <1>20, <1>22 DEF Accepted
<1>24. IsSeq(q, k + 6) /\ \A j \in 1..(k + 6) : q[j] \in Symbol
  BY <1>17, <1>21 DEF Spells
<1>25. IsStretch(symbols, q, 1, k)
  <2>1. k \in Int /\ 1 <= k + 6 + 1 /\ 1 - 1 <= k /\ k <= k + 6
    BY <1>21
  <2>. QED  BY <1>22, <1>24, <2>1, StretchIs
<1>26. IsSeq(symbols, k) /\ \A j \in 1..k : symbols[j] = q[j] /\ symbols[j] \in Symbol
  <2>1. k - 1 + 1 = k /\ \A j \in 1..k : 1 + j - 1 = j /\ j \in 1..(k + 6)
    BY <1>21
  <2>. QED  BY <1>24, <1>25, <2>1 DEF IsStretch
<1>27. ByteSquasher(data, 8, 5) = {symbols}
  BY <1>23, <1>26, UnsquashedBack
<1>28. PICK c : c = CreateChecksum(hrp, symbols)
  OBVIOUS
<1>29. IsSeq(c, 6) /\ \A i \in 1..6 : q[k + i] = c[i]
  <2>1. \A i \in 1..6 : k + i \in 1..(k + 6)
    BY <1>21
  <2>2. \A i \in 1..6 : q[k + i] \in Symbol
    BY <1>24, <2>1
  <2>3. \A j \in 1..k : q[j] = symbols[j]
    BY <1>26
  <2>4. IsSeq(symbols, k) /\ IsSeq(q, k + 6) /\ VerifyChecksum(hrp, q)
    BY <1>19, <1>24, <1>26
  <2>5. /\ IsSeq(CreateChecksum(hrp, symbols), 6)
        /\ VerifyChecksum(hrp, q) <=> \A i \in 1..6 : q[k + i] = CreateChecksum(hrp, symbols)[i]
    BY <1>13, <2>2, <2>3, <2>4, ChecksumTells
  <2>. QED  BY <1>28, <2>4, <2>5
<1>30. PICK h : h = Len(hrp)
  OBVIOUS
<1>31. h = p - 1
  BY <1>12, <1>30, LenOf
<1>32. PICK s : /\ IsText(Text(hrp, symbols), h + 1 + (k + 6), h + 1, hrp, s)
                /\ IsJoined(s, symbols, k, c, 6)
  BY <1>13, <1>26, <1>28, <1>30, EncodedIsText
<1>33. h + 1 + (k + 6) = n /\ h + 1 = p
  BY <1>9, <1>10, <1>21, <1>31
<1>34. s = q
  <2>1. /\ IsSeq(s, k + 6) /\ \A j \in 1..k : s[j] = symbols[j]
        /\ \A j \in 1..6 : s[k + j] = c[j]
    BY <1>32 DEF IsJoined
  <2>2. ASSUME NEW j \in 1..(k + 6) PROVE s[j] = q[j]
    <3>1. CASE j <= k
      <4>1. j \in 1..k
        BY <3>1
      <4>. QED  BY <1>26, <2>1, <4>1
    <3>2. CASE j > k
      <4>1. PICK i : i = j - k
        OBVIOUS
      <4>2. i \in 1..6 /\ k + i = j
        BY <1>21, <3>2, <4>1
      <4>. QED  BY <1>29, <2>1, <4>2
    <3>. QED  BY <1>21, <3>1, <3>2
  <2>. QED  BY <1>24, <2>1, <2>2, SameSeq
<1>35. Text(hrp, symbols) = adr
  BY <1>18, <1>32, <1>33, <1>34, SameText
<1>36. Encode(hrp, data) = {adr}
  BY <1>27, <1>35 DEF Encode
<1>. QED  BY <1>1, <1>23, <1>36

\* Decode undoes Encode for any human-readable part and data, and Encode writes
\* what Decode has read, in lower case.
THEOREM Bech32IsInverse == invoice \in Invoices => Bech32Inverse
<1>. SUFFICES ASSUME invoice \in Invoices PROVE Bech32Inverse
  OBVIOUS
<1>1. ASSUME invoice.kind = "data"
      PROVE  \E text \in Encode(invoice.hrp, invoice.data) :
               \A t \in {text, ToUpper(text)} :
                 Decode(t) = {[hrp |-> invoice.hrp, data |-> invoice.data]}
  <2>1. invoice.hrp \in Seq(Ascii \ Upper) /\ invoice.data \in Seq(Byte)
    BY <1>1 DEF Invoices
  <2>. QED  BY <2>1, WrittenIsRead
<1>2. ASSUME invoice.kind = "text"
      PROVE  \A d \in Decode(invoice.text) : Encode(d.hrp, d.data) = {ToLower(invoice.text)}
  <2>1. invoice.text \in Seq(Ascii)
    BY <1>2 DEF Invoices
  <2>. QED  BY <2>1, ReadIsWritten
<1>. QED  BY <1>1, <1>2 DEF Bech32Inverse

\* A symbol that is another one fails the check.
LEMMA OneWrong ==
  ASSUME NEW hrp \in Seq(Ascii), NEW m, NEW s, IsSeq(s, m), NEW r, IsSeq(r, m),
         NEW j \in 1..m, s[j] \in Symbol, r[j] \in Symbol, s[j] # r[j],
         \A i \in 1..m : i # j => s[i] = r[i],
         VerifyChecksum(hrp, s)
  PROVE  ~VerifyChecksum(hrp, r)
<1>1. PICK H : H = HRPExpand(hrp)
  OBVIOUS
<1>2. PICK h : h = 2 * Len(hrp) + 1
  OBVIOUS
<1>3. IsSeq(H, h) /\ h \in Nat /\ m \in Nat
  BY <1>1, <1>2, ExpandedShape DEF IsSeq
<1>4. PICK v, w : v = H \o s /\ w = H \o r
  OBVIOUS
<1>5. IsJoined(v, H, h, s, m) /\ IsJoined(w, H, h, r, m)
  BY <1>3, <1>4, JoinedParts
<1>6. PICK n : n = h + m
  OBVIOUS
<1>7. n \in Nat /\ IsSeq(v, n) /\ IsSeq(w, n)
  BY <1>3, <1>5, <1>6 DEF IsJoined
<1>8. Len(v) = n /\ Len(w) = n
  BY <1>7, LenOf
<1>9. PICK f : Run(v, n, f) /\ PolyMod(v) = f[n]
  BY <1>7, <1>8, RunOf
<1>10. PICK g : Run(w, n, g) /\ PolyMod(w) = g[n]
  BY <1>7, <1>8, RunOf
<1>11. PICK i : i = h + j
  OBVIOUS
<1>12. i \in 1..n /\ v[i] = s[j] /\ w[i] = r[j]
  BY <1>3, <1>5, <1>6, <1>11 DEF IsJoined
<1>13. ASSUME NEW x \in 1..n, x # i PROVE v[x] = w[x]
  <2>1. CASE x <= h
    <3>1. x \in 1..h
      BY <1>3, <2>1
    <3>. QED  BY <1>5, <3>1 DEF IsJoined
  <2>2. CASE x > h
    <3>1. PICK y : y = x - h
      OBVIOUS
    <3>2. y \in 1..m /\ h + y = x /\ y # j
      BY <1>3, <1>6, <1>11, <1>13, <2>2, <3>1
    <3>3. v[h + y] = s[y] /\ w[h + y] = r[y]
      BY <1>5, <3>2 DEF IsJoined
    <3>. QED  BY <3>2, <3>3
  <2>. QED  BY <1>3, <1>7, <2>1, <2>2
<1>14. f[n] # g[n]
  <2>1. v[i] \in Symbol /\ w[i] \in Symbol /\ v[i] # w[i]
    BY <1>12
  <2>. QED  BY <1>7, <1>9, <1>10, <1>12, <1>13, <2>1, RunsDiffer
<1>15. PolyMod(v) = Bits(1)
  BY <1>1, <1>4 DEF VerifyChecksum
<1>. QED  BY <1>1, <1>4, <1>9, <1>10, <1>14, <1>15 DEF VerifyChecksum

LEMMA SymbolBelow ==
  ASSUME NEW c \in 1..32
  PROVE  c - 1 \in Symbol /\ (c - 1) + 1 = c
BY DEF Symbol

\* A text in which one character of the data or of the checksum is another one
\* is never decoded.
THEOREM Bech32AlwaysDetects == invoice \in Invoices => Bech32Detects
<1>. SUFFICES ASSUME invoice \in Invoices, invoice.kind = "data",
                     NEW text \in Encode(invoice.hrp, invoice.data),
                     NEW i \in (Len(invoice.hrp) + 2)..Len(text), NEW c \in 1..32,
                     charset[c] # text[i]
              PROVE  Decode([text EXCEPT ![i] = charset[c]]) = {}
  BY DEF Bech32Detects
<1>1. invoice.hrp \in Seq(Ascii \ Upper) /\ invoice.data \in Seq(Byte)
  BY DEF Invoices
<1>2. PICK adr, n, p, s, symbols, k : Spelt(invoice, adr, n, p, s, symbols, k)
  BY <1>1, EncodeWrites
<1>3. PICK hrp : hrp = invoice.hrp
  OBVIOUS
<1>4. /\ text = adr
      /\ IsText(adr, n, p, hrp, s)
      /\ \A x \in 1..n : adr[x] \in Ascii \ Upper
      /\ p = Len(hrp) + 1
      /\ VerifyChecksum(hrp, s)
  BY <1>2, <1>3 DEF Spelt
<1>5. n \in Nat /\ p \in Int /\ p >= 1 /\ p <= n /\ Len(adr) = n
  BY <1>4, TextParts
<1>6. i \in (p + 1)..n
  BY <1>3, <1>4, <1>5
<1>7. PICK j : j = i - p
  OBVIOUS
<1>8. j \in 1..(n - p) /\ p + j = i
  BY <1>5, <1>6, <1>7
<1>9. PICK t : t = [text EXCEPT ![i] = charset[c]]
  OBVIOUS
<1>10. PICK r : r = [s EXCEPT ![j] = c - 1]
  OBVIOUS
<1>11. c - 1 \in Symbol /\ (c - 1) + 1 = c
  BY SymbolBelow
<1>12. IsSeq(adr, n) /\ IsSeq(s, n - p)
  BY <1>4 DEF IsText
<1>13. IsSeq(t, n) /\ t[i] = charset[c] /\ \A x \in 1..n : x # i => t[x] = adr[x]
  <2>1. i \in 1..n /\ t = [adr EXCEPT ![i] = charset[c]]
    BY <1>4, <1>5, <1>6, <1>9
  <2>2. IsChanged(t, adr, n, i, charset[c])
    BY <1>12, <2>1, Changed
  <2>. QED  BY <2>2 DEF IsChanged
<1>14. IsSeq(r, n - p) /\ r[j] = c - 1 /\ \A x \in 1..(n - p) : x # j => r[x] = s[x]
  <2>1. IsChanged(r, s, n - p, j, c - 1)
    BY <1>8, <1>10, <1>12, Changed
  <2>. QED  BY <2>1 DEF IsChanged
<1>15. IsText(t, n, p, hrp, r)
  <2>1. IsSeq(t, n) /\ p \in 1..n /\ IsSeq(hrp, p - 1) /\ IsSeq(r, n - p)
    BY <1>4, <1>13, <1>14 DEF IsText
  <2>2. t[p] = Separator
    BY <1>4, <1>5, <1>6, <1>13 DEF IsText
  <2>3. \A x \in 1..(p - 1) : t[x] = hrp[x]
    <3>1. \A x \in 1..(p - 1) : x \in 1..n /\ x # i
      BY <1>5, <1>6
    <3>. QED  BY <1>4, <1>13, <3>1 DEF IsText
  <2>4. ASSUME NEW x \in 1..(n - p)
        PROVE  r[x] \in Symbol /\ t[p + x] = charset[r[x] + 1]
    <3>1. CASE x = j
      BY <1>8, <1>11, <1>13, <1>14, <3>1
    <3>2. CASE x # j
      <4>1. p + x \in 1..n /\ p + x # i
        BY <1>5, <1>8, <3>2
      <4>2. s[x] \in Symbol /\ adr[p + x] = charset[s[x] + 1]
        BY <1>4 DEF IsText
      <4>. QED  BY <1>13, <1>14, <3>2, <4>1, <4>2
    <3>. QED  BY <3>1, <3>2
  <2>. QED  BY <2>1, <2>2, <2>3, <2>4 DEF IsText
<1>16. s[j] \in Symbol /\ adr[i] = charset[s[j] + 1]
  BY <1>4, <1>8 DEF IsText
<1>17. ~VerifyChecksum(hrp, r)
  <2>1. hrp \in Seq(Ascii)
    BY <1>1, <1>3
  <2>2. s[j] # c - 1
    BY <1>4, <1>11, <1>16
  <2>3. r[j] \in Symbol /\ s[j] # r[j]
    BY <1>11, <1>14, <2>2
  <2>. QED  BY <1>4, <1>8, <1>12, <1>14, <1>16, <2>1, <2>3, OneWrong
<1>18. ToLower(t) = t
  <2>1. \A x \in 1..n : t[x] \in Ascii \ Upper
    BY <1>4, <1>13, CharsetTells
  <2>. QED  BY <1>13, <2>1, LowerKept
<1>19. Decode(t) =
           IF VerifyChecksum(hrp, r) /\ n - p >= 6
           THEN {[hrp |-> hrp, data |-> data] : data \in ByteSquasher(SubSeq(r, 1, n - p - 6), 5, 8)}
           ELSE {}
  BY <1>15, <1>18, DecodeOf
<1>. QED  BY <1>9, <1>17, <1>19
=============================================================================
