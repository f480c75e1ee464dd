---------------------------- MODULE CodecsProofs ----------------------------
(***************************************************************************)
(* Theorems about Codecs, for any even base of at least 4, strings of any  *)
(* length and any records.                                                 *)
(***************************************************************************)
EXTENDS EncodingsProofs, Codecs

-----------------------------------------------------------------------------
(* Numbers in digits: quotients and remainders by the powers of the base.  *)

LEMMA Combined ==
  ASSUME NEW b \in Nat \ {0}, NEW c \in Nat \ {0}, NEW q \in 0..(c - 1), NEW r \in 0..(b - 1)
  PROVE  /\ q * b + r \in 0..(b * c - 1)
         /\ (q * b + r) \div b = q /\ (q * b + r) % b = r
<1>1. q * b + r \in Nat
  OBVIOUS
<1>2. q * b <= (c - 1) * b
  OBVIOUS
<1>3. (c - 1) * b = b * c - b
  OBVIOUS
<1>4. q * b + r <= b * c - 1
  BY <1>2, <1>3
<1>5. (q * b + r) \div b = q
  OBVIOUS
<1>6. (q * b + r) % b = r
  OBVIOUS
<1>7. b * c - 1 \in Int
  OBVIOUS
<1>. QED  BY <1>1, <1>4, <1>5, <1>6, <1>7

LEMMA Divided ==
  ASSUME NEW b \in Nat \ {0}, NEW v \in Nat
  PROVE  /\ v \div b \in Nat /\ v % b \in 0..(b - 1)
         /\ v = (v \div b) * b + (v % b)
<1>1. v \div b \in Nat
  OBVIOUS
<1>2. v % b \in 0..(b - 1)
  OBVIOUS
<1>3. v = (v \div b) * b + (v % b)
  OBVIOUS
<1>. QED  BY <1>1, <1>2, <1>3

\* A number below m has a high and a low part.
Splits(m, b, c, v) ==
  /\ v % m = ((v \div b) % c) * b + (v % b)
  /\ (v % m) \div b = (v \div b) % c
  /\ (v % m) % b = v % b
  /\ v \div b \in Nat
  /\ v % m \in Nat

LEMMA Split ==
  ASSUME NEW b \in Nat \ {0}, NEW c \in Nat \ {0}, NEW m, m = b * c, NEW v \in Nat
  PROVE  Splits(m, b, c, v)
<1>1. PICK q : q = v \div b
  OBVIOUS
<1>2. PICK r : r = v % b
  OBVIOUS
<1>3. q \in Nat /\ r \in 0..(b - 1) /\ v = q * b + r
  BY <1>1, <1>2, Divided
<1>4. PICK d : d = q \div c
  OBVIOUS
<1>5. PICK e : e = q % c
  OBVIOUS
<1>6. d \in Nat /\ e \in 0..(c - 1) /\ q = d * c + e
  BY <1>3, <1>4, <1>5, Divided
<1>7. PICK x : x = e * b + r
  OBVIOUS
<1>8. x \in 0..(b * c - 1) /\ x \div b = e /\ x % b = r
  BY <1>3, <1>6, <1>7, Combined
<1>9. b * c \in Nat \ {0}
  OBVIOUS
<1>10. v = d * (b * c) + x
  <2>1. v = (d * c + e) * b + r
    BY <1>3, <1>6
  <2>2. (d * c + e) * b = d * (b * c) + e * b
    BY <1>6
  <2>3. e * b \in Int /\ d * (b * c) \in Int /\ r \in Int
    BY <1>3, <1>6
  <2>. QED  BY <1>7, <2>1, <2>2, <2>3
<1>12. v % m = x
  <2>1. m \in Nat \ {0} /\ d \in Nat /\ x \in 0..(m - 1) /\ v = d * m + x
    BY <1>6, <1>8, <1>9, <1>10
  <2>2. \A k \in Nat \ {0}, s \in Nat : \A t \in 0..(k - 1) : (s * k + t) % k = t
    OBVIOUS
  <2>. QED  BY <2>1, <2>2
<1>13. x \in Nat
  BY <1>8
<1>14. v % m = e * b + r /\ (v % m) \div b = e /\ (v % m) % b = r
  BY <1>7, <1>8, <1>12, Zenon
<1>. QED  BY <1>1, <1>2, <1>3, <1>5, <1>12, <1>13, <1>14, Zenon DEF Splits

LEMMA Small ==
  ASSUME NEW m \in Nat \ {0}, NEW v \in 0..(m - 1)
  PROVE  v % m = v
OBVIOUS

LEMMA Remains ==
  ASSUME NEW m \in Nat \ {0}, NEW v \in Nat
  PROVE  v % m \in 0..(m - 1) /\ v % m <= v
<1>1. PICK q, r : q = v \div m /\ r = v % m
  OBVIOUS
<1>2. q \in Nat /\ r \in 0..(m - 1) /\ v = q * m + r
  BY <1>1, Divided
<1>3. q * m >= 0
  BY <1>2
<1>. QED  BY <1>1, <1>2, <1>3

LEMMA Twice ==
  ASSUME NEW m \in Nat \ {0}, NEW v \in Nat
  PROVE  (v % m) % m = v % m
<1>1. PICK x : x = v % m
  OBVIOUS
<1>2. x \in 0..(m - 1)
  BY <1>1, Divided
<1>3. x % m = x
  BY <1>2, Small
<1>. QED  BY <1>1, <1>3

\* What a number is made of: a pair of a high and a low part.
LEMMA Bases ==
  /\ Base \in Nat \ {0} /\ Base >= 4
  /\ Base2 \in Nat \ {0} /\ Base4 \in Nat \ {0} /\ Base8 \in Nat \ {0}
  /\ Base2 >= 16 /\ Base4 >= 256 /\ Base8 >= 65536
  /\ Base <= Base2 /\ Base2 <= Base4 /\ Base4 <= Base8
<1>1. Base \in Nat /\ Base >= 4
  BY BaseAssumption
<1>2. \A b \in Nat : b >= 1 => b * b \in Nat /\ b <= b * b
  OBVIOUS
<1>3. \A b, c \in Nat : b >= c => b * b >= c * c
  OBVIOUS
<1>4. Base2 \in Nat /\ Base <= Base2 /\ Base2 >= 16
  <2>1. Base * Base >= 4 * 4
    BY <1>1, <1>3
  <2>. QED  BY <1>1, <1>2, <2>1 DEF Base2
<1>5. Base4 \in Nat /\ Base2 <= Base4 /\ Base4 >= 256
  <2>1. Base2 * Base2 >= 16 * 16
    BY <1>3, <1>4
  <2>2. Base2 * Base2 \in Nat /\ Base2 <= Base2 * Base2
    BY <1>2, <1>4
  <2>. QED  BY <2>1, <2>2 DEF Base4
<1>6. Base8 \in Nat /\ Base4 <= Base8 /\ Base8 >= 65536
  <2>1. Base4 * Base4 >= 256 * 256
    BY <1>3, <1>5
  <2>2. Base4 * Base4 \in Nat /\ Base4 <= Base4 * Base4
    BY <1>2, <1>5
  <2>. QED  BY <2>1, <2>2 DEF Base8
<1>. QED  BY <1>1, <1>4, <1>5, <1>6

LEMMA Halves ==
  ASSUME NEW v \in Nat
  PROVE  /\ Splits(Base2, Base, Base, v)
         /\ Splits(Base4, Base2, Base2, v)
         /\ Splits(Base8, Base4, Base4, v)
<1>1. Splits(Base2, Base, Base, v)
  BY Bases, Split DEF Base2
<1>2. Splits(Base4, Base2, Base2, v)
  BY Bases, Split DEF Base4
<1>3. Splits(Base8, Base4, Base4, v)
  BY Bases, Split DEF Base8
<1>. QED  BY <1>1, <1>2, <1>3

-----------------------------------------------------------------------------
(* Strings of digits, and the numbers of two, four and eight of them.      *)

AreDigits(s, n) == IsSeq(s, n) /\ \A j \in 1..n : s[j] \in Digit

\* The n members of d, from place i of s on.
At(s, i, d, n) == \A j \in 1..n : s[i - 1 + j] = d[j]

LEMMA JoinedDigits ==
  ASSUME NEW u, NEW s, NEW m, AreDigits(s, m), NEW t, NEW n, AreDigits(t, n),
         IsJoined(u, s, m, t, n)
  PROVE  AreDigits(u, m + n)
<1>1. m \in Nat /\ n \in Nat /\ IsSeq(u, m + n)
  BY DEF AreDigits, IsSeq, IsJoined
<1>2. ASSUME NEW j \in 1..(m + n) PROVE u[j] \in Digit
  <2>1. CASE j <= m
    <3>1. j \in 1..m
      BY <2>1
    <3>. QED  BY <3>1 DEF AreDigits, IsJoined
  <2>2. CASE j > m
    <3>1. PICK k : k = j - m
      OBVIOUS
    <3>2. k \in 1..n /\ m + k = j
      BY <1>1, <2>2, <3>1
    <3>3. u[m + k] = t[k] /\ t[k] \in Digit
      BY <3>2 DEF AreDigits, IsJoined
    <3>. QED  BY <3>2, <3>3
  <2>. QED  BY <1>1, <2>1, <2>2
<1>. QED  BY <1>1, <1>2 DEF AreDigits

LEMMA BE16Is ==
  ASSUME NEW v \in Nat
  PROVE  /\ AreDigits(BE16(v), 2)
         /\ BE16(v)[1] = (v \div Base) % Base /\ BE16(v)[2] = v % Base
<1>1. (v \div Base) % Base \in Digit /\ v % Base \in Digit
  <2>1. v \div Base \in Nat
    BY Bases, Divided
  <2>. QED  BY <2>1, Bases, Divided DEF Digit
<1>2. BE16(v) = <<(v \div Base) % Base, v % Base>>
  BY DEF BE16
<1>3. PICK x, y : x = (v \div Base) % Base /\ y = v % Base
  OBVIOUS
<1>4. PICK s : s = <<x, y>>
  OBVIOUS
<1>5. s[1] = x /\ s[2] = y /\ IsSeq(s, 2)
  BY <1>4 DEF IsSeq
<1>. QED  BY <1>1, <1>2, <1>3, <1>4, <1>5 DEF AreDigits

LEMMA BE32Is ==
  ASSUME NEW v \in Nat
  PROVE  /\ AreDigits(BE32(v), 4)
         /\ v \div Base2 \in Nat
         /\ IsJoined(BE32(v), BE16(v \div Base2), 2, BE16(v), 2)
<1>1. v \div Base2 \in Nat
  BY Bases, Divided
<1>2. PICK s, t, u : s = BE16(v \div Base2) /\ t = BE16(v) /\ u = BE32(v)
  OBVIOUS
<1>3. AreDigits(s, 2) /\ AreDigits(t, 2)
  BY <1>1, <1>2, BE16Is
<1>4. u = s \o t
  BY <1>2 DEF BE32
<1>5. IsJoined(u, s, 2, t, 2)
  BY <1>3, <1>4, JoinedParts DEF AreDigits
<1>6. AreDigits(u, 2 + 2) /\ 2 + 2 = 4
  BY <1>3, <1>5, JoinedDigits
<1>. QED  BY <1>1, <1>2, <1>5, <1>6

LEMMA BE64Is ==
  ASSUME NEW v \in Nat
  PROVE  /\ AreDigits(BE64(v), 8)
         /\ v \div Base4 \in Nat
         /\ IsJoined(BE64(v), BE32(v \div Base4), 4, BE32(v), 4)
<1>1. v \div Base4 \in Nat
  BY Bases, Divided
<1>2. PICK s, t, u : s = BE32(v \div Base4) /\ t = BE32(v) /\ u = BE64(v)
  OBVIOUS
<1>3. AreDigits(s, 4) /\ AreDigits(t, 4)
  BY <1>1, <1>2, BE32Is
<1>4. u = s \o t
  BY <1>2 DEF BE64
<1>5. IsJoined(u, s, 4, t, 4)
  BY <1>3, <1>4, JoinedParts DEF AreDigits
<1>6. AreDigits(u, 4 + 4) /\ 4 + 4 = 8
  BY <1>3, <1>5, JoinedDigits
<1>. QED  BY <1>1, <1>2, <1>5, <1>6

LEMMA AtJoined ==
  ASSUME NEW s, NEW i \in Int, NEW u, NEW a, NEW b, NEW m \in Nat, NEW n \in Nat,
         IsJoined(u, a, m, b, n)
  PROVE  At(s, i, u, m + n) <=> At(s, i, a, m) /\ At(s, i + m, b, n)
<1>1. ASSUME At(s, i, u, m + n) PROVE At(s, i, a, m) /\ At(s, i + m, b, n)
  <2>1. \A j \in 1..m : s[i - 1 + j] = a[j]
    <3>1. \A j \in 1..m : j \in 1..(m + n)
      OBVIOUS
    <3>. QED  BY <1>1, <3>1 DEF At, IsJoined
  <2>2. \A j \in 1..n : s[i + m - 1 + j] = b[j]
    <3>1. \A j \in 1..n : m + j \in 1..(m + n) /\ i - 1 + (m + j) = i + m - 1 + j
      OBVIOUS
    <3>2. \A j \in 1..n : s[i - 1 + (m + j)] = u[m + j]
      BY <1>1, <3>1 DEF At
    <3>. QED  BY <3>1, <3>2 DEF IsJoined
  <2>. QED  BY <2>1, <2>2 DEF At
<1>2. ASSUME At(s, i, a, m), At(s, i + m, b, n) PROVE At(s, i, u, m + n)
  <2>1. ASSUME NEW j \in 1..(m + n) PROVE s[i - 1 + j] = u[j]
    <3>1. CASE j <= m
      <4>1. j \in 1..m
        BY <3>1
      <4>. QED  BY <1>2, <4>1 DEF At, IsJoined
    <3>2. CASE j > m
      <4>1. PICK k : k = j - m
        OBVIOUS
      <4>2. k \in 1..n /\ m + k = j /\ i + m - 1 + k = i - 1 + j
        BY <3>2, <4>1
      <4>3. s[i + m - 1 + k] = b[k] /\ u[m + k] = b[k]
        BY <1>2, <4>2 DEF At, IsJoined
      <4>. QED  BY <4>2, <4>3
    <3>. QED  BY <3>1, <3>2
  <2>. QED  BY <2>1 DEF At
<1>. QED  BY <1>1, <1>2

\* Digits to the number and back.
LEMMA Reads16 ==
  ASSUME NEW s, NEW i \in Int, NEW v \in Nat, At(s, i, BE16(v), 2)
  PROVE  ToUInt16(s, i) = v % Base2
<1>1. s[i] = (v \div Base) % Base /\ s[i + 1] = v % Base
  <2>1. s[i - 1 + 1] = BE16(v)[1] /\ s[i - 1 + 2] = BE16(v)[2]
    BY DEF At
  <2>2. i - 1 + 1 = i /\ i - 1 + 2 = i + 1
    OBVIOUS
  <2>. QED  BY <2>1, <2>2, BE16Is
<1>. QED  BY <1>1, Halves, Zenon DEF ToUInt16, Splits

LEMMA Reads32 ==
  ASSUME NEW s, NEW i \in Int, NEW v \in Nat, At(s, i, BE32(v), 4)
  PROVE  ToUInt32(s, i) = v % Base4
<1>1. At(s, i, BE16(v \div Base2), 2) /\ At(s, i + 2, BE16(v), 2) /\ v \div Base2 \in Nat
  <2>1. 2 + 2 = 4
    OBVIOUS
  <2>. QED  BY <2>1, AtJoined, BE32Is
<1>2. ToUInt16(s, i) = (v \div Base2) % Base2 /\ ToUInt16(s, i + 2) = v % Base2
  BY <1>1, Reads16
<1>. QED  BY <1>2, Halves, Zenon DEF ToUInt32, Splits

LEMMA Reads64 ==
  ASSUME NEW s, NEW i \in Int, NEW v \in Nat, At(s, i, BE64(v), 8)
  PROVE  ToUInt64(s, i) = v % Base8
<1>1. At(s, i, BE32(v \div Base4), 4) /\ At(s, i + 4, BE32(v), 4) /\ v \div Base4 \in Nat
  <2>1. 4 + 4 = 8
    OBVIOUS
  <2>. QED  BY <2>1, AtJoined, BE64Is
<1>2. ToUInt32(s, i) = (v \div Base4) % Base4 /\ ToUInt32(s, i + 4) = v % Base4
  BY <1>1, Reads32
<1>. QED  BY <1>2, Halves, Zenon DEF ToUInt64, Splits

LEMMA LowParts ==
  ASSUME NEW v \in Nat
  PROVE  BE16(v) = BE16(v % Base2) /\ BE32(v) = BE32(v % Base4)
<1>1. ASSUME NEW u \in Nat PROVE BE16(u) = BE16(u % Base2)
  <2>1. /\ (u % Base2) \div Base = (u \div Base) % Base
        /\ (u % Base2) % Base = u % Base
        /\ u \div Base \in Nat
    BY Halves, Zenon DEF Splits
  <2>2. ASSUME NEW x \in Nat PROVE (x % Base) % Base = x % Base
    <3>1. Base \in Nat \ {0}
      BY Bases
    <3>. QED  BY <3>1, Twice, Zenon
  <2>3. ((u % Base2) \div Base) % Base = (u \div Base) % Base
    BY <2>1, <2>2, Zenon
  <2>. QED  BY <2>1, <2>3, Zenon DEF BE16
<1>2. /\ (v % Base4) \div Base2 = (v \div Base2) % Base2
      /\ (v % Base4) % Base2 = v % Base2
      /\ v \div Base2 \in Nat /\ v % Base4 \in Nat
  BY Halves, Zenon DEF Splits
<1>3. BE16((v % Base4) \div Base2) = BE16(v \div Base2)
  BY <1>1, <1>2, Zenon
<1>4. BE16(v % Base4) = BE16(v)
  <2>1. BE16(v % Base4) = BE16((v % Base4) % Base2)
    BY <1>1, <1>2, Zenon
  <2>2. BE16(v) = BE16(v % Base2)
    BY <1>1, Zenon
  <2>. QED  BY <1>2, <2>1, <2>2, Zenon
<1>. QED  BY <1>1, <1>3, <1>4, Zenon DEF BE32

LEMMA Is16 ==
  ASSUME NEW s, NEW i \in Int, \A j \in 1..2 : s[i - 1 + j] \in Digit
  PROVE  ToUInt16(s, i) \in 0..(Base2 - 1) /\ At(s, i, BE16(ToUInt16(s, i)), 2)
<1>1. PICK x, y : x = s[i] /\ y = s[i + 1]
  OBVIOUS
<1>2. x \in 0..(Base - 1) /\ y \in 0..(Base - 1)
  <2>1. s[i - 1 + 1] \in Digit /\ s[i - 1 + 2] \in Digit
    OBVIOUS
  <2>2. i - 1 + 1 = i /\ i - 1 + 2 = i + 1
    OBVIOUS
  <2>. QED  BY <1>1, <2>1, <2>2 DEF Digit
<1>3. PICK u : u = ToUInt16(s, i)
  OBVIOUS
<1>4. u = x * Base + y
  BY <1>1, <1>3 DEF ToUInt16
<1>5. u \in 0..(Base * Base - 1) /\ u \div Base = x /\ u % Base = y
  BY <1>2, <1>4, Bases, Combined
<1>6. u \in Nat /\ x % Base = x
  BY <1>2, <1>5, Bases, Small
<1>7. BE16(u)[1] = x /\ BE16(u)[2] = y
  BY <1>5, <1>6, BE16Is
<1>8. \A j \in 1..2 : s[i - 1 + j] = BE16(u)[j]
  <2>1. i - 1 + 1 = i /\ i - 1 + 2 = i + 1
    OBVIOUS
  <2>2. s[i - 1 + 1] = BE16(u)[1] /\ s[i - 1 + 2] = BE16(u)[2]
    BY <1>1, <1>7, <2>1
  <2>. QED  BY <2>2
<1>. QED  BY <1>3, <1>5, <1>8 DEF At, Base2

LEMMA Is32 ==
  ASSUME NEW s, NEW i \in Int, \A j \in 1..4 : s[i - 1 + j] \in Digit
  PROVE  ToUInt32(s, i) \in 0..(Base4 - 1) /\ At(s, i, BE32(ToUInt32(s, i)), 4)
<1>1. PICK p, q : p = ToUInt16(s, i) /\ q = ToUInt16(s, i + 2)
  OBVIOUS
<1>2. /\ p \in 0..(Base2 - 1) /\ At(s, i, BE16(p), 2)
      /\ q \in 0..(Base2 - 1) /\ At(s, i + 2, BE16(q), 2)
  <2>1. \A j \in 1..2 : j \in 1..4 /\ j + 2 \in 1..4 /\ i - 1 + (j + 2) = i + 2 - 1 + j
    OBVIOUS
  <2>2. \A j \in 1..2 : s[i - 1 + j] \in Digit
    BY <2>1
  <2>3. \A j \in 1..2 : s[i + 2 - 1 + j] \in Digit
    BY <2>1
  <2>. QED  BY <1>1, <2>2, <2>3, Is16
<1>3. PICK u : u = ToUInt32(s, i)
  OBVIOUS
<1>4. u = p * Base2 + q
  BY <1>1, <1>3 DEF ToUInt32
<1>5. u \in 0..(Base2 * Base2 - 1) /\ u \div Base2 = p /\ u % Base2 = q
  BY <1>2, <1>4, Bases, Combined
<1>6. u \in Nat
  BY <1>5
<1>7. BE16(u) = BE16(q)
  BY <1>5, <1>6, LowParts
<1>8. IsJoined(BE32(u), BE16(p), 2, BE16(q), 2)
  BY <1>5, <1>6, <1>7, BE32Is
<1>9. At(s, i, BE32(u), 4)
  <2>1. 2 + 2 = 4
    OBVIOUS
  <2>. QED  BY <1>2, <1>8, <2>1, AtJoined
<1>. QED  BY <1>3, <1>5, <1>9 DEF Base4

LEMMA Is64 ==
  ASSUME NEW s, NEW i \in Int, \A j \in 1..8 : s[i - 1 + j] \in Digit
  PROVE  ToUInt64(s, i) \in 0..(Base8 - 1) /\ At(s, i, BE64(ToUInt64(s, i)), 8)
<1>1. PICK p, q : p = ToUInt32(s, i) /\ q = ToUInt32(s, i + 4)
  OBVIOUS
<1>2. /\ p \in 0..(Base4 - 1) /\ At(s, i, BE32(p), 4)
      /\ q \in 0..(Base4 - 1) /\ At(s, i + 4, BE32(q), 4)
  <2>1. \A j \in 1..4 : j \in 1..8 /\ j + 4 \in 1..8 /\ i - 1 + (j + 4) = i + 4 - 1 + j
    OBVIOUS
  <2>2. \A j \in 1..4 : s[i - 1 + j] \in Digit
    BY <2>1
  <2>3. \A j \in 1..4 : s[i + 4 - 1 + j] \in Digit
    BY <2>1
  <2>. QED  BY <1>1, <2>2, <2>3, Is32
<1>3. PICK u : u = ToUInt64(s, i)
  OBVIOUS
<1>4. u = p * Base4 + q
  BY <1>1, <1>3 DEF ToUInt64
<1>5. u \in 0..(Base4 * Base4 - 1) /\ u \div Base4 = p /\ u % Base4 = q
  BY <1>2, <1>4, Bases, Combined
<1>6. u \in Nat
  BY <1>5
<1>7. BE32(u) = BE32(q)
  BY <1>5, <1>6, LowParts
<1>8. IsJoined(BE64(u), BE32(p), 4, BE32(q), 4)
  BY <1>5, <1>6, <1>7, BE64Is
<1>9. At(s, i, BE64(u), 8)
  <2>1. 4 + 4 = 8
    OBVIOUS
  <2>. QED  BY <1>2, <1>8, <2>1, AtJoined
<1>. QED  BY <1>3, <1>5, <1>9 DEF Base8

-----------------------------------------------------------------------------
(* BigSize: one form for each number, and no other encoding is accepted.   *)

Values == 0..(Base8 - 1)

\* An encoding is its first digit, a value or a marker, and n digits.
HasForm(v, first, digits, n) ==
  /\ IsJoined(Encoding(v), <<first>>, 1, digits, n)
  /\ AreDigits(Encoding(v), 1 + n) /\ Length(v) = 1 + n

LEMMA Forms ==
  ASSUME NEW v \in Values
  PROVE  \/ /\ v < Base - 3
            /\ AreDigits(Encoding(v), 1) /\ Length(v) = 1 /\ Encoding(v)[1] = v
         \/ /\ v >= Base - 3 /\ v < Base2 /\ HasForm(v, Base - 3, BE16(v), 2)
         \/ /\ v >= Base2 /\ v < Base4 /\ HasForm(v, Base - 2, BE32(v), 4)
         \/ /\ v >= Base4 /\ v < Base8 /\ HasForm(v, Base - 1, BE64(v), 8)
<1>0. v \in Nat /\ v < Base8
  BY Bases DEF Values
<1>1. ASSUME NEW d \in Digit PROVE AreDigits(<<d>>, 1)
  BY DEF AreDigits, IsSeq
<1>2. ASSUME NEW d \in Digit, NEW t, NEW n \in Nat, AreDigits(t, n), Encoding(v) = <<d>> \o t
      PROVE  HasForm(v, d, t, n)
  <2>1. PICK u, s : u = Encoding(v) /\ s = <<d>>
    OBVIOUS
  <2>2. AreDigits(s, 1)
    BY <1>1, <2>1
  <2>3. IsJoined(u, s, 1, t, n)
    BY <1>2, <2>1, <2>2, JoinedParts DEF AreDigits
  <2>4. AreDigits(u, 1 + n)
    BY <1>2, <2>2, <2>3, JoinedDigits
  <2>5. Len(u) = 1 + n
    BY <2>4, LenOf DEF AreDigits
  <2>. QED  BY <2>1, <2>3, <2>4, <2>5 DEF HasForm, Length
<1>3. Base - 3 \in Digit /\ Base - 2 \in Digit /\ Base - 1 \in Digit
  BY Bases DEF Digit
<1>4. CASE v < Base - 3
  <2>1. Encoding(v) = <<v>> /\ v \in Digit
    BY <1>0, <1>4, Bases DEF Encoding, Digit
  <2>2. AreDigits(Encoding(v), 1)
    BY <1>1, <2>1
  <2>3. Length(v) = 1
    BY <2>2, LenOf DEF AreDigits, Length
  <2>4. Encoding(v)[1] = v
    BY <2>1
  <2>. QED  BY <1>4, <2>2, <2>3, <2>4
<1>5. CASE v >= Base - 3 /\ v < Base2
  <2>1. v \in (Base - 3)..(Base2 - 1) /\ ~(v < Base - 3)
    BY <1>0, <1>5, Bases
  <2>2. Encoding(v) = <<Base - 3>> \o BE16(v)
    <3>1. \A w \in Base2..(Base4 - 1) : w # v
      BY <1>0, <1>5, Bases
    <3>. QED  BY <2>1, <3>1 DEF Encoding
  <2>3. HasForm(v, Base - 3, BE16(v), 2)
    BY <1>0, <1>2, <1>3, <2>2, BE16Is
  <2>. QED  BY <1>5, <2>3
<1>6. CASE v >= Base2 /\ v < Base4
  <2>1. v \in Base2..(Base4 - 1) /\ ~(v < Base - 3) /\ v \notin (Base - 3)..(Base2 - 1)
    BY <1>0, <1>6, Bases
  <2>2. Encoding(v) = <<Base - 2>> \o BE32(v)
    BY <2>1 DEF Encoding
  <2>3. HasForm(v, Base - 2, BE32(v), 4)
    BY <1>0, <1>2, <1>3, <2>2, BE32Is
  <2>. QED  BY <1>6, <2>3
<1>7. CASE v >= Base4
  <2>1. v \notin Base2..(Base4 - 1) /\ ~(v < Base - 3) /\ v \notin (Base - 3)..(Base2 - 1)
    BY <1>0, <1>7, Bases
  <2>2. Encoding(v) = <<Base - 1>> \o BE64(v)
    BY <2>1 DEF Encoding
  <2>3. HasForm(v, Base - 1, BE64(v), 8)
    BY <1>0, <1>2, <1>3, <2>2, BE64Is
  <2>. QED  BY <1>0, <1>7, <2>3
<1>. QED  BY <1>0, <1>4, <1>5, <1>6, <1>7, Bases

LEMMA EncodingShape ==
  ASSUME NEW v \in Values
  PROVE  AreDigits(Encoding(v), Length(v)) /\ Length(v) \in {1, 3, 5, 9}
<1>1. 1 + 2 = 3 /\ 1 + 4 = 5 /\ 1 + 8 = 9
  OBVIOUS
<1>. QED  BY <1>1, Forms DEF HasForm

\* What BigSize is for each of the first digits.
LEMMA BigSizeForms ==
  ASSUME NEW s, NEW n, IsSeq(s, n)
  PROVE  /\ n = 0 => BigSize(s) = {}
         /\ n # 0 /\ s[1] \in Digit /\ s[1] < Base - 3 => BigSize(s) = {s[1]}
         /\ n # 0 /\ s[1] = Base - 3 =>
              BigSize(s) = IF n >= 3 THEN {ToUInt16(s, 2)} \ 0..(Base - 4) ELSE {}
         /\ n # 0 /\ s[1] = Base - 2 =>
              BigSize(s) = IF n >= 5 THEN {ToUInt32(s, 2)} \ 0..(Base2 - 1) ELSE {}
         /\ n # 0 /\ s[1] = Base - 1 =>
              BigSize(s) = IF n >= 9 THEN {ToUInt64(s, 2)} \ 0..(Base4 - 1) ELSE {}
<1>1. Len(s) = n /\ n \in Nat
  BY LenOf DEF IsSeq
<1>2. n = 0 => s = <<>>
  BY DEF IsSeq
<1>3. n # 0 => s # <<>>
  BY <1>1
<1>4. n = 0 => BigSize(s) = {}
  BY <1>2 DEF BigSize
<1>5. ASSUME n # 0, s[1] \in Digit, s[1] < Base - 3 PROVE BigSize(s) = {s[1]}
  <2>1. s[1] # Base - 3 /\ s[1] # Base - 2 /\ s[1] # Base - 1
    BY <1>5, Bases DEF Digit
  <2>. QED  BY <1>3, <1>5, <2>1 DEF BigSize
<1>6. ASSUME n # 0, s[1] = Base - 3
      PROVE  BigSize(s) = IF n >= 3 THEN {ToUInt16(s, 2)} \ 0..(Base - 4) ELSE {}
  <2>1. ~(s[1] < Base - 3) /\ s[1] # Base - 2 /\ s[1] # Base - 1
    BY <1>6, Bases
  <2>. QED  BY <1>1, <1>3, <1>6, <2>1 DEF BigSize
<1>7. ASSUME n # 0, s[1] = Base - 2
      PROVE  BigSize(s) = IF n >= 5 THEN {ToUInt32(s, 2)} \ 0..(Base2 - 1) ELSE {}
  <2>1. ~(s[1] < Base - 3) /\ s[1] # Base - 3 /\ s[1] # Base - 1
    BY <1>7, Bases
  <2>. QED  BY <1>1, <1>3, <1>7, <2>1 DEF BigSize
<1>8. ASSUME n # 0, s[1] = Base - 1
      PROVE  BigSize(s) = IF n >= 9 THEN {ToUInt64(s, 2)} \ 0..(Base4 - 1) ELSE {}
  <2>1. ~(s[1] < Base - 3) /\ s[1] # Base - 3 /\ s[1] # Base - 2
    BY <1>8, Bases
  <2>. QED  BY <1>1, <1>3, <1>8, <2>1 DEF BigSize
<1>. QED  BY <1>4, <1>5, <1>6, <1>7, <1>8

\* The string s of n digits begins with the m members of t.
Begins(s, n, t, m) == IsSeq(s, n) /\ m <= n /\ At(s, 1, t, m)

LEMMA FormAt ==
  ASSUME NEW v, NEW first, NEW digits, NEW n \in Nat, HasForm(v, first, digits, n), NEW s
  PROVE  At(s, 1, Encoding(v), Length(v)) <=> s[1] = first /\ At(s, 2, digits, n)
<1>1. PICK u, f : u = Encoding(v) /\ f = <<first>>
  OBVIOUS
<1>2. IsJoined(u, f, 1, digits, n) /\ Length(v) = 1 + n
  BY <1>1 DEF HasForm
<1>3. At(s, 1, u, 1 + n) <=> At(s, 1, f, 1) /\ At(s, 1 + 1, digits, n)
  <2>1. 1 \in Int /\ 1 \in Nat
    OBVIOUS
  <2>. QED  BY <1>2, <2>1, AtJoined, Zenon
<1>4. At(s, 1, f, 1) <=> s[1] = first
  <2>1. 1 - 1 + 1 = 1
    OBVIOUS
  <2>2. f[1] = first
    BY <1>1
  <2>3. \A j \in 1..1 : j = 1
    OBVIOUS
  <2>. QED  BY <2>1, <2>2, <2>3 DEF At
<1>5. 1 + 1 = 2
  OBVIOUS
<1>. QED  BY <1>1, <1>2, <1>3, <1>4, <1>5

\* The encoding of a number is read as that number,
LEMMA BigSizeReads ==
  ASSUME NEW v \in Values, NEW s, NEW n, Begins(s, n, Encoding(v), Length(v))
  PROVE  BigSize(s) = {v}
<1>1. IsSeq(s, n) /\ n \in Nat /\ Length(v) <= n /\ At(s, 1, Encoding(v), Length(v))
  BY DEF Begins, IsSeq
<1>2. v \in Nat /\ v < Base8
  BY Bases DEF Values
<1>3. Base \in Nat /\ Base >= 4 /\ Base2 \in Nat /\ Base4 \in Nat
      /\ Base <= Base2 /\ Base2 <= Base4
  BY Bases
<1>4. CASE v < Base - 3 /\ AreDigits(Encoding(v), 1) /\ Length(v) = 1 /\ Encoding(v)[1] = v
  <2>1. s[1] = v
    <3>1. 1 - 1 + 1 = 1 /\ 1 \in 1..1
      OBVIOUS
    <3>. QED  BY <1>1, <1>4, <3>1 DEF At
  <2>2. n # 0 /\ v \in Digit
    BY <1>1, <1>2, <1>3, <1>4 DEF Digit
  <2>. QED  BY <1>1, <1>4, <2>1, <2>2, BigSizeForms
<1>5. CASE v >= Base - 3 /\ v < Base2 /\ HasForm(v, Base - 3, BE16(v), 2)
  <2>1. s[1] = Base - 3 /\ At(s, 2, BE16(v), 2)
    BY <1>1, <1>5, FormAt
  <2>2. n >= 3 /\ n # 0
    <3>1. Length(v) = 1 + 2
      BY <1>5 DEF HasForm
    <3>. QED  BY <1>1, <3>1
  <2>3. ToUInt16(s, 2) = v % Base2
    BY <1>2, <2>1, Reads16
  <2>4. v % Base2 = v
    BY <1>2, <1>5, Bases, Small
  <2>5. v \notin 0..(Base - 4)
    BY <1>2, <1>3, <1>5
  <2>6. BigSize(s) = {v} \ 0..(Base - 4)
    BY <1>1, <2>1, <2>2, <2>3, <2>4, BigSizeForms, Zenon
  <2>. QED  BY <2>5, <2>6
<1>6. CASE v >= Base2 /\ v < Base4 /\ HasForm(v, Base - 2, BE32(v), 4)
  <2>1. s[1] = Base - 2 /\ At(s, 2, BE32(v), 4)
    BY <1>1, <1>6, FormAt
  <2>2. n >= 5 /\ n # 0
    <3>1. Length(v) = 1 + 4
      BY <1>6 DEF HasForm
    <3>. QED  BY <1>1, <3>1
  <2>3. ToUInt32(s, 2) = v % Base4
    BY <1>2, <2>1, Reads32
  <2>4. v % Base4 = v
    BY <1>2, <1>6, Bases, Small
  <2>5. v \notin 0..(Base2 - 1)
    BY <1>2, <1>3, <1>6
  <2>6. BigSize(s) = {v} \ 0..(Base2 - 1)
    BY <1>1, <2>1, <2>2, <2>3, <2>4, BigSizeForms, Zenon
  <2>. QED  BY <2>5, <2>6
<1>7. CASE v >= Base4 /\ v < Base8 /\ HasForm(v, Base - 1, BE64(v), 8)
  <2>1. s[1] = Base - 1 /\ At(s, 2, BE64(v), 8)
    BY <1>1, <1>7, FormAt
  <2>2. n >= 9 /\ n # 0
    <3>1. Length(v) = 1 + 8
      BY <1>7 DEF HasForm
    <3>. QED  BY <1>1, <3>1
  <2>3. ToUInt64(s, 2) = v % Base8
    BY <1>2, <2>1, Reads64
  <2>4. v % Base8 = v
    BY Bases, Small DEF Values
  <2>5. v \notin 0..(Base4 - 1)
    BY <1>2, <1>3, <1>7
  <2>6. BigSize(s) = {v} \ 0..(Base4 - 1)
    BY <1>1, <2>1, <2>2, <2>3, <2>4, BigSizeForms, Zenon
  <2>. QED  BY <2>5, <2>6
<1>. QED  BY <1>4, <1>5, <1>6, <1>7, Forms, Zenon

\* and what is read as a number is its encoding.
LEMMA BigSizeIsRead ==
  ASSUME NEW s, NEW n, AreDigits(s, n), NEW v \in BigSize(s)
  PROVE  v \in Values /\ Begins(s, n, Encoding(v), Length(v))
<1>1. IsSeq(s, n) /\ n \in Nat /\ \A j \in 1..n : s[j] \in Digit
  BY DEF AreDigits, IsSeq
<1>2. /\ Base \in Nat /\ Base >= 4 /\ Base2 \in Nat /\ Base4 \in Nat /\ Base8 \in Nat
      /\ Base <= Base2 /\ Base2 <= Base4 /\ Base4 <= Base8
  BY Bases
<1>3. n # 0
  BY <1>1, BigSizeForms
<1>4. s[1] \in Digit
  BY <1>1, <1>3
<1>5. CASE s[1] < Base - 3
  <2>1. v = s[1]
    BY <1>1, <1>3, <1>4, <1>5, BigSizeForms
  <2>2. v \in Values /\ v \in Int /\ ~(v >= Base - 3)
    BY <1>2, <1>4, <1>5, <2>1 DEF Digit, Values
  <2>3. /\ AreDigits(Encoding(v), 1) /\ Length(v) = 1 /\ Encoding(v)[1] = v
    BY <1>2, <2>2, Forms
  <2>4. At(s, 1, Encoding(v), 1)
    <3>1. 1 - 1 + 1 = 1 /\ \A j \in 1..1 : j = 1
      OBVIOUS
    <3>. QED  BY <2>1, <2>3, <3>1 DEF At
  <2>. QED  BY <1>1, <1>3, <2>2, <2>3, <2>4 DEF Begins
<1>6. CASE s[1] = Base - 3
  <2>1. n >= 3 /\ v = ToUInt16(s, 2) /\ v \notin 0..(Base - 4)
    BY <1>1, <1>3, <1>6, BigSizeForms
  <2>2. v \in 0..(Base2 - 1) /\ At(s, 2, BE16(v), 2)
    <3>1. \A j \in 1..2 : 2 - 1 + j \in 1..n
      BY <1>1, <2>1
    <3>2. \A j \in 1..2 : s[2 - 1 + j] \in Digit
      BY <1>1, <3>1
    <3>. QED  BY <2>1, <3>2, Is16
  <2>3. v \in Values /\ v >= Base - 3 /\ v < Base2
    BY <1>2, <2>1, <2>2 DEF Values
  <2>4. HasForm(v, Base - 3, BE16(v), 2)
    BY <1>2, <2>3, Forms DEF Values
  <2>5. At(s, 1, Encoding(v), Length(v))
    BY <1>6, <2>2, <2>4, FormAt
  <2>6. Length(v) <= n
    <3>1. Length(v) = 1 + 2
      BY <2>4 DEF HasForm
    <3>. QED  BY <1>1, <2>1, <3>1
  <2>. QED  BY <1>1, <2>3, <2>5, <2>6 DEF Begins
<1>7. CASE s[1] = Base - 2
  <2>1. n >= 5 /\ v = ToUInt32(s, 2) /\ v \notin 0..(Base2 - 1)
    BY <1>1, <1>3, <1>7, BigSizeForms
  <2>2. v \in 0..(Base4 - 1) /\ At(s, 2, BE32(v), 4)
    <3>1. \A j \in 1..4 : 2 - 1 + j \in 1..n
      BY <1>1, <2>1
    <3>2. \A j \in 1..4 : s[2 - 1 + j] \in Digit
      BY <1>1, <3>1
    <3>. QED  BY <2>1, <3>2, Is32
  <2>3. v \in Values /\ v >= Base2 /\ v < Base4
    BY <1>2, <2>1, <2>2 DEF Values
  <2>4. HasForm(v, Base - 2, BE32(v), 4)
    BY <1>2, <2>3, Forms DEF Values
  <2>5. At(s, 1, Encoding(v), Length(v))
    BY <1>7, <2>2, <2>4, FormAt
  <2>6. Length(v) <= n
    <3>1. Length(v) = 1 + 4
      BY <2>4 DEF HasForm
    <3>. QED  BY <1>1, <2>1, <3>1
  <2>. QED  BY <1>1, <2>3, <2>5, <2>6 DEF Begins
<1>8. CASE s[1] = Base - 1
  <2>1. n >= 9 /\ v = ToUInt64(s, 2) /\ v \notin 0..(Base4 - 1)
    BY <1>1, <1>3, <1>8, BigSizeForms
  <2>2. v \in 0..(Base8 - 1) /\ At(s, 2, BE64(v), 8)
    <3>1. \A j \in 1..8 : 2 - 1 + j \in 1..n
      BY <1>1, <2>1
    <3>2. \A j \in 1..8 : s[2 - 1 + j] \in Digit
      BY <1>1, <3>1
    <3>. QED  BY <2>1, <3>2, Is64
  <2>3. v \in Values /\ v >= Base4
    BY <1>2, <2>1, <2>2 DEF Values
  <2>4. HasForm(v, Base - 1, BE64(v), 8)
    BY <1>2, <2>3, Forms DEF Values
  <2>5. At(s, 1, Encoding(v), Length(v))
    BY <1>8, <2>2, <2>4, FormAt
  <2>6. Length(v) <= n
    <3>1. Length(v) = 1 + 8
      BY <2>4 DEF HasForm
    <3>. QED  BY <1>1, <2>1, <3>1
  <2>. QED  BY <1>1, <2>3, <2>5, <2>6 DEF Begins
<1>9. s[1] < Base - 3 \/ s[1] = Base - 3 \/ s[1] = Base - 2 \/ s[1] = Base - 1
  BY <1>2, <1>4 DEF Digit
<1>. QED  BY <1>5, <1>6, <1>7, <1>8, <1>9

LEMMA PrefixBegins ==
  ASSUME NEW t, NEW m, IsSeq(t, m), NEW s, NEW n, IsSeq(s, n)
  PROVE  IsPrefix(t, s) <=> Begins(s, n, t, m)
<1>1. Len(t) = m /\ Len(s) = n /\ m \in Nat /\ n \in Nat
  BY LenOf DEF IsSeq
<1>2. IsPrefix(t, s) <=> m <= n /\ SubSeq(t, 1, m) = SubSeq(s, 1, m)
  BY <1>1 DEF IsPrefix
<1>3. ASSUME m <= n PROVE SubSeq(t, 1, m) = SubSeq(s, 1, m) <=> At(s, 1, t, m)
  <2>1. PICK u, w : u = SubSeq(t, 1, m) /\ w = SubSeq(s, 1, m)
    OBVIOUS
  <2>2. IsStretch(u, t, 1, m) /\ IsStretch(w, s, 1, m)
    <3>1. m \in Int /\ 1 <= m + 1 /\ 1 <= n + 1 /\ 1 - 1 <= m /\ m <= m
      BY <1>1
    <3>. QED  BY <1>3, <2>1, <3>1, StretchIs
  <2>3. m - 1 + 1 = m /\ \A j \in 1..m : 1 + j - 1 = j /\ 1 - 1 + j = j
    BY <1>1
  <2>4. /\ IsSeq(u, m) /\ \A j \in 1..m : u[j] = t[j]
        /\ IsSeq(w, m) /\ \A j \in 1..m : w[j] = s[j]
    BY <2>2, <2>3 DEF IsStretch
  <2>5. u = w <=> \A j \in 1..m : u[j] = w[j]
    BY <2>4, SameSeq
  <2>6. At(s, 1, t, m) <=> \A j \in 1..m : s[j] = t[j]
    BY <2>3 DEF At
  <2>. QED  BY <2>1, <2>4, <2>5, <2>6
<1>. QED  BY <1>2, <1>3 DEF Begins

LEMMA StringDigits ==
  ASSUME NEW s \in Strings
  PROVE  AreDigits(s, Len(s)) /\ IsSeq(s, Len(s)) /\ Len(s) \in Nat
BY SeqIs DEF AreDigits, Strings, IsSeq

LEMMA CanonicalBigSizes ==
  ASSUME NEW s \in Strings, NEW v \in BigSize(s) \cup Candidates(s)
  PROVE  v \in BigSize(s) <=> IsPrefix(Encoding(v), s)
<1>1. PICK n : n = Len(s)
  OBVIOUS
<1>2. AreDigits(s, n) /\ IsSeq(s, n) /\ n \in Nat
  BY <1>1, StringDigits
<1>3. v \in Values
  <2>1. CASE v \in BigSize(s)
    BY <1>2, <2>1, BigSizeIsRead
  <2>2. CASE v \in Candidates(s)
    <3>0. DOMAIN s = 1..n
      BY <1>2 DEF IsSeq
    <3>1. \/ 1 \in 1..n /\ v = s[1]
          \/ 3 \in 1..n /\ v = ToUInt16(s, 3 - 1)
          \/ 5 \in 1..n /\ v = ToUInt32(s, 5 - 3)
          \/ 9 \in 1..n /\ v = ToUInt64(s, 9 - 7)
      BY <2>2, <3>0 DEF Candidates
    <3>2. 3 - 1 = 2 /\ 5 - 3 = 2 /\ 9 - 7 = 2
      OBVIOUS
    <3>3. \A j \in 1..n : s[j] \in Digit
      BY <1>2 DEF AreDigits
    <3>4. /\ Base \in Nat /\ Base2 \in Nat /\ Base4 \in Nat /\ Base8 \in Nat
          /\ Base <= Base2 /\ Base2 <= Base4 /\ Base4 <= Base8
      BY Bases
    <3>5. CASE 1 \in 1..n /\ v = s[1]
      <4>1. v \in Digit
        BY <3>3, <3>5
      <4>. QED  BY <3>4, <4>1 DEF Digit, Values
    <3>6. CASE 3 \in 1..n /\ v = ToUInt16(s, 3 - 1)
      <4>1. \A j \in 1..2 : 2 - 1 + j \in 1..n
        BY <1>2, <3>6
      <4>2. ToUInt16(s, 2) \in 0..(Base2 - 1)
        BY <3>3, <4>1, Is16
      <4>. QED  BY <3>2, <3>4, <3>6, <4>2 DEF Values
    <3>7. CASE 5 \in 1..n /\ v = ToUInt32(s, 5 - 3)
      <4>1. \A j \in 1..4 : 2 - 1 + j \in 1..n
        BY <1>2, <3>7
      <4>2. ToUInt32(s, 2) \in 0..(Base4 - 1)
        BY <3>3, <4>1, Is32
      <4>. QED  BY <3>2, <3>4, <3>7, <4>2 DEF Values
    <3>8. CASE 9 \in 1..n /\ v = ToUInt64(s, 9 - 7)
      <4>1. \A j \in 1..8 : 2 - 1 + j \in 1..n
        BY <1>2, <3>8
      <4>2. ToUInt64(s, 2) \in 0..(Base8 - 1)
        BY <3>3, <4>1, Is64
      <4>. QED  BY <3>2, <3>4, <3>8, <4>2 DEF Values
    <3>. QED  BY <3>1, <3>5, <3>6, <3>7, <3>8
  <2>. QED  BY <2>1, <2>2
<1>4. IsSeq(Encoding(v), Length(v))
  BY <1>3, EncodingShape DEF AreDigits
<1>5. IsPrefix(Encoding(v), s) <=> Begins(s, n, Encoding(v), Length(v))
  BY <1>2, <1>4, PrefixBegins
<1>6. ASSUME v \in BigSize(s) PROVE Begins(s, n, Encoding(v), Length(v))
  BY <1>2, <1>6, BigSizeIsRead
<1>7. ASSUME Begins(s, n, Encoding(v), Length(v)) PROVE v \in BigSize(s)
  BY <1>3, <1>7, BigSizeReads
<1>. QED  BY <1>5, <1>6, <1>7

-----------------------------------------------------------------------------
(* Parts of a string, and values behind their lengths.                     *)

\* What is left of s behind its first k members.
IsRest(u, s, k, n) ==
  /\ IsSeq(u, n - k)
  /\ \A j \in 1..(n - k) : u[j] = s[k + j]

LEMMA DropIs ==
  ASSUME NEW s, NEW n, IsSeq(s, n), NEW k \in 0..n
  PROVE  IsRest(Drop(s, k), s, k, n)
<1>1. n \in Nat /\ Len(s) = n
  BY LenOf DEF IsSeq
<1>2. PICK u : u = Drop(s, k)
  OBVIOUS
<1>3. IsStretch(u, s, k + 1, n)
  <2>1. k + 1 \in Int /\ n \in Int /\ 1 <= k + 1 /\ k + 1 <= n + 1 /\ (k + 1) - 1 <= n /\ n <= n
    BY <1>1
  <2>2. u = SubSeq(s, k + 1, n)
    BY <1>1, <1>2 DEF Drop
  <2>. QED  BY <2>1, <2>2, StretchIs
<1>4. n - (k + 1) + 1 = n - k /\ \A j \in 1..(n - k) : k + 1 + j - 1 = k + j
  BY <1>1
<1>5. IsRest(u, s, k, n)
  BY <1>3, <1>4 DEF IsStretch, IsRest
<1>. QED  BY <1>2, <1>5

LEMMA RestDigits ==
  ASSUME NEW s, NEW n, AreDigits(s, n), NEW k \in 0..n, NEW u, IsRest(u, s, k, n)
  PROVE  AreDigits(u, n - k)
<1>1. n \in Nat
  BY DEF AreDigits, IsSeq
<1>2. \A j \in 1..(n - k) : k + j \in 1..n
  BY <1>1
<1>. QED  BY <1>2 DEF AreDigits, IsRest

LEMMA AtRest ==
  ASSUME NEW s, NEW n \in Nat, NEW k \in 0..n, NEW u, IsRest(u, s, k, n),
         NEW i \in Nat \ {0}, NEW d, NEW m \in Nat, i - 1 + m <= n - k
  PROVE  At(u, i, d, m) <=> At(s, k + i, d, m)
<1>1. \A j \in 1..m : i - 1 + j \in 1..(n - k) /\ k + (i - 1 + j) = k + i - 1 + j
  OBVIOUS
<1>2. \A j \in 1..m : u[i - 1 + j] = s[k + i - 1 + j]
  <2>1. TAKE j \in 1..m
  <2>2. PICK x : x = i - 1 + j
    OBVIOUS
  <2>3. x \in 1..(n - k) /\ k + x = k + i - 1 + j
    BY <1>1, <2>2
  <2>4. u[x] = s[k + x]
    BY <2>3 DEF IsRest
  <2>. QED  BY <2>2, <2>3, <2>4
<1>. QED  BY <1>2 DEF At

LEMMA IntsCast ==
  /\ \A m \in Ints : m \in Values /\ m \in Nat /\ Cast(m) = m
  /\ \A m \in Nat : m < Base4 \div 2 => m \in Ints
  /\ \A m \in Nat : Cast(m) \in Int /\ Cast(m) <= m
<1>1. /\ Base4 \in Nat \ {0} /\ Base4 >= 256 /\ Base8 \in Nat /\ Base4 <= Base8
  BY Bases
<1>2. \A m \in Nat : Cast(m) \in Int /\ Cast(m) <= m
  <2>1. TAKE m \in Nat
  <2>2. PICK r : r = m % Base4
    OBVIOUS
  <2>3. r \in Nat /\ r <= m
    BY <1>1, <2>2, Remains
  <2>4. Cast(m) = IF 2 * r >= Base4 THEN r - Base4 ELSE r
    BY <2>2 DEF Cast
  <2>. QED  BY <1>1, <2>3, <2>4
<1>3. \A m \in Nat : m < Base4 \div 2 => m \in Ints
  BY <1>1 DEF Ints
<1>4. \A m \in Ints : m \in Values /\ m \in Nat /\ Cast(m) = m
  <2>1. TAKE m \in Ints
  <2>2. m \in Nat /\ 2 * m < Base4 /\ m \in 0..(Base4 - 1)
    BY <1>1 DEF Ints
  <2>3. m % Base4 = m
    BY <1>1, <2>2, Small
  <2>4. Cast(m) = m
    BY <2>2, <2>3, <1>1 DEF Cast
  <2>. QED  BY <1>1, <2>2, <2>4 DEF Values
<1>. QED  BY <1>2, <1>3, <1>4

\* The k members of s behind place a.
IsSlice(u, s, a, k) ==
  /\ IsSeq(u, k)
  /\ \A j \in 1..k : a + j \in Nat /\ u[j] = s[((a + 1) - 1) + j] /\ u[j] = s[a + j]

LEMMA SliceAt ==
  ASSUME NEW s, NEW n, IsSeq(s, n), NEW a \in Nat, NEW k \in Nat, a + k <= n,
         NEW u, u = SubSeq(s, a + 1, a + k)
  PROVE  IsSlice(u, s, a, k)
<1>1. IsStretch(u, s, a + 1, a + k)
  <2>1. n \in Nat
    BY DEF IsSeq
  <2>2. /\ a + 1 \in Int /\ a + k \in Int /\ 1 <= a + 1 /\ a + 1 <= n + 1
        /\ (a + 1) - 1 <= a + k /\ a + k <= n
    BY <2>1
  <2>. QED  BY <2>2, StretchIs
<1>2. a + k - (a + 1) + 1 = k
  OBVIOUS
<1>3. IsSeq(u, k) /\ \A j \in 1..k : u[j] = s[a + 1 + j - 1]
  BY <1>1, <1>2 DEF IsStretch
<1>4. \A j \in 1..k : /\ a + j \in Nat
                       /\ a + 1 + j - 1 = a + j /\ ((a + 1) - 1) + j = a + j
  OBVIOUS
<1>. QED  BY <1>3, <1>4 DEF IsSlice

\* A value that stands behind its length.
LEMMA DelimitedReads ==
  ASSUME NEW s, NEW n, NEW k \in Ints, Begins(s, n, Encoding(k), Length(k)),
         NEW value, IsSeq(value, k), Length(k) + k <= n, At(s, Length(k) + 1, value, k)
  PROVE  Delimited(s) = {value}
<1>1. IsSeq(s, n) /\ n \in Nat /\ Len(s) = n
  BY LenOf DEF Begins, IsSeq
<1>2. k \in Values /\ k \in Nat /\ Cast(k) = k
  BY IntsCast
<1>3. BigSize(s) = {k}
  BY <1>2, BigSizeReads
<1>4. PICK a : a = Length(k)
  OBVIOUS
<1>5. a \in Nat /\ a >= 1
  BY <1>2, <1>4, EncodingShape
<1>6. a + k <= n /\ At(s, a + 1, value, k)
  BY <1>4
<1>7. PICK u : u = SubSeq(s, a + 1, a + k)
  OBVIOUS
<1>8. IsSlice(u, s, a, k)
  BY <1>1, <1>2, <1>5, <1>6, <1>7, SliceAt
<1>9. IsSeq(u, k) /\ \A j \in 1..k : u[j] = value[j]
  BY <1>6, <1>8, Zenon DEF IsSlice, At
<1>10. u = value
  BY <1>9, SameSeq
<1>11. {m \in BigSize(s) : Cast(m) >= 0 /\ Length(m) + Cast(m) <= Len(s)} = {k}
  BY <1>1, <1>2, <1>3
<1>12. Delimited(s) = {SubSeq(s, Length(m) + 1, Length(m) + Cast(m)) : m \in {k}}
  BY <1>11 DEF Delimited
<1>. QED  BY <1>2, <1>4, <1>7, <1>10, <1>12

LEMMA DelimitedShort ==
  ASSUME NEW s, NEW n, NEW k \in Ints, Begins(s, n, Encoding(k), Length(k)), Length(k) + k > n
  PROVE  Delimited(s) = {}
<1>1. IsSeq(s, n) /\ n \in Nat /\ Len(s) = n
  BY LenOf DEF Begins, IsSeq
<1>2. k \in Values /\ k \in Nat /\ Cast(k) = k
  BY IntsCast
<1>3. BigSize(s) = {k}
  BY <1>2, BigSizeReads
<1>4. Length(k) \in Nat
  BY <1>2, EncodingShape
<1>5. {m \in BigSize(s) : Cast(m) >= 0 /\ Length(m) + Cast(m) <= Len(s)} = {}
  BY <1>1, <1>2, <1>3, <1>4
<1>. QED  BY <1>5 DEF Delimited

\* A value that has been read, with the length m that stands in front of it.
IsDelimited(v, s, n, m) ==
  /\ m \in BigSize(s) /\ m \in Values /\ m \in Nat
  /\ Cast(m) \in Nat /\ Cast(m) <= m /\ Length(m) + Cast(m) <= n
  /\ AreDigits(v, Cast(m))
  /\ At(s, Length(m) + 1, v, Cast(m))

LEMMA DelimitedIsRead ==
  ASSUME NEW s, NEW n, AreDigits(s, n), NEW v \in Delimited(s)
  PROVE  \E m : IsDelimited(v, s, n, m)
<1>1. IsSeq(s, n) /\ n \in Nat /\ Len(s) = n
  BY LenOf DEF AreDigits, IsSeq
<1>2. PICK m \in BigSize(s) :
        /\ Cast(m) >= 0 /\ Length(m) + Cast(m) <= n
        /\ v = SubSeq(s, Length(m) + 1, Length(m) + Cast(m))
  BY <1>1 DEF Delimited
<1>3. m \in Values
  BY BigSizeIsRead
<1>4. m \in Nat
  BY <1>3, Bases DEF Values
<1>5. PICK a, k : a = Length(m) /\ k = Cast(m)
  OBVIOUS
<1>6. a \in Nat /\ a >= 1 /\ k \in Nat /\ k <= m
  BY <1>2, <1>3, <1>4, <1>5, EncodingShape, IntsCast
<1>7. a + k <= n /\ v = SubSeq(s, a + 1, a + k)
  BY <1>2, <1>5
<1>8. IsSlice(v, s, a, k)
  BY <1>1, <1>6, <1>7, SliceAt
<1>9. IsSeq(v, k) /\ At(s, a + 1, v, k)
  BY <1>8, Zenon DEF IsSlice, At
<1>10. AreDigits(v, k)
  <2>1. \A j \in 1..k : v[j] = s[a + j] /\ a + j \in 1..n
    BY <1>1, <1>6, <1>7, <1>8 DEF IsSlice
  <2>2. \A j \in 1..n : s[j] \in Digit
    BY DEF AreDigits
  <2>. QED  BY <1>9, <2>1, <2>2 DEF AreDigits
<1>11. m \in BigSize(s) /\ Cast(m) \in Nat /\ Cast(m) <= m /\ Length(m) + Cast(m) <= n
  BY <1>2, <1>5, <1>6, <1>7
<1>12. AreDigits(v, Cast(m)) /\ At(s, Length(m) + 1, v, Cast(m))
  BY <1>5, <1>9, <1>10
<1>. QED  BY <1>3, <1>4, <1>11, <1>12 DEF IsDelimited

LEMMA LengthGrows ==
  ASSUME NEW v \in Values, NEW w \in Values, v <= w
  PROVE  Length(v) <= Length(w)
<1>1. /\ Base \in Nat /\ Base >= 4 /\ Base2 \in Nat /\ Base4 \in Nat /\ Base8 \in Nat
      /\ Base <= Base2 /\ Base2 <= Base4 /\ Base4 <= Base8
  BY Bases
<1>2. \A x \in Values : x \in Nat
  BY <1>1 DEF Values
<1>3. \A x \in Values : \/ x < Base - 3 /\ Length(x) = 1
                        \/ x >= Base - 3 /\ x < Base2 /\ Length(x) = 1 + 2
                        \/ x >= Base2 /\ x < Base4 /\ Length(x) = 1 + 4
                        \/ x >= Base4 /\ Length(x) = 1 + 8
  BY Forms, Zenon DEF HasForm
<1>. QED  BY <1>1, <1>2, <1>3

-----------------------------------------------------------------------------
(* Records, as they are written and as they are read.                      *)

\* A record: a digits of its type, b of its length, and k of its value.
HasParts(tlv, e, a, b, k) ==
  /\ tlv = Tlv(tlv.type, tlv.value) /\ tlv.type \in Values
  /\ AreDigits(tlv.value, k) /\ k = Len(tlv.value) /\ k \in Ints /\ k \in Nat
  /\ a = Length(tlv.type) /\ a \in Nat /\ a >= 1
  /\ b = Length(k) /\ b \in Nat /\ b >= 1
  /\ TLVSize(tlv) = a + b + k
  /\ e = ToEncoding(tlv) /\ AreDigits(e, a + b + k)

LEMMA TLVParts ==
  ASSUME NEW tlv \in TLVs
  PROVE  \E a, b, k : HasParts(tlv, ToEncoding(tlv), a, b, k)
<1>1. PICK t, v : t = tlv.type /\ v = tlv.value
  OBVIOUS
<1>2. tlv = Tlv(t, v) /\ t \in Values /\ v \in Strings /\ Len(v) \in Ints
  BY <1>1 DEF TLVs, Tlv, Values
<1>3. PICK k : k = Len(v)
  OBVIOUS
<1>4. AreDigits(v, k)
  BY <1>2, <1>3, StringDigits
<1>5. k \in Values /\ k \in Nat /\ k \in Ints
  BY <1>2, <1>3, IntsCast
<1>6. PICK a, b, s, r : a = Length(t) /\ b = Length(k) /\ s = Encoding(t) /\ r = Encoding(k)
  OBVIOUS
<1>7. a \in Nat /\ a >= 1 /\ b \in Nat /\ b >= 1 /\ AreDigits(s, a) /\ AreDigits(r, b)
  BY <1>2, <1>5, <1>6, EncodingShape
<1>8. AreDigits(s \o r, a + b)
  BY <1>7, JoinedParts, JoinedDigits DEF AreDigits
<1>9. AreDigits((s \o r) \o v, a + b + k)
  BY <1>4, <1>8, JoinedParts, JoinedDigits DEF AreDigits
<1>10. ToEncoding(tlv) = (s \o r) \o v
  BY <1>1, <1>3, <1>6 DEF ToEncoding
<1>11. TLVSize(tlv) = a + b + k
  BY <1>1, <1>3, <1>6 DEF TLVSize
<1>12. HasParts(tlv, ToEncoding(tlv), a, b, k)
  BY <1>1, <1>2, <1>3, <1>4, <1>5, <1>6, <1>7, <1>9, <1>10, <1>11 DEF HasParts
<1>. QED  BY <1>12

\* They stand one behind the other.
PartsAt(s, i, tlv, a, b, k) ==
  At(s, i, Encoding(tlv.type), a) /\ At(s, i + a, Encoding(k), b)
    /\ At(s, i + a + b, tlv.value, k)

LEMMA RecordAt ==
  ASSUME NEW tlv, NEW e, NEW a, NEW b, NEW k, HasParts(tlv, e, a, b, k),
         NEW s, NEW i \in Int
  PROVE  At(s, i, e, a + b + k) <=> PartsAt(s, i, tlv, a, b, k)
<1>1. PICK t, r, v : t = Encoding(tlv.type) /\ r = Encoding(k) /\ v = tlv.value
  OBVIOUS
<1>2. a \in Nat /\ b \in Nat /\ k \in Nat /\ e = (t \o r) \o v
  BY <1>1 DEF HasParts, ToEncoding
<1>3. IsSeq(t, a) /\ IsSeq(r, b) /\ IsSeq(v, k)
  <2>1. k \in Values
    BY IntsCast DEF HasParts
  <2>. QED  BY <1>1, <2>1, EncodingShape DEF HasParts, AreDigits
<1>4. PICK x : x = t \o r
  OBVIOUS
<1>5. IsJoined(x, t, a, r, b)
  BY <1>3, <1>4, JoinedParts
<1>6. IsSeq(x, a + b) /\ a + b \in Nat
  BY <1>2, <1>5 DEF IsJoined
<1>7. IsJoined(e, x, a + b, v, k)
  BY <1>2, <1>3, <1>4, <1>6, JoinedParts
<1>8. At(s, i, e, (a + b) + k) <=> At(s, i, x, a + b) /\ At(s, i + (a + b), v, k)
  BY <1>2, <1>6, <1>7, AtJoined
<1>9. At(s, i, x, a + b) <=> At(s, i, t, a) /\ At(s, i + a, r, b)
  BY <1>2, <1>5, AtJoined
<1>10. i + (a + b) = i + a + b
  BY <1>2
<1>. QED  BY <1>1, <1>8, <1>9, <1>10 DEF PartsAt

\* A rest of s, as the beginning of one of its parts.
LEMMA BeginsRest ==
  ASSUME NEW s, NEW n, IsSeq(s, n), NEW a \in 0..n, NEW t, NEW m \in Nat,
         a + m <= n, At(s, a + 1, t, m)
  PROVE  Begins(Drop(s, a), n - a, t, m)
<1>1. n \in Nat
  BY DEF IsSeq
<1>2. PICK u : u = Drop(s, a)
  OBVIOUS
<1>3. IsRest(u, s, a, n)
  BY <1>2, DropIs
<1>4. 1 \in Nat \ {0} /\ 1 - 1 + m <= n - a
  BY <1>1
<1>5. At(u, 1, t, m) <=> At(s, a + 1, t, m)
  BY <1>1, <1>3, <1>4, AtRest
<1>6. m <= n - a /\ IsSeq(u, n - a)
  BY <1>1, <1>3 DEF IsRest
<1>. QED  BY <1>2, <1>5, <1>6 DEF Begins

\* A record is read as it was written,
LEMMA RecordReads ==
  ASSUME NEW tlv \in TLVs, NEW s, NEW n, Begins(s, n, ToEncoding(tlv), TLVSize(tlv))
  PROVE  BigSize(s) = {tlv.type} /\ ParseTLV(s) = {tlv}
<1>1. PICK e, a, b, k : HasParts(tlv, e, a, b, k)
  BY TLVParts
<1>2. PICK t, v : t = tlv.type /\ v = tlv.value
  OBVIOUS
<1>3. a \in Nat /\ b \in Nat /\ k \in Nat /\ k \in Ints /\ tlv = Tlv(t, v) /\ t \in Values
  BY <1>1, <1>2 DEF HasParts
<1>4. a = Length(t) /\ b = Length(k) /\ IsSeq(v, k)
  BY <1>1, <1>2 DEF HasParts, AreDigits
<1>5. IsSeq(s, n) /\ n \in Nat /\ a + b + k <= n /\ At(s, 1, e, a + b + k)
  BY <1>1 DEF HasParts, Begins, IsSeq
<1>6. PartsAt(s, 1, tlv, a, b, k)
  BY <1>1, <1>5, RecordAt
<1>7. At(s, 1, Encoding(t), a) /\ At(s, 1 + a, Encoding(k), b) /\ At(s, 1 + a + b, v, k)
  BY <1>2, <1>6 DEF PartsAt
<1>8. a <= n /\ b \in Nat /\ a + b <= n /\ b + k <= n - a /\ 1 + a = a + 1 /\ 1 + a + b = a + (b + 1)
      /\ b + 1 \in Nat \ {0} /\ ((b + 1) - 1) + k <= n - a /\ a \in 0..n
  BY <1>3, <1>5
<1>9. BigSize(s) = {t}
  <2>1. Begins(s, n, Encoding(t), Length(t))
    BY <1>4, <1>5, <1>7, <1>8 DEF Begins
  <2>. QED  BY <1>3, <2>1, BigSizeReads
<1>10. PICK u : u = Drop(s, a)
  OBVIOUS
<1>11. IsRest(u, s, a, n)
  BY <1>5, <1>8, <1>10, DropIs
<1>12. Begins(u, n - a, Encoding(k), b)
  BY <1>3, <1>5, <1>7, <1>8, <1>10, BeginsRest
<1>13. At(u, b + 1, v, k)
  <2>1. PICK i : i = b + 1
    OBVIOUS
  <2>2. i \in Nat \ {0} /\ i - 1 + k <= n - a /\ 1 + a + b = a + i
    BY <1>3, <1>8, <2>1
  <2>3. At(s, a + i, v, k)
    BY <1>7, <2>2
  <2>4. At(u, i, v, k) <=> At(s, a + i, v, k)
    BY <1>3, <1>5, <1>8, <1>11, <2>2, AtRest
  <2>. QED  BY <2>1, <2>3, <2>4
<1>14. Delimited(u) = {v}
  BY <1>3, <1>4, <1>8, <1>12, <1>13, DelimitedReads
<1>15. \A x : x \in ParseTLV(s) <=> x = Tlv(t, v)
  <2>1. ParseTLV(s) = UNION {{Tlv(r, w) : w \in Delimited(Drop(s, Length(r)))} : r \in {t}}
    BY <1>9 DEF ParseTLV
  <2>2. Delimited(Drop(s, Length(t))) = {v}
    BY <1>4, <1>10, <1>14
  <2>. QED  BY <2>1, <2>2
<1>. QED  BY <1>2, <1>3, <1>9, <1>15

\* and not without its last digit.
LEMMA RecordCutShort ==
  ASSUME NEW tlv \in TLVs, tlv.value # <<>>
  PROVE  ParseTLV(Front(ToEncoding(tlv))) = {}
<1>1. PICK e, a, b, k : HasParts(tlv, e, a, b, k) /\ e = ToEncoding(tlv)
  BY TLVParts
<1>2. PICK t : t = tlv.type
  OBVIOUS
<1>3. a \in Nat /\ b \in Nat /\ k \in Nat /\ k \in Ints /\ t \in Values
  BY <1>1, <1>2 DEF HasParts
<1>4. a = Length(t) /\ b = Length(k) /\ k # 0
  <2>1. tlv.value \in Strings
    BY DEF TLVs
  <2>2. k = Len(tlv.value)
    BY <1>1 DEF HasParts
  <2>. QED  BY <1>1, <1>2, <2>1, <2>2 DEF HasParts, Strings
<1>5. PICK n : n = a + b + k - 1
  OBVIOUS
<1>6. n \in Nat /\ a + b <= n /\ a \in 0..n /\ b + k > n - a /\ a <= n /\ n = (n + 1) - 1
      /\ a + b + k = n + 1
  <2>1. k >= 1
    BY <1>3, <1>4
  <2>. QED  BY <1>3, <1>5, <2>1
<1>7. IsSeq(e, n + 1) /\ Len(e) = n + 1
  BY <1>1, <1>6, LenOf DEF HasParts, AreDigits
<1>8. PICK f : f = Front(e)
  OBVIOUS
<1>9. IsSeq(f, n) /\ \A j \in 1..n : f[j] = e[j]
  <2>1. f = SubSeq(e, 1, n)
    <3>1. Len(e) - 1 = n
      BY <1>6, <1>7
    <3>. QED  BY <1>8, <3>1, Zenon DEF Front
  <2>2. 1 \in Int /\ n \in Int /\ 1 <= 1 /\ 1 <= (n + 1) + 1 /\ 1 - 1 <= n /\ n <= n + 1
    BY <1>6
  <2>3. IsStretch(f, e, 1, n)
    BY <1>7, <2>1, <2>2, StretchIs
  <2>4. n - 1 + 1 = n
    BY <1>6
  <2>5. \A j \in 1..n : 1 + j - 1 = j
    OBVIOUS
  <2>. QED  BY <2>3, <2>4, <2>5, Zenon DEF IsStretch
<1>10. PartsAt(e, 1, tlv, a, b, k)
  <2>1. At(e, 1, e, a + b + k)
    <3>1. \A j \in 1..(a + b + k) : 1 - 1 + j = j
      BY <1>3
    <3>. QED  BY <3>1 DEF At
  <2>. QED  BY <1>1, <2>1, RecordAt
<1>11. At(e, 1, Encoding(t), a) /\ At(e, 1 + a, Encoding(k), b)
  BY <1>2, <1>10 DEF PartsAt
<1>12. At(f, 1, Encoding(t), a) /\ At(f, a + 1, Encoding(k), b)
  <2>1. \A j \in 1..a : 1 - 1 + j \in 1..n
    BY <1>6
  <2>2. At(f, 1, Encoding(t), a)
    BY <1>9, <1>11, <2>1, Zenon DEF At
  <2>3. \A j \in 1..b : (a + 1) - 1 + j \in 1..n /\ 1 + a = a + 1
    BY <1>3, <1>6
  <2>4. At(f, a + 1, Encoding(k), b)
    BY <1>9, <1>11, <2>3, Zenon DEF At
  <2>. QED  BY <2>2, <2>4
<1>13. BigSize(f) = {t}
  <2>1. Begins(f, n, Encoding(t), Length(t))
    BY <1>4, <1>6, <1>9, <1>12 DEF Begins
  <2>. QED  BY <1>3, <2>1, BigSizeReads
<1>14. Begins(Drop(f, a), n - a, Encoding(k), b)
  BY <1>3, <1>6, <1>9, <1>12, BeginsRest
<1>15. Delimited(Drop(f, a)) = {}
  BY <1>3, <1>4, <1>6, <1>14, DelimitedShort
<1>16. ParseTLV(f) = UNION {{Tlv(t, w) : w \in {}}}
  BY <1>4, <1>13, <1>15 DEF ParseTLV
<1>. QED  BY <1>1, <1>8, <1>16

\* What has been read as a record: its size is what was consumed, and it is as
\* it would be written, unless its length does not fit an int.
IsFramed(tlv, s, n) ==
  /\ TLVSize(tlv) \in 1..n
  /\ \/ /\ IsSeq(ToEncoding(tlv), TLVSize(tlv))
        /\ Begins(s, n, ToEncoding(tlv), TLVSize(tlv))
     \/ \E m \in BigSize(Drop(s, Length(tlv.type))) : m >= Base4 \div 2

LEMMA RecordIsRead ==
  ASSUME NEW s, NEW n, AreDigits(s, n), NEW tlv \in ParseTLV(s)
  PROVE  IsFramed(tlv, s, n)
<1>1. IsSeq(s, n) /\ n \in Nat
  BY DEF AreDigits, IsSeq
<1>2. PICK t \in BigSize(s) : \E v \in Delimited(Drop(s, Length(t))) : tlv = Tlv(t, v)
  BY DEF ParseTLV
<1>3. PICK a : a = Length(t)
  OBVIOUS
<1>4. t \in Values /\ Begins(s, n, Encoding(t), a)
  BY <1>2, <1>3, BigSizeIsRead
<1>5. a \in Nat /\ a >= 1 /\ a \in 0..n
  <2>1. a \in Nat /\ a >= 1
    BY <1>3, <1>4, EncodingShape
  <2>2. a <= n
    BY <1>4 DEF Begins
  <2>. QED  BY <1>1, <2>1, <2>2
<1>6. PICK u : u = Drop(s, a)
  OBVIOUS
<1>7. IsRest(u, s, a, n)
  BY <1>1, <1>5, <1>6, DropIs
<1>8. AreDigits(u, n - a)
  BY <1>5, <1>7, RestDigits
<1>9. PICK v \in Delimited(u) : tlv = Tlv(t, v)
  BY <1>2, <1>3, <1>6
<1>10. PICK m : IsDelimited(v, u, n - a, m)
  BY <1>8, <1>9, DelimitedIsRead
<1>11. PICK b, k : b = Length(m) /\ k = Cast(m)
  OBVIOUS
<1>12. /\ m \in BigSize(u) /\ m \in Values /\ m \in Nat
       /\ k \in Nat /\ k <= m /\ b + k <= n - a
       /\ AreDigits(v, k) /\ At(u, b + 1, v, k)
  BY <1>10, <1>11 DEF IsDelimited
<1>13. tlv.type = t /\ tlv.value = v /\ Len(v) = k
  BY <1>9, <1>12, LenOf DEF Tlv, AreDigits
<1>14. k \in Values /\ b \in Nat /\ b >= 1
  BY <1>11, <1>12, EncodingShape, Bases DEF Values
<1>15. PICK c : c = Length(k)
  OBVIOUS
<1>16. c \in Nat /\ c <= b
  BY <1>11, <1>12, <1>14, <1>15, EncodingShape, LengthGrows
<1>17. TLVSize(tlv) = a + c + k
  BY <1>3, <1>13, <1>15 DEF TLVSize
<1>18. TLVSize(tlv) \in 1..n
  BY <1>1, <1>5, <1>12, <1>14, <1>16, <1>17
<1>19. CASE m >= Base4 \div 2
  <2>1. m \in BigSize(Drop(s, Length(tlv.type)))
    BY <1>3, <1>6, <1>12, <1>13
  <2>. QED  BY <1>18, <1>19, <2>1 DEF IsFramed
<1>20. CASE ~(m >= Base4 \div 2)
  <2>1. m \in Ints /\ k = m /\ c = b
    <3>1. m < Base4 \div 2
      BY <1>12, <1>20, Bases
    <3>. QED  BY <1>11, <1>12, <1>15, <3>1, IntsCast
  <2>2. tlv \in TLVs
    <3>1. v \in Strings
      BY <1>12, IsInSeq DEF AreDigits, Strings
    <3>. QED  BY <1>4, <1>9, <1>13, <2>1, <3>1 DEF TLVs, Tlv, Values
  <2>3. PICK e, x, y, z : HasParts(tlv, e, x, y, z)
    BY <2>2, TLVParts
  <2>4. HasParts(tlv, e, a, b, k)
    BY <1>3, <1>13, <1>15, <2>1, <2>3 DEF HasParts
  <2>5. PICK f, g : f = Encoding(t) /\ g = Encoding(k)
    OBVIOUS
  <2>6. Begins(u, n - a, g, b)
    BY <1>8, <1>11, <1>12, <2>1, <2>5, BigSizeIsRead
  <2>7. At(s, 1, f, a) /\ At(u, 1, g, b)
    BY <1>4, <2>5, <2>6 DEF Begins
  <2>8. At(s, 1 + a, g, b)
    <3>1. 1 \in Nat \ {0} /\ 1 - 1 + b <= n - a /\ 1 + a = a + 1
      BY <1>1, <1>5, <1>12, <1>14
    <3>2. At(u, 1, g, b) <=> At(s, a + 1, g, b)
      BY <1>1, <1>5, <1>7, <1>14, <3>1, AtRest
    <3>. QED  BY <2>7, <3>1, <3>2
  <2>9. At(s, 1 + a + b, v, k)
    <3>1. PICK i : i = b + 1
      OBVIOUS
    <3>2. i \in Nat \ {0} /\ i - 1 + k <= n - a /\ 1 + a + b = a + i
      BY <1>1, <1>5, <1>12, <1>14, <3>1
    <3>3. At(u, i, v, k)
      BY <1>12, <3>1
    <3>4. At(u, i, v, k) <=> At(s, a + i, v, k)
      BY <1>1, <1>5, <1>7, <1>12, <3>2, AtRest
    <3>. QED  BY <3>2, <3>3, <3>4
  <2>10. PartsAt(s, 1, tlv, a, b, k)
    BY <1>13, <2>5, <2>7, <2>8, <2>9 DEF PartsAt
  <2>11. At(s, 1, e, a + b + k)
    BY <2>4, <2>10, RecordAt
  <2>12. e = ToEncoding(tlv) /\ TLVSize(tlv) = a + b + k
    BY <2>4 DEF HasParts
  <2>13. TLVSize(tlv) <= n
    BY <1>1, <1>18
  <2>14. Begins(s, n, ToEncoding(tlv), TLVSize(tlv))
    BY <1>1, <2>11, <2>12, <2>13 DEF Begins
  <2>15. IsSeq(ToEncoding(tlv), TLVSize(tlv))
    BY <2>4 DEF HasParts, AreDigits
  <2>. QED  BY <1>18, <2>14, <2>15 DEF IsFramed
<1>. QED  BY <1>19, <1>20

\* What follows an encoded string leaves it where it is.
LEMMA JoinedBegins ==
  ASSUME NEW t, NEW m, IsSeq(t, m), NEW r, NEW n, IsSeq(r, n)
  PROVE  Begins(t \o r, m + n, t, m)
<1>1. m \in Nat /\ n \in Nat
  BY DEF IsSeq
<1>2. PICK u : u = t \o r
  OBVIOUS
<1>3. IsJoined(u, t, m, r, n)
  BY <1>2, JoinedParts
<1>4. \A j \in 1..m : 1 - 1 + j = j
  BY <1>1
<1>5. IsSeq(u, m + n) /\ At(u, 1, t, m)
  BY <1>3, <1>4 DEF IsJoined, At
<1>. QED  BY <1>1, <1>2, <1>5 DEF Begins

\* An encoded record is read as that record, whatever follows it, is as long as
\* TLVSize says, and is refused without its last byte. What the parser accepts as
\* a number, or as a record whose length fits an int, is the encoding of it: no
\* longer form of a number is accepted.
THEOREM RecordsAlwaysFramed == input \in Inputs => RecordsFramed
<1>. SUFFICES ASSUME input \in Inputs PROVE RecordsFramed
  OBVIOUS
<1>1. BigSizesCanonical
  <2>1. SUFFICES ASSUME input.kind = "bytes", NEW v \in BigSize(input.bytes) \cup Candidates(input.bytes)
        PROVE v \in BigSize(input.bytes) <=> IsPrefix(Encoding(v), input.bytes)
    BY DEF BigSizesCanonical
  <2>2. input.bytes \in Strings
    BY <2>1 DEF Inputs
  <2>. QED  BY <2>2, CanonicalBigSizes
<1>2. ASSUME input.kind = "record"
      PROVE  LET s == ToEncoding(input.tlv) IN
             /\ BigSize(s) = {input.tlv.type}
             /\ ParseTLV(s \o input.rest) = {input.tlv}
             /\ TLVSize(input.tlv) = Len(s)
             /\ input.tlv.value # <<>> => ParseTLV(Front(s)) = {}
  <2>1. PICK tlv, r, s : tlv = input.tlv /\ r = input.rest /\ s = ToEncoding(tlv)
    OBVIOUS
  <2>2. tlv \in TLVs /\ r \in Strings
    BY <1>2, <2>1 DEF Inputs
  <2>3. PICK m, n : m = TLVSize(tlv) /\ n = Len(r)
    OBVIOUS
  <2>4. IsSeq(s, m) /\ Len(s) = m
    <3>1. PICK a, b, k : HasParts(tlv, s, a, b, k)
      BY <2>1, <2>2, TLVParts
    <3>2. m = a + b + k
      BY <2>3, <3>1 DEF HasParts
    <3>. QED  BY <3>1, <3>2, LenOf DEF HasParts, AreDigits
  <2>5. IsSeq(r, n) /\ n \in Nat /\ m \in Nat
    BY <2>2, <2>3, <2>4, StringDigits DEF IsSeq
  <2>6. ParseTLV(s \o r) = {tlv}
    BY <2>1, <2>2, <2>3, <2>4, <2>5, JoinedBegins, RecordReads
  <2>7. BigSize(s) = {tlv.type}
    <3>1. Begins(s, m, s, m)
      <4>1. \A j \in 1..m : 1 - 1 + j = j
        BY <2>5
      <4>. QED  BY <2>4, <2>5, <4>1 DEF Begins, At
    <3>. QED  BY <2>1, <2>2, <2>3, <3>1, RecordReads
  <2>8. tlv.value # <<>> => ParseTLV(Front(s)) = {}
    BY <2>1, <2>2, RecordCutShort
  <2>. QED  BY <2>1, <2>3, <2>4, <2>6, <2>7, <2>8
<1>3. ASSUME input.kind = "bytes", NEW tlv \in ParseTLV(input.bytes)
      PROVE  \/ IsPrefix(ToEncoding(tlv), input.bytes)
             \/ \E n \in BigSize(Drop(input.bytes, Length(tlv.type))) : n >= Base4 \div 2
  <2>1. PICK s, n : s = input.bytes /\ n = Len(s)
    OBVIOUS
  <2>2. s \in Strings
    BY <1>3, <2>1 DEF Inputs
  <2>3. AreDigits(s, n) /\ IsSeq(s, n)
    BY <2>1, <2>2, StringDigits
  <2>4. IsFramed(tlv, s, n)
    BY <1>3, <2>1, <2>3, RecordIsRead
  <2>5. ASSUME IsSeq(ToEncoding(tlv), TLVSize(tlv)), Begins(s, n, ToEncoding(tlv), TLVSize(tlv))
        PROVE  IsPrefix(ToEncoding(tlv), s)
    BY <2>3, <2>5, PrefixBegins
  <2>. QED  BY <2>1, <2>4, <2>5 DEF IsFramed
<1>. QED  BY <1>1, <1>2, <1>3, Zenon DEF RecordsFramed

-----------------------------------------------------------------------------
(* Records one behind the other, and the loop that reads them.             *)

\* Encoded records one behind the other: record i ends at place start[i].
LaidOut(u, tlvs, start, k) ==
  /\ AreDigits(u, start[k]) /\ start[0] = 0
  /\ \A i \in 1..k : /\ start[i - 1] \in Nat /\ start[i] \in Nat
                     /\ TLVSize(tlvs[i]) \in Nat /\ TLVSize(tlvs[i]) >= 1
                     /\ start[i] = start[i - 1] + TLVSize(tlvs[i])
                     /\ start[i] <= start[k]
                     /\ At(u, start[i - 1] + 1, ToEncoding(tlvs[i]), TLVSize(tlvs[i]))

\* Concatenation, as an operator that the provers leave alone.
Chained(s, t) == s \o t

LEMMA FlattenRecurrence ==
  ASSUME NEW n \in Nat \ {0}, NEW q
  PROVE  \E f : f = [i \in 1..n |-> IF i = 1 THEN q[i] ELSE Chained(f[i - 1], q[i])]
<1>. DEFINE Runs(f, m) == f = [i \in 1..(m + 1) |-> IF i = 1 THEN q[i] ELSE Chained(f[i - 1], q[i])]
            S == {m \in Nat : \E f : Runs(f, m)}
<1>1. 0 \in S
  <2>1. Runs([i \in 1..1 |-> q[i]], 0)
    OBVIOUS
  <2>. QED  BY <2>1
<1>2. ASSUME NEW m \in Nat, m \in S PROVE m + 1 \in S
  <2>1. PICK f : Runs(f, m)
    BY <1>2
  <2>. DEFINE g == [i \in 1..(m + 2) |-> IF i <= m + 1 THEN f[i] ELSE Chained(f[m + 1], q[i])]
  <2>2. \A i \in 1..(m + 2) : g[i] = IF i = 1 THEN q[i] ELSE Chained(g[i - 1], q[i])
    <3>1. TAKE i \in 1..(m + 2)
    <3>2. CASE i <= m + 1
      <4>1. g[i] = f[i] /\ (i # 1 => g[i - 1] = f[i - 1])
        BY <3>2
      <4>2. f[i] = IF i = 1 THEN q[i] ELSE Chained(f[i - 1], q[i])
        BY <2>1, <3>2
      <4>. QED  BY <4>1, <4>2
    <3>3. CASE i = m + 2
      <4>1. g[i] = Chained(f[m + 1], q[i]) /\ g[i - 1] = f[m + 1] /\ i # 1
        BY <3>3
      <4>. QED  BY <4>1, Zenon
    <3>. QED  BY <3>2, <3>3
  <2>3. Runs(g, m + 1)
    BY <2>2
  <2>. HIDE DEF Runs, g
  <2>. QED  BY <2>3
<1>. HIDE DEF S
<1>3. n - 1 \in S /\ (n - 1) + 1 = n
  BY <1>1, <1>2, Counting
<1>. QED  BY <1>3 DEF S

LEMMA WrittenRuns ==
  ASSUME NEW tlvs, NEW n \in Nat \ {0}, Len(tlvs) = n
  PROVE  \E f : /\ f[1] = ToEncoding(tlvs[1]) /\ f[n] = Written(tlvs)
                /\ \A i \in 2..n : f[i] = Chained(f[i - 1], ToEncoding(tlvs[i]))
<1>. DEFINE q == [i \in 1..n |-> ToEncoding(tlvs[i])]
<1>1. Len(q) = n
  OBVIOUS
<1>2. \A i \in 1..n : q[i] = ToEncoding(tlvs[i])
  OBVIOUS
<1>3. Written(tlvs) = FlattenSeq(q)
  BY DEF Written
<1>. HIDE DEF q
<1>. DEFINE f == CHOOSE f : f = [i \in 1..n |-> IF i = 1 THEN q[i] ELSE Chained(f[i - 1], q[i])]
<1>4. f = [i \in 1..n |-> IF i = 1 THEN q[i] ELSE Chained(f[i - 1], q[i])]
  BY FlattenRecurrence
<1>5. FlattenSeq(q) = f[n]
  BY <1>1, Zenon DEF FlattenSeq, Chained
<1>. HIDE DEF f
<1>6. f[1] = q[1] /\ \A i \in 2..n : f[i] = Chained(f[i - 1], q[i])
  BY <1>4
<1>. QED  BY <1>2, <1>3, <1>5, <1>6

LEMMA WrittenLaysOut ==
  ASSUME NEW tlvs \in Seq(TLVs), NEW n \in Nat \ {0}, Len(tlvs) = n
  PROVE  \E start : LaidOut(Written(tlvs), tlvs, start, n)
<1>1. PICK f : /\ f[1] = ToEncoding(tlvs[1]) /\ f[n] = Written(tlvs)
               /\ \A i \in 2..n : f[i] = Chained(f[i - 1], ToEncoding(tlvs[i]))
  BY WrittenRuns
<1>2. ASSUME NEW i \in 1..n
      PROVE  /\ TLVSize(tlvs[i]) \in Nat /\ TLVSize(tlvs[i]) >= 1
             /\ AreDigits(ToEncoding(tlvs[i]), TLVSize(tlvs[i]))
  <2>1. tlvs[i] \in TLVs
    OBVIOUS
  <2>2. PICK e, a, b, k : HasParts(tlvs[i], e, a, b, k)
    BY <2>1, TLVParts
  <2>3. a \in Nat /\ a >= 1 /\ b \in Nat /\ k \in Nat /\ TLVSize(tlvs[i]) = a + b + k
    BY <2>2 DEF HasParts
  <2>. QED  BY <2>2, <2>3 DEF HasParts
<1>. DEFINE start == [i \in 0..n |-> IF i = 0 THEN 0 ELSE Len(f[i])]
            S == {m \in Nat : m + 1 <= n => LaidOut(f[m + 1], tlvs, start, m + 1)}
<1>3. start[0] = 0 /\ \A i \in 1..n : start[i] = Len(f[i])
  OBVIOUS
<1>. HIDE DEF start
<1>4. 0 \in S
  <2>1. PICK e, z : e = ToEncoding(tlvs[1]) /\ z = TLVSize(tlvs[1])
    OBVIOUS
  <2>2. z \in Nat /\ z >= 1 /\ AreDigits(e, z) /\ Len(e) = z
    <3>1. 1 \in 1..n
      OBVIOUS
    <3>2. AreDigits(e, z) /\ z \in Nat /\ z >= 1
      BY <1>2, <2>1, <3>1
    <3>. QED  BY <3>2, LenOf DEF AreDigits
  <2>3. start[1] = z /\ f[1] = e
    BY <1>1, <1>3, <2>1, <2>2
  <2>4. At(e, 0 + 1, e, z)
    <3>1. \A j \in 1..z : (0 + 1) - 1 + j = j
      BY <2>2
    <3>. QED  BY <3>1 DEF At
  <2>5. \A i \in 1..1 : i = 1 /\ i - 1 = 0
    OBVIOUS
  <2>6. LaidOut(e, tlvs, start, 1)
    BY <1>3, <2>1, <2>2, <2>3, <2>4, <2>5 DEF LaidOut
  <2>. QED  BY <2>3, <2>6
<1>5. ASSUME NEW m \in Nat, m \in S PROVE m + 1 \in S
  <2>1. SUFFICES ASSUME m + 2 <= n PROVE LaidOut(f[m + 2], tlvs, start, m + 2)
    OBVIOUS
  <2>2. PICK k, w, e, z, u, r : /\ k = m + 1 /\ w = start[k] /\ e = ToEncoding(tlvs[k + 1])
                                /\ z = TLVSize(tlvs[k + 1]) /\ u = f[k] /\ r = f[k + 1]
    OBVIOUS
  <2>3. k \in Nat /\ k >= 1 /\ k + 1 <= n /\ m + 2 = k + 1 /\ k + 1 \in 1..n /\ k \in 1..n
    BY <2>1, <2>2
  <2>4. LaidOut(u, tlvs, start, k)
    BY <1>5, <2>2, <2>3
  <2>5. z \in Nat /\ z >= 1 /\ AreDigits(e, z)
    BY <1>2, <2>2, <2>3
  <2>6. r = u \o e
    <3>1. k + 1 \in 2..n /\ (k + 1) - 1 = k
      BY <2>3
    <3>. QED  BY <1>1, <2>2, <3>1 DEF Chained
  <2>7. AreDigits(u, w) /\ w \in Nat
    BY <2>2, <2>4 DEF LaidOut, AreDigits, IsSeq
  <2>8. IsJoined(r, u, w, e, z)
    BY <2>5, <2>6, <2>7, JoinedParts DEF AreDigits
  <2>9. AreDigits(r, w + z)
    BY <2>5, <2>7, <2>8, JoinedDigits
  <2>10. start[k + 1] = w + z
    <3>1. Len(r) = w + z
      BY <2>9, LenOf DEF AreDigits
    <3>. QED  BY <1>3, <2>2, <2>3, <3>1
  <2>11. At(r, w + 1, e, z)
    <3>1. \A j \in 1..z : (w + 1) - 1 + j = w + j
      BY <2>5, <2>7
    <3>. QED  BY <2>8, <3>1 DEF IsJoined, At
  <2>12. ASSUME NEW i \in 1..k
         PROVE  /\ start[i - 1] \in Nat /\ start[i] \in Nat
                /\ TLVSize(tlvs[i]) \in Nat /\ TLVSize(tlvs[i]) >= 1
                /\ start[i] = start[i - 1] + TLVSize(tlvs[i])
                /\ start[i] <= w + z
                /\ At(r, start[i - 1] + 1, ToEncoding(tlvs[i]), TLVSize(tlvs[i]))
    <3>1. PICK a, b, y, d : /\ a = start[i - 1] /\ b = start[i] /\ y = TLVSize(tlvs[i])
                            /\ d = ToEncoding(tlvs[i])
      OBVIOUS
    <3>2. /\ a \in Nat /\ b \in Nat /\ y \in Nat /\ y >= 1 /\ b = a + y /\ b <= w
          /\ At(u, a + 1, d, y)
      BY <2>2, <2>4, <3>1 DEF LaidOut
    <3>3. \A j \in 1..y : (a + 1) - 1 + j \in 1..w
      BY <2>7, <3>2
    <3>4. At(r, a + 1, d, y)
      BY <2>8, <3>2, <3>3, Zenon DEF IsJoined, At
    <3>5. b <= w + z
      BY <2>5, <2>7, <3>2
    <3>. QED  BY <3>1, <3>2, <3>4, <3>5
  <2>13. (k + 1) - 1 = k /\ \A i \in 1..(k + 1) : i \in 1..k \/ i = k + 1
    BY <2>3
  <2>14. w + z \in Nat /\ w + z <= w + z
    BY <2>5, <2>7
  <2>15. start[0] = 0
    BY <1>3
  <2>16. LaidOut(r, tlvs, start, k + 1)
    <3>1. ASSUME NEW i \in 1..(k + 1)
          PROVE  /\ start[i - 1] \in Nat /\ start[i] \in Nat
                 /\ TLVSize(tlvs[i]) \in Nat /\ TLVSize(tlvs[i]) >= 1
                 /\ start[i] = start[i - 1] + TLVSize(tlvs[i])
                 /\ start[i] <= w + z
                 /\ At(r, start[i - 1] + 1, ToEncoding(tlvs[i]), TLVSize(tlvs[i]))
      <4>1. CASE i \in 1..k
        BY <2>12, <4>1
      <4>2. CASE i = k + 1
        BY <2>2, <2>5, <2>7, <2>10, <2>11, <2>13, <2>14, <4>2
      <4>. QED  BY <2>13, <4>1, <4>2
    <3>. QED  BY <2>9, <2>10, <2>15, <3>1 DEF LaidOut
  <2>. QED  BY <2>2, <2>3, <2>16
<1>. HIDE DEF S
<1>6. n - 1 \in S /\ (n - 1) + 1 = n
  BY <1>4, <1>5, Counting
<1>7. LaidOut(f[n], tlvs, start, n)
  BY <1>6 DEF S
<1>. QED  BY <1>1, <1>7

\* A record before others, as an operator that the provers leave alone.
Before(tlv, others) == <<tlv>> \o others

\* What the loop over the stream s of n digits makes from its ends.
Further(s, f, i) ==
  UNION {{Before(tlv, others) : others \in f[i + TLVSize(tlv)]} : tlv \in ParseTLV(Drop(s, i - 1))}

LEMMA FurtherIs ==
  ASSUME NEW s, NEW f, NEW g, NEW i,
         \A tlv \in ParseTLV(Drop(s, i - 1)) : f[i + TLVSize(tlv)] = g[i + TLVSize(tlv)]
  PROVE  Further(s, f, i) = Further(s, g, i)
<1>1. ASSUME NEW x PROVE x \in Further(s, f, i) <=> x \in Further(s, g, i)
  <2>1. x \in Further(s, f, i) <=> \E tlv \in ParseTLV(Drop(s, i - 1)) :
                                     \E o \in f[i + TLVSize(tlv)] : x = Before(tlv, o)
    BY DEF Further
  <2>2. x \in Further(s, g, i) <=> \E tlv \in ParseTLV(Drop(s, i - 1)) :
                                     \E o \in g[i + TLVSize(tlv)] : x = Before(tlv, o)
    BY DEF Further
  <2>. QED  BY <2>1, <2>2, Zenon
<1>. QED  BY <1>1, Zenon

\* A record does not go on behind the end of the stream.
LEMMA Advances ==
  ASSUME NEW s, NEW n, AreDigits(s, n), NEW i \in 1..n,
         NEW tlv \in ParseTLV(Drop(s, i - 1))
  PROVE  TLVSize(tlv) \in Nat /\ i + TLVSize(tlv) \in (i + 1)..(n + 1)
<1>1. IsSeq(s, n) /\ n \in Nat
  BY DEF AreDigits, IsSeq
<1>2. PICK k, u : k = i - 1 /\ u = Drop(s, k)
  OBVIOUS
<1>3. k \in 0..n /\ i = k + 1
  BY <1>1, <1>2
<1>4. AreDigits(u, n - k)
  BY <1>1, <1>2, <1>3, DropIs, RestDigits
<1>5. TLVSize(tlv) \in 1..(n - k)
  BY <1>2, <1>4, RecordIsRead DEF IsFramed
<1>. QED  BY <1>1, <1>3, <1>5

LEMMA StreamRecurrence ==
  ASSUME NEW s, NEW n, AreDigits(s, n)
  PROVE  \E f : f = [i \in 1..(n + 1) |-> IF i > n THEN {<<>>} ELSE Further(s, f, i)]
<1>0. n \in Nat
  BY DEF AreDigits, IsSeq
<1>. DEFINE Steps(f, m) == f = [i \in (n + 1 - m)..(n + 1) |->
                                 IF i > n THEN {<<>>} ELSE Further(s, f, i)]
            S == {m \in Nat : m <= n => \E f : Steps(f, m)}
<1>1. 0 \in S
  <2>1. Steps([i \in (n + 1)..(n + 1) |-> {<<>>}], 0)
    BY <1>0
  <2>. QED  BY <2>1
<1>2. ASSUME NEW m \in Nat, m \in S PROVE m + 1 \in S
  <2>0. SUFFICES ASSUME m + 1 <= n PROVE \E f : Steps(f, m + 1)
    OBVIOUS
  <2>1. PICK f : Steps(f, m)
    BY <1>0, <1>2, <2>0
  <2>. DEFINE g == [i \in (n - m)..(n + 1) |-> IF i > n - m THEN f[i] ELSE Further(s, f, i)]
  <2>2. \A i \in (n - m)..(n + 1) :
          g[i] = IF i > n THEN {<<>>} ELSE Further(s, g, i)
    <3>1. TAKE i \in (n - m)..(n + 1)
    <3>2. i <= n => Further(s, g, i) = Further(s, f, i)
      <4>1. SUFFICES ASSUME i <= n, NEW tlv \in ParseTLV(Drop(s, i - 1))
                     PROVE  g[i + TLVSize(tlv)] = f[i + TLVSize(tlv)]
        <5>. HIDE DEF g
        <5>. QED  BY FurtherIs
      <4>2. i \in 1..n
        BY <1>0, <2>0, <4>1
      <4>3. PICK j : j = i + TLVSize(tlv)
        OBVIOUS
      <4>4. j \in (i + 1)..(n + 1)
        BY <4>2, <4>3, Advances
      <4>5. j \in (n - m)..(n + 1) /\ j > n - m
        BY <1>0, <2>0, <4>2, <4>4
      <4>6. g[j] = f[j]
        BY <4>5
      <4>. QED  BY <4>3, <4>6
    <3>3. CASE i > n - m
      <4>1. g[i] = f[i]
        BY <3>3
      <4>2. f[i] = IF i > n THEN {<<>>} ELSE Further(s, f, i)
        BY <1>0, <2>0, <2>1, <3>3
      <4>. QED  BY <1>0, <3>2, <4>1, <4>2
    <3>4. CASE i = n - m
      <4>1. g[i] = Further(s, f, i) /\ i <= n
        BY <1>0, <2>0, <3>4
      <4>. QED  BY <1>0, <2>0, <3>2, <3>4, <4>1
    <3>. QED  BY <1>0, <2>0, <3>3, <3>4
  <2>3. Steps(g, m + 1)
    <3>1. n + 1 - (m + 1) = n - m
      BY <1>0
    <3>. QED  BY <2>2, <3>1
  <2>. HIDE DEF Steps, g
  <2>. QED  BY <2>3
<1>. HIDE DEF S
<1>3. n \in S
  BY <1>0, <1>1, <1>2, Counting
<1>4. \E f : Steps(f, n)
  BY <1>0, <1>3 DEF S
<1>5. n + 1 - n = 1
  BY <1>0
<1>. QED  BY <1>4, <1>5

LEMMA RecordsEquations ==
  ASSUME NEW s, NEW n, AreDigits(s, n)
  PROVE  \E f : /\ Records(s) = f[1] /\ f[n + 1] = {<<>>}
                /\ \A i \in 1..n : f[i] = Further(s, f, i)
<1>1. n \in Nat /\ Len(s) = n
  BY LenOf DEF AreDigits, IsSeq
<1>. DEFINE f == CHOOSE f : f = [i \in 1..(n + 1) |-> IF i > n THEN {<<>>} ELSE Further(s, f, i)]
<1>2. f = [i \in 1..(n + 1) |-> IF i > n THEN {<<>>} ELSE Further(s, f, i)]
  BY StreamRecurrence
<1>3. Records(s) = f[1]
  BY <1>1, Zenon DEF Records, Further, Before
<1>. HIDE DEF f
<1>4. f[n + 1] = {<<>>} /\ \A i \in 1..n : f[i] = Further(s, f, i)
  <2>1. n + 1 \in 1..(n + 1) /\ n + 1 > n /\ \A i \in 1..n : i \in 1..(n + 1) /\ ~(i > n)
    BY <1>1
  <2>. QED  BY <1>2, <2>1, Zenon
<1>. QED  BY <1>3, <1>4

\* Where one record stands, the loop goes on behind it.
LEMMA StandsAt ==
  ASSUME NEW s, NEW n, AreDigits(s, n), NEW k \in Nat, NEW tlv \in TLVs, NEW z \in Nat,
         z = TLVSize(tlv), k + z <= n, At(s, k + 1, ToEncoding(tlv), z), NEW f, NEW rest,
         f[k + 1 + z] = {rest}
  PROVE  Further(s, f, k + 1) = {Before(tlv, rest)}
<1>1. IsSeq(s, n) /\ n \in Nat /\ k \in 0..n /\ (k + 1) - 1 = k
  BY DEF AreDigits, IsSeq
<1>2. Begins(Drop(s, k), n - k, ToEncoding(tlv), z)
  BY <1>1, BeginsRest
<1>3. ParseTLV(Drop(s, (k + 1) - 1)) = {tlv}
  BY <1>1, <1>2, RecordReads
<1>4. ASSUME NEW x PROVE x \in Further(s, f, k + 1) <=> x = Before(tlv, rest)
  <2>1. x \in Further(s, f, k + 1) <=> \E t \in ParseTLV(Drop(s, (k + 1) - 1)) :
                                         \E o \in f[(k + 1) + TLVSize(t)] : x = Before(t, o)
    BY DEF Further
  <2>. QED  BY <1>3, <2>1, Zenon
<1>. QED  BY <1>4

LEMMA RecordsAreRead ==
  ASSUME NEW tlvs \in Seq(TLVs), NEW N \in Nat \ {0}, Len(tlvs) = N
  PROVE  /\ Records(Written(tlvs)) = {tlvs}
         /\ \E n \in Nat \ {0} : AreDigits(Written(tlvs), n)
<1>1. PICK s : s = Written(tlvs)
  OBVIOUS
<1>2. PICK start : LaidOut(s, tlvs, start, N)
  BY <1>1, WrittenLaysOut
<1>3. PICK n : n = start[N]
  OBVIOUS
<1>4. AreDigits(s, n) /\ n \in Nat /\ start[0] = 0
  BY <1>2, <1>3 DEF LaidOut, AreDigits, IsSeq
<1>5. ASSUME NEW i \in 1..N
      PROVE  /\ tlvs[i] \in TLVs /\ start[i - 1] \in Nat /\ start[i] \in Nat
             /\ TLVSize(tlvs[i]) \in Nat /\ TLVSize(tlvs[i]) >= 1
             /\ start[i] = start[i - 1] + TLVSize(tlvs[i]) /\ start[i] <= n
             /\ At(s, start[i - 1] + 1, ToEncoding(tlvs[i]), TLVSize(tlvs[i]))
  BY <1>2, <1>3 DEF LaidOut
<1>6. PICK f : /\ Records(s) = f[1] /\ f[n + 1] = {<<>>}
               /\ \A i \in 1..n : f[i] = Further(s, f, i)
  BY <1>4, RecordsEquations
<1>7. IsSeq(tlvs, N) /\ \A i \in 1..N : tlvs[i] \in TLVs
  BY SeqIs
<1>. DEFINE S == {m \in Nat : m <= N => f[start[N - m] + 1] = {SubSeq(tlvs, N - m + 1, N)}}
<1>8. 0 \in S
  <2>1. N - 0 = N
    OBVIOUS
  <2>2. SubSeq(tlvs, N + 1, N) = <<>>
    OBVIOUS
  <2>. QED  BY <1>3, <1>6, <2>1, <2>2
<1>9. ASSUME NEW m \in Nat, m \in S PROVE m + 1 \in S
  <2>1. SUFFICES ASSUME m + 1 <= N
                 PROVE  f[start[N - (m + 1)] + 1] = {SubSeq(tlvs, N - (m + 1) + 1, N)}
    OBVIOUS
  <2>2. PICK i : i = N - m
    OBVIOUS
  <2>3. i \in 1..N /\ N - (m + 1) = i - 1 /\ N - (m + 1) + 1 = i
    BY <2>1, <2>2
  <2>4. PICK k, z, tlv, rest : /\ k = start[i - 1] /\ z = TLVSize(tlvs[i]) /\ tlv = tlvs[i]
                               /\ rest = SubSeq(tlvs, i + 1, N)
    OBVIOUS
  <2>5. /\ tlv \in TLVs /\ k \in Nat /\ z \in Nat /\ z >= 1 /\ start[i] = k + z /\ k + z <= n
        /\ At(s, k + 1, ToEncoding(tlv), z) /\ z = TLVSize(tlv)
    BY <1>5, <2>3, <2>4
  <2>6. f[k + z + 1] = {rest}
    <3>1. f[start[i] + 1] = {SubSeq(tlvs, i + 1, N)}
      <4>1. m <= N
        BY <2>1
      <4>2. f[start[N - m] + 1] = {SubSeq(tlvs, (N - m) + 1, N)}
        BY <1>9, <4>1
      <4>. QED  BY <2>2, <4>2
    <3>. QED  BY <2>4, <2>5, <3>1
  <2>7. k + 1 + z = k + z + 1 /\ k + 1 \in 1..n
    BY <1>4, <2>5
  <2>8. f[k + 1] = {Before(tlv, rest)}
    <3>1. Further(s, f, k + 1) = {Before(tlv, rest)}
      BY <1>4, <2>5, <2>6, <2>7, StandsAt
    <3>. QED  BY <1>6, <2>7, <3>1
  <2>9. <<tlv>> \o rest = SubSeq(tlvs, i, N)
    <3>1. PICK r, q : r = <<tlv>> \o rest /\ q = SubSeq(tlvs, i, N)
      OBVIOUS
    <3>2. IsStretch(rest, tlvs, i + 1, N)
      <4>1. i + 1 \in Int /\ N \in Int /\ 1 <= i + 1 /\ i + 1 <= N + 1 /\ (i + 1) - 1 <= N /\ N <= N
        BY <2>3
      <4>. QED  BY <1>7, <2>4, <4>1, StretchIs
    <3>3. IsStretch(q, tlvs, i, N)
      <4>1. i \in Int /\ N \in Int /\ 1 <= i /\ i <= N + 1 /\ i - 1 <= N /\ N <= N
        BY <2>3
      <4>. QED  BY <1>7, <3>1, <4>1, StretchIs
    <3>4. PICK d : d = N - i
      OBVIOUS
    <3>5. d \in Nat /\ N - (i + 1) + 1 = d /\ N - i + 1 = 1 + d
      BY <2>3, <3>4
    <3>6. IsSeq(rest, d) /\ \A j \in 1..d : rest[j] = tlvs[i + 1 + j - 1]
      BY <3>2, <3>5 DEF IsStretch
    <3>7. IsSeq(q, 1 + d) /\ \A j \in 1..(1 + d) : q[j] = tlvs[i + j - 1]
      BY <3>3, <3>5 DEF IsStretch
    <3>8. IsSeq(<<tlv>>, 1) /\ <<tlv>>[1] = tlv
      BY DEF IsSeq
    <3>9. IsJoined(r, <<tlv>>, 1, rest, d)
      BY <3>1, <3>6, <3>8, JoinedParts
    <3>10. r[1] = tlv /\ IsSeq(r, 1 + d) /\ \A j \in 1..d : r[1 + j] = rest[j]
      BY <3>8, <3>9 DEF IsJoined
    <3>11. q[1] = tlv
      <4>1. 1 \in 1..(1 + d) /\ i + 1 - 1 = i /\ i + (1 - 1) = i
        BY <2>3, <3>5
      <4>2. q[1] = tlvs[i + 1 - 1]
        BY <3>7, <4>1
      <4>. QED  BY <2>4, <4>1, <4>2
    <3>12. ASSUME NEW j \in 1..(1 + d) PROVE r[j] = q[j]
      <4>1. CASE j = 1
        BY <3>10, <3>11, <4>1
      <4>2. CASE j # 1
        <5>1. PICK x : x = j - 1
          OBVIOUS
        <5>2. x \in 1..d /\ 1 + x = j /\ i + 1 + x - 1 = i + x /\ i + j - 1 = i + x
          BY <2>3, <3>5, <4>2, <5>1
        <5>3. r[j] = rest[x]
          BY <3>10, <5>2
        <5>4. rest[x] = tlvs[i + 1 + x - 1] /\ q[j] = tlvs[i + j - 1]
          BY <3>6, <3>7, <5>2
        <5>. QED  BY <5>2, <5>3, <5>4
      <4>. QED  BY <4>1, <4>2
    <3>. QED  BY <3>1, <3>7, <3>10, <3>12, SameSeq
  <2>. QED  BY <2>3, <2>4, <2>8, <2>9 DEF Before
<1>. HIDE DEF S
<1>10. N \in S
  BY <1>8, <1>9, Counting
<1>11. f[start[N - N] + 1] = {SubSeq(tlvs, N - N + 1, N)}
  BY <1>10 DEF S
<1>12. N - N = 0 /\ N - N + 1 = 1
  OBVIOUS
<1>13. SubSeq(tlvs, 1, N) = tlvs
  OBVIOUS
<1>14. f[1] = {tlvs}
  BY <1>4, <1>11, <1>12, <1>13
<1>15. n # 0
  <2>1. 1 \in 1..N
    OBVIOUS
  <2>2. /\ start[1 - 1] \in Nat /\ start[1] \in Nat /\ TLVSize(tlvs[1]) \in Nat
        /\ TLVSize(tlvs[1]) >= 1 /\ start[1] = start[1 - 1] + TLVSize(tlvs[1]) /\ start[1] <= n
    BY <1>5, <2>1
  <2>. QED  BY <1>4, <2>2
<1>. QED  BY <1>1, <1>4, <1>6, <1>14, <1>15

-----------------------------------------------------------------------------
(* The loop that fills a payload from its records.                         *)

\* One round of the foreach over the records, for each payload that there is;
\* and what it adds to the records of unknown types.
ReadEach(Q, tlv) == UNION {Read(p, tlv) : p \in Q}
WithOther(others, tlv) == others \o (IF tlv.type \in Known THEN <<>> ELSE <<tlv>>)
Blank == Payload(FALSE, <<>>, 0, 0)

LEMMA ReadRecurrence ==
  ASSUME NEW n \in Nat, NEW t, NEW z
  PROVE  \E f : f = [i \in 0..n |-> IF i = 0 THEN z ELSE ReadEach(f[i - 1], t[i])]
<1>. DEFINE Runs(f, m) == f = [i \in 0..m |-> IF i = 0 THEN z ELSE ReadEach(f[i - 1], t[i])]
            S == {m \in Nat : \E f : Runs(f, m)}
<1>1. 0 \in S
  <2>1. Runs([i \in 0..0 |-> z], 0)
    OBVIOUS
  <2>. QED  BY <2>1
<1>2. ASSUME NEW m \in Nat, m \in S PROVE m + 1 \in S
  <2>1. PICK f : Runs(f, m)
    BY <1>2
  <2>. DEFINE g == [i \in 0..(m + 1) |-> IF i <= m THEN f[i] ELSE ReadEach(f[m], t[i])]
  <2>2. \A i \in 0..(m + 1) : g[i] = IF i = 0 THEN z ELSE ReadEach(g[i - 1], t[i])
    <3>1. TAKE i \in 0..(m + 1)
    <3>2. CASE i <= m
      <4>1. g[i] = f[i] /\ (i # 0 => g[i - 1] = f[i - 1])
        BY <3>2
      <4>2. f[i] = IF i = 0 THEN z ELSE ReadEach(f[i - 1], t[i])
        BY <2>1, <3>2
      <4>. QED  BY <4>1, <4>2
    <3>3. CASE i = m + 1
      <4>1. g[i] = ReadEach(f[m], t[i]) /\ g[i - 1] = f[m] /\ i # 0
        BY <3>3
      <4>. QED  BY <4>1, Zenon
    <3>. QED  BY <3>2, <3>3
  <2>3. Runs(g, m + 1)
    BY <2>2
  <2>. HIDE DEF Runs, g
  <2>. QED  BY <2>3
<1>. HIDE DEF S
<1>3. n \in S
  BY <1>1, <1>2, Counting
<1>. QED  BY <1>3 DEF S

LEMMA UnknownRecurrence ==
  ASSUME NEW n \in Nat, NEW t, NEW z
  PROVE  \E f : f = [i \in 0..n |-> IF i = 0 THEN z ELSE WithOther(f[i - 1], t[i])]
<1>. DEFINE Runs(f, m) == f = [i \in 0..m |-> IF i = 0 THEN z ELSE WithOther(f[i - 1], t[i])]
            S == {m \in Nat : \E f : Runs(f, m)}
<1>1. 0 \in S
  <2>1. Runs([i \in 0..0 |-> z], 0)
    OBVIOUS
  <2>. QED  BY <2>1
<1>2. ASSUME NEW m \in Nat, m \in S PROVE m + 1 \in S
  <2>1. PICK f : Runs(f, m)
    BY <1>2
  <2>. DEFINE g == [i \in 0..(m + 1) |-> IF i <= m THEN f[i] ELSE WithOther(f[m], t[i])]
  <2>2. \A i \in 0..(m + 1) : g[i] = IF i = 0 THEN z ELSE WithOther(g[i - 1], t[i])
    <3>1. TAKE i \in 0..(m + 1)
    <3>2. CASE i <= m
      <4>1. g[i] = f[i] /\ (i # 0 => g[i - 1] = f[i - 1])
        BY <3>2
      <4>2. f[i] = IF i = 0 THEN z ELSE WithOther(f[i - 1], t[i])
        BY <2>1, <3>2
      <4>. QED  BY <4>1, <4>2
    <3>3. CASE i = m + 1
      <4>1. g[i] = WithOther(f[m], t[i]) /\ g[i - 1] = f[m] /\ i # 0
        BY <3>3
      <4>. QED  BY <4>1, Zenon
    <3>. QED  BY <3>2, <3>3
  <2>3. Runs(g, m + 1)
    BY <2>2
  <2>. HIDE DEF Runs, g
  <2>. QED  BY <2>3
<1>. HIDE DEF S
<1>3. n \in S
  BY <1>1, <1>2, Counting
<1>. QED  BY <1>3 DEF S

\* The payloads and the unknown records after each record.
LEMMA ReadAllRuns ==
  ASSUME NEW tlvs, NEW n \in Nat, Len(tlvs) = n
  PROVE  \E f : /\ f[0] = {Blank} /\ f[n] = ReadAll(tlvs)
                /\ \A i \in 1..n : f[i] = ReadEach(f[i - 1], tlvs[i])
<1>1. PICK z : z = {Blank}
  OBVIOUS
<1>. DEFINE f == CHOOSE f : f = [i \in 0..n |-> IF i = 0 THEN z ELSE ReadEach(f[i - 1], tlvs[i])]
<1>2. f = [i \in 0..n |-> IF i = 0 THEN z ELSE ReadEach(f[i - 1], tlvs[i])]
  BY ReadRecurrence
<1>3. ReadAll(tlvs) = f[n]
  BY <1>1, Zenon DEF ReadAll, ReadEach, Blank
<1>. HIDE DEF f
<1>4. f[0] = z /\ \A i \in 1..n : f[i] = ReadEach(f[i - 1], tlvs[i])
  BY <1>2
<1>. QED  BY <1>1, <1>3, <1>4

LEMMA UnknownRuns ==
  ASSUME NEW tlvs, NEW n \in Nat, Len(tlvs) = n
  PROVE  \E f : /\ f[0] = <<>> /\ f[n] = Unknown(tlvs)
                /\ \A i \in 1..n : f[i] = WithOther(f[i - 1], tlvs[i])
<1>1. PICK z : z = <<>>
  OBVIOUS
<1>. DEFINE f == CHOOSE f : f = [i \in 0..n |-> IF i = 0 THEN z ELSE WithOther(f[i - 1], tlvs[i])]
<1>2. f = [i \in 0..n |-> IF i = 0 THEN z ELSE WithOther(f[i - 1], tlvs[i])]
  BY UnknownRecurrence
<1>3. Unknown(tlvs) = f[n]
  BY <1>1, Zenon DEF Unknown, WithOther
<1>. HIDE DEF f
<1>4. f[0] = z /\ \A i \in 1..n : f[i] = WithOther(f[i - 1], tlvs[i])
  BY <1>2
<1>. QED  BY <1>1, <1>3, <1>4

\* What has been read: the unknown records in order, and payment data if there
\* was a record of them.
HasFields(p) ==
  p = [legacy |-> p.legacy, ChannelId |-> p.ChannelId, AmountToForward |-> p.AmountToForward,
       OutgoingCltvValue |-> p.OutgoingCltvValue, PaymentData |-> p.PaymentData,
       PaymentMetadata |-> p.PaymentMetadata, OtherTLVs |-> p.OtherTLVs]

Paid(tlvs, m) == \E i \in 1..m : tlvs[i].type = 8

HasRead(p, others, tlvs, m) ==
  HasFields(p) /\ p.OtherTLVs = others /\ (p.PaymentData # {} <=> Paid(tlvs, m))

WithAmount(p, x) == [p EXCEPT !.AmountToForward = x]
WithExpiry(p, x) == [p EXCEPT !.OutgoingCltvValue = x]
WithChannel(p, x) == [p EXCEPT !.ChannelId = x]
WithAmounts(p, values) == {WithAmount(p, ToUInt64(v, 1)) : v \in values}
WithExpiries(p, values) == {WithExpiry(p, ToUInt32(v, 1)) : v \in values}

\* What a record of each type does.
LEMMA ReadForms ==
  ASSUME NEW p, NEW tlv
  PROVE  /\ tlv.type = 2 =>
              Read(p, tlv) = WithAmounts(p, Untrim(tlv.value, 8))
         /\ tlv.type = 4 =>
              Read(p, tlv) = WithExpiries(p, Untrim(tlv.value, 4))
         /\ tlv.type = 6 => Read(p, tlv) = {WithChannel(p, tlv.value)}
         /\ tlv.type = 8 =>
              /\ \A q \in Read(p, tlv) : \E x : x # {} /\ q = [p EXCEPT !.PaymentData = x]
              /\ (\E q : q \in Read(p, tlv)) <=>
                   ~(Len(tlv.value) < 32) /\ \E v : v \in Untrim(Drop(tlv.value, 32), 8)
         /\ tlv.type = 16 => Read(p, tlv) = {[p EXCEPT !.PaymentMetadata = {tlv.value}]}
         /\ tlv.type \notin {2, 4, 6, 8, 16} =>
              Read(p, tlv) = {[p EXCEPT !.OtherTLVs = Append(p.OtherTLVs, tlv)]}
<1>. PICK t : t = tlv.type
  OBVIOUS
<1>1. PICK a : a = WithAmounts(p, Untrim(tlv.value, 8))
  OBVIOUS
<1>2. PICK b : b = WithExpiries(p, Untrim(tlv.value, 4))
  OBVIOUS
<1>3. PICK c : c = {WithChannel(p, tlv.value)}
  OBVIOUS
<1>4. PICK d : d = IF Len(tlv.value) < 32 THEN {}
                   ELSE {[p EXCEPT !.PaymentData = {<<SubSeq(tlv.value, 1, 32), ToUInt64(v, 1)>>}] :
                           v \in Untrim(Drop(tlv.value, 32), 8)}
  OBVIOUS
<1>5. PICK e : e = {[p EXCEPT !.PaymentMetadata = {tlv.value}]}
  OBVIOUS
<1>6. PICK f : f = {[p EXCEPT !.OtherTLVs = Append(p.OtherTLVs, tlv)]}
  OBVIOUS
<1>7. Read(p, tlv) = CASE t = 2 -> a [] t = 4 -> b [] t = 6 -> c [] t = 8 -> d [] t = 16 -> e
                       [] OTHER -> f
  BY <1>1, <1>2, <1>3, <1>4, <1>5, <1>6, Zenon
     DEF WithAmounts, WithAmount, WithExpiries, WithExpiry, WithChannel, Read,
         AMOUNT_TO_FORWARD, OUTGOING_CLTV_VALUE, SHORT_CHANNEL_ID,
         PAYMENT_DATA, PAYMENT_METADATA
<1>8. \A q \in d : \E x : x # {} /\ q = [p EXCEPT !.PaymentData = x]
  <2>1. \A q \in d : \E y : q = [p EXCEPT !.PaymentData = {y}]
    BY <1>4, Zenon
  <2>2. \A y : {y} # {}
    OBVIOUS
  <2>. QED  BY <2>1, <2>2, Zenon
<1>10. (\E q : q \in d) <=>
          ~(Len(tlv.value) < 32) /\ \E v : v \in Untrim(Drop(tlv.value, 32), 8)
  <2>1. PICK g : g = {[p EXCEPT !.PaymentData = {<<SubSeq(tlv.value, 1, 32), ToUInt64(v, 1)>>}] :
                        v \in Untrim(Drop(tlv.value, 32), 8)}
    OBVIOUS
  <2>2. (\E q : q \in g) <=> \E v : v \in Untrim(Drop(tlv.value, 32), 8)
    BY <2>1, Zenon
  <2>3. d = IF Len(tlv.value) < 32 THEN {} ELSE g
    BY <1>4, <2>1, Zenon
  <2>. QED  BY <2>2, <2>3
<1>9. /\ t = 2 => Read(p, tlv) = a
      /\ t = 4 => Read(p, tlv) = b
      /\ t = 6 => Read(p, tlv) = c
      /\ t = 8 => Read(p, tlv) = d
      /\ t = 16 => Read(p, tlv) = e
      /\ t \notin {2, 4, 6, 8, 16} => Read(p, tlv) = f
  BY <1>7
<1>. QED  BY <1>1, <1>2, <1>3, <1>5, <1>6, <1>8, <1>9, <1>10, Zenon

LEMMA ReadChanges ==
  ASSUME NEW p, NEW tlv, NEW q \in Read(p, tlv)
  PROVE  /\ tlv.type = 2 => \E x : q = [p EXCEPT !.AmountToForward = x]
         /\ tlv.type = 4 => \E x : q = [p EXCEPT !.OutgoingCltvValue = x]
         /\ tlv.type = 6 => \E x : q = [p EXCEPT !.ChannelId = x]
         /\ tlv.type = 8 => \E x : x # {} /\ q = [p EXCEPT !.PaymentData = x]
         /\ tlv.type = 16 => \E x : q = [p EXCEPT !.PaymentMetadata = x]
<1>1. \A r \in WithAmounts(p, Untrim(tlv.value, 8)) :
        \E x : r = [p EXCEPT !.AmountToForward = x]
  BY Zenon DEF WithAmounts, WithAmount
<1>2. \A r \in WithExpiries(p, Untrim(tlv.value, 4)) :
        \E x : r = [p EXCEPT !.OutgoingCltvValue = x]
  BY Zenon DEF WithExpiries, WithExpiry
<1>3. \A r \in {WithChannel(p, tlv.value)} : \E x : r = [p EXCEPT !.ChannelId = x]
  BY Zenon DEF WithChannel
<1>4. \A r \in {[p EXCEPT !.PaymentMetadata = {tlv.value}]} :
        \E x : r = [p EXCEPT !.PaymentMetadata = x]
  BY Zenon
<1>5. tlv.type = 2 => \E x : q = [p EXCEPT !.AmountToForward = x]
  <2>1. SUFFICES ASSUME tlv.type = 2 PROVE \E x : q = [p EXCEPT !.AmountToForward = x]
    OBVIOUS
  <2>2. Read(p, tlv) = WithAmounts(p, Untrim(tlv.value, 8))
    BY <2>1, ReadForms
  <2>. QED  BY <1>1, <2>2
<1>6. tlv.type = 4 => \E x : q = [p EXCEPT !.OutgoingCltvValue = x]
  <2>1. SUFFICES ASSUME tlv.type = 4 PROVE \E x : q = [p EXCEPT !.OutgoingCltvValue = x]
    OBVIOUS
  <2>2. Read(p, tlv) = WithExpiries(p, Untrim(tlv.value, 4))
    BY <2>1, ReadForms
  <2>. QED  BY <1>2, <2>2
<1>7. tlv.type = 6 => \E x : q = [p EXCEPT !.ChannelId = x]
  <2>1. SUFFICES ASSUME tlv.type = 6 PROVE \E x : q = [p EXCEPT !.ChannelId = x]
    OBVIOUS
  <2>2. Read(p, tlv) = {WithChannel(p, tlv.value)}
    BY <2>1, ReadForms
  <2>. QED  BY <1>3, <2>2
<1>8. tlv.type = 8 => \E x : x # {} /\ q = [p EXCEPT !.PaymentData = x]
  <2>1. SUFFICES ASSUME tlv.type = 8 PROVE \E x : x # {} /\ q = [p EXCEPT !.PaymentData = x]
    OBVIOUS
  <2>2. \A r \in Read(p, tlv) : \E x : x # {} /\ r = [p EXCEPT !.PaymentData = x]
    BY <2>1, ReadForms
  <2>. QED  BY <2>2, Zenon
<1>9. tlv.type = 16 => \E x : q = [p EXCEPT !.PaymentMetadata = x]
  <2>1. SUFFICES ASSUME tlv.type = 16 PROVE \E x : q = [p EXCEPT !.PaymentMetadata = x]
    OBVIOUS
  <2>2. Read(p, tlv) = {[p EXCEPT !.PaymentMetadata = {tlv.value}]}
    BY <2>1, ReadForms
  <2>. QED  BY <1>4, <2>2
<1>. QED  BY <1>5, <1>6, <1>7, <1>8, <1>9, Zenon

LEMMA PaidGrows ==
  ASSUME NEW tlvs, NEW m \in Nat
  PROVE  Paid(tlvs, m + 1) <=> Paid(tlvs, m) \/ tlvs[m + 1].type = 8
BY DEF Paid

LEMMA ReadKeeps ==
  ASSUME NEW p, NEW others \in Seq(TLVs), NEW tlvs, NEW m \in Nat, HasRead(p, others, tlvs, m),
         NEW tlv \in TLVs, tlv = tlvs[m + 1], NEW q \in Read(p, tlv)
  PROVE  HasRead(q, WithOther(others, tlv), tlvs, m + 1)
<1>1. HasFields(p) /\ p.OtherTLVs = others /\ (p.PaymentData # {} <=> Paid(tlvs, m))
  BY DEF HasRead
<1>2. Known = {2, 4, 6, 8, 16}
  BY DEF Known, AMOUNT_TO_FORWARD, OUTGOING_CLTV_VALUE, SHORT_CHANNEL_ID, PAYMENT_DATA,
         PAYMENT_METADATA
<1>3. Paid(tlvs, m + 1) <=> Paid(tlvs, m) \/ tlv.type = 8
  BY PaidGrows
<1>4. CASE tlv.type \in {2, 4, 6, 16}
  <2>1. HasFields(q) /\ q.OtherTLVs = others /\ q.PaymentData = p.PaymentData
    <3>1. CASE tlv.type = 2
      <4>1. PICK x : q = [p EXCEPT !.AmountToForward = x]
        BY <3>1, ReadChanges
      <4>. QED  BY <1>1, <4>1 DEF HasFields
    <3>2. CASE tlv.type = 4
      <4>1. PICK x : q = [p EXCEPT !.OutgoingCltvValue = x]
        BY <3>2, ReadChanges
      <4>. QED  BY <1>1, <4>1 DEF HasFields
    <3>3. CASE tlv.type = 6
      <4>1. PICK x : q = [p EXCEPT !.ChannelId = x]
        BY <3>3, ReadChanges
      <4>. QED  BY <1>1, <4>1 DEF HasFields
    <3>4. CASE tlv.type = 16
      <4>1. PICK x : q = [p EXCEPT !.PaymentMetadata = x]
        BY <3>4, ReadChanges
      <4>. QED  BY <1>1, <4>1 DEF HasFields
    <3>. QED  BY <1>4, <3>1, <3>2, <3>3, <3>4
  <2>2. WithOther(others, tlv) = others
    <3>1. others \o <<>> = others
      OBVIOUS
    <3>. QED  BY <1>2, <1>4, <3>1 DEF WithOther
  <2>3. tlv.type # 8
    BY <1>4
  <2>. QED  BY <1>1, <1>3, <2>1, <2>2, <2>3 DEF HasRead
<1>5. CASE tlv.type = 8
  <2>1. PICK x : x # {} /\ q = [p EXCEPT !.PaymentData = x]
    BY <1>5, ReadChanges
  <2>2. HasFields(q) /\ q.OtherTLVs = others /\ q.PaymentData = x /\ x # {}
    BY <1>1, <2>1 DEF HasFields
  <2>3. WithOther(others, tlv) = others
    <3>1. others \o <<>> = others
      OBVIOUS
    <3>. QED  BY <1>2, <1>5, <3>1 DEF WithOther
  <2>. QED  BY <1>3, <1>5, <2>2, <2>3 DEF HasRead
<1>6. CASE tlv.type \notin {2, 4, 6, 8, 16}
  <2>1. PICK x : x = Append(others, tlv)
    OBVIOUS
  <2>2. q = [p EXCEPT !.OtherTLVs = x]
    <3>1. q = [p EXCEPT !.OtherTLVs = Append(p.OtherTLVs, tlv)]
      BY <1>6, ReadForms
    <3>. QED  BY <1>1, <2>1, <3>1
  <2>3. HasFields(q) /\ q.OtherTLVs = x /\ q.PaymentData = p.PaymentData
    BY <1>1, <2>2 DEF HasFields
  <2>4. WithOther(others, tlv) = x
    <3>1. Append(others, tlv) = others \o <<tlv>>
      OBVIOUS
    <3>2. WithOther(others, tlv) = others \o <<tlv>>
      BY <1>2, <1>6, Zenon DEF WithOther
    <3>. QED  BY <2>1, <3>1, <3>2
  <2>5. tlv.type # 8
    BY <1>6
  <2>. QED  BY <1>1, <1>3, <2>3, <2>4, <2>5 DEF HasRead
<1>. QED  BY <1>4, <1>5, <1>6

LEMMA RecordsAreSorted ==
  ASSUME NEW tlvs \in Seq(TLVs), NEW p \in ReadAll(tlvs)
  PROVE  /\ p.OtherTLVs = Unknown(tlvs)
         /\ p.PaymentData # {} <=> \E i \in 1..Len(tlvs) : tlvs[i].type = 8
<1>1. PICK n \in Nat : Len(tlvs) = n
  OBVIOUS
<1>2. PICK f : /\ f[0] = {Blank} /\ f[n] = ReadAll(tlvs)
               /\ \A i \in 1..n : f[i] = ReadEach(f[i - 1], tlvs[i])
  BY <1>1, ReadAllRuns
<1>3. PICK g : /\ g[0] = <<>> /\ g[n] = Unknown(tlvs)
               /\ \A i \in 1..n : g[i] = WithOther(g[i - 1], tlvs[i])
  BY <1>1, UnknownRuns
<1>. DEFINE S == {m \in Nat : m <= n => /\ g[m] \in Seq(TLVs)
                                        /\ \A q \in f[m] : HasRead(q, g[m], tlvs, m)}
<1>4. 0 \in S
  <2>1. ~Paid(tlvs, 0)
    BY DEF Paid
  <2>2. HasRead(Blank, <<>>, tlvs, 0)
    BY <2>1 DEF Blank, Payload, HasRead, HasFields
  <2>3. <<>> \in Seq(TLVs)
    OBVIOUS
  <2>. QED  BY <1>2, <1>3, <2>2, <2>3
<1>5. ASSUME NEW m \in Nat, m \in S PROVE m + 1 \in S
  <2>1. SUFFICES ASSUME m + 1 <= n
                 PROVE  /\ g[m + 1] \in Seq(TLVs)
                        /\ \A q \in f[m + 1] : HasRead(q, g[m + 1], tlvs, m + 1)
    OBVIOUS
  <2>2. m + 1 \in 1..n /\ (m + 1) - 1 = m
    BY <2>1
  <2>3. PICK tlv : tlv = tlvs[m + 1]
    OBVIOUS
  <2>4. tlv \in TLVs
    BY <1>1, <2>2, <2>3
  <2>5. g[m] \in Seq(TLVs) /\ \A q \in f[m] : HasRead(q, g[m], tlvs, m)
    BY <1>5, <2>1
  <2>6. g[m + 1] = WithOther(g[m], tlv) /\ f[m + 1] = ReadEach(f[m], tlv)
    BY <1>2, <1>3, <2>2, <2>3
  <2>7. WithOther(g[m], tlv) \in Seq(TLVs)
    <3>1. PICK s \in Seq(TLVs) : s = g[m]
      BY <2>5
    <3>2. s \o <<>> \in Seq(TLVs) /\ s \o <<tlv>> \in Seq(TLVs)
      BY <2>4
    <3>. QED  BY <3>1, <3>2 DEF WithOther
  <2>8. ASSUME NEW q \in f[m + 1] PROVE HasRead(q, g[m + 1], tlvs, m + 1)
    <3>1. PICK o \in f[m] : q \in Read(o, tlv)
      BY <2>6 DEF ReadEach
    <3>. QED  BY <2>3, <2>4, <2>5, <2>6, <3>1, ReadKeeps
  <2>. QED  BY <2>6, <2>7, <2>8
<1>. HIDE DEF S
<1>6. n \in S
  BY <1>4, <1>5, Counting
<1>7. HasRead(p, g[n], tlvs, n)
  BY <1>2, <1>6 DEF S
<1>. QED  BY <1>1, <1>3, <1>7 DEF HasRead, Paid

\* A record does something exactly if it fits.
LEMMA UntrimThere ==
  ASSUME NEW s \in Strings, NEW w \in Nat
  PROVE  (\E v : v \in Untrim(s, w)) <=> Len(s) <= w
<1>1. Len(s) \in Nat
  BY DEF Strings
<1>2. PICK x : x = [i \in 1..(w - Len(s)) |-> 0] \o s
  OBVIOUS
<1>3. Untrim(s, w) = IF Len(s) > w THEN {} ELSE {x}
  BY <1>2, Zenon DEF Untrim
<1>. QED  BY <1>1, <1>3

LEMMA ReadIsThere ==
  ASSUME NEW p, NEW tlv \in TLVs
  PROVE  (\E q : q \in Read(p, tlv)) <=> Fits(tlv)
<1>1. PICK t, s : t = tlv.type /\ s = tlv.value
  OBVIOUS
<1>2. s \in Strings /\ Len(s) \in Nat
  BY <1>1 DEF TLVs, Strings
<1>3. Fits(tlv) <=> (t = 2 => Len(s) <= 8) /\ (t = 4 => Len(s) <= 4) /\ (t = 8 => Len(s) \in 32..40)
  BY <1>1, Zenon DEF Fits, AMOUNT_TO_FORWARD, OUTGOING_CLTV_VALUE, PAYMENT_DATA
<1>4. CASE t = 2
  <2>1. Read(p, tlv) = WithAmounts(p, Untrim(s, 8))
    BY <1>1, <1>4, ReadForms
  <2>2. (\E q : q \in WithAmounts(p, Untrim(s, 8))) <=> \E v : v \in Untrim(s, 8)
    BY Zenon DEF WithAmounts
  <2>3. (\E v : v \in Untrim(s, 8)) <=> Len(s) <= 8
    BY <1>2, UntrimThere
  <2>. QED  BY <1>3, <1>4, <2>1, <2>2, <2>3
<1>5. CASE t = 4
  <2>1. Read(p, tlv) = WithExpiries(p, Untrim(s, 4))
    BY <1>1, <1>5, ReadForms
  <2>2. (\E q : q \in WithExpiries(p, Untrim(s, 4))) <=> \E v : v \in Untrim(s, 4)
    BY Zenon DEF WithExpiries
  <2>3. (\E v : v \in Untrim(s, 4)) <=> Len(s) <= 4
    BY <1>2, UntrimThere
  <2>. QED  BY <1>3, <1>5, <2>1, <2>2, <2>3
<1>6. CASE t = 8
  <2>1. (\E q : q \in Read(p, tlv)) <=> ~(Len(s) < 32) /\ \E v : v \in Untrim(Drop(s, 32), 8)
    BY <1>1, <1>6, ReadForms
  <2>2. ASSUME Len(s) >= 32
        PROVE  (\E v : v \in Untrim(Drop(s, 32), 8)) <=> Len(s) <= 40
    <3>1. PICK n, d : n = Len(s) /\ d = Drop(s, 32)
      OBVIOUS
    <3>2. n \in Nat /\ 32 <= n /\ AreDigits(s, n)
      BY <1>2, <2>2, <3>1, StringDigits
    <3>3. IsRest(d, s, 32, n)
      BY <3>1, <3>2, DropIs DEF AreDigits
    <3>4. AreDigits(d, n - 32) /\ n - 32 \in Nat
      BY <3>2, <3>3, RestDigits
    <3>5. d \in Strings /\ Len(d) = n - 32
      <4>1. PICK k \in Nat : k = n - 32
        BY <3>4
      <4>2. IsSeq(d, k) /\ \A j \in 1..k : d[j] \in Digit
        BY <3>4, <4>1 DEF AreDigits
      <4>3. d \in Seq(Digit) /\ Len(d) = k
        BY <4>1, <4>2, AsSeq, LenOf DEF IsSeq
      <4>. QED  BY <4>1, <4>3 DEF Strings
    <3>6. (\E v : v \in Untrim(d, 8)) <=> Len(d) <= 8
      BY <3>5, UntrimThere
    <3>. QED  BY <3>1, <3>2, <3>5, <3>6
  <2>3. Fits(tlv) <=> Len(s) >= 32 /\ Len(s) <= 40
    <3>1. Len(s) \in 32..40 <=> Len(s) >= 32 /\ Len(s) <= 40
      <4>1. PICK l \in Nat : l = Len(s)
        BY <1>2
      <4>2. l \in 32..40 <=> l >= 32 /\ l <= 40
        OBVIOUS
      <4>. QED  BY <4>1, <4>2, Zenon
    <3>2. Fits(tlv) <=> Len(s) \in 32..40
      <4>1. t # 2 /\ t # 4
        BY <1>6
      <4>. QED  BY <1>3, <1>6, <4>1, Zenon
    <3>. QED  BY <3>1, <3>2
  <2>4. ~(Len(s) < 32) <=> Len(s) >= 32
    BY <1>2
  <2>. QED  BY <2>1, <2>2, <2>3, <2>4, Zenon
<1>7. CASE t \notin {2, 4, 8}
  <2>1. \E q : q \in Read(p, tlv)
    <3>1. t = 6 => Read(p, tlv) = {WithChannel(p, tlv.value)}
      BY <1>1, ReadForms
    <3>2. t = 16 => Read(p, tlv) = {[p EXCEPT !.PaymentMetadata = {tlv.value}]}
      BY <1>1, ReadForms
    <3>3. t \notin {2, 4, 6, 8, 16} =>
            Read(p, tlv) = {[p EXCEPT !.OtherTLVs = Append(p.OtherTLVs, tlv)]}
      BY <1>1, ReadForms
    <3>4. \A x : \E q : q \in {x}
      OBVIOUS
    <3>5. t \in {6, 16} \/ t \notin {2, 4, 6, 8, 16}
      BY <1>7
    <3>6. t \in {6, 16} => t = 6 \/ t = 16
      OBVIOUS
    <3>7. CASE t = 6
      BY <3>1, <3>4, <3>7
    <3>8. CASE t = 16
      BY <3>2, <3>4, <3>8, Zenon
    <3>9. CASE t \notin {2, 4, 6, 8, 16}
      BY <3>3, <3>4, <3>9, Zenon
    <3>. QED  BY <3>5, <3>6, <3>7, <3>8, <3>9, Zenon
  <2>. QED  BY <1>3, <1>7, <2>1
<1>. QED  BY <1>4, <1>5, <1>6, <1>7

LEMMA PayloadIsThere ==
  ASSUME NEW tlvs \in Seq(TLVs)
  PROVE  ReadAll(tlvs) # {} <=> \A i \in 1..Len(tlvs) : Fits(tlvs[i])
<1>1. PICK n \in Nat : Len(tlvs) = n
  OBVIOUS
<1>2. PICK f : /\ f[0] = {Blank} /\ f[n] = ReadAll(tlvs)
               /\ \A i \in 1..n : f[i] = ReadEach(f[i - 1], tlvs[i])
  BY <1>1, ReadAllRuns
<1>. DEFINE There(m) == (\E q : q \in f[m]) <=> \A i \in 1..m : Fits(tlvs[i])
            S == {m \in Nat : m <= n => There(m)}
<1>3. 0 \in S
  <2>1. \E q : q \in f[0]
    BY <1>2
  <2>. QED  BY <2>1
<1>4. ASSUME NEW m \in Nat, m \in S PROVE m + 1 \in S
  <2>1. SUFFICES ASSUME m + 1 <= n PROVE There(m + 1)
    OBVIOUS
  <2>2. m + 1 \in 1..n /\ (m + 1) - 1 = m /\ There(m)
    BY <1>4, <2>1
  <2>3. PICK tlv : tlv = tlvs[m + 1]
    OBVIOUS
  <2>4. tlv \in TLVs
    BY <1>1, <2>2, <2>3
  <2>5. f[m + 1] = ReadEach(f[m], tlv)
    BY <1>2, <2>2, <2>3
  <2>6. (\E q : q \in f[m + 1]) <=> \E o \in f[m] : \E q : q \in Read(o, tlv)
    BY <2>5, Zenon DEF ReadEach
  <2>7. \A o : (\E q : q \in Read(o, tlv)) <=> Fits(tlv)
    BY <2>4, ReadIsThere
  <2>8. (\E q : q \in f[m + 1]) <=> (\E o : o \in f[m]) /\ Fits(tlv)
    BY <2>6, <2>7, Zenon
  <2>9. (\A i \in 1..(m + 1) : Fits(tlvs[i])) <=> (\A i \in 1..m : Fits(tlvs[i])) /\ Fits(tlv)
    <3>1. \A i \in 1..(m + 1) : i \in 1..m \/ i = m + 1
      OBVIOUS
    <3>2. (\A i \in 1..m : i \in 1..(m + 1)) /\ m + 1 \in 1..(m + 1)
      OBVIOUS
    <3>. QED  BY <2>3, <3>1, <3>2, Zenon
  <2>. QED  BY <2>2, <2>8, <2>9, Zenon
<1>. HIDE DEF S
<1>5. n \in S
  BY <1>3, <1>4, Counting
<1>6. There(n)
  BY <1>5 DEF S
<1>7. (\E q : q \in ReadAll(tlvs)) <=> ReadAll(tlvs) # {}
  OBVIOUS
<1>. QED  BY <1>1, <1>2, <1>6, <1>7

-----------------------------------------------------------------------------
(* A payload for the final hop.                                            *)

\* A length that is not 0 does not begin with the mark of a legacy payload.
LEMMA NotLegacy ==
  ASSUME NEW v \in Values, v # 0
  PROVE  Encoding(v)[1] # 0
<1>1. Base \in Nat /\ Base >= 4 /\ v \in Nat
  BY Bases DEF Values
<1>2. ASSUME NEW first, NEW digits, NEW n, HasForm(v, first, digits, n)
      PROVE  Encoding(v)[1] = first
  <2>1. PICK e : e = Encoding(v)
    OBVIOUS
  <2>2. IsJoined(e, <<first>>, 1, digits, n)
    BY <1>2, <2>1 DEF HasForm
  <2>3. e[1] = <<first>>[1]
    BY <2>2 DEF IsJoined
  <2>. QED  BY <2>1, <2>3
<1>3. Base - 3 # 0 /\ Base - 2 # 0 /\ Base - 1 # 0
  BY <1>1
<1>. QED  BY <1>2, <1>3, Forms

\* The records behind their length: ParseSphinx reads what Records finds.
LEMMA StreamIsRead ==
  ASSUME NEW s, NEW n \in Ints, n # 0, AreDigits(s, n), NEW r, NEW m, IsSeq(r, m)
  PROVE  ParseSphinx((Encoding(n) \o s) \o r) = UNION {ReadAll(tlvs) : tlvs \in Records(s)}
<1>1. n \in Values /\ n \in Nat
  BY IntsCast
<1>2. PICK a, e : a = Length(n) /\ e = Encoding(n)
  OBVIOUS
<1>3. a \in Nat /\ a >= 1 /\ IsSeq(e, a) /\ e[1] # 0
  BY <1>1, <1>2, EncodingShape, NotLegacy DEF AreDigits
<1>4. IsSeq(s, n) /\ m \in Nat
  BY DEF AreDigits, IsSeq
<1>5. PICK y, x : y = e \o s /\ x = y \o r
  OBVIOUS
<1>6. IsJoined(y, e, a, s, n)
  BY <1>3, <1>4, <1>5, JoinedParts
<1>7. IsSeq(y, a + n) /\ \A j \in 1..a : y[j] = e[j]
  BY <1>6 DEF IsJoined
<1>8. \A j \in 1..n : y[a + j] = s[j]
  BY <1>6 DEF IsJoined
<1>9. IsJoined(x, y, a + n, r, m)
  BY <1>5, <1>7, JoinedParts
<1>10. PICK w : w = a + n + m
  OBVIOUS
<1>11. IsSeq(x, w) /\ w \in Nat /\ a <= w /\ a + n <= w /\ w # 0 /\ Len(x) = w
  <2>1. w \in Nat /\ a <= w /\ a + n <= w /\ w # 0
    BY <1>1, <1>3, <1>4, <1>10
  <2>2. IsSeq(x, w)
    BY <1>9, <1>10 DEF IsJoined
  <2>. QED  BY <2>1, <2>2, LenOf
<1>12. \A j \in 1..a : x[j] = e[j]
  <2>1. \A j \in 1..a : j \in 1..(a + n)
    BY <1>1, <1>3
  <2>. QED  BY <1>7, <1>9, <2>1 DEF IsJoined
<1>13. \A j \in 1..n : x[a + j] = s[j]
  <2>1. \A j \in 1..n : a + j \in 1..(a + n)
    BY <1>1, <1>3
  <2>. QED  BY <1>8, <1>9, <2>1 DEF IsJoined
<1>14. Begins(x, w, e, a)
  <2>1. \A j \in 1..a : 1 - 1 + j = j
    BY <1>3
  <2>. QED  BY <1>11, <1>12, <2>1 DEF Begins, At
<1>15. At(x, a + 1, s, n)
  <2>1. \A j \in 1..n : (a + 1) - 1 + j = a + j
    BY <1>1, <1>3
  <2>. QED  BY <1>13, <2>1 DEF At
<1>16. Delimited(x) = {s}
  BY <1>2, <1>4, <1>11, <1>14, <1>15, DelimitedReads
<1>17. x # <<>> /\ x[1] # 0
  <2>1. Len(<<>>) = 0
    OBVIOUS
  <2>2. x[1] = e[1]
    BY <1>3, <1>12
  <2>. QED  BY <1>3, <1>11, <2>1, <2>2
<1>18. ParseSphinx(x) = UNION {UNION {ReadAll(tlvs) : tlvs \in Records(stream)} : stream \in Delimited(x)}
  BY <1>17, Zenon DEF ParseSphinx
<1>19. PICK q : q = UNION {ReadAll(tlvs) : tlvs \in Records(s)}
  OBVIOUS
<1>20. {UNION {ReadAll(tlvs) : tlvs \in Records(stream)} : stream \in {s}} = {q}
  BY <1>19
<1>21. ParseSphinx(x) = UNION {q}
  BY <1>16, <1>18, <1>20
<1>. QED  BY <1>2, <1>5, <1>19, <1>21

\* Records that fit an int, as the payload of a final hop.
LEMMA FinalIsRead ==
  ASSUME NEW tlvs \in Seq(TLVs), tlvs # <<>>, Len(Written(tlvs)) \in Ints, NEW r \in Strings
  PROVE  /\ Records(Written(tlvs)) = {tlvs}
         /\ ParseSphinx(Encoding(Len(Written(tlvs))) \o Written(tlvs) \o r) = ReadAll(tlvs)
<1>1. PICK N \in Nat \ {0} : Len(tlvs) = N
  OBVIOUS
<1>2. PICK s, m : s = Written(tlvs) /\ m = Len(r)
  OBVIOUS
<1>3. Records(s) = {tlvs}
  BY <1>1, <1>2, RecordsAreRead
<1>4. PICK n \in Nat \ {0} : AreDigits(s, n)
  BY <1>1, <1>2, RecordsAreRead
<1>5. Len(s) = n /\ n \in Ints /\ n # 0
  BY <1>2, <1>4, LenOf DEF AreDigits
<1>6. IsSeq(r, m)
  BY <1>2, StringDigits
<1>7. ParseSphinx((Encoding(n) \o s) \o r) = UNION {ReadAll(t) : t \in {tlvs}}
  BY <1>3, <1>4, <1>5, <1>6, StreamIsRead
<1>8. UNION {ReadAll(t) : t \in {tlvs}} = ReadAll(tlvs)
  OBVIOUS
<1>. QED  BY <1>2, <1>3, <1>5, <1>7, <1>8

-----------------------------------------------------------------------------
(* Numbers without their leading zeros; legacy payloads.                   *)

LEMMA GreatestIn ==
  ASSUME NEW n \in Nat, NEW Z \in SUBSET (0..n), 0 \in Z
  PROVE  \E i \in Z : \A j \in Z : j <= i
<1>1. SUFFICES ASSUME \A i \in Z : \E j \in Z : ~(j <= i) PROVE FALSE
  OBVIOUS
<1>. DEFINE S == {m \in Nat : \E i \in Z : i >= m}
<1>2. 0 \in S
  OBVIOUS
<1>3. ASSUME NEW m \in Nat, m \in S PROVE m + 1 \in S
  <2>1. PICK i \in Z : i >= m
    BY <1>3
  <2>2. PICK j \in Z : ~(j <= i)
    BY <1>1
  <2>3. i \in Nat /\ j \in Nat
    OBVIOUS
  <2>4. j >= m + 1
    BY <2>1, <2>2, <2>3
  <2>. QED  BY <2>4
<1>. HIDE DEF S
<1>4. n + 1 \in S
  BY <1>2, <1>3, Counting
<1>5. PICK i \in Z : i >= n + 1
  BY <1>4 DEF S
<1>. QED  BY <1>5

\* Leading zeros are left out, and put back.
IsTrimmed(t, s, n, k) ==
  /\ k \in 0..n /\ IsRest(t, s, k, n)
  /\ \A j \in 1..k : s[j] = 0

LEMMA TrimmedIs ==
  ASSUME NEW s, NEW n, IsSeq(s, n)
  PROVE  \E k : IsTrimmed(TrimZeros(s), s, n, k)
<1>1. n \in Nat /\ Len(s) = n
  BY LenOf DEF IsSeq
<1>. DEFINE Z == {i \in 0..n : \A j \in 1..i : s[j] = 0}
            k == CHOOSE i \in Z : \A j \in Z : j <= i
<1>2. TrimZeros(s) = Drop(s, k)
  BY <1>1, Zenon DEF TrimZeros
<1>3. Z \in SUBSET (0..n) /\ 0 \in Z
  BY <1>1
<1>4. k \in Z
  <2>1. \E i \in Z : \A j \in Z : j <= i
    <3>. HIDE DEF Z
    <3>. QED  BY <1>1, <1>3, GreatestIn
  <2>. HIDE DEF Z
  <2>. QED  BY <2>1
<1>5. k \in 0..n /\ \A j \in 1..k : s[j] = 0
  <2>. HIDE DEF k
  <2>. QED  BY <1>4
<1>. HIDE DEF k, Z
<1>6. IsTrimmed(Drop(s, k), s, n, k)
  BY <1>5, DropIs DEF IsTrimmed
<1>. QED  BY <1>2, <1>6

LEMMA TrimmedReads ==
  ASSUME NEW s, NEW n, AreDigits(s, n)
  PROVE  /\ TrimZeros(s) \in Strings /\ Len(TrimZeros(s)) \in 0..n
         /\ Untrim(TrimZeros(s), n) = {s}
<1>1. n \in Nat /\ IsSeq(s, n)
  BY DEF AreDigits, IsSeq
<1>2. PICK t : t = TrimZeros(s)
  OBVIOUS
<1>3. PICK k : IsTrimmed(t, s, n, k)
  BY <1>1, <1>2, TrimmedIs
<1>4. k \in 0..n /\ IsRest(t, s, k, n) /\ \A j \in 1..k : s[j] = 0
  BY <1>3 DEF IsTrimmed
<1>5. PICK m : m = n - k
  OBVIOUS
<1>6. m \in Nat /\ m <= n /\ n - m = k /\ k + m = n
  BY <1>1, <1>4, <1>5
<1>7. AreDigits(t, m) /\ IsSeq(t, m) /\ Len(t) = m
  <2>1. AreDigits(t, m)
    BY <1>4, <1>5, RestDigits
  <2>. QED  BY <2>1, LenOf DEF AreDigits
<1>8. t \in Strings
  BY <1>7, IsInSeq DEF AreDigits, Strings
<1>9. PICK z, u : z = [i \in 1..k |-> 0] /\ u = z \o t
  OBVIOUS
<1>10. IsSeq(z, k) /\ \A j \in 1..k : z[j] = 0
  BY <1>4, <1>9 DEF IsSeq
<1>11. IsJoined(u, z, k, t, m)
  BY <1>7, <1>9, <1>10, JoinedParts
<1>12. IsSeq(u, n) /\ (\A j \in 1..k : u[j] = 0) /\ \A j \in 1..m : u[k + j] = t[j]
  BY <1>6, <1>10, <1>11 DEF IsJoined
<1>13. \A j \in 1..m : t[j] = s[k + j]
  BY <1>4, <1>5 DEF IsRest
<1>14. ASSUME NEW j \in 1..n PROVE u[j] = s[j]
  <2>1. CASE j <= k
    <3>1. j \in 1..k
      BY <1>4, <2>1
    <3>. QED  BY <1>4, <1>12, <3>1
  <2>2. CASE j > k
    <3>1. PICK i : i = j - k
      OBVIOUS
    <3>2. i \in 1..m /\ k + i = j
      BY <1>1, <1>4, <1>5, <2>2, <3>1
    <3>3. u[k + i] = t[i] /\ t[i] = s[k + i]
      BY <1>12, <1>13, <3>2
    <3>. QED  BY <3>2, <3>3
  <2>. QED  BY <1>4, <2>1, <2>2
<1>15. u = s
  BY <1>1, <1>12, <1>14, SameSeq
<1>16. Untrim(t, n) = {u}
  <2>1. ~(m > n)
    BY <1>1, <1>6
  <2>2. Untrim(t, n) = {[i \in 1..(n - m) |-> 0] \o t}
    BY <1>7, <2>1, Zenon DEF Untrim
  <2>. QED  BY <1>6, <1>9, <2>2
<1>17. Len(t) \in 0..n
  BY <1>1, <1>6, <1>7
<1>. QED  BY <1>2, <1>8, <1>15, <1>16, <1>17

\* A string stands in another one that begins with it.
LEMMA JoinedAt ==
  ASSUME NEW t, NEW m, IsSeq(t, m), NEW r, NEW n, IsSeq(r, n)
  PROVE  At(t \o r, 1, t, m) /\ IsSeq(t \o r, m + n) /\ m + n \in Nat
<1>1. Begins(t \o r, m + n, t, m)
  BY JoinedBegins
<1>2. m + n \in Nat
  BY DEF IsSeq
<1>. QED  BY <1>1, <1>2 DEF Begins

\* A member of a string that stands in another one.
LEMMA PartAt ==
  ASSUME NEW x, NEW n, IsSeq(x, n), NEW t, NEW k, IsSeq(t, k), NEW a \in Nat, a + k <= n,
         At(x, a + 1, t, k)
  PROVE  SubSeq(x, a + 1, a + k) = t
<1>1. k \in Nat
  BY DEF IsSeq
<1>2. PICK u : u = SubSeq(x, a + 1, a + k)
  OBVIOUS
<1>3. IsSlice(u, x, a, k)
  BY <1>1, <1>2, SliceAt
<1>4. IsSeq(u, k) /\ \A j \in 1..k : u[j] = t[j]
  BY <1>3, Zenon DEF IsSlice, At
<1>5. u = t
  BY <1>4, SameSeq
<1>. QED  BY <1>2, <1>5

\* Payloads in which nothing but the fields that are carried is filled in.
Plain ==
  {p \in Payloads : p.PaymentData = {} /\ p.PaymentMetadata = {} /\ p.OtherTLVs = <<>>}

LEMMA LegacyIsRead ==
  ASSUME NEW p \in Plain, p.legacy, NEW r \in Strings
  PROVE  /\ ParseSphinx(ToSphinxBuffer(p) \o r) = {p}
         /\ SphinxSize(p) = Len(ToSphinxBuffer(p))
<1>1. PICK c, a, b : c = p.ChannelId /\ a = p.AmountToForward /\ b = p.OutgoingCltvValue
  OBVIOUS
<1>2. c \in Strings /\ Len(c) = 8 /\ a \in 0..(Base8 - 1) /\ b \in 0..(Base4 - 1)
  BY <1>1 DEF Plain, Payloads
<1>3. p = Payload(TRUE, c, a, b)
  BY <1>1 DEF Plain, Payloads, Payload
<1>4. IsSeq(c, 8)
  BY <1>2, StringDigits
<1>5. /\ Base4 \in Nat \ {0} /\ Base8 \in Nat \ {0} /\ a \in Nat /\ b \in Nat
      /\ a % Base8 = a /\ b % Base4 = b
  <2>1. Base4 \in Nat \ {0} /\ Base8 \in Nat \ {0}
    BY Bases
  <2>2. a \in Nat /\ b \in Nat
    BY <1>2, <2>1
  <2>. QED  BY <1>2, <2>1, <2>2, Small
<1>6. PICK q : q = [i \in 1..32 |-> IF i <= 8 THEN c[i] ELSE 0]
  OBVIOUS
<1>7. IsSeq(q, 32) /\ \A j \in 1..8 : q[j] = c[j]
  BY <1>6 DEF IsSeq
<1>8. PICK h, g, f, d : h = SubSeq(q, 21, 32) /\ g = SubSeq(q, 1, 8) /\ f = BE64(a) /\ d = BE32(b)
  OBVIOUS
<1>9. IsSeq(h, 12)
  <2>1. 21 \in Int /\ 32 \in Int /\ 1 <= 21 /\ 21 <= 32 + 1 /\ 21 - 1 <= 32 /\ 32 <= 32
    OBVIOUS
  <2>2. IsStretch(h, q, 21, 32)
    BY <1>7, <1>8, <2>1, StretchIs
  <2>3. 32 - 21 + 1 = 12
    OBVIOUS
  <2>. QED  BY <2>2, <2>3 DEF IsStretch
<1>10. g = c
  <2>1. 1 \in Int /\ 8 \in Int /\ 1 <= 1 /\ 1 <= 32 + 1 /\ 1 - 1 <= 8 /\ 8 <= 32
    OBVIOUS
  <2>2. IsStretch(g, q, 1, 8)
    BY <1>7, <1>8, <2>1, StretchIs
  <2>3. 8 - 1 + 1 = 8
    OBVIOUS
  <2>4. IsSeq(g, 8)
    BY <2>2, <2>3 DEF IsStretch
  <2>5. ASSUME NEW j \in 1..8 PROVE g[j] = c[j]
    <3>1. g[j] = q[1 + j - 1]
      BY <2>2, <2>3 DEF IsStretch
    <3>2. 1 + j - 1 = j
      OBVIOUS
    <3>. QED  BY <1>7, <3>1, <3>2
  <2>. QED  BY <1>4, <2>4, <2>5, SameSeq
<1>11. AreDigits(f, 8) /\ AreDigits(d, 4) /\ IsSeq(f, 8) /\ IsSeq(d, 4)
  BY <1>5, <1>8, BE64Is, BE32Is DEF AreDigits
<1>12. PICK u, v, w, s, x : /\ u = c \o f /\ v = u \o d /\ w = v \o h /\ s = <<0>> \o w
                            /\ x = s \o r
  OBVIOUS
<1>13. ToSphinxBuffer(p) = s
  <2>1. ToDataBuffer(p) = w
    <3>1. q = [i \in 1..32 |-> IF i <= Len(p.ChannelId) THEN p.ChannelId[i] ELSE 0]
      BY <1>1, <1>2, <1>6
    <3>. QED  BY <1>1, <1>8, <1>10, <1>12, <3>1, Zenon DEF ToDataBuffer
  <2>. QED  BY <1>12, <2>1, Zenon DEF ToSphinxBuffer
<1>14. IsJoined(u, c, 8, f, 8) /\ IsSeq(u, 16)
  <2>1. IsJoined(u, c, 8, f, 8)
    BY <1>4, <1>11, <1>12, JoinedParts
  <2>2. 8 + 8 = 16
    OBVIOUS
  <2>. QED  BY <2>1, <2>2 DEF IsJoined
<1>15. IsJoined(v, u, 16, d, 4) /\ IsSeq(v, 20)
  <2>1. IsJoined(v, u, 16, d, 4)
    BY <1>11, <1>12, <1>14, JoinedParts
  <2>2. 16 + 4 = 20
    OBVIOUS
  <2>. QED  BY <2>1, <2>2 DEF IsJoined
<1>16. IsJoined(w, v, 20, h, 12) /\ IsSeq(w, 32)
  <2>1. IsJoined(w, v, 20, h, 12)
    BY <1>9, <1>12, <1>15, JoinedParts
  <2>2. 20 + 12 = 32
    OBVIOUS
  <2>. QED  BY <2>1, <2>2 DEF IsJoined
<1>17. IsSeq(<<0>>, 1) /\ <<0>>[1] = 0
  BY DEF IsSeq
<1>18. IsJoined(s, <<0>>, 1, w, 32) /\ IsSeq(s, 33)
  <2>1. IsJoined(s, <<0>>, 1, w, 32)
    BY <1>12, <1>16, <1>17, JoinedParts
  <2>2. 1 + 32 = 33
    OBVIOUS
  <2>. QED  BY <2>1, <2>2 DEF IsJoined
<1>19. PICK m, n : m = Len(r) /\ n = 33 + m
  OBVIOUS
<1>20. At(x, 1, s, 33) /\ IsSeq(x, n) /\ m \in Nat
  <2>1. IsSeq(r, m) /\ m \in Nat
    BY <1>19, StringDigits
  <2>. QED  BY <1>12, <1>18, <1>19, <2>1, JoinedAt
<1>21. At(x, 1, <<0>>, 1) /\ At(x, 2, w, 32)
  <2>1. 1 + 32 = 33 /\ 1 + 1 = 2 /\ 1 \in Int /\ 2 \in Int /\ 1 \in Nat /\ 32 \in Nat
    OBVIOUS
  <2>2. PICK z : z = <<0>>
    OBVIOUS
  <2>3. IsJoined(s, z, 1, w, 32)
    BY <1>18, <2>2
  <2>4. At(x, 1, s, 1 + 32) <=> At(x, 1, z, 1) /\ At(x, 1 + 1, w, 32)
    <3>1. PICK i \in Int, k \in Nat : i = 1 /\ k = 1
      BY <2>1
    <3>2. IsJoined(s, z, k, w, 32)
      BY <2>3, <3>1
    <3>3. At(x, i, s, k + 32) <=> At(x, i, z, k) /\ At(x, i + k, w, 32)
      <4>1. PICK j \in Nat : j = 32
        BY <2>1
      <4>2. IsJoined(s, z, k, w, j)
        BY <3>2, <4>1
      <4>3. At(x, i, s, k + j) <=> At(x, i, z, k) /\ At(x, i + k, w, j)
        BY <4>2, AtJoined
      <4>. QED  BY <4>1, <4>3
    <3>. QED  BY <3>1, <3>3
  <2>. QED  BY <1>20, <2>1, <2>2, <2>4
<1>22. At(x, 2, v, 20)
  <2>1. 20 + 12 = 32 /\ 1 \in Int /\ 2 \in Int /\ 20 \in Nat /\ 12 \in Nat
    OBVIOUS
  <2>2. At(x, 2, w, 20 + 12) <=> At(x, 2, v, 20) /\ At(x, 2 + 20, h, 12)
    BY <1>16, <2>1, AtJoined, Zenon
  <2>. QED  BY <1>21, <2>1, <2>2
<1>23. At(x, 2, u, 16) /\ At(x, 18, d, 4)
  <2>1. 16 + 4 = 20 /\ 2 + 16 = 18 /\ 1 \in Int /\ 2 \in Int /\ 16 \in Nat /\ 4 \in Nat
    OBVIOUS
  <2>2. At(x, 2, v, 16 + 4) <=> At(x, 2, u, 16) /\ At(x, 2 + 16, d, 4)
    BY <1>15, <2>1, AtJoined, Zenon
  <2>. QED  BY <1>22, <2>1, <2>2
<1>24. At(x, 2, c, 8) /\ At(x, 10, f, 8)
  <2>1. 8 + 8 = 16 /\ 2 + 8 = 10 /\ 1 \in Int /\ 2 \in Int /\ 8 \in Nat /\ 8 \in Nat
    OBVIOUS
  <2>2. At(x, 2, u, 8 + 8) <=> At(x, 2, c, 8) /\ At(x, 2 + 8, f, 8)
    BY <1>14, <2>1, AtJoined, Zenon
  <2>. QED  BY <1>23, <2>1, <2>2
<1>25. ToUInt64(x, 10) = a /\ ToUInt32(x, 18) = b
  <2>1. ToUInt64(x, 10) = a % Base8
    BY <1>5, <1>8, <1>24, Reads64
  <2>2. ToUInt32(x, 18) = b % Base4
    BY <1>5, <1>8, <1>23, Reads32
  <2>. QED  BY <1>5, <2>1, <2>2
<1>26. SubSeq(x, 2, 9) = c
  <2>1. 1 \in Nat /\ 1 + 8 <= n /\ 1 + 1 = 2 /\ 1 + 8 = 9
    BY <1>19, <1>20
  <2>2. At(x, 1 + 1, c, 8)
    BY <1>24, <2>1
  <2>3. SubSeq(x, 1 + 1, 1 + 8) = c
    BY <1>4, <1>20, <2>1, <2>2, PartAt
  <2>. QED  BY <2>1, <2>3
<1>27. x # <<>> /\ x[1] = 0 /\ ~(Len(x) < 33)
  <2>1. Len(x) = n /\ n >= 33
    BY <1>19, <1>20, LenOf
  <2>2. x[1] = 0
    <3>1. 1 \in 1..1 /\ 1 - 1 + 1 = 1
      OBVIOUS
    <3>. QED  BY <1>17, <1>21, <3>1 DEF At
  <2>3. Len(<<>>) = 0
    OBVIOUS
  <2>. QED  BY <1>19, <1>20, <2>1, <2>2, <2>3
<1>28. ParseSphinx(x) = {Payload(TRUE, SubSeq(x, 2, 9), ToUInt64(x, 10), ToUInt32(x, 18))}
  BY <1>27, Zenon DEF ParseSphinx
<1>29. ParseSphinx(x) = {p}
  BY <1>3, <1>25, <1>26, <1>28
<1>30. SphinxSize(p) = 33 /\ Len(s) = 33
  BY <1>18, LenOf DEF SphinxSize
<1>. QED  BY <1>12, <1>13, <1>29, <1>30

-----------------------------------------------------------------------------
(* The records of a payload.                                               *)

\* The records of a payload.
LEMMA SmallInts ==
  /\ \A t \in {2, 4, 6} : t \in Values
  /\ \A n \in 0..8 : n \in Ints
<1>1. Base8 \in Nat /\ Base8 >= 65536 /\ Base4 \in Nat /\ Base4 >= 256
  BY Bases
<1>2. \A t \in {2, 4, 6} : t \in Values
  BY <1>1 DEF Values
<1>3. \A n \in 0..8 : n \in Nat /\ n < Base4 \div 2
  BY <1>1
<1>. QED  BY <1>2, <1>3, IntsCast

Amount(a) == Tlv(2, TrimZeros(BE64(a)))
Expiry(b) == Tlv(4, TrimZeros(BE32(b)))

LEMMA AmountReads ==
  ASSUME NEW a \in 0..(Base8 - 1), NEW p
  PROVE  Amount(a) \in TLVs /\ Read(p, Amount(a)) = {WithAmount(p, a)}
<1>1. a \in Nat /\ a % Base8 = a
  BY Bases, Small
<1>2. PICK s, t : s = BE64(a) /\ t = TrimZeros(s)
  OBVIOUS
<1>3. AreDigits(s, 8)
  BY <1>1, <1>2, BE64Is
<1>4. t \in Strings /\ Len(t) \in 0..8 /\ Untrim(t, 8) = {s}
  BY <1>2, <1>3, TrimmedReads
<1>5. ToUInt64(s, 1) = a
  <2>1. \A j \in 1..8 : 1 - 1 + j = j
    OBVIOUS
  <2>2. At(s, 1, BE64(a), 8)
    BY <1>2, <2>1 DEF At
  <2>3. 1 \in Int
    OBVIOUS
  <2>. QED  BY <1>1, <2>2, <2>3, Reads64
<1>6. PICK tlv : tlv = Amount(a)
  OBVIOUS
<1>7. tlv.type = 2 /\ tlv.value = t /\ tlv = [type |-> 2, value |-> t]
  BY <1>2, <1>6 DEF Amount, Tlv
<1>8. tlv \in TLVs
  BY <1>4, <1>7, SmallInts DEF TLVs, Values
<1>9. Read(p, tlv) = WithAmounts(p, {s})
  <2>1. tlv.type = 2
    BY <1>7
  <2>2. Read(p, tlv) = WithAmounts(p, Untrim(tlv.value, 8))
    BY <2>1, ReadForms
  <2>. QED  BY <1>4, <1>7, <2>2
<1>10. PICK q : q = WithAmount(p, ToUInt64(s, 1))
  OBVIOUS
<1>11. Read(p, tlv) = {q}
  <2>1. WithAmounts(p, {s}) = {q}
    BY <1>10 DEF WithAmounts
  <2>. QED  BY <1>9, <2>1
<1>12. q = WithAmount(p, a)
  BY <1>5, <1>10, Zenon
<1>. QED  BY <1>6, <1>8, <1>11, <1>12

LEMMA ExpiryReads ==
  ASSUME NEW b \in 0..(Base4 - 1), NEW p
  PROVE  Expiry(b) \in TLVs /\ Read(p, Expiry(b)) = {WithExpiry(p, b)}
<1>1. b \in Nat /\ b % Base4 = b
  BY Bases, Small
<1>2. PICK s, t : s = BE32(b) /\ t = TrimZeros(s)
  OBVIOUS
<1>3. AreDigits(s, 4)
  BY <1>1, <1>2, BE32Is
<1>4. t \in Strings /\ Len(t) \in 0..8 /\ Untrim(t, 4) = {s}
  <2>1. t \in Strings /\ Len(t) \in 0..4 /\ Untrim(t, 4) = {s}
    BY <1>2, <1>3, TrimmedReads
  <2>. QED  BY <2>1
<1>5. ToUInt32(s, 1) = b
  <2>1. \A j \in 1..4 : 1 - 1 + j = j
    OBVIOUS
  <2>2. At(s, 1, BE32(b), 4)
    BY <1>2, <2>1 DEF At
  <2>3. 1 \in Int
    OBVIOUS
  <2>. QED  BY <1>1, <2>2, <2>3, Reads32
<1>6. PICK tlv : tlv = Expiry(b)
  OBVIOUS
<1>7. tlv.type = 4 /\ tlv.value = t /\ tlv = [type |-> 4, value |-> t]
  BY <1>2, <1>6 DEF Expiry, Tlv
<1>8. tlv \in TLVs
  BY <1>4, <1>7, SmallInts DEF TLVs, Values
<1>9. Read(p, tlv) = WithExpiries(p, {s})
  <2>1. tlv.type = 4
    BY <1>7
  <2>2. Read(p, tlv) = WithExpiries(p, Untrim(tlv.value, 4))
    BY <2>1, ReadForms
  <2>. QED  BY <1>4, <1>7, <2>2
<1>10. PICK q : q = WithExpiry(p, ToUInt32(s, 1))
  OBVIOUS
<1>11. Read(p, tlv) = {q}
  <2>1. WithExpiries(p, {s}) = {q}
    BY <1>10 DEF WithExpiries
  <2>. QED  BY <1>9, <2>1
<1>12. q = WithExpiry(p, b)
  BY <1>5, <1>10, Zenon
<1>. QED  BY <1>6, <1>8, <1>11, <1>12

\* The encoding of a number that may be too large is still a sequence.
LEMMA EncodingIsSeq ==
  ASSUME NEW v \in Nat
  PROVE  \E a : IsSeq(Encoding(v), a)
<1>1. ASSUME NEW x, NEW s, NEW n \in Nat, IsSeq(s, n)
      PROVE  \E a : IsSeq(<<x>> \o s, a)
  <2>1. IsSeq(<<x>>, 1)
    BY DEF IsSeq
  <2>2. IsJoined(<<x>> \o s, <<x>>, 1, s, n)
    BY <1>1, <2>1, JoinedParts
  <2>. QED  BY <2>2 DEF IsJoined
<1>2. IsSeq(BE16(v), 2) /\ IsSeq(BE32(v), 4) /\ IsSeq(BE64(v), 8)
  BY BE16Is, BE32Is, BE64Is DEF AreDigits
<1>3. IsSeq(<<v>>, 1)
  BY DEF IsSeq
<1>4. \/ Encoding(v) = <<v>>
      \/ Encoding(v) = <<Base - 3>> \o BE16(v)
      \/ Encoding(v) = <<Base - 2>> \o BE32(v)
      \/ Encoding(v) = <<Base - 1>> \o BE64(v)
  <2>1. PICK w, x, y, z : /\ w = <<v>> /\ x = <<Base - 3>> \o BE16(v)
                          /\ y = <<Base - 2>> \o BE32(v) /\ z = <<Base - 1>> \o BE64(v)
    OBVIOUS
  <2>2. Encoding(v) = CASE v < Base - 3              -> w
                        [] v \in (Base - 3)..(Base2 - 1) -> x
                        [] v \in Base2..(Base4 - 1)      -> y
                        [] OTHER                         -> z
    BY <2>1, Zenon DEF Encoding
  <2>3. Encoding(v) \in {w, x, y, z}
    BY <2>2
  <2>. QED  BY <2>1, <2>3
<1>5. 2 \in Nat /\ 4 \in Nat /\ 8 \in Nat
  OBVIOUS
<1>6. /\ \E a : IsSeq(<<Base - 3>> \o BE16(v), a)
      /\ \E a : IsSeq(<<Base - 2>> \o BE32(v), a)
      /\ \E a : IsSeq(<<Base - 1>> \o BE64(v), a)
  BY <1>1, <1>2, <1>5, Zenon
<1>. QED  BY <1>3, <1>4, <1>6, Zenon

LEMMA ValueFits ==
  ASSUME NEW tlv, tlv.type \in Values, tlv.value \in Strings
  PROVE  \E n : IsSeq(ToEncoding(tlv), n) /\ Len(tlv.value) \in Nat /\ Len(tlv.value) <= n
<1>1. PICK t, r, v, k : t = Encoding(tlv.type) /\ v = tlv.value /\ k = Len(v) /\ r = Encoding(k)
  OBVIOUS
<1>2. IsSeq(v, k) /\ k \in Nat
  BY <1>1, StringDigits
<1>3. PICK a : IsSeq(t, a)
  BY <1>1, EncodingShape DEF AreDigits
<1>4. PICK b : IsSeq(r, b)
  BY <1>1, <1>2, EncodingIsSeq
<1>5. a \in Nat /\ b \in Nat
  BY <1>3, <1>4 DEF IsSeq
<1>6. IsSeq(t \o r, a + b)
  BY <1>3, <1>4, JoinedParts DEF IsJoined
<1>7. IsSeq((t \o r) \o v, a + b + k)
  BY <1>2, <1>6, JoinedParts DEF IsJoined
<1>8. ToEncoding(tlv) = (t \o r) \o v
  BY <1>1 DEF ToEncoding
<1>9. k <= a + b + k
  BY <1>2, <1>5
<1>. QED  BY <1>1, <1>2, <1>7, <1>8, <1>9

\* Two records and perhaps a third.
LEMMA TwoWritten ==
  ASSUME NEW t, NEW u
  PROVE  Written(<<t, u>>) = ToEncoding(t) \o ToEncoding(u)
<1>1. PICK tlvs : tlvs = <<t, u>>
  OBVIOUS
<1>2. Len(tlvs) = 2 /\ tlvs[1] = t /\ tlvs[2] = u /\ 2 \in Nat \ {0} /\ 2 \in 2..2 /\ 2 - 1 = 1
  BY <1>1
<1>3. PICK f : /\ f[1] = ToEncoding(tlvs[1]) /\ f[2] = Written(tlvs)
               /\ \A i \in 2..2 : f[i] = Chained(f[i - 1], ToEncoding(tlvs[i]))
  BY <1>2, WrittenRuns
<1>4. Written(tlvs) = Chained(ToEncoding(t), ToEncoding(u))
  BY <1>2, <1>3
<1>. QED  BY <1>1, <1>4 DEF Chained

LEMMA ThreeWritten ==
  ASSUME NEW t, NEW u, NEW v
  PROVE  Written(<<t, u, v>>) = Chained(Chained(ToEncoding(t), ToEncoding(u)), ToEncoding(v))
<1>1. PICK tlvs : tlvs = <<t, u, v>>
  OBVIOUS
<1>2. /\ Len(tlvs) = 3 /\ tlvs[1] = t /\ tlvs[2] = u /\ tlvs[3] = v /\ 3 \in Nat \ {0}
      /\ 2 \in 2..3 /\ 3 \in 2..3 /\ 2 - 1 = 1 /\ 3 - 1 = 2
  BY <1>1
<1>3. PICK f : /\ f[1] = ToEncoding(tlvs[1]) /\ f[3] = Written(tlvs)
               /\ \A i \in 2..3 : f[i] = Chained(f[i - 1], ToEncoding(tlvs[i]))
  BY <1>2, WrittenRuns
<1>4. f[2] = Chained(ToEncoding(t), ToEncoding(u))
  BY <1>2, <1>3
<1>5. f[3] = Chained(f[2], ToEncoding(v))
  BY <1>2, <1>3
<1>6. Written(tlvs) = Chained(Chained(ToEncoding(t), ToEncoding(u)), ToEncoding(v))
  BY <1>3, <1>4, <1>5
<1>. QED  BY <1>1, <1>6, Zenon

LEMMA OneRead ==
  ASSUME NEW p, NEW q, NEW tlv, Read(p, tlv) = {q}
  PROVE  ReadEach({p}, tlv) = {q}
BY DEF ReadEach

LEMMA TwoRead ==
  ASSUME NEW t, NEW u, NEW p, NEW q, Read(Blank, t) = {p}, Read(p, u) = {q}
  PROVE  ReadAll(<<t, u>>) = {q}
<1>1. PICK B, C, D : B = {Blank} /\ C = {p} /\ D = {q}
  OBVIOUS
<1>2. ReadEach(B, t) = C /\ ReadEach(C, u) = D
  BY <1>1, OneRead
<1>3. PICK tlvs : tlvs = <<t, u>>
  OBVIOUS
<1>4. Len(tlvs) = 2 /\ tlvs[1] = t /\ tlvs[2] = u /\ 2 \in Nat
  BY <1>3
<1>5. PICK f : /\ f[0] = {Blank} /\ f[2] = ReadAll(tlvs)
               /\ \A i \in 1..2 : f[i] = ReadEach(f[i - 1], tlvs[i])
  BY <1>4, ReadAllRuns
<1>6. f[1] = C
  <2>1. 1 \in 1..2 /\ 1 - 1 = 0 /\ f[0] = B
    BY <1>1, <1>5
  <2>. QED  BY <1>2, <1>4, <1>5, <2>1
<1>7. f[2] = D
  <2>1. 2 \in 1..2 /\ 2 - 1 = 1
    OBVIOUS
  <2>. QED  BY <1>2, <1>4, <1>5, <1>6, <2>1
<1>. QED  BY <1>1, <1>3, <1>5, <1>7

LEMMA ThreeRead ==
  ASSUME NEW t, NEW u, NEW v, NEW p, NEW q, NEW r, Read(Blank, t) = {p}, Read(p, u) = {q},
         Read(q, v) = {r}
  PROVE  ReadAll(<<t, u, v>>) = {r}
<1>1. PICK B, C, D, E : B = {Blank} /\ C = {p} /\ D = {q} /\ E = {r}
  OBVIOUS
<1>2. ReadEach(B, t) = C /\ ReadEach(C, u) = D /\ ReadEach(D, v) = E
  <2>1. ReadEach({Blank}, t) = {p}
    <3>1. PICK z : z = Blank
      OBVIOUS
    <3>2. Read(z, t) = {p}
      BY <3>1
    <3>3. ReadEach({z}, t) = {p}
      BY <3>2, OneRead
    <3>. QED  BY <3>1, <3>3
  <2>2. ReadEach({p}, u) = {q}
    BY OneRead, Zenon
  <2>3. ReadEach({q}, v) = {r}
    BY OneRead, Zenon
  <2>. QED  BY <1>1, <2>1, <2>2, <2>3
<1>3. PICK tlvs : tlvs = <<t, u, v>>
  OBVIOUS
<1>4. Len(tlvs) = 3 /\ tlvs[1] = t /\ tlvs[2] = u /\ tlvs[3] = v /\ 3 \in Nat
  BY <1>3
<1>5. PICK f : /\ f[0] = {Blank} /\ f[3] = ReadAll(tlvs)
               /\ \A i \in 1..3 : f[i] = ReadEach(f[i - 1], tlvs[i])
  BY <1>4, ReadAllRuns
<1>6. f[1] = C
  <2>1. 1 \in 1..3 /\ 1 - 1 = 0 /\ f[0] = B
    BY <1>1, <1>5
  <2>. QED  BY <1>2, <1>4, <1>5, <2>1
<1>7. f[2] = D
  <2>1. 2 \in 1..3 /\ 2 - 1 = 1
    OBVIOUS
  <2>. QED  BY <1>2, <1>4, <1>5, <1>6, <2>1
<1>8. f[3] = E
  <2>1. 3 \in 1..3 /\ 3 - 1 = 2
    OBVIOUS
  <2>. QED  BY <1>2, <1>4, <1>5, <1>7, <2>1
<1>. QED  BY <1>1, <1>3, <1>5, <1>8

\* The records that ToDataBuffer writes.
DataRecords(p) ==
  IF p.ChannelId = <<>> THEN <<Amount(p.AmountToForward), Expiry(p.OutgoingCltvValue)>>
  ELSE <<Amount(p.AmountToForward), Expiry(p.OutgoingCltvValue), Tlv(6, p.ChannelId)>>

\* A payload of records in which nothing but these three fields is filled in.
Filled(c, a, b) == Payload(FALSE, c, a, b)

\* Each assignment changes its field.
LEMMA PayloadFilled ==
  ASSUME NEW c, NEW a, NEW b, NEW x
  PROVE  /\ WithAmount(Filled(c, a, b), x) = Filled(c, x, b)
         /\ WithExpiry(Filled(c, a, b), x) = Filled(c, a, x)
         /\ WithChannel(Filled(c, a, b), x) = Filled(x, a, b)
<1>1. PICK none, empty, no : none = {} /\ empty = <<>> /\ no = FALSE
  OBVIOUS
<1>. DEFINE Fields(y, z, w) ==
       [legacy |-> no, ChannelId |-> y, AmountToForward |-> z, OutgoingCltvValue |-> w,
        PaymentData |-> none, PaymentMetadata |-> none, OtherTLVs |-> empty]
<1>2. \A y, z, w : Filled(y, z, w) = Fields(y, z, w)
  BY <1>1, Zenon DEF Filled, Payload
<1>3. PICK p : p = Fields(c, a, b)
  OBVIOUS
<1>4. WithAmount(p, x) = Fields(c, x, b)
  <2>1. PICK q : q = [p EXCEPT !.AmountToForward = x]
    OBVIOUS
  <2>2. q = Fields(c, x, b)
    BY <1>3, <2>1
  <2>. HIDE DEF Fields
  <2>. QED  BY <2>1, <2>2, Zenon DEF WithAmount
<1>5. WithExpiry(p, x) = Fields(c, a, x)
  <2>1. PICK q : q = [p EXCEPT !.OutgoingCltvValue = x]
    OBVIOUS
  <2>2. q = Fields(c, a, x)
    BY <1>3, <2>1
  <2>. HIDE DEF Fields
  <2>. QED  BY <2>1, <2>2, Zenon DEF WithExpiry
<1>6. WithChannel(p, x) = Fields(x, a, b)
  <2>1. PICK q : q = [p EXCEPT !.ChannelId = x]
    OBVIOUS
  <2>2. q = Fields(x, a, b)
    BY <1>3, <2>1
  <2>. HIDE DEF Fields
  <2>. QED  BY <2>1, <2>2, Zenon DEF WithChannel
<1>. HIDE DEF Fields
<1>. QED  BY <1>2, <1>3, <1>4, <1>5, <1>6, Zenon

\* What ToDataBuffer writes is these records, and reading them fills in the
\* fields of p again.
LEMMA DataIsWritten ==
  ASSUME NEW p \in Plain, ~p.legacy
  PROVE  /\ DataRecords(p) \in Seq(TLVs) /\ DataRecords(p) # <<>>
         /\ ToDataBuffer(p) = Written(DataRecords(p))
         /\ ReadAll(DataRecords(p)) = {p}
<1>1. PICK c, a, b : c = p.ChannelId /\ a = p.AmountToForward /\ b = p.OutgoingCltvValue
  OBVIOUS
<1>2. c \in Strings /\ a \in 0..(Base8 - 1) /\ b \in 0..(Base4 - 1) /\ Size(p) \in Ints
  BY <1>1 DEF Plain, Payloads
<1>3. p = Payload(FALSE, c, a, b)
  BY <1>1 DEF Plain, Payloads, Payload
<1>4. PICK t, u, v : t = Amount(a) /\ u = Expiry(b) /\ v = Tlv(6, c)
  OBVIOUS
<1>5. t \in TLVs /\ u \in TLVs
  BY <1>2, <1>4, AmountReads, ExpiryReads
<1>6. PICK o, empty, blank, q, r : /\ o = 0 /\ empty = <<>> /\ blank = Blank
                                  /\ q = Filled(empty, a, o) /\ r = Filled(empty, a, b)
  OBVIOUS
<1>7. Read(Blank, t) = {q}
  <2>1. blank = Filled(empty, o, o)
    BY <1>6, Zenon DEF Blank, Filled
  <2>2. WithAmount(blank, a) = q
    <3>1. WithAmount(Filled(empty, o, o), a) = Filled(empty, a, o)
      BY PayloadFilled
    <3>. QED  BY <1>6, <2>1, <3>1, Zenon
  <2>3. Read(blank, Amount(a)) = {WithAmount(blank, a)}
    BY <1>2, AmountReads
  <2>. QED  BY <1>4, <1>6, <2>2, <2>3, Zenon
<1>8. Read(q, u) = {r}
  <2>1. WithExpiry(q, b) = r
    <3>1. WithExpiry(Filled(empty, a, o), b) = Filled(empty, a, b)
      BY PayloadFilled
    <3>. QED  BY <1>6, <3>1, Zenon
  <2>2. Read(q, Expiry(b)) = {WithExpiry(q, b)}
    BY <1>2, ExpiryReads
  <2>. QED  BY <1>4, <2>1, <2>2, Zenon
<1>9. Read(r, v) = {p}
  <2>1. p = Filled(c, a, b)
    BY <1>3, Zenon DEF Filled
  <2>2. WithChannel(r, c) = p
    <3>1. WithChannel(Filled(empty, a, b), c) = Filled(c, a, b)
      BY PayloadFilled
    <3>. QED  BY <1>6, <2>1, <3>1, Zenon
  <2>3. v.type = 6 /\ v.value = c
    BY <1>4 DEF Tlv
  <2>4. Read(r, v) = {WithChannel(r, v.value)}
    BY <2>3, ReadForms
  <2>. QED  BY <2>2, <2>3, <2>4
<1>10. PICK e, f, g : e = ToEncoding(t) /\ f = ToEncoding(u) /\ g = ToEncoding(v)
  OBVIOUS
<1>11. ToDataBuffer(p) = (e \o f) \o (IF c = <<>> THEN <<>> ELSE g)
  <2>1. t = Tlv(AMOUNT_TO_FORWARD, TrimZeros(BE64(p.AmountToForward)))
    BY <1>1, <1>4 DEF Amount, AMOUNT_TO_FORWARD
  <2>2. u = Tlv(OUTGOING_CLTV_VALUE, TrimZeros(BE32(p.OutgoingCltvValue)))
    BY <1>1, <1>4 DEF Expiry, OUTGOING_CLTV_VALUE
  <2>3. v = Tlv(SHORT_CHANNEL_ID, p.ChannelId)
    BY <1>1, <1>4 DEF SHORT_CHANNEL_ID
  <2>. QED  BY <1>1, <1>10, <2>1, <2>2, <2>3, Zenon DEF ToDataBuffer
<1>12. PICK m, n : IsSeq(e, m) /\ IsSeq(f, n)
  <2>1. (\E h, x, y, z : HasParts(t, e, x, y, z)) /\ (\E h, x, y, z : HasParts(u, f, x, y, z))
    BY <1>5, <1>10, TLVParts
  <2>. QED  BY <2>1 DEF HasParts, AreDigits
<1>13. PICK d : d = e \o f
  OBVIOUS
<1>14. IsSeq(d, m + n) /\ m + n \in Nat
  BY <1>12, <1>13, JoinedParts DEF IsJoined, IsSeq
<1>15. CASE c = <<>>
  <2>1. PICK tlvs : tlvs = <<t, u>>
    OBVIOUS
  <2>2. DataRecords(p) = tlvs
    BY <1>1, <1>4, <1>15, <2>1, Zenon DEF DataRecords
  <2>3. tlvs \in Seq(TLVs) /\ tlvs # <<>>
    BY <1>5, <2>1
  <2>4. ToDataBuffer(p) = d
    <3>1. d \o <<>> = d
      <4>1. PICK S : d \in Seq(S)
        <5>1. d \in Seq({d[j] : j \in 1..(m + n)})
          BY <1>14, AsSeq DEF IsSeq
        <5>. QED  BY <5>1
      <4>. QED  BY <4>1
    <3>. QED  BY <1>11, <1>13, <1>15, <3>1, Zenon
  <2>5. Written(tlvs) = d
    BY <1>10, <1>13, <2>1, TwoWritten
  <2>6. r = p
    BY <1>3, <1>6, <1>15, Zenon DEF Filled
  <2>7. ReadAll(tlvs) = {p}
    BY <1>7, <1>8, <2>1, <2>6, TwoRead
  <2>. QED  BY <2>2, <2>3, <2>4, <2>5, <2>7
<1>16. CASE c # <<>>
  <2>1. PICK tlvs : tlvs = <<t, u, v>>
    OBVIOUS
  <2>2. DataRecords(p) = tlvs
    BY <1>1, <1>4, <1>16, <2>1, Zenon DEF DataRecords
  <2>3. ToDataBuffer(p) = d \o g
    BY <1>11, <1>13, <1>16, Zenon
  <2>4. v.type = 6 /\ v.value = c /\ v = [type |-> 6, value |-> c] /\ 6 \in Values
    BY <1>4, SmallInts DEF Tlv
  <2>5. PICK k : IsSeq(g, k) /\ Len(c) \in Nat /\ Len(c) <= k
    BY <1>2, <1>10, <2>4, ValueFits
  <2>6. Size(p) = m + n + k /\ k \in Nat
    <3>1. IsSeq(d \o g, m + n + k)
      BY <1>14, <2>5, JoinedParts DEF IsJoined
    <3>2. Len(d \o g) = m + n + k
      BY <3>1, LenOf
    <3>. QED  BY <2>3, <2>5, <3>2 DEF Size, IsSeq
  <2>7. Len(c) \in Ints
    <3>1. Base4 \div 2 \in Int
      BY Bases
    <3>. QED  BY <1>2, <1>14, <2>5, <2>6, <3>1 DEF Ints
  <2>8. v \in TLVs
    BY <1>2, <2>4, <2>7 DEF TLVs, Values
  <2>9. tlvs \in Seq(TLVs) /\ tlvs # <<>>
    BY <1>5, <2>1, <2>8
  <2>10. Written(tlvs) = d \o g
    <3>1. Written(<<t, u, v>>) = Chained(Chained(ToEncoding(t), ToEncoding(u)), ToEncoding(v))
      BY ThreeWritten
    <3>. QED  BY <1>10, <1>13, <2>1, <3>1, Zenon DEF Chained
  <2>11. ReadAll(tlvs) = {p}
    <3>1. ReadAll(<<t, u, v>>) = {p}
      BY <1>7, <1>8, <1>9, ThreeRead
    <3>. QED  BY <2>1, <3>1, Zenon
  <2>. QED  BY <2>2, <2>3, <2>9, <2>10, <2>11
<1>. QED  BY <1>15, <1>16

\* A TLV payload with anything behind it.
LEMMA PayloadIsRead ==
  ASSUME NEW p \in Plain, ~p.legacy, NEW r \in Strings
  PROVE  /\ ParseSphinx(ToSphinxBuffer(p) \o r) = {p}
         /\ SphinxSize(p) = Len(ToSphinxBuffer(p))
<1>1. PICK tlvs, s, n : tlvs = DataRecords(p) /\ s = ToDataBuffer(p) /\ n = Len(s)
  OBVIOUS
<1>2. tlvs \in Seq(TLVs) /\ tlvs # <<>> /\ s = Written(tlvs) /\ ReadAll(tlvs) = {p}
  BY <1>1, DataIsWritten
<1>3. n = Size(p) /\ n \in Ints
  BY <1>1 DEF Size, Plain, Payloads
<1>4. PICK e : e = Encoding(n)
  OBVIOUS
<1>5. ToSphinxBuffer(p) = e \o s
  BY <1>1, <1>3, <1>4, Zenon DEF ToSphinxBuffer
<1>6. ParseSphinx((e \o s) \o r) = {p}
  BY <1>1, <1>2, <1>3, <1>4, FinalIsRead
<1>7. SphinxSize(p) = Length(n) + n
  BY <1>3 DEF SphinxSize
<1>8. IsSeq(e, Length(n))
  BY <1>3, <1>4, IntsCast, EncodingShape DEF AreDigits
<1>9. IsSeq(s, n)
  <2>1. PICK N \in Nat \ {0} : Len(tlvs) = N
    BY <1>2
  <2>2. PICK m \in Nat \ {0} : AreDigits(s, m)
    BY <1>2, <2>1, RecordsAreRead
  <2>. QED  BY <1>1, <2>2, LenOf DEF AreDigits
<1>10. Len(e \o s) = Length(n) + n
  BY <1>8, <1>9, JoinedAt, LenOf
<1>. QED  BY <1>5, <1>6, <1>7, <1>10

\* What is written of a payload is what is written of the fields that are carried.
LEMMA CarriedIsWritten ==
  ASSUME NEW p \in Payloads
  PROVE  /\ Carried(p) \in Plain /\ Carried(p).legacy = p.legacy
         /\ ToSphinxBuffer(Carried(p)) = ToSphinxBuffer(p)
         /\ SphinxSize(Carried(p)) = SphinxSize(p)
<1>1. PICK q : q = Carried(p)
  OBVIOUS
<1>2. /\ q.legacy = p.legacy /\ q.ChannelId = p.ChannelId
      /\ q.AmountToForward = p.AmountToForward /\ q.OutgoingCltvValue = p.OutgoingCltvValue
      /\ q.PaymentData = {} /\ q.PaymentMetadata = {} /\ q.OtherTLVs = <<>>
      /\ q = [legacy |-> p.legacy, ChannelId |-> p.ChannelId,
              AmountToForward |-> p.AmountToForward, OutgoingCltvValue |-> p.OutgoingCltvValue,
              PaymentData |-> {}, PaymentMetadata |-> {}, OtherTLVs |-> <<>>]
  BY <1>1 DEF Carried, Payload
<1>3. ToDataBuffer(q) = ToDataBuffer(p)
  BY <1>2, Zenon DEF ToDataBuffer
<1>4. Size(q) = Size(p)
  BY <1>3, Zenon DEF Size
<1>5. ToSphinxBuffer(q) = ToSphinxBuffer(p) /\ SphinxSize(q) = SphinxSize(p)
  BY <1>2, <1>3, <1>4, Zenon DEF ToSphinxBuffer, SphinxSize
<1>6. q \in Payloads
  <2>1. \A S : {} \in Nullable(S)
    BY DEF Nullable
  <2>2. <<>> \in Seq(TLVs)
    OBVIOUS
  <2>3. /\ p.legacy \in BOOLEAN /\ p.ChannelId \in Strings
        /\ p.AmountToForward \in 0..(Base8 - 1) /\ p.OutgoingCltvValue \in 0..(Base4 - 1)
        /\ IF p.legacy THEN Len(p.ChannelId) = 8 ELSE Size(p) \in Ints
    BY DEF Payloads
  <2>4. q \in [legacy : BOOLEAN, ChannelId : Strings, AmountToForward : 0..(Base8 - 1),
               OutgoingCltvValue : 0..(Base4 - 1),
               PaymentData : Nullable(Strings \X (0..(Base8 - 1))),
               PaymentMetadata : Nullable(Strings), OtherTLVs : Seq(TLVs)]
    BY <1>2, <2>1, <2>2, <2>3
  <2>5. IF q.legacy THEN Len(q.ChannelId) = 8 ELSE Size(q) \in Ints
    BY <1>2, <1>4, <2>3, Zenon
  <2>. QED  BY <2>4, <2>5, Zenon DEF Payloads
<1>. QED  BY <1>1, <1>2, <1>5, <1>6 DEF Plain

\* PayloadsRead, for legacy and TLV payloads of any amount, expiry and channel id, with
\* and without the fields that are lost, whatever follows them in the packet; and for
\* the payload that another node wrote with any records in any order.
THEOREM PayloadsAlwaysRead == input \in Inputs => PayloadsRead
<1>. SUFFICES ASSUME input \in Inputs PROVE PayloadsRead
  OBVIOUS
<1>1. ASSUME input.kind = "payload"
      PROVE  LET s == ToSphinxBuffer(input.payload) IN
             /\ ParseSphinx(s \o input.rest) = {Carried(input.payload)}
             /\ SphinxSize(input.payload) = Len(s)
  <2>1. PICK p, r : p = input.payload /\ r = input.rest
    OBVIOUS
  <2>2. p \in Payloads /\ r \in Strings
    BY <1>1, <2>1 DEF Inputs
  <2>3. PICK q : q = Carried(p)
    OBVIOUS
  <2>4. /\ q \in Plain /\ ToSphinxBuffer(q) = ToSphinxBuffer(p)
        /\ SphinxSize(q) = SphinxSize(p)
    BY <2>2, <2>3, CarriedIsWritten
  <2>5. /\ ParseSphinx(ToSphinxBuffer(q) \o r) = {q}
        /\ SphinxSize(q) = Len(ToSphinxBuffer(q))
    BY <2>2, <2>4, LegacyIsRead, PayloadIsRead
  <2>. QED  BY <2>1, <2>3, <2>4, <2>5, Zenon
<1>2. ASSUME input.kind = "records"
      PROVE  LET s == Written(input.tlvs)
                 read == ParseSphinx(Encoding(Len(s)) \o s \o input.rest) IN
             /\ Records(s) = {input.tlvs}
             /\ read # {} <=> \A i \in 1..Len(input.tlvs) : Fits(input.tlvs[i])
             /\ \A p \in read :
                  /\ p.OtherTLVs = Unknown(input.tlvs)
                  /\ p.PaymentData # {} <=> \E i \in 1..Len(input.tlvs) : input.tlvs[i].type = 8
  <2>1. PICK tlvs, r : tlvs = input.tlvs /\ r = input.rest
    OBVIOUS
  <2>2. tlvs \in Seq(TLVs) /\ tlvs # <<>> /\ Len(Written(tlvs)) \in Ints /\ r \in Strings
    BY <1>2, <2>1 DEF Inputs
  <2>3. /\ Records(Written(tlvs)) = {tlvs}
        /\ ParseSphinx(Encoding(Len(Written(tlvs))) \o Written(tlvs) \o r) = ReadAll(tlvs)
    BY <2>2, FinalIsRead
  <2>4. \A p \in ReadAll(tlvs) :
          /\ p.OtherTLVs = Unknown(tlvs)
          /\ p.PaymentData # {} <=> \E i \in 1..Len(tlvs) : tlvs[i].type = 8
    BY <2>2, RecordsAreSorted
  <2>5. ReadAll(tlvs) # {} <=> \A i \in 1..Len(tlvs) : Fits(tlvs[i])
    BY <2>2, PayloadIsThere
  <2>. QED  BY <2>1, <2>3, <2>4, <2>5, Zenon
<1>. QED  BY <1>1, <1>2, Zenon DEF PayloadsRead
=============================================================================
