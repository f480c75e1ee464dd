------------------------------- MODULE Codecs -------------------------------
(***************************************************************************)
(* The encodings of LNBolt: integers, BigSize and TLV records (BOLT 1) and *)
(* the payload of a hop (BOLT 4).                                          *)
(*                                                                         *)
(* A byte string is a sequence of digits in a base that the code fixes at  *)
(* 256: with a small one an integer of 8 digits is one TLC has.  A marker  *)
(* 0xfd is Base - 3, an int has 4 digits and a sign.  What throws is a set *)
(* without elements, what returns x is {x}.                                *)
(***************************************************************************)
EXTENDS Integers, SequencesExt

CONSTANT Base
ASSUME BaseAssumption == Base \in Nat /\ Base >= 4 /\ Base % 2 = 0

VARIABLE input   \* what a caller has given to the library

-----------------------------------------------------------------------------
(* Integers.                                                               *)

Digit == 0..(Base - 1)

\* How many integers have 2, 4 and 8 digits: ushort, uint and ulong.
Base2 == Base * Base
Base4 == Base2 * Base2
Base8 == Base4 * Base4

BE16(v) == <<(v \div Base) % Base, v % Base>>
BE32(v) == BE16(v \div Base2) \o BE16(v)
BE64(v) == BE32(v \div Base4) \o BE32(v)

\* The integer whose digits begin at s[i].
ToUInt16(s, i) == s[i] * Base + s[i + 1]
ToUInt32(s, i) == ToUInt16(s, i) * Base2 + ToUInt16(s, i + 2)
ToUInt64(s, i) == ToUInt32(s, i) * Base4 + ToUInt32(s, i + 4)

Drop(s, n) == SubSeq(s, n + 1, Len(s))

TrimZeros(s) == LET zeros == {i \in 0..Len(s) : \A j \in 1..i : s[j] = 0}
                IN Drop(s, CHOOSE i \in zeros : \A j \in zeros : j <= i)
Untrim(s, w) == IF Len(s) > w THEN {} ELSE {[i \in 1..(w - Len(s)) |-> 0] \o s}

\* (int) of an unsigned integer.
Cast(v) == LET low == v % Base4 IN IF 2 * low >= Base4 THEN low - Base4 ELSE low

-----------------------------------------------------------------------------
(* BigSize.                                                                *)

Encoding(v) == CASE v < Base - 3              -> <<v>>
                 [] v \in (Base - 3)..(Base2 - 1) -> <<Base - 3>> \o BE16(v)
                 [] v \in Base2..(Base4 - 1)      -> <<Base - 2>> \o BE32(v)
                 [] OTHER                         -> <<Base - 1>> \o BE64(v)
Length(v) == Len(Encoding(v))

\* BigSize.Parse: the value at the front of s, if it is complete and canonical.
BigSize(s) ==
  CASE s = <<>>                            -> {}
    [] s # <<>> /\ s[1] < Base - 3                 -> {s[1]}
    [] s # <<>> /\ s[1] = Base - 3 /\ Len(s) >= 3  -> {ToUInt16(s, 2)} \ 0..(Base - 4)
    [] s # <<>> /\ s[1] = Base - 2 /\ Len(s) >= 5  -> {ToUInt32(s, 2)} \ 0..(Base2 - 1)
    [] s # <<>> /\ s[1] = Base - 1 /\ Len(s) >= 9  -> {ToUInt64(s, 2)} \ 0..(Base4 - 1)
    [] OTHER                               -> {}

-----------------------------------------------------------------------------
(* TLV records.                                                            *)

Tlv(t, v) == [type |-> t, value |-> v]
ToEncoding(tlv) == Encoding(tlv.type) \o Encoding(Len(tlv.value)) \o tlv.value
TLVSize(tlv) == Length(tlv.type) + Length(Len(tlv.value)) + Len(tlv.value)

\* Not the code: the length is taken to be one byte.
ParseTLVShort(s) ==
  {Tlv(t, SubSeq(s, Length(t) + 2, Length(t) + 1 + s[Length(t) + 1])) :
     t \in {u \in BigSize(s) : Len(s) > Length(u) /\
                                Len(s) > Length(u) + s[Length(u) + 1]}}

\* A value behind its length, which is cast before it is an index.
Delimited(s) ==
  {SubSeq(s, Length(n) + 1, Length(n) + Cast(n)) :
     n \in {m \in BigSize(s) : Cast(m) >= 0 /\ Length(m) + Cast(m) <= Len(s)}}

\* TLV.Parse.
ParseTLV(s) == UNION {{Tlv(t, v) : v \in Delimited(Drop(s, Length(t)))} : t \in BigSize(s)}

-----------------------------------------------------------------------------
(* Hop payloads.                                                           *)

AMOUNT_TO_FORWARD   == 2
OUTGOING_CLTV_VALUE == 4
SHORT_CHANNEL_ID    == 6
PAYMENT_DATA        == 8
PAYMENT_METADATA    == 16

\* A payload with these fields filled in.  ChannelId is <<>> for null, PaymentData
\* and PaymentMetadata are {}.
Payload(legacy, channel, amount, cltv) ==
  [legacy |-> legacy, ChannelId |-> channel, AmountToForward |-> amount,
   OutgoingCltvValue |-> cltv, PaymentData |-> {}, PaymentMetadata |-> {},
   OtherTLVs |-> <<>>]

ToDataBuffer(p) ==
  IF p.legacy
  THEN LET padded == [i \in 1..32 |-> IF i <= Len(p.ChannelId) THEN p.ChannelId[i] ELSE 0]
       IN SubSeq(padded, 1, 8) \o BE64(p.AmountToForward)
            \o BE32(p.OutgoingCltvValue) \o SubSeq(padded, 21, 32)
  ELSE ToEncoding(Tlv(AMOUNT_TO_FORWARD, TrimZeros(BE64(p.AmountToForward))))
         \o ToEncoding(Tlv(OUTGOING_CLTV_VALUE, TrimZeros(BE32(p.OutgoingCltvValue))))
         \o IF p.ChannelId = <<>> THEN <<>>
            ELSE ToEncoding(Tlv(SHORT_CHANNEL_ID, p.ChannelId))

Size(p) == Len(ToDataBuffer(p))

\* Not the code: the length is not counted.
SphinxSizeBare(p) == IF p.legacy THEN 33 ELSE Size(p)

SphinxSize(p) == IF p.legacy THEN 33 ELSE Length(Size(p)) + Size(p)
ToSphinxBuffer(p) == (IF p.legacy THEN <<0>> ELSE Encoding(Size(p))) \o ToDataBuffer(p)

\* The while loop over remainingStream, which begins at s[i].
Records(s) ==
  LET from[i \in 1..(Len(s) + 1)] ==
        IF i > Len(s) THEN {<<>>}
        ELSE UNION {{<<tlv>> \o others : others \in from[i + TLVSize(tlv)]} :
                    tlv \in ParseTLV(Drop(s, i - 1))}
  IN from[1]

\* What one record does to the payload.
Read(p, tlv) ==
  CASE tlv.type = AMOUNT_TO_FORWARD ->
         {[p EXCEPT !.AmountToForward = ToUInt64(v, 1)] : v \in Untrim(tlv.value, 8)}
    [] tlv.type = OUTGOING_CLTV_VALUE ->
         {[p EXCEPT !.OutgoingCltvValue = ToUInt32(v, 1)] : v \in Untrim(tlv.value, 4)}
    [] tlv.type = SHORT_CHANNEL_ID -> {[p EXCEPT !.ChannelId = tlv.value]}
    [] tlv.type = PAYMENT_DATA ->
         IF Len(tlv.value) < 32 THEN {}
         ELSE {[p EXCEPT !.PaymentData = {<<SubSeq(tlv.value, 1, 32), ToUInt64(v, 1)>>}] :
                 v \in Untrim(Drop(tlv.value, 32), 8)}
    [] tlv.type = PAYMENT_METADATA -> {[p EXCEPT !.PaymentMetadata = {tlv.value}]}
    [] OTHER -> {[p EXCEPT !.OtherTLVs = Append(p.OtherTLVs, tlv)]}

\* The foreach over tlvs.
ReadAll(tlvs) ==
  LET read[i \in 0..Len(tlvs)] ==
        IF i = 0 THEN {Payload(FALSE, <<>>, 0, 0)}
        ELSE UNION {Read(p, tlvs[i]) : p \in read[i - 1]}
  IN read[Len(tlvs)]

\* Not the code: the length is taken to be one byte.
ParseSphinxShort(s) ==
  UNION {ReadAll(tlvs) : tlvs \in Records(SubSeq(s, 2, s[1] + 1))}

ParseSphinx(s) ==
  CASE s = <<>> -> {}
    [] s # <<>> /\ s[1] = 0 ->
         IF Len(s) < 33 THEN {}
         ELSE {Payload(TRUE, SubSeq(s, 2, 9), ToUInt64(s, 10), ToUInt32(s, 18))}
    [] OTHER ->
         UNION {UNION {ReadAll(tlvs) : tlvs \in Records(stream)} : stream \in Delimited(s)}

-----------------------------------------------------------------------------
(* What a caller may give: any bytes to parse; records, lists of them and  *)
(* payloads to write, whose lengths are ints, and what follows them.       *)

Strings == Seq(Digit)
Ints    == 0..(Base4 \div 2 - 1)

TLVs == [type : 0..(Base8 - 1), value : {s \in Strings : Len(s) \in Ints}]
Written(tlvs) == FlattenSeq([i \in 1..Len(tlvs) |-> ToEncoding(tlvs[i])])

Nullable(S) == {x \in SUBSET S : \A a, b \in x : a = b}
Payloads ==
  {p \in [legacy : BOOLEAN, ChannelId : Strings, AmountToForward : 0..(Base8 - 1),
          OutgoingCltvValue : 0..(Base4 - 1),
          PaymentData : Nullable(Strings \X (0..(Base8 - 1))),
          PaymentMetadata : Nullable(Strings), OtherTLVs : Seq(TLVs)] :
     IF p.legacy THEN Len(p.ChannelId) = 8 ELSE Size(p) \in Ints}

Inputs == [kind : {"bytes"}, bytes : Strings]
     \cup [kind : {"record"}, tlv : TLVs, rest : Strings]
     \cup [kind : {"payload"}, payload : Payloads, rest : Strings]
     \cup [kind : {"records"}, rest : Strings,
           tlvs : {ts \in Seq(TLVs) : ts # <<>> /\ Len(Written(ts)) \in Ints}]

-----------------------------------------------------------------------------
(* Properties.                                                             *)

\* What the string may begin with, read in each of the four forms.
Candidates(s) ==
  {s[i] : i \in DOMAIN s \cap {1}} \cup {ToUInt16(s, i - 1) : i \in DOMAIN s \cap {3}}
    \cup {ToUInt32(s, i - 3) : i \in DOMAIN s \cap {5}}
    \cup {ToUInt64(s, i - 7) : i \in DOMAIN s \cap {9}}

\* BigSize.Parse accepts a byte string exactly if it begins with the encoding of
\* an integer, and returns that integer: cut short or in a longer form it is
\* refused.
BigSizesCanonical ==
  input.kind = "bytes" =>
    LET s == input.bytes IN
    \A v \in BigSize(s) \cup Candidates(s) : v \in BigSize(s) <=> IsPrefix(Encoding(v), s)

\* A record is read as it was written, whatever follows it; and what TLV.Parse
\* accepts is what TLVSize says was consumed, unless the length of the record
\* does not fit an int.  Its integers are canonical.
RecordsFramed ==
  /\ BigSizesCanonical
  /\ input.kind = "record" =>
       LET s == ToEncoding(input.tlv) IN
       /\ BigSize(s) = {input.tlv.type}
       /\ ParseTLV(s \o input.rest) = {input.tlv}
       /\ TLVSize(input.tlv) = Len(s)
       /\ input.tlv.value # <<>> => ParseTLV(Front(s)) = {}
  /\ input.kind = "bytes" =>
       \A tlv \in ParseTLV(input.bytes) :
         \/ IsPrefix(ToEncoding(tlv), input.bytes)
         \/ \E n \in BigSize(Drop(input.bytes, Length(tlv.type))) : n >= Base4 \div 2

Known == {AMOUNT_TO_FORWARD, OUTGOING_CLTV_VALUE, SHORT_CHANNEL_ID, PAYMENT_DATA,
          PAYMENT_METADATA}
Unknown(tlvs) ==
  LET others[i \in 0..Len(tlvs)] ==
        IF i = 0 THEN <<>>
        ELSE others[i - 1] \o (IF tlvs[i].type \in Known THEN <<>> ELSE <<tlvs[i]>>)
  IN others[Len(tlvs)]

\* The fields that ToDataBuffer writes: payment data, metadata and other records,
\* which a caller may have filled in or read, are lost.
Carried(p) == Payload(p.legacy, p.ChannelId, p.AmountToForward, p.OutgoingCltvValue)

\* An integer is not longer than its type, payment data is not too short either.
Fits(tlv) ==
  /\ tlv.type = AMOUNT_TO_FORWARD => Len(tlv.value) <= 8
  /\ tlv.type = OUTGOING_CLTV_VALUE => Len(tlv.value) <= 4
  /\ tlv.type = PAYMENT_DATA => Len(tlv.value) \in 32..40

\* Of a hop payload, legacy or not, ParseSphinx reads what ToDataBuffer has carried,
\* whatever follows it, and SphinxSize is what it takes.  The records of a payload
\* that somebody else wrote are all found, in order, those of unknown types among
\* them, unless one of them does not fit.
PayloadsRead ==
  /\ input.kind = "payload" =>
       LET s == ToSphinxBuffer(input.payload) IN
       /\ ParseSphinx(s \o input.rest) = {Carried(input.payload)}
       /\ SphinxSize(input.payload) = Len(s)
  /\ input.kind = "records" =>
       LET s == Written(input.tlvs)
           read == ParseSphinx(Encoding(Len(s)) \o s \o input.rest) IN
       /\ Records(s) = {input.tlvs}
       /\ read # {} <=> \A i \in 1..Len(input.tlvs) : Fits(input.tlvs[i])
       /\ \A p \in read :
            /\ p.OtherTLVs = Unknown(input.tlvs)
            /\ p.PaymentData # {} <=> \E i \in 1..Len(input.tlvs) : input.tlvs[i].type = 8

\* As BOLT 4 has them: in order of their types, amount and expiry at least, and
\* integers without leading zeros.
InOrder(tlvs) ==
  /\ \A i \in 2..Len(tlvs) : tlvs[i - 1].type < tlvs[i].type
  /\ Len(tlvs) >= 2 /\ tlvs[1].type = AMOUNT_TO_FORWARD /\ tlvs[2].type = OUTGOING_CLTV_VALUE
  /\ \A i \in 1..2 : 1 \in DOMAIN tlvs[i].value => tlvs[i].value[1] # 0
  /\ \A i \in 3..Len(tlvs) : tlvs[i].type = SHORT_CHANNEL_ID => tlvs[i].value # <<>>

\* SphinxSize of a payload that was received is the size it had if it says nothing but
\* amount, expiry and channel, and less if there is anything else in it.
SizeOfWhatIsCarried ==
  input.kind = "records" /\ InOrder(input.tlvs) =>
    LET s == Written(input.tlvs)
        wire == Encoding(Len(s)) \o s IN
    \A p \in ParseSphinx(wire \o input.rest) :
      /\ SphinxSize(p) \in 1..Len(wire)
      /\ SphinxSize(p) = Len(wire) <=>
           \A i \in 1..Len(input.tlvs) :
             input.tlvs[i].type \in {AMOUNT_TO_FORWARD, OUTGOING_CLTV_VALUE, SHORT_CHANNEL_ID}
=============================================================================
