-------------------------------- MODULE Onion --------------------------------
(***************************************************************************)
(* The onion of BOLT 4: OnionBlob.ConstructOnion wraps the payloads of a   *)
(* route in layers, OnionBlob.Peel takes them off one by one and turns the *)
(* blob into the next layer.                                               *)
(*                                                                         *)
(* Bytes are symbols.  b says what the byte is: <<>> for zero, a byte of a *)
(* payload, or of an HMAC, which names all that it was computed over; s is *)
(* the set of cipher bytes that it has been XORed with.  Of a payload      *)
(* there are two sizes: the one it has, and the one that Peel goes by,     *)
(* which is computed from what ParseSphinx has read (see Codecs).          *)
(***************************************************************************)
EXTENDS Naturals, SequencesExt

CONSTANTS
  HMAC_LENGTH,
  ONION_PACKET_LENGTH,
  Sizes,        \* of payloads, one byte of which is the prefix
  MaxHops,      \* bound: hops of a route
  MaxPeels      \* bound: calls of Peel

P == ONION_PACKET_LENGTH

ASSUME LengthsAssumption == HMAC_LENGTH \in Nat \ {0} /\ P \in Nat
ASSUME SizesAssumption == Sizes \subseteq 2..(P - HMAC_LENGTH)
ASSUME BoundsAssumption == MaxHops \in Nat /\ MaxPeels \in Nat

VARIABLES
  route,        \* the size of the payload of each hop, and
  readSize,     \* SphinxSize of what ParseSphinx makes of it, 0 if it throws
  sender,       \* who made the onion
  associated,   \* the associated data, "none" for null
  blob,         \* EphemeralPublicKey, HopPayloads and NextHmac of the decoder
  peeled,       \* history: hops whose payloads were returned
  calls         \* history: calls of Peel

vars == <<route, readSize, sender, associated, blob, peeled, calls>>

Hops == 1..Len(route)
Zero == [b |-> <<>>, s |-> {}]
Zeros(n) == [j \in 1..n |-> Zero]
Stream(h, j) == {<<h, j>>}
Xored(byte, stream) == [byte EXCEPT !.s = (@ \ stream) \cup (stream \ @)]

\* CalculateHMAC with the mu key of a hop.
Hmac(h, packet, data) ==
  [j \in 1..HMAC_LENGTH |-> [b |-> <<"hmac", h, packet, data, j>>, s |-> {}]]

\* Not the code: the HMAC is not counted.
ShiftSizeBare(h) == route[h]

ShiftSize(h) == route[h] + HMAC_LENGTH

\* What the hops before h take.
Trailing[h \in 1..(Len(route) + 1)] ==
  IF h = 1 THEN 0 ELSE Trailing[h - 1] + route[h - 1] + HMAC_LENGTH
FillerSize == Trailing[Len(route)]

\* ToSphinxBuffer and ToDataBuffer, which leaves out the prefix.
SphinxBuffer(h) == [j \in 1..route[h] |-> [b |-> <<h, j>>, s |-> {}]]
DataBuffer(h) == Tail(SphinxBuffer(h))

-----------------------------------------------------------------------------
(* Constructing.                                                           *)

\* Not the code: the trailing size counts the hop itself.
FillerLate ==
  [m \in 1..FillerSize |->
    [b |-> <<>>, s |-> {<<h, P - Trailing[h + 1] + m>> :
                          h \in {g \in 1..(Len(route) - 1) :
                                   m <= Trailing[g + 1] /\ P + m > Trailing[g + 1]}}]]

\* GenerateFiller: hop h XORs the first bytes with its stream from P minus the
\* sizes of the hops before it up to P plus its own.
GenerateFiller ==
  [m \in 1..FillerSize |->
    [b |-> <<>>, s |-> {<<h, P - Trailing[h] + m>> :
                          h \in {g \in 1..(Len(route) - 1) : m <= Trailing[g + 1]}}]]

\* hopPayloads and nextHmac after the round of hop h, given those before it.
Round(h, buffer, inner) ==
  LET currentHopData == buffer \o inner.hmac
      shifted == [j \in 1..P |->
        CASE j <= Len(currentHopData) -> currentHopData[j]
          [] j \in (Len(currentHopData) + 1)..ShiftSize(h) -> inner.packet[j]
          [] OTHER -> inner.packet[j - ShiftSize(h)]]
      streamed == [j \in 1..P |-> Xored(shifted[j], Stream(h, j))]
      packet == IF h < Len(route) THEN streamed
                ELSE SubSeq(streamed, 1, P - FillerSize) \o GenerateFiller
  IN [packet |-> packet, hmac |-> Hmac(h, packet, associated)]

\* From the last hop to the first.
Rounds(buffers) ==
  LET round[h \in 1..(Len(route) + 1)] ==
        IF h > Len(route) THEN [packet |-> Zeros(P), hmac |-> Zeros(HMAC_LENGTH)]
        ELSE Round(h, buffers[h], round[h + 1])
  IN round

\* ConstructOnion; LND does the same with the whole buffer.
ConstructOnion == Rounds([h \in Hops |-> DataBuffer(h)])
LndOnion == Rounds([h \in Hops |-> SphinxBuffer(h)])
Layer(h) == IF sender = "LND" THEN LndOnion[h] ELSE ConstructOnion[h]
Buffer(h) == IF sender = "LND" THEN SphinxBuffer(h) ELSE DataBuffer(h)

\* The ephemeral key of hop h is h.
OnionBlob(h, layer) == [key |-> h, packet |-> layer.packet, hmac |-> layer.hmac]

\* LND's payloads can be read; SphinxSize counts their amount, expiry and channel,
\* no other record.  Those of ConstructOnion can be read by chance, say as a legacy
\* payload if they begin with a zero.
Init ==
  /\ route \in BoundedSeq(Sizes, MaxHops) \ {<<>>}
  /\ Trailing[Len(route) + 1] <= P
  /\ sender \in {"LND", "LNBolt"}
  /\ readSize \in [Hops -> {0} \cup Sizes]
  /\ sender = "LND" => \A h \in Hops : readSize[h] \in 1..route[h]
  /\ associated \in {"none", "payment"}
  /\ blob = OnionBlob(1, Layer(1))
  /\ peeled = <<>>
  /\ calls = 0

-----------------------------------------------------------------------------
(* Peeling.                                                                *)

\* DeriveSharedSecret: the secret of hop h if the key is the one made for it.
DeriveSharedSecret(key, h) == IF key = h THEN h ELSE 0

\* HopPayloads, extended by zeros, and the stream of the secret.
Extended(secret) ==
  [j \in 1..(2 * P) |-> Xored(IF j <= P THEN blob.packet[j] ELSE Zero, Stream(secret, j))]

\* HopPayload.ParseSphinx: the hop whose payload the bytes begin with.
Parsed(bytes) ==
  {h \in Hops : readSize[h] > 0 /\ SubSeq(bytes, 1, Len(Buffer(h))) = Buffer(h)}

\* CalculateNextEphemeralPublicKey takes the secret for the key: no hop knows
\* the key it makes.
NextKey(secret) == 0

\* What Peel returns and leaves: nothing if it throws, and the blob as it was if it
\* finds no next HMAC.
Result(h, next) == [hop |-> h, blob |-> next]

Peeled(secret, data) ==
  LET extended == Extended(secret) IN
  {LET end == readSize[h] + HMAC_LENGTH
       nextHmac == SubSeq(extended, readSize[h] + 1, end)
   IN Result(h, IF nextHmac = Zeros(HMAC_LENGTH) THEN blob
                ELSE [key |-> NextKey(secret),
                      packet |-> SubSeq(extended, end + 1, end + P), hmac |-> nextHmac]) :
     h \in {g \in Parsed(extended) : blob.hmac = Hmac(secret, blob.packet, data)}}

\* A call with the secret or with the private key of some hop, and with some
\* associated data.
Peel(h, byKey, data) ==
  /\ calls < MaxPeels
  /\ calls' = calls + 1
  /\ LET results == Peeled(IF byKey THEN DeriveSharedSecret(blob.key, h) ELSE h, data) IN
       \/ \E r \in results : blob' = r.blob /\ peeled' = Append(peeled, r.hop)
       \/ results = {} /\ UNCHANGED <<blob, peeled>>
  /\ UNCHANGED <<route, readSize, sender, associated>>

Next == \E h \in Hops, byKey \in BOOLEAN, data \in {"none", "payment"} :
          Peel(h, byKey, data)
Spec == Init /\ [][Next]_vars

-----------------------------------------------------------------------------
(* Properties.                                                             *)

\* The hop whose turn it is.
Turn == IF Len(peeled) < Len(route) THEN Len(peeled) + 1 ELSE Len(route)

\* Peel returns the payloads in the order of the route, whatever secrets it is
\* called with and however often; the last one can be had again and again.
PeelsInOrder ==
  \A n \in 1..Len(peeled) : peeled[n] = IF n < Len(route) THEN n ELSE Len(route)

\* A payload was returned of which SphinxSize does not count everything.
Spoiled == \E n \in 1..Len(peeled) : readSize[peeled[n]] # route[peeled[n]]

\* Of an onion of LND, beyond that, the blob is always a layer the sender has made,
\* so that its HMAC is the right one and the hop whose turn it is can go on: filler,
\* shifts and sizes agree to the byte.  But a payload with more in it than amount,
\* expiry and channel is the last that is ever had from it.
EveryHopPeels ==
  sender = "LND" =>
    /\ PeelsInOrder
    /\ IF Spoiled
       THEN \A h \in Hops, data \in {"none", "payment"} : Peeled(h, data) = {}
       ELSE /\ blob.packet = Layer(Turn).packet /\ blob.hmac = Layer(Turn).hmac
            /\ \E r \in Peeled(Turn, associated) : r.hop = Turn

\* "Onion Blob decoding (work in progress, but works on last hop right now)": behind
\* the payload of the last hop there is no next layer, and the blob stays.
LastHopPeels ==
  sender = "LND" /\ Len(peeled) >= Len(route) => blob.packet = Layer(Len(route)).packet

\* In the onions of ConstructOnion, too, each layer holds the next, at the place
\* that SphinxSize says.
LayersNest ==
  \A h \in 1..(Len(route) - 1) :
    LET bytes == Layer(h).packet \o Zeros(P) IN
    Layer(h + 1).packet =
      [j \in 1..P |-> LET end == route[h] + HMAC_LENGTH IN
                       Xored(bytes[end + j], Stream(h, end + j))]
=============================================================================
