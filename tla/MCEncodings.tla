----------------------------- MODULE MCEncodings -----------------------------
(* The library LNBolt: a decoder of onions in one part of the initial        *)
(* states, one input to the other encodings in the others.                   *)
EXTENDS Codecs, Bech32, Onion

SomeDigits == {0, 2, Base - 3, Base - 1}
Wide == {<<Base - 1>> \o s : s \in [1..8 -> {0, 1}]}
SomeStrings == UNION {[1..n -> SomeDigits] : n \in 0..5} \cup Wide
                 \cup {<<2>> \o s \o <<1, 1, 1>> : s \in Wide}

Types == {0, 2, 6, 16, Base - 3, Base2 - 1, Base2, Base4 - 1, Base4}
Value(n) == [i \in 1..n |-> IF i = 1 THEN 0 ELSE 1]
SomeTLVs == {Tlv(t, Value(n)) : t \in Types, n \in {0, 1, 2, 3, 4, Base2 - 1, Base2}}

Amounts == {0, 1, Base2, Base8 - 1}
Cltvs == {0, Base, Base4 - 1}
SomePayloads == {Payload(FALSE, channel, a, c) :
                   channel \in {<<>>, Value(8)}, a \in Amounts, c \in Cltvs}
                \cup {Payload(TRUE, Value(8), a, c) : a \in Amounts, c \in Cltvs}
                \cup {[Payload(l, Value(8), Base2, Base) EXCEPT !.PaymentData = d,
                        !.PaymentMetadata = m, !.OtherTLVs = o] : l \in BOOLEAN,
                        d \in {{}, {<<Value(32), 1>>}}, m \in {{}, {<<0, 0>>}},
                        o \in {<<>>, <<Tlv(Base2, <<2>>)>>}}

FinalTLVs == {Tlv(AMOUNT_TO_FORWARD, <<1>>), Tlv(AMOUNT_TO_FORWARD, Value(9)),
              Tlv(OUTGOING_CLTV_VALUE, <<>>), Tlv(OUTGOING_CLTV_VALUE, Value(5)),
              Tlv(SHORT_CHANNEL_ID, Value(8)),
              Tlv(PAYMENT_DATA, Value(31)), Tlv(PAYMENT_DATA, Value(40)),
              Tlv(PAYMENT_METADATA, <<0, 0>>), Tlv(Base2, <<2>>), Tlv(3, <<>>)}

SomeInputs == {[kind |-> "bytes", bytes |-> s] : s \in SomeStrings}
         \cup {[kind |-> "record", tlv |-> t, rest |-> r] :
                 t \in SomeTLVs, r \in {<<>>, <<Base - 1>>}}
         \cup {[kind |-> "payload", payload |-> p, rest |-> r] :
                 p \in SomePayloads, r \in {<<>>, <<0, 3>>}}
         \cup {[kind |-> "records", tlvs |-> ts, rest |-> <<1>>] :
                 ts \in UNION {[1..n -> FinalTLVs] : n \in 1..3}}

\* "bc" and "1a" with up to three bytes.
Hrps == {<<98, 99>>, <<49, 97>>}
Datas == {<<>>, <<0>>, <<255>>, <<129, 7>>, <<1, 2, 3>>}

\* Texts with a right checksum over any symbols, in lower, upper and mixed case.
Symbols == UNION {[1..n -> {0, 1, 16, 31}] : n \in 0..4}
Texts == UNION {{Text(<<98, 99>>, s), ToUpper(Text(<<98, 99>>, s)),
                 <<66>> \o Tail(Text(<<98, 99>>, s))} : s \in Symbols}

SomeInvoices == {[kind |-> "data", hrp |-> h, data |-> d] : h \in Hrps, d \in Datas}
           \cup {[kind |-> "text", text |-> t] : t \in Texts}

\* They are inputs the theorems are about.
ASSUME SomeAreGiven == SomeInputs \subseteq Inputs /\ SomeInvoices \subseteq Invoices

Nothing == [kind |-> "none"]
MCInit == /\ Init
          /\ \/ input = Nothing /\ invoice = Nothing
             \/ /\ route = <<CHOOSE n \in Sizes : TRUE>>
                /\ readSize = route
                /\ sender = "LND" /\ associated = "none"
                /\ \/ input \in SomeInputs /\ invoice = Nothing
                   \/ invoice \in SomeInvoices /\ input = Nothing
MCNext == Next /\ input = Nothing /\ invoice = Nothing /\ UNCHANGED <<input, invoice>>
MCSpec == MCInit /\ [][MCNext]_<<vars, input, invoice>>
=============================================================================
