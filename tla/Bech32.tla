------------------------------- MODULE Bech32 -------------------------------
(***************************************************************************)
(* Bech32Engine of LNBolt: the encoding of BOLT 11, a human readable part, *)
(* a separator and symbols of five bits, the last six of them a checksum.  *)
(*                                                                         *)
(* Characters are their codes in ASCII.  A number that is shifted, masked  *)
(* or XORed is the set of its bits, the lowest bit being 0: XOR is then    *)
(* the symmetric difference.  What returns null or throws is a set without *)
(* elements, what returns x is {x}.                                        *)
(***************************************************************************)
EXTENDS Integers, SequencesExt

VARIABLE invoice   \* what a caller has given to Encode or Decode

Byte  == 0..255
Ascii == 0..127
Upper == 65..90    \* "A" to "Z"
Lower == 97..122

\* Data to encode, with a prefix that Decode gives back: it has no upper case.
Invoices == [kind : {"data"}, hrp : Seq(Ascii \ Upper), data : Seq(Byte)]
              \cup [kind : {"text"}, text : Seq(Ascii)]

-----------------------------------------------------------------------------
(* Bits.                                                                   *)

a ++ b == (a \ b) \cup (b \ a)

Bits(n) == {b \in 0..29 : (n \div 2^b) % 2 = 1}

\* The byte with these bits.
ByteOf(bits) == CHOOSE n \in Byte : Bits(n) = bits

-----------------------------------------------------------------------------
(* The checksum.                                                           *)

\* "qpzry9x8gf2tvdw0s3jn54khce6mua7l"
charset == <<113, 112, 122, 114, 121, 57, 120, 56, 103, 102, 50, 116, 118, 100, 119, 48,
             115, 51, 106, 110, 53, 52, 107, 104, 99, 101, 54, 109, 117, 97, 55, 108>>
generator == <<996825010, 642813549, 513874426, 1027748829, 705979059>>

\* One turn of the loop, for the 30 bits of chk.
Feedback(chk, i) == IF 24 + i \in chk THEN Bits(generator[i]) ELSE {}
Turn5(chk, value) ==
  {b + 5 : b \in chk \cap 0..24} ++ Bits(value)
    ++ Feedback(chk, 1) ++ Feedback(chk, 2) ++ Feedback(chk, 3)
    ++ Feedback(chk, 4) ++ Feedback(chk, 5)

PolyMod(values) ==
  LET chk[i \in 0..Len(values)] == IF i = 0 THEN Bits(1) ELSE Turn5(chk[i - 1], values[i])
  IN chk[Len(values)]

HRPExpand(hrp) == [i \in 1..Len(hrp) |-> hrp[i] \div 32] \o <<0>>
                    \o [i \in 1..Len(hrp) |-> hrp[i] % 32]
CreateChecksum(hrp, data) ==
  LET checksum == PolyMod(HRPExpand(hrp) \o data \o <<0, 0, 0, 0, 0, 0>>) ++ Bits(1)
  IN [i \in 1..6 |-> ByteOf({b \in 0..4 : b + 5 * (6 - i) \in checksum})]

\* Not the code: a checksum is never refused.
VerifyNothing(hrp, data) == TRUE

VerifyChecksum(hrp, data) == PolyMod(HRPExpand(hrp) \o data) = Bits(1)

-----------------------------------------------------------------------------
(* Bytes to symbols and back.                                              *)

\* The places of the ones in a string of bytes of a width, from 0.
Ones(bytes, width) ==
  {p \in 0..(width * Len(bytes) - 1) : width - 1 - (p % width) \in Bits(bytes[(p \div width) + 1])}

\* The first n groups of a width.
Groups(ones, n, width) ==
  [i \in 1..n |-> ByteOf({b \in 0..(width - 1) : i * width - 1 - b \in ones})]

\* Not the code: bits that are left over are dropped both ways.
ByteSquasherLax(bytes, inputWidth, outputWidth) ==
  LET size == inputWidth * Len(bytes) IN
  {Groups(Ones(bytes, inputWidth),
          (IF inputWidth > outputWidth THEN size + outputWidth - 1 ELSE size) \div outputWidth,
          outputWidth)}

\* Padded with zeros from 8 to 5; from 5 to 8 nothing but a few zeros may be left.
ByteSquasher(bytes, inputWidth, outputWidth) ==
  LET size == inputWidth * Len(bytes)
      ones == Ones(bytes, inputWidth)
      pads == inputWidth = 8 /\ outputWidth = 5
      n == (IF pads THEN size + outputWidth - 1 ELSE size) \div outputWidth
  IN IF \/ \E i \in 1..Len(bytes) : bytes[i] >= 2^inputWidth
        \/ ~pads /\ (size % outputWidth >= inputWidth \/ \E p \in ones : p >= n * outputWidth)
     THEN {}
     ELSE {Groups(ones, n, outputWidth)}

-----------------------------------------------------------------------------
(* Texts.                                                                  *)

Separator == 49   \* "1"

Text(hrp, symbols) ==
  LET combined == symbols \o CreateChecksum(hrp, symbols)
  IN hrp \o <<Separator>> \o [i \in 1..Len(combined) |-> charset[combined[i] + 1]]
Encode(hrp, data) == {Text(hrp, symbols) : symbols \in ByteSquasher(data, 8, 5)}

ToLower(text) == [i \in 1..Len(text) |-> IF text[i] \in Upper THEN text[i] + 32 ELSE text[i]]
ToUpper(text) == [i \in 1..Len(text) |-> IF text[i] \in Lower THEN text[i] - 32 ELSE text[i]]

\* A character outside the charset gives null.
StringToSquashedBytes(text) ==
  IF \E i \in 1..Len(text) : ~Contains(charset, text[i]) THEN {}
  ELSE {[i \in 1..Len(text) |-> (CHOOSE n \in 1..32 : charset[n] = text[i]) - 1]}

\* LastIndexOf, 0 if there is none.
SplitLoc(text) == SelectLastInSeq(text, LAMBDA c : c = Separator)

Decode(text) ==
  LET adr == ToLower(text)
      hrp == SubSeq(adr, 1, SplitLoc(adr) - 1)
  IN IF (text # adr /\ text # ToUpper(text)) \/ SplitLoc(adr) = 0 THEN {}
     ELSE UNION {{[hrp |-> hrp, data |-> data] :
                    data \in ByteSquasher(SubSeq(squashed, 1, Len(squashed) - 6), 5, 8)} :
                 squashed \in {s \in StringToSquashedBytes(SubSeq(adr, SplitLoc(adr) + 1, Len(adr))) :
                                 VerifyChecksum(hrp, s) /\ Len(s) >= 6}}

-----------------------------------------------------------------------------
(* Properties.                                                             *)

\* What Encode writes Decode reads, in either case of letters, also with a "1"
\* in the human readable part; and no other text is accepted, so that no two
\* texts have one meaning.
Bech32Inverse ==
  /\ invoice.kind = "data" =>
       \E text \in Encode(invoice.hrp, invoice.data) :
         \A t \in {text, ToUpper(text)} :
           Decode(t) = {[hrp |-> invoice.hrp, data |-> invoice.data]}
  /\ invoice.kind = "text" =>
       \A d \in Decode(invoice.text) : Encode(d.hrp, d.data) = {ToLower(invoice.text)}

\* One wrong character after the separator, whichever, is detected.
Bech32Detects ==
  invoice.kind = "data" =>
    \A text \in Encode(invoice.hrp, invoice.data) :
      \A i \in (Len(invoice.hrp) + 2)..Len(text), n \in 1..32 :
        charset[n] # text[i] => Decode([text EXCEPT ![i] = charset[n]]) = {}
=============================================================================
