---------------------------- MODULE WireProtocol ----------------------------
(***************************************************************************)
(* The binary format of the overlay's messages                             *)
(* (src/overlay/wire-protocol.ts): a message is encoded, the stream may be *)
(* cut short, and what arrives is decoded.                                 *)
(*                                                                         *)
(* A byte is a number below Base (256 in the code), and the fixed parts    *)
(* (ids, keys, tags) have Width bytes each; a text is its bytes.  A        *)
(* timestamp is two words, high and low, each of which stands for four     *)
(* bytes and is written as one digit.  A message is its type, the flag of  *)
(* the header byte, and its fields in the order in which they are written; *)
(* a payload is its sealed keys, its ciphertext and its tag, and an        *)
(* attestation the values of AttestationParts.  A field that is undefined  *)
(* has its place all the same.  Only cuts of what was encoded are decoded. *)
(***************************************************************************)
EXTENDS Integers, Sequences

CONSTANTS Base, Width,
          Ids, Texts, WirePaths, Times, Payloads, Attestations, Ttls
                             \* the values of the fields that are tried

Octet == 0..(Base - 1)
Fixed == [1..Width -> Octet]

\* The header needs three bits.
ASSUME WireAssumption ==
  /\ Base \in Nat /\ Base >= 8 /\ Width \in Nat
  /\ Ids \subseteq Seq(Octet) /\ Texts \subseteq Seq(Octet)
  /\ WirePaths \subseteq Seq(Seq(Octet))
  /\ Times \subseteq Nat /\ Ttls \subseteq Nat
  /\ Payloads \subseteq Fixed \X Seq(Octet) \X Fixed
  /\ Attestations \subseteq
       Seq(Octet) \X Seq(Octet) \X Nat \X Seq(Octet) \X Nat \X Seq(Octet)

VARIABLES sentMessage, wire, cutAt, receivedMessage

wireVars == <<sentMessage, wire, cutAt, receivedMessage>>

NoMessage == [type |-> 4, flag |-> FALSE, fields |-> <<>>]
Refused == [type |-> 5, flag |-> FALSE, fields |-> <<>>]

REQUEST == 0
RESPONSE == 1
DUPLICATE == 2
UNREACHABLE == 3

\* A field that is undefined; an error or a signature of no bytes is the same.
Absent == <<>>

Flag(flag) == IF flag THEN 1 ELSE 0

Requests ==
  [type : {REQUEST}, flag : BOOLEAN,
   fields : {<<i, o, t, ttl, at, p, k, e>> :
               i \in Ids, o \in Texts, t \in Texts, ttl \in Ttls, at \in Times,
               p \in WirePaths, k \in {[n \in 1..Width |-> 1]}, e \in Payloads}]

\* Whether it succeeded, and the error if not.
Verdicts == {<<1, Absent>>} \cup {<<0, x>> : x \in Texts}

ResponsesWith(flag, attestations) ==
  [type : {RESPONSE}, flag : {flag},
   fields : {<<i, o, t, p, v[1], v[2], e, a>> :
               i \in Ids, o \in Texts, t \in Texts, p \in WirePaths, v \in Verdicts,
               e \in Payloads, a \in attestations}]
Responses == ResponsesWith(FALSE, {Absent}) \cup ResponsesWith(TRUE, Attestations)

Duplicates == [type : {DUPLICATE}, flag : {FALSE}, fields : {<<i>> : i \in Ids}]
Unreachables == [type : {UNREACHABLE}, flag : {FALSE},
                 fields : {<<i, reason>> : i \in Ids, reason \in 0..3}]
Messages == Requests \cup Responses \cup Duplicates \cup Unreachables

-----------------------------------------------------------------------------
(* The fields of the messages, in the order in which they are written.     *)

KindsOf(type) ==
  CASE type = REQUEST ->
         <<"fixed", "text", "text", "byte", "time", "path", "fixed", "payload">>
    [] type = RESPONSE ->
         <<"fixed", "text", "text", "path", "byte", "error", "payload", "attestation">>
    [] type = DUPLICATE -> <<"fixed">>
    [] type = UNREACHABLE -> <<"fixed", "byte">>

PayloadParts == <<"fixed", "long text", "fixed">>
AttestationParts == <<"text", "text", "time", "text", "byte", "text">>

\* A response has an error or success is 1, and an attestation or no flag.
Present(m, i) ==
  LET kind == KindsOf(m.type)[i]
  IN (kind = "error" => m.fields[5] # 1) /\ (kind = "attestation" => m.flag)

-----------------------------------------------------------------------------
(* Encoding                                                                *)

\* A number without its last w bytes.
Shifted(n, w) ==
  LET shifted[i \in 0..w] == IF i = 0 THEN n ELSE shifted[i - 1] \div Base
  IN shifted[w]

\* A number in w bytes, the highest first; what does not fit is lost.
Digits(n, w) == [i \in 1..w |-> Shifted(n, w - i) % Base]

\* concatenateArrays
Concat(parts) ==
  LET upTo[i \in 0..Len(parts)] == IF i = 0 THEN <<>> ELSE upTo[i - 1] \o parts[i]
  IN upTo[Len(parts)]

EncodeText(text) == Digits(Len(text), 2) \o text

EncodePart(kind, value) ==
  CASE kind = "fixed" -> value
    [] kind = "byte" -> Digits(value, 1)
    [] kind = "text" -> EncodeText(value)
    [] kind = "long text" -> Digits(Len(value), 4) \o value
    [] kind = "time" -> Digits(value, 2)

EncodeParts(kinds, values) ==
  Concat([i \in DOMAIN values |-> EncodePart(kinds[i], values[i])])

Entries(count) == [i \in 1..count |-> "text"]

\* The count of a path has one byte.
EncodePath(path) ==
  Digits(Len(path), 1) \o Concat([i \in DOMAIN path |-> EncodeText(path[i])])

EncodeField(kind, value) ==
  CASE kind = "path" -> EncodePath(value)
    [] kind = "error" -> EncodeText(value)
    [] kind = "payload" -> EncodeParts(PayloadParts, value)
    [] kind = "attestation" -> EncodeText(EncodeParts(AttestationParts, value))
    [] OTHER -> EncodePart(kind, value)

Encode(m) ==
  <<m.type + 4 * Flag(m.flag)>>
  \o Concat([i \in DOMAIN m.fields |->
               IF Present(m, i) THEN EncodeField(KindsOf(m.type)[i], m.fields[i]) ELSE <<>>])

-----------------------------------------------------------------------------
(* Decoding: what was read, and how far that came.                         *)

Read(at, value) == [ok |-> TRUE, at |-> at, value |-> value]
TooShort == [ok |-> FALSE, at |-> 0, value |-> <<>>]

\* The values read so far, and one more.
Extended(r, next) ==
  IF r.ok /\ next.ok THEN Read(next.at, Append(r.value, next.value)) ELSE TooShort

\* A negative length leads back, even before the first byte: slice counts such a
\* place from the end, and a byte there is undefined, which shifts take for 0.
Place(data, at) ==
  IF at >= 0 THEN at ELSE IF Len(data) + at >= 0 THEN Len(data) + at ELSE 0

BytesFrom(data, at, w) == [i \in 1..w |-> IF at + i > 0 THEN data[at + i] ELSE 0]

ReadBytes(data, at, n) ==
  IF at + n <= Len(data)
  THEN Read(at + n, SubSeq(data, Place(data, at) + 1, Place(data, at + n))) ELSE TooShort

NumberOf(bytes) ==
  LET number[i \in 0..Len(bytes)] == IF i = 0 THEN 0 ELSE number[i - 1] * Base + bytes[i]
  IN number[Len(bytes)]

\* Signed shifts make a number of four bytes negative, if its first bit is set.
SignedOf(bytes) ==
  NumberOf([bytes EXCEPT ![1] = IF @ < Base \div 2 THEN @ ELSE @ - Base])

ReadNumber(data, at, w) ==
  IF at + w <= Len(data) THEN Read(at + w, NumberOf(BytesFrom(data, at, w))) ELSE TooShort

ReadSigned(data, at, w) ==
  IF at + w <= Len(data) THEN Read(at + w, SignedOf(BytesFrom(data, at, w))) ELSE TooShort

\* As many bytes as the number says that was read.
ReadCounted(data, count) ==
  IF count.ok THEN ReadBytes(data, count.at, count.value) ELSE TooShort

ReadPart(data, at, kind) ==
  CASE kind = "fixed" -> ReadBytes(data, at, Width)
    [] kind = "byte" -> ReadNumber(data, at, 1)
    [] kind = "text" -> ReadCounted(data, ReadNumber(data, at, 2))
    [] kind = "long text" -> ReadCounted(data, ReadSigned(data, at, 4))
    [] kind = "time" -> ReadSigned(data, at, 2)

ReadParts(data, at, kinds) ==
  LET read[i \in 0..Len(kinds)] ==
        IF i = 0 THEN Read(at, <<>>)
        ELSE LET r == read[i - 1] IN Extended(r, ReadPart(data, r.at, kinds[i]))
  IN read[Len(kinds)]

\* Mutant of ReadPath: the last entry of a path is left unread.
ReadPathButLast(data, at) ==
  LET count == ReadNumber(data, at, 1)
  IN IF count.ok
     THEN ReadParts(data, count.at, Entries(IF count.value = 0 THEN 0 ELSE count.value - 1))
     ELSE TooShort

ReadPath(data, at) ==
  LET count == ReadNumber(data, at, 1)
  IN IF count.ok THEN ReadParts(data, count.at, Entries(count.value)) ELSE TooShort

\* The length in front is only compared with what is there.
ReadAttestation(data, at) ==
  LET length == ReadNumber(data, at, 2)
  IN IF length.ok /\ length.at + length.value <= Len(data)
     THEN ReadParts(data, length.at, AttestationParts) ELSE TooShort

ReadField(data, at, kind) ==
  CASE kind = "path" -> ReadPath(data, at)
    [] kind = "error" -> ReadPart(data, at, "text")
    [] kind = "payload" -> ReadParts(data, at, PayloadParts)
    [] kind = "attestation" -> ReadAttestation(data, at)
    [] OTHER -> ReadPart(data, at, kind)

\* There is no error with success, and an attestation that the header announces
\* is read if anything is left.
Skipped(data, flag, r, kind) ==
  \/ kind = "error" /\ r.value[5] = 1
  \/ kind = "attestation" /\ ~ (flag /\ r.at < Len(data))

ReadNext(data, flag, r, kind) ==
  IF ~ r.ok THEN TooShort
  ELSE IF Skipped(data, flag, r, kind) THEN Read(r.at, Append(r.value, Absent))
  ELSE Extended(r, ReadField(data, r.at, kind))

ReadMessage(data, type, flag) ==
  LET kinds == KindsOf(type)
      read[i \in 0..Len(kinds)] ==
        IF i = 0 THEN Read(1, <<>>) ELSE ReadNext(data, flag, read[i - 1], kinds[i])
      message == read[Len(kinds)]
  IN IF message.ok THEN [type |-> type, flag |-> flag, fields |-> message.value] ELSE Refused

\* The two low bits of the header are the type, the next is the flag.
Decode(data) ==
  IF data = <<>> THEN Refused
  ELSE ReadMessage(data, data[1] % 4, (data[1] \div 4) % 2 = 1)

-----------------------------------------------------------------------------
WireInit ==
  /\ sentMessage = NoMessage /\ wire = <<>>
  /\ cutAt = 0 /\ receivedMessage = NoMessage

\* encodeUUID throws on an id of another length: nothing is sent.
EncodeMessage ==
  /\ sentMessage = NoMessage
  /\ \E m \in Messages :
        /\ Len(m.fields[1]) = Width
        /\ sentMessage' = m
        /\ wire' = Encode(m)
  /\ UNCHANGED <<cutAt, receivedMessage>>

\* The stream may end anywhere.
DecodeMessage ==
  /\ sentMessage # NoMessage /\ receivedMessage = NoMessage
  /\ \E n \in 0..Len(wire) :
        /\ cutAt' = n
        /\ receivedMessage' = Decode(SubSeq(wire, 1, n))
  /\ UNCHANGED <<sentMessage, wire>>

\* The next message.
NextMessage ==
  /\ receivedMessage # NoMessage
  /\ sentMessage' = NoMessage /\ wire' = <<>> /\ cutAt' = 0 /\ receivedMessage' = NoMessage

WireNext == EncodeMessage \/ DecodeMessage \/ NextMessage

WireSpec == WireInit /\ [][WireNext]_wireVars

-----------------------------------------------------------------------------
\* What the format can carry: numbers that fit into their bytes, counts and
\* lengths among them, where signed ones must not look negative.
Fits(n, w) == Shifted(n, w) = 0
FitsSigned(n, w) == Fits(n, w) /\ Digits(n, w)[1] < Base \div 2

PartFits(kind, value) ==
  CASE kind = "fixed" -> TRUE
    [] kind = "byte" -> Fits(value, 1)
    [] kind = "text" -> Fits(Len(value), 2)
    [] kind = "long text" -> FitsSigned(Len(value), 4)
    [] kind = "time" -> FitsSigned(value, 2)

PartsFit(kinds, values) == \A i \in DOMAIN values : PartFits(kinds[i], values[i])

FieldFits(kind, value) ==
  CASE kind = "path" -> Fits(Len(value), 1) /\ PartsFit(Entries(Len(value)), value)
    [] kind = "error" -> PartFits("text", value)
    [] kind = "payload" -> PartsFit(PayloadParts, value)
    [] kind = "attestation" ->
         /\ Fits(Len(EncodeParts(AttestationParts, value)), 2)
         /\ PartsFit(AttestationParts, value)
    [] OTHER -> PartFits(kind, value)

CanCarry(m) ==
  \A i \in DOMAIN m.fields : Present(m, i) => FieldFits(KindsOf(m.type)[i], m.fields[i])

\* What arrives whole is decoded to what was encoded, and what was cut short
\* is refused, wherever the cut is; only a response that was cut right before
\* its attestation is taken for one without.
DecodedOrRefused ==
  receivedMessage # NoMessage /\ CanCarry(sentMessage) =>
    IF cutAt = Len(wire) THEN receivedMessage = sentMessage
    ELSE \/ receivedMessage = Refused
         \/ /\ sentMessage.type = RESPONSE /\ sentMessage.flag
            /\ receivedMessage = [sentMessage EXCEPT !.fields[8] = Absent]
=============================================================================
