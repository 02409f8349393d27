------------------------------ MODULE WireProofs ------------------------------
(***************************************************************************)
(* Proofs about the binary format: what is decoded is what was encoded,    *)
(* for any base, any width of the ids and any values of the fields.        *)
(*                                                                         *)
(* The argument follows the decoder.  What it makes of a part depends on   *)
(* how far the data goes: Outcome says so, and each reader is shown to     *)
(* come to the Outcome of what its writer wrote, from bytes over numbers,  *)
(* texts and parts to fields, messages, and the header before them.  The   *)
(* loops on both sides are recursive functions; their values are found by  *)
(* induction over the place in the loop (InductionLemmas).                 *)
(***************************************************************************)
EXTENDS WireProtocol, InductionLemmas, TLAPS

-----------------------------------------------------------------------------
(* Numbers and their bytes.                                                *)

LEMMA Division ==
  ASSUME NEW n \in Nat, NEW b \in Nat, b > 0
  PROVE  /\ n \div b \in Nat /\ n % b \in 0..(b - 1)
         /\ (n \div b) * b + (n % b) = n
  OBVIOUS

\* What is left of a number after 0, 1, ... w bytes.
LEMMA ShiftedSteps ==
  ASSUME NEW n \in Nat, NEW w \in Nat
  PROVE  \E f \in [0..w -> Nat] : /\ f[0] = n /\ f[w] = Shifted(n, w)
                                  /\ \A i \in 1..w : f[i] = f[i - 1] \div Base
<1> DEFINE shifted[i \in 0..w] == IF i = 0 THEN n ELSE shifted[i - 1] \div Base
           step == [i \in Nat |-> [x \in Nat |-> x \div Base]]
<1>1. \A x \in Nat : x \div Base \in Nat
  BY WireAssumption, Division
<1>2. PICK f \in [0..w -> Nat] : f[0] = n /\ \A i \in 1..w : f[i] = step[i - 1][f[i - 1]]
  <2>1. step \in [Nat -> [Nat -> Nat]]
    BY <1>1
  <2> HIDE DEF step
  <2>2. HasIterates(Nat, step, n, w)
    BY <2>1, Iterates
  <2> QED
    BY <2>2 DEF HasIterates
<1>3. \A i \in 1..w : f[i] = f[i - 1] \div Base
  <2>1. ASSUME NEW i \in 1..w PROVE f[i] = f[i - 1] \div Base
    <3>1. i - 1 \in Nat /\ i - 1 \in 0..w
      OBVIOUS
    <3>2. f[i - 1] \in Nat
      BY <3>1
    <3> QED
      BY <1>2, <3>1, <3>2
  <2> QED
    BY <2>1
<1>4. f = [i \in 0..w |-> IF i = 0 THEN n ELSE f[i - 1] \div Base]
  <2>1. \A i \in 0..w : i # 0 => i \in 1..w
    OBVIOUS
  <2> HIDE DEF step
  <2> QED
    BY <1>2, <1>3, <2>1
<1>5. shifted = [i \in 0..w |-> IF i = 0 THEN n ELSE shifted[i - 1] \div Base]
  BY <1>4
<1>6. Shifted(n, w) = shifted[w]
  BY DEF Shifted
<1> HIDE DEF shifted, step
<1>7. shifted[0] = n /\ \A i \in 1..w : shifted[i] = shifted[i - 1] \div Base
  <2>1. 0 \in 0..w /\ \A i \in 1..w : i \in 0..w /\ i # 0
    OBVIOUS
  <2> QED
    BY <1>5, <2>1
<1> DEFINE T == {i \in Nat : i <= w => shifted[i] \in Nat}
<1>8. Nat \subseteq T
  <2>1. 0 \in T
    BY <1>7
  <2>2. ASSUME NEW i \in Nat, i \in T PROVE i + 1 \in T
    <3>1. i + 1 <= w => i + 1 \in 1..w /\ i <= w /\ (i + 1) - 1 = i
      OBVIOUS
    <3>2. i + 1 <= w => shifted[i + 1] = shifted[i] \div Base
      BY <1>7, <3>1
    <3>3. i + 1 <= w => shifted[i] \in Nat
      BY <2>2, <3>1
    <3>4. i + 1 <= w => shifted[i + 1] \in Nat
      BY <1>1, <3>2, <3>3
    <3> QED
      BY <3>4
  <2> HIDE DEF T
  <2> QED
    BY <2>1, <2>2, Induction
<1>9. shifted \in [0..w -> Nat]
  <2>1. \A i \in 0..w : shifted[i] \in Nat
    BY <1>8
  <2> QED
    BY <1>5, <2>1
<1> QED
  BY <1>6, <1>7, <1>9

\* The bytes of a number, by how much of it is left.
LEMMA ShiftedNumbers ==
  ASSUME NEW n \in Nat
  PROVE  /\ Shifted(n, 0) = n
         /\ \A w \in Nat : /\ Shifted(n, w) \in Nat
                           /\ Shifted(n, w + 1) = Shifted(n, w) \div Base
<1>1. Shifted(n, 0) = n
  <2>1. \E f : f[0] = n /\ f[0] = Shifted(n, 0)
    BY ShiftedSteps, 0 \in Nat
  <2> QED
    BY <2>1
<1>2. ASSUME NEW w \in Nat
      PROVE  Shifted(n, w) \in Nat /\ Shifted(n, w + 1) = Shifted(n, w) \div Base
  <2>1. PICK f \in [0..w -> Nat] : /\ f[0] = n /\ f[w] = Shifted(n, w)
                                   /\ \A i \in 1..w : f[i] = f[i - 1] \div Base
    BY ShiftedSteps
  <2>2. PICK g \in [0..(w+1) -> Nat] : /\ g[0] = n /\ g[w+1] = Shifted(n, w + 1)
                                   /\ \A i \in 1..(w + 1) : g[i] = g[i - 1] \div Base
    BY ShiftedSteps, w + 1 \in Nat
  <2>3. \A i \in 1..w : i \in 1..(w + 1)
    OBVIOUS
  <2>4. \A i \in 1..w : f[i - 1] = g[i - 1] => f[i] = g[i]
    BY <2>1, <2>2, <2>3
  <2>5. f[0] = g[0]
    BY <2>1, <2>2
  <2>6. f[w] = g[w]
    <3> HIDE DEF Shifted
    <3> QED
      BY <2>4, <2>5, SameSteps
  <2>7. g[w + 1] = g[w] \div Base
    <3>1. w + 1 \in 1..(w + 1) /\ (w + 1) - 1 = w
      OBVIOUS
    <3> QED
      BY <2>2, <3>1
  <2> QED
    BY <2>1, <2>2, <2>6, <2>7
<1> QED
  BY <1>1, <1>2

\* The bytes of a number that fits are read as this number.
LEMMA DigitsAreRead ==
  ASSUME NEW n \in Nat, NEW w \in Nat
  PROVE  /\ Digits(n, w) \in Seq(Octet) /\ Len(Digits(n, w)) = w
         /\ Fits(n, w) => NumberOf(Digits(n, w)) = n
<1> DEFINE digits == Digits(n, w)
<1>1. \A i \in 1..w : w - i \in Nat /\ Shifted(n, w - i) \in Nat /\ Shifted(n, w - i) % Base \in Octet
  <2>1. ASSUME NEW i \in 1..w
        PROVE  w - i \in Nat /\ Shifted(n, w - i) \in Nat /\ Shifted(n, w - i) % Base \in Octet
    <3>1. w - i \in Nat
      OBVIOUS
    <3>2. Shifted(n, w - i) \in Nat
      BY <3>1, ShiftedNumbers
    <3> QED
      BY <3>1, <3>2, Division, WireAssumption DEF Octet
  <2> QED
    BY <2>1
<1>2. digits = [i \in 1..w |-> Shifted(n, w - i) % Base]
  BY DEF Digits
<1>3. digits \in [1..w -> Octet]
  BY <1>1, <1>2
<1>4. digits \in Seq(Octet) /\ Len(digits) = w
  BY <1>3
<1>5. ASSUME Fits(n, w) PROVE NumberOf(digits) = n
  <2> DEFINE number[i \in 0..w] == IF i = 0 THEN 0 ELSE number[i - 1] * Base + digits[i]
             rest == [i \in 0..w |-> Shifted(n, w - i)]
  <2>1. rest[0] = 0 /\ rest[w] = n
    <3>1. 0 \in 0..w /\ w \in 0..w /\ w - 0 = w /\ w - w = 0
      OBVIOUS
    <3> QED
      BY <1>5, <3>1, ShiftedNumbers DEF Fits
  <2>2. ASSUME NEW i \in 1..w PROVE rest[i] = rest[i - 1] * Base + digits[i]
    <3>1. /\ i \in 0..w /\ i - 1 \in 0..w /\ w - i \in Nat /\ w - (i - 1) = (w - i) + 1
      OBVIOUS
    <3>2. rest[i] = Shifted(n, w - i) /\ rest[i - 1] = Shifted(n, (w - i) + 1)
      BY <3>1
    <3>3. /\ Shifted(n, w - i) \in Nat
          /\ Shifted(n, (w - i) + 1) = Shifted(n, w - i) \div Base
      BY <3>1, ShiftedNumbers
    <3>4. digits[i] = Shifted(n, w - i) % Base
      BY <1>2
    <3>5. (Shifted(n, w - i) \div Base) * Base + (Shifted(n, w - i) % Base) = Shifted(n, w - i)
      BY <3>3, Division, WireAssumption
    <3> QED
      BY <3>2, <3>3, <3>4, <3>5
  <2> HIDE DEF rest, digits
  <2>3. rest = [i \in 0..w |-> IF i = 0 THEN 0 ELSE rest[i - 1] * Base + digits[i]]
    <3>1. \A i \in 0..w : i # 0 => i \in 1..w
      OBVIOUS
    <3>2. \A i \in 0..w : rest[i] = IF i = 0 THEN 0 ELSE rest[i - 1] * Base + digits[i]
      BY <2>1, <2>2, <3>1
    <3>3. rest = [i \in 0..w |-> rest[i]]
      BY DEF rest
    <3> QED
      BY <3>2, <3>3
  <2>4. number = [i \in 0..w |-> IF i = 0 THEN 0 ELSE number[i - 1] * Base + digits[i]]
    BY <2>3
  <2>5. NumberOf(digits) = number[w]
    BY <1>4 DEF NumberOf
  <2> HIDE DEF number
  <2>6. number[0] = 0 /\ \A i \in 1..w : number[i] = number[i - 1] * Base + digits[i]
    <3>1. 0 \in 0..w /\ \A i \in 1..w : i \in 0..w /\ i # 0
      OBVIOUS
    <3> QED
      BY <2>4, <3>1
  <2>7. \A i \in 1..w : number[i - 1] = rest[i - 1] => number[i] = rest[i]
    BY <2>2, <2>6
  <2>8. number[0] = rest[0]
    BY <2>1, <2>6
  <2>9. number[w] = rest[w]
    BY <2>7, <2>8, SameSteps
  <2> QED
    BY <2>1, <2>5, <2>9
<1> QED
  BY <1>4, <1>5

\* A number whose first byte is not taken for a sign is read like one without.
LEMMA SignedDigitsAreRead ==
  ASSUME NEW n \in Nat, NEW w \in Nat \ {0}, FitsSigned(n, w)
  PROVE  SignedOf(Digits(n, w)) = n
<1>1. Digits(n, w) \in Seq(Octet) /\ Len(Digits(n, w)) = w /\ NumberOf(Digits(n, w)) = n
  BY DigitsAreRead DEF FitsSigned
<1>2. [Digits(n, w) EXCEPT ![1] = IF @ < Base \div 2 THEN @ ELSE @ - Base] = Digits(n, w)
  BY <1>1 DEF FitsSigned
<1> QED
  BY <1>1, <1>2 DEF SignedOf

-----------------------------------------------------------------------------
(* Bytes, texts and parts.                                                 *)

\* The data is the sequence, from a place on, as far as it goes; and what
\* reading a value comes to that the sequence encodes.
Starts(data, at, s) ==
  \A j \in 1..Len(s) : at + j <= Len(data) => data[at + j] = s[j]

Outcome(data, at, s, value) ==
  IF at + Len(s) <= Len(data) THEN Read(at + Len(s), value) ELSE TooShort

Data == Seq(Nat)

LEMMA StartsWithBoth ==
  ASSUME NEW data \in Data, NEW at \in Nat, NEW s \in Seq(Octet), NEW t \in Seq(Octet)
  PROVE  /\ s \o t \in Seq(Octet) /\ Len(s \o t) = Len(s) + Len(t)
         /\ Starts(data, at, s \o t) => Starts(data, at, s) /\ Starts(data, at + Len(s), t)
<1>1. /\ s \o t \in Seq(Octet) /\ Len(s \o t) = Len(s) + Len(t)
      /\ \A j \in 1..Len(s) : (s \o t)[j] = s[j]
      /\ \A j \in 1..Len(t) : (s \o t)[Len(s) + j] = t[j]
  OBVIOUS
<1>2. ASSUME Starts(data, at, s \o t) PROVE Starts(data, at, s) /\ Starts(data, at + Len(s), t)
  <2>1. Starts(data, at, s)
    <3>1. \A j \in 1..Len(s) : j \in 1..Len(s \o t) /\ (s \o t)[j] = s[j]
      BY <1>1
    <3> QED
      BY <1>2, <3>1 DEF Starts
  <2>2. ASSUME NEW j \in 1..Len(t), at + Len(s) + j <= Len(data)
        PROVE  data[at + Len(s) + j] = t[j]
    <3>1. Len(s) + j \in 1..Len(s \o t) /\ at + (Len(s) + j) = at + Len(s) + j
      BY <1>1
    <3>2. data[at + (Len(s) + j)] = (s \o t)[Len(s) + j]
      BY <1>2, <2>2, <3>1 DEF Starts
    <3> QED
      BY <1>1, <3>1, <3>2
  <2> QED
    BY <2>1, <2>2 DEF Starts
<1> QED
  BY <1>1, <1>2

LEMMA BytesAreRead ==
  ASSUME NEW data \in Data, NEW at \in Nat, NEW s \in Seq(Octet), Starts(data, at, s)
  PROVE  ReadBytes(data, at, Len(s)) = Outcome(data, at, s, s)
<1>1. CASE at + Len(s) <= Len(data)
  <2> DEFINE t == SubSeq(data, at + 1, at + Len(s))
  <2>1. /\ t \in Data /\ Len(t) = Len(s) /\ \A j \in 1..Len(s) : t[j] = data[at + j]
    <3>1. /\ data \in Seq(Nat) /\ at + 1 \in 1..(Len(data) + 1) /\ Len(s) \in Nat
          /\ at + Len(s) \in at..Len(data)
      BY <1>1 DEF Data
    <3>2. t \in Seq(Nat)
      BY <3>1
    <3>3. Len(t) = Len(s)
      BY <3>1
    <3>4. \A j \in 1..Len(s) : t[j] = data[at + j]
      BY <3>1
    <3> QED
      BY <3>2, <3>3, <3>4 DEF Data
  <2>2. \A j \in 1..Len(s) : t[j] = s[j]
    BY <1>1, <2>1 DEF Starts
  <2>3. t = s
    <3> HIDE DEF t
    <3>1. t = [j \in 1..Len(s) |-> t[j]] /\ s = [j \in 1..Len(s) |-> s[j]]
      BY <2>1 DEF Data
    <3> QED
      BY <2>2, <3>1
  <2>4. Place(data, at) = at /\ Place(data, at + Len(s)) = at + Len(s)
    BY DEF Place
  <2> QED
    BY <1>1, <2>3, <2>4 DEF ReadBytes, Outcome
<1>2. CASE ~ (at + Len(s) <= Len(data))
  BY <1>2 DEF ReadBytes, Outcome
<1> QED
  BY <1>1, <1>2

\* Numbers, and what their bytes are followed by when they are lengths.
LEMMA NumbersAreRead ==
  ASSUME NEW data \in Data, NEW at \in Nat, NEW n \in Nat, NEW w \in Nat \ {0},
         Starts(data, at, Digits(n, w))
  PROVE  /\ Fits(n, w) => ReadNumber(data, at, w) = Outcome(data, at, Digits(n, w), n)
         /\ FitsSigned(n, w) => ReadSigned(data, at, w) = Outcome(data, at, Digits(n, w), n)
<1>1. Digits(n, w) \in Seq(Octet) /\ Len(Digits(n, w)) = w
  BY DigitsAreRead
<1>2. /\ Fits(n, w) => NumberOf(Digits(n, w)) = n
      /\ FitsSigned(n, w) => SignedOf(Digits(n, w)) = n
  BY DigitsAreRead, SignedDigitsAreRead
<1> DEFINE digits == Digits(n, w)
<1>3. digits = [i \in 1..w |-> digits[i]]
  BY <1>1
<1> HIDE DEF digits
<1>4. CASE at + w <= Len(data)
  <2>1. BytesFrom(data, at, w) = digits
    <3>1. \A i \in 1..w : at + i > 0 /\ data[at + i] = digits[i]
      BY <1>1, <1>4 DEF Starts, Data, digits
    <3>2. BytesFrom(data, at, w) = [i \in 1..w |-> digits[i]]
      BY <3>1 DEF BytesFrom
    <3> QED
      BY <1>3, <3>2
  <2>2. /\ ReadNumber(data, at, w) = Read(at + w, NumberOf(digits))
        /\ ReadSigned(data, at, w) = Read(at + w, SignedOf(digits))
    BY <1>4, <2>1 DEF ReadNumber, ReadSigned
  <2> QED
    BY <1>1, <1>2, <1>4, <2>2 DEF Outcome, digits
<1>5. CASE ~ (at + w <= Len(data))
  BY <1>1, <1>5 DEF ReadNumber, ReadSigned, Outcome, digits
<1> QED
  BY <1>4, <1>5

LEMMA CountedAreRead ==
  ASSUME NEW data \in Data, NEW at \in Nat, NEW w \in Nat \ {0}, NEW s \in Seq(Octet),
         Starts(data, at, Digits(Len(s), w) \o s)
  PROVE  ReadCounted(data, Outcome(data, at, Digits(Len(s), w), Len(s)))
           = Outcome(data, at, Digits(Len(s), w) \o s, s)
<1> DEFINE digits == Digits(Len(s), w)
<1>1. digits \in Seq(Octet) /\ Len(digits) = w
  BY DigitsAreRead
<1> HIDE DEF digits
<1>2. /\ Len(digits \o s) = Len(digits) + Len(s)
      /\ Starts(data, at + Len(digits), s)
  BY <1>1, StartsWithBoth DEF digits
<1>3. ReadBytes(data, at + Len(digits), Len(s)) = Outcome(data, at + Len(digits), s, s)
  BY <1>1, <1>2, BytesAreRead
<1>4. Len(data) \in Nat /\ Len(s) \in Nat
  BY DEF Data
<1>5. ReadCounted(data, Outcome(data, at, digits, Len(s))) = Outcome(data, at, digits \o s, s)
  <2>1. CASE at + Len(digits) <= Len(data)
    <3>1. Outcome(data, at, digits, Len(s)) = Read(at + Len(digits), Len(s))
      BY <2>1 DEF Outcome
    <3>2. ReadCounted(data, Outcome(data, at, digits, Len(s))) = Outcome(data, at + Len(digits), s, s)
      BY <1>3, <3>1 DEF ReadCounted, Read
    <3>3. at + Len(digits) + Len(s) = at + Len(digits \o s)
      BY <1>1, <1>2, <1>4
    <3> QED
      BY <3>2, <3>3 DEF Outcome
  <2>2. CASE ~ (at + Len(digits) <= Len(data))
    <3>1. Outcome(data, at, digits, Len(s)) = TooShort /\ ~ TooShort.ok
      BY <2>2 DEF Outcome, TooShort
    <3>2. ~ (at + Len(digits \o s) <= Len(data))
      BY <1>1, <1>2, <1>4, <2>2
    <3> QED
      BY <3>1, <3>2 DEF Outcome, ReadCounted
  <2> QED
    BY <2>1, <2>2
<1> QED
  BY <1>5 DEF digits

\* The values of the parts, and that each is read as it was written.
PartKinds == {"fixed", "byte", "text", "long text", "time"}

PartValues(kind) ==
  CASE kind = "fixed" -> Fixed
    [] kind = "byte" -> Nat
    [] kind = "text" -> Seq(Octet)
    [] kind = "long text" -> Seq(Octet)
    [] kind = "time" -> Nat

LEMMA PartIsRead ==
  ASSUME NEW kind \in PartKinds, NEW value \in PartValues(kind), PartFits(kind, value)
  PROVE  /\ EncodePart(kind, value) \in Seq(Octet)
         /\ \A data \in Data, at \in Nat :
              Starts(data, at, EncodePart(kind, value)) =>
                ReadPart(data, at, kind) = Outcome(data, at, EncodePart(kind, value), value)
<1>1. CASE kind = "fixed"
  <2>1. EncodePart(kind, value) = value /\ value \in Seq(Octet) /\ Len(value) = Width
    BY <1>1, WireAssumption DEF EncodePart, PartValues, Fixed
  <2>2. \A data, at : ReadPart(data, at, kind) = ReadBytes(data, at, Width)
    BY <1>1 DEF ReadPart
  <2> QED
    BY <2>1, <2>2, BytesAreRead
<1>2. CASE kind = "byte"
  <2>1. /\ EncodePart(kind, value) = Digits(value, 1) /\ value \in Nat /\ Fits(value, 1)
        /\ \A data, at : ReadPart(data, at, kind) = ReadNumber(data, at, 1)
    BY <1>2 DEF EncodePart, PartValues, PartFits, ReadPart
  <2>2. 1 \in Nat \ {0} /\ Digits(value, 1) \in Seq(Octet)
    BY <2>1, DigitsAreRead
  <2> QED
    BY <2>1, <2>2, NumbersAreRead
<1>3. CASE kind = "time"
  <2>1. /\ EncodePart(kind, value) = Digits(value, 2) /\ value \in Nat /\ FitsSigned(value, 2)
        /\ \A data, at : ReadPart(data, at, kind) = ReadSigned(data, at, 2)
    BY <1>3 DEF EncodePart, PartValues, PartFits, ReadPart
  <2>2. 2 \in Nat \ {0} /\ Digits(value, 2) \in Seq(Octet)
    BY <2>1, DigitsAreRead
  <2> QED
    BY <2>1, <2>2, NumbersAreRead
<1>4. CASE kind = "text"
  <2>1. /\ EncodePart(kind, value) = Digits(Len(value), 2) \o value
        /\ value \in Seq(Octet) /\ Len(value) \in Nat /\ Fits(Len(value), 2)
        /\ \A data, at : ReadPart(data, at, kind) = ReadCounted(data, ReadNumber(data, at, 2))
    BY <1>4 DEF EncodePart, EncodeText, PartValues, PartFits, ReadPart
  <2>2. 2 \in Nat \ {0} /\ Digits(Len(value), 2) \in Seq(Octet)
    BY <2>1, DigitsAreRead
  <2>3. ASSUME NEW data \in Data, NEW at \in Nat, Starts(data, at, EncodePart(kind, value))
        PROVE  ReadPart(data, at, kind) = Outcome(data, at, EncodePart(kind, value), value)
    <3>1. Starts(data, at, Digits(Len(value), 2))
      BY <2>1, <2>2, <2>3, StartsWithBoth
    <3>2. ReadNumber(data, at, 2) = Outcome(data, at, Digits(Len(value), 2), Len(value))
      BY <2>1, <2>2, <3>1, NumbersAreRead
    <3> QED
      BY <2>1, <2>2, <2>3, <3>2, CountedAreRead
  <2> QED
    BY <2>1, <2>2, <2>3, StartsWithBoth
<1>5. CASE kind = "long text"
  <2>1. /\ EncodePart(kind, value) = Digits(Len(value), 4) \o value
        /\ value \in Seq(Octet) /\ Len(value) \in Nat /\ FitsSigned(Len(value), 4)
        /\ \A data, at : ReadPart(data, at, kind) = ReadCounted(data, ReadSigned(data, at, 4))
    <3>1. EncodePart(kind, value) = Digits(Len(value), 4) \o value
      BY <1>5 DEF EncodePart
    <3>2. value \in Seq(Octet) /\ FitsSigned(Len(value), 4)
      BY <1>5 DEF PartValues, PartFits
    <3>3. \A data, at : ReadPart(data, at, kind) = ReadCounted(data, ReadSigned(data, at, 4))
      BY <1>5 DEF ReadPart
    <3> QED
      BY <3>1, <3>2, <3>3
  <2>2. 4 \in Nat \ {0} /\ Digits(Len(value), 4) \in Seq(Octet)
    BY <2>1, DigitsAreRead
  <2>3. ASSUME NEW data \in Data, NEW at \in Nat, Starts(data, at, EncodePart(kind, value))
        PROVE  ReadPart(data, at, kind) = Outcome(data, at, EncodePart(kind, value), value)
    <3>1. Starts(data, at, Digits(Len(value), 4))
      BY <2>1, <2>2, <2>3, StartsWithBoth
    <3>2. ReadSigned(data, at, 4) = Outcome(data, at, Digits(Len(value), 4), Len(value))
      BY <2>1, <2>2, <3>1, NumbersAreRead
    <3> QED
      BY <2>1, <2>2, <2>3, <3>2, CountedAreRead
  <2> QED
    BY <2>1, <2>2, <2>3
<1> QED
  BY <1>1, <1>2, <1>3, <1>4, <1>5 DEF PartKinds

-----------------------------------------------------------------------------
(* Parts one after another.                                                *)

\* What Concat has put together after 0, 1, ... parts.
Prefixes(parts, upTo) ==
  /\ upTo \in [0..Len(parts) -> Seq(Octet)]
  /\ upTo[0] = <<>> /\ \A i \in 1..Len(parts) : upTo[i] = upTo[i - 1] \o parts[i]

LEMMA Concatenation ==
  ASSUME NEW parts \in Seq(Seq(Octet))
  PROVE  \E upTo : Prefixes(parts, upTo) /\ Concat(parts) = upTo[Len(parts)]
<1> DEFINE N == Len(parts)
           run[i \in 0..N] == IF i = 0 THEN <<>> ELSE run[i - 1] \o parts[i]
           step == [i \in Nat |-> [s \in Seq(Octet) |->
                      IF i + 1 \in 1..N THEN s \o parts[i + 1] ELSE s]]
<1>1. N \in Nat /\ \A i \in 1..N : parts[i] \in Seq(Octet)
  OBVIOUS
<1>2. PICK f \in [0..N -> Seq(Octet)] : f[0] = <<>> /\ \A i \in 1..N : f[i] = step[i - 1][f[i - 1]]
  <2>1. step \in [Nat -> [Seq(Octet) -> Seq(Octet)]]
    BY <1>1
  <2>2. <<>> \in Seq(Octet)
    OBVIOUS
  <2> HIDE DEF step, N
  <2>3. HasIterates(Seq(Octet), step, <<>>, N)
    BY <1>1, <2>1, <2>2, Iterates
  <2> QED
    BY <2>3 DEF HasIterates
<1> HIDE DEF N
<1>3. ASSUME NEW i \in 1..N PROVE f[i] = f[i - 1] \o parts[i]
  <2>1. i - 1 \in Nat /\ i - 1 \in 0..N /\ (i - 1) + 1 = i
    BY <1>1
  <2>2. f[i - 1] \in Seq(Octet)
    BY <2>1
  <2> QED
    BY <1>2, <2>1, <2>2
<1>4. f = [i \in 0..N |-> IF i = 0 THEN <<>> ELSE f[i - 1] \o parts[i]]
  <2>1. \A i \in 0..N : i # 0 => i \in 1..N
    BY <1>1
  <2> HIDE DEF step
  <2>2. \A i \in 0..N : f[i] = IF i = 0 THEN <<>> ELSE f[i - 1] \o parts[i]
    BY <1>2, <1>3, <2>1
  <2> QED
    BY <2>2
<1>5. run = [i \in 0..N |-> IF i = 0 THEN <<>> ELSE run[i - 1] \o parts[i]]
  BY <1>4
<1>6. Concat(parts) = run[N]
  BY DEF Concat, N
<1> HIDE DEF run, step
<1>7. run[0] = <<>> /\ \A i \in 1..N : run[i] = run[i - 1] \o parts[i]
  <2>1. 0 \in 0..N /\ \A i \in 1..N : i \in 0..N /\ i # 0
    BY <1>1
  <2> QED
    BY <1>5, <2>1
<1>8. \A i \in 1..N : run[i - 1] = f[i - 1] => run[i] = f[i]
  BY <1>3, <1>7
<1>9. run[0] = f[0]
  BY <1>2, <1>7
<1>10. run[N] = f[N]
  BY <1>1, <1>8, <1>9, SameSteps
<1>11. Prefixes(parts, f)
  BY <1>2, <1>3 DEF Prefixes, N
<1> QED
  BY <1>6, <1>10, <1>11 DEF N

\* Where the data starts with all parts, it goes on with each in its place.
LEMMA StartsWithAll ==
  ASSUME NEW parts \in Seq(Seq(Octet)), NEW upTo, Prefixes(parts, upTo),
         NEW data \in Data, NEW at \in Nat, Starts(data, at, upTo[Len(parts)])
  PROVE  \A i \in 1..Len(parts) : Starts(data, at + Len(upTo[i - 1]), parts[i])
<1> DEFINE N == Len(parts)
           T == {k \in Nat : k <= N => Starts(data, at, upTo[N - k])}
<1>1. N \in Nat /\ \A i \in 1..N : /\ parts[i] \in Seq(Octet) /\ i - 1 \in 0..N /\ i \in 0..N
                                  /\ upTo[i - 1] \in Seq(Octet)
                                  /\ upTo[i] = upTo[i - 1] \o parts[i]
  <2>1. N \in Nat /\ \A i \in 1..N : parts[i] \in Seq(Octet) /\ i - 1 \in 0..N /\ i \in 0..N
    OBVIOUS
  <2> QED
    BY <2>1 DEF Prefixes
<1> HIDE DEF N
<1>2. ASSUME NEW i \in 1..N, Starts(data, at, upTo[i])
      PROVE  Starts(data, at, upTo[i - 1]) /\ Starts(data, at + Len(upTo[i - 1]), parts[i])
  <2>1. Starts(data, at, upTo[i - 1] \o parts[i])
    BY <1>1, <1>2
  <2>2. upTo[i - 1] \in Seq(Octet) /\ parts[i] \in Seq(Octet)
    BY <1>1
  <2> HIDE DEF T
  <2> QED
    BY <2>1, <2>2, StartsWithBoth
<1>3. 0 \in T
  <2>1. N - 0 = N
    BY <1>1
  <2> QED
    BY <2>1 DEF N
<1>4. ASSUME NEW k \in Nat, k \in T PROVE k + 1 \in T
  <2>1. k + 1 <= N => k <= N /\ N - k \in 1..N /\ (N - k) - 1 = N - (k + 1)
    BY <1>1
  <2>2. k + 1 <= N => Starts(data, at, upTo[(N - k) - 1])
    BY <1>2, <1>4, <2>1
  <2>3. k + 1 <= N => Starts(data, at, upTo[N - (k + 1)])
    BY <2>1, <2>2
  <2> QED
    BY <2>3
<1>5. Nat \subseteq T
  <2> HIDE DEF T
  <2> QED
    BY <1>3, <1>4, Induction
<1>6. ASSUME NEW i \in 1..N PROVE Starts(data, at, upTo[i])
  <2>1. N - i \in Nat /\ N - i <= N /\ N - (N - i) = i
    BY <1>1
  <2>2. Starts(data, at, upTo[N - (N - i)])
    BY <1>5, <2>1
  <2> QED
    BY <2>1, <2>2
<1> QED
  BY <1>2, <1>6 DEF N

\* One value more.
LEMMA OneMore ==
  ASSUME NEW S, NEW values \in Seq(S), NEW i \in 1..Len(values)
  PROVE  Append(SubSeq(values, 1, i - 1), values[i]) = SubSeq(values, 1, i)
<1>1. /\ Len(values) \in Nat /\ i \in Int /\ i - 1 \in Nat
      /\ SubSeq(values, 1, i - 1) \in Seq(S) /\ Len(SubSeq(values, 1, i - 1)) = i - 1
      /\ SubSeq(values, 1, i) \in Seq(S) /\ Len(SubSeq(values, 1, i)) = i
  OBVIOUS
<1>2. \A j \in 1..(i - 1) : SubSeq(values, 1, i - 1)[j] = values[j]
  BY <1>1
<1>3. \A j \in 1..i : SubSeq(values, 1, i)[j] = values[j]
  BY <1>1
<1> DEFINE a == Append(SubSeq(values, 1, i - 1), values[i])
<1>4. a \in Seq(S) /\ Len(a) = i /\ \A j \in 1..i : a[j] = values[j]
  BY <1>1, <1>2
<1> HIDE DEF a
<1>5. a = SubSeq(values, 1, i)
  BY <1>1, <1>3, <1>4
<1> QED
  BY <1>5 DEF a

LEMMA OutcomeExtends ==
  ASSUME NEW data \in Data, NEW at \in Nat, NEW s \in Seq(Octet), NEW t \in Seq(Octet),
         NEW old, NEW new,
         NEW next, at + Len(s) <= Len(data) => next = Outcome(data, at + Len(s), t, new)
  PROVE  Extended(Outcome(data, at, s, old), next) = Outcome(data, at, s \o t, Append(old, new))
<1>1. Len(s \o t) = Len(s) + Len(t) /\ Len(s) \in Nat /\ Len(t) \in Nat /\ Len(data) \in Nat
  BY DEF Data
<1>2. CASE ~ (at + Len(s) <= Len(data))
  <2>1. ~ (at + Len(s \o t) <= Len(data))
    BY <1>1, <1>2
  <2> QED
    BY <1>2, <2>1 DEF Outcome, Extended, TooShort
<1>3. CASE at + Len(s) <= Len(data) /\ ~ (at + Len(s \o t) <= Len(data))
  <2>1. next = TooShort
    BY <1>1, <1>3 DEF Outcome
  <2> QED
    BY <1>3, <2>1 DEF Outcome, Extended, TooShort
<1>4. CASE at + Len(s) <= Len(data) /\ at + Len(s \o t) <= Len(data)
  <2>1. next = Read(at + Len(s) + Len(t), new)
    BY <1>1, <1>4 DEF Outcome
  <2>2. at + Len(s) + Len(t) = at + Len(s \o t)
    BY <1>1
  <2> QED
    BY <1>4, <2>1, <2>2 DEF Outcome, Extended, Read
<1> QED
  BY <1>2, <1>3, <1>4

\* Parts that have been written one after another are read as they were.
PartsFine(kinds, values) ==
  /\ Len(kinds) = Len(values)
  /\ \A i \in 1..Len(values) : /\ kinds[i] \in PartKinds /\ values[i] \in PartValues(kinds[i])
                              /\ PartFits(kinds[i], values[i])

LEMMA PartsAreRead ==
  ASSUME NEW S, NEW values \in Seq(S), NEW kinds, PartsFine(kinds, values)
  PROVE  /\ EncodeParts(kinds, values) \in Seq(Octet)
         /\ \A data \in Data, at \in Nat :
              at <= Len(data) /\ Starts(data, at, EncodeParts(kinds, values)) =>
                ReadParts(data, at, kinds) = Outcome(data, at, EncodeParts(kinds, values), values)
<1> DEFINE N == Len(values)
           parts == [i \in DOMAIN values |-> EncodePart(kinds[i], values[i])]
<1>1. N \in Nat /\ DOMAIN values = 1..N /\ Len(kinds) = N
  BY DEF PartsFine
<1>2. ASSUME NEW i \in 1..N
      PROVE  /\ parts[i] = EncodePart(kinds[i], values[i]) /\ parts[i] \in Seq(Octet)
             /\ \A data \in Data, at \in Nat : Starts(data, at, parts[i]) =>
                  ReadPart(data, at, kinds[i]) = Outcome(data, at, parts[i], values[i])
  <2>1. kinds[i] \in PartKinds /\ values[i] \in PartValues(kinds[i]) /\ PartFits(kinds[i], values[i])
    BY DEF PartsFine
  <2>2. parts[i] = EncodePart(kinds[i], values[i])
    BY <1>1
  <2> HIDE DEF parts
  <2> QED
    BY <2>1, <2>2, PartIsRead
<1>3. parts \in Seq(Seq(Octet)) /\ Len(parts) = N
  <2>1. parts \in [1..N -> Seq(Octet)]
    BY <1>1, <1>2
  <2> QED
    BY <1>1, <2>1
<1>4. EncodeParts(kinds, values) = Concat(parts)
  BY DEF EncodeParts
<1> HIDE DEF parts, N
<1>5. PICK upTo : Prefixes(parts, upTo) /\ Concat(parts) = upTo[N]
  BY <1>3, Concatenation
<1>6. /\ upTo[0] = <<>> /\ upTo[N] \in Seq(Octet)
      /\ \A i \in 1..N : /\ upTo[i - 1] \in Seq(Octet) /\ upTo[i] = upTo[i - 1] \o parts[i]
                        /\ i - 1 \in 0..N
  <2>1. N \in 0..N /\ \A i \in 1..N : i - 1 \in 0..N
    BY <1>1
  <2> QED
    BY <1>3, <1>5, <2>1 DEF Prefixes
<1>7. ASSUME NEW data \in Data, NEW at \in Nat, at <= Len(data), Starts(data, at, upTo[N])
      PROVE  ReadParts(data, at, kinds) = Outcome(data, at, upTo[N], values)
  <2> DEFINE read[i \in 0..N] ==
               IF i = 0 THEN Read(at, <<>>)
               ELSE LET r == read[i - 1] IN Extended(r, ReadPart(data, r.at, kinds[i]))
             g == [i \in 0..N |-> Outcome(data, at, upTo[i], SubSeq(values, 1, i))]
  <2>1. g[0] = Read(at, <<>>)
    <3>1. SubSeq(values, 1, 0) = <<>> /\ Len(<<>>) = 0 /\ 0 \in 0..N
      BY <1>1
    <3>2. g[0] = Outcome(data, at, <<>>, <<>>)
      BY <1>6, <3>1
    <3>3. at + Len(<<>>) = at
      BY <3>1
    <3> HIDE DEF g
    <3> QED
      BY <1>7, <3>2, <3>3 DEF Outcome
  <2>2. ASSUME NEW i \in 1..N
        PROVE  g[i] = Extended(g[i - 1], ReadPart(data, g[i - 1].at, kinds[i]))
    <3>1. /\ g[i] = Outcome(data, at, upTo[i - 1] \o parts[i], SubSeq(values, 1, i))
          /\ g[i - 1] = Outcome(data, at, upTo[i - 1], SubSeq(values, 1, i - 1))
      <4>1. i \in 0..N /\ i - 1 \in 0..N
        BY <1>1
      <4> QED
        BY <1>6, <4>1
    <3>2. Starts(data, at + Len(upTo[i - 1]), parts[i])
      BY <1>3, <1>5, <1>7, StartsWithAll
    <3> HIDE DEF g
    <3>3. ASSUME at + Len(upTo[i - 1]) <= Len(data)
          PROVE  ReadPart(data, g[i - 1].at, kinds[i])
                   = Outcome(data, at + Len(upTo[i - 1]), parts[i], values[i])
      <4>1. g[i - 1].at = at + Len(upTo[i - 1])
        BY <3>1, <3>3 DEF Outcome, Read
      <4>2. at + Len(upTo[i - 1]) \in Nat
        BY <1>6
      <4> QED
        BY <1>2, <3>2, <4>1, <4>2
    <3>4. i \in 1..Len(values) /\ upTo[i - 1] \in Seq(Octet) /\ parts[i] \in Seq(Octet)
      BY <1>2, <1>6 DEF N
    <3>5. Extended(Outcome(data, at, upTo[i - 1], SubSeq(values, 1, i - 1)),
                   ReadPart(data, g[i - 1].at, kinds[i]))
            = Outcome(data, at, upTo[i - 1] \o parts[i], SubSeq(values, 1, i))
      <4>1. Append(SubSeq(values, 1, i - 1), values[i]) = SubSeq(values, 1, i)
        BY <3>4, OneMore
      <4> DEFINE s == upTo[i - 1]
                 t == parts[i]
                 old == SubSeq(values, 1, i - 1)
                 new == values[i]
                 next == ReadPart(data, g[i - 1].at, kinds[i])
      <4>2. /\ s \in Seq(Octet) /\ t \in Seq(Octet)
            /\ at + Len(s) <= Len(data) => next = Outcome(data, at + Len(s), t, new)
        BY <3>3, <3>4
      <4>3. Extended(Outcome(data, at, s, old), next) = Outcome(data, at, s \o t, Append(old, new))
        <5> HIDE DEF s, t, old, new, next
        <5> QED
          BY <4>2, OutcomeExtends
      <4> QED
        BY <4>1, <4>3
    <3> QED
      BY <3>1, <3>5
  <2> HIDE DEF g
  <2>3. g = [i \in 0..N |-> IF i = 0 THEN Read(at, <<>>)
               ELSE LET r == g[i - 1] IN Extended(r, ReadPart(data, r.at, kinds[i]))]
    <3>1. \A i \in 0..N : i # 0 => i \in 1..N
      BY <1>1
    <3>2. \A i \in 0..N : g[i] = IF i = 0 THEN Read(at, <<>>)
               ELSE LET r == g[i - 1] IN Extended(r, ReadPart(data, r.at, kinds[i]))
      BY <2>1, <2>2, <3>1
    <3>3. g = [i \in 0..N |-> g[i]]
      BY DEF g
    <3> QED
      BY <3>2, <3>3
  <2>4. read = [i \in 0..N |-> IF i = 0 THEN Read(at, <<>>)
               ELSE LET r == read[i - 1] IN Extended(r, ReadPart(data, r.at, kinds[i]))]
    BY <2>3
  <2>5. ReadParts(data, at, kinds) = read[N]
    BY <1>1 DEF ReadParts
  <2> HIDE DEF read
  <2>6. /\ read[0] = Read(at, <<>>)
        /\ \A i \in 1..N : read[i] = Extended(read[i - 1], ReadPart(data, read[i - 1].at, kinds[i]))
    <3>1. 0 \in 0..N /\ \A i \in 1..N : i \in 0..N /\ i # 0
      BY <1>1
    <3> QED
      BY <2>4, <3>1
  <2>7. \A i \in 1..N : read[i - 1] = g[i - 1] => read[i] = g[i]
    BY <2>2, <2>6
  <2>8. read[0] = g[0]
    BY <2>1, <2>6
  <2>9. read[N] = g[N]
    BY <1>1, <2>7, <2>8, SameSteps
  <2>10. g[N] = Outcome(data, at, upTo[N], SubSeq(values, 1, N)) /\ SubSeq(values, 1, N) = values
    <3>1. N \in 0..N
      BY <1>1
    <3>2. SubSeq(values, 1, N) = values
      BY <1>1 DEF N
    <3> QED
      BY <3>1, <3>2 DEF g
  <2> QED
    BY <2>5, <2>9, <2>10
<1> QED
  BY <1>4, <1>5, <1>6, <1>7

\* The same of counts and lengths that parts follow.
LEMMA PartsAfterNumber ==
  ASSUME NEW S, NEW values \in Seq(S), NEW kinds, PartsFine(kinds, values),
         NEW n \in Nat, NEW w \in Nat \ {0}, Fits(n, w),
         NEW data \in Data, NEW at \in Nat,
         Starts(data, at, Digits(n, w) \o EncodeParts(kinds, values))
  PROVE  IF ReadNumber(data, at, w).ok
         THEN /\ ReadNumber(data, at, w) = Read(at + w, n)
              /\ at + w + Len(EncodeParts(kinds, values))
                   = at + Len(Digits(n, w) \o EncodeParts(kinds, values))
              /\ ReadParts(data, at + w, kinds)
                   = Outcome(data, at, Digits(n, w) \o EncodeParts(kinds, values), values)
         ELSE Outcome(data, at, Digits(n, w) \o EncodeParts(kinds, values), values) = TooShort
<1> DEFINE digits == Digits(n, w)
           rest == EncodeParts(kinds, values)
<1>1. digits \in Seq(Octet) /\ Len(digits) = w
  BY DigitsAreRead
<1>2. /\ rest \in Seq(Octet)
      /\ \A d \in Data, a \in Nat : a <= Len(d) /\ Starts(d, a, rest) =>
           ReadParts(d, a, kinds) = Outcome(d, a, rest, values)
  BY PartsAreRead
<1> HIDE DEF digits, rest
<1>3. /\ Len(digits \o rest) = w + Len(rest) /\ Len(rest) \in Nat /\ Len(data) \in Nat
      /\ Starts(data, at, digits) /\ Starts(data, at + w, rest)
  <2>1. Starts(data, at, digits \o rest)
    BY DEF digits, rest
  <2>2. Len(rest) \in Nat /\ Len(data) \in Nat
    BY <1>2 DEF Data
  <2> QED
    BY <1>1, <1>2, <2>1, <2>2, StartsWithBoth
<1>4. ReadNumber(data, at, w) = Outcome(data, at, digits, n)
  BY <1>3, NumbersAreRead DEF digits
<1>5. CASE at + w <= Len(data)
  <2>1. ReadNumber(data, at, w) = Read(at + w, n) /\ ReadNumber(data, at, w).ok
    BY <1>1, <1>4, <1>5 DEF Outcome, Read
  <2>2. ReadParts(data, at + w, kinds) = Outcome(data, at + w, rest, values)
    BY <1>2, <1>3, <1>5
  <2>3. at + w + Len(rest) = at + Len(digits \o rest)
    BY <1>3
  <2> QED
    BY <2>1, <2>2, <2>3 DEF digits, rest, Outcome
<1>6. CASE ~ (at + w <= Len(data))
  <2>1. ~ ReadNumber(data, at, w).ok
    BY <1>1, <1>4, <1>6 DEF Outcome, TooShort
  <2>2. ~ (at + Len(digits \o rest) <= Len(data))
    BY <1>3, <1>6
  <2> QED
    BY <2>1, <2>2 DEF digits, rest, Outcome
<1> QED
  BY <1>5, <1>6

-----------------------------------------------------------------------------
(* Fields.                                                                 *)

\* The values of the fields, and that each is read as it was written.
FieldKinds == PartKinds \cup {"path", "error", "payload", "attestation"}

FieldValues(kind) ==
  CASE kind = "path" -> Seq(Seq(Octet))
    [] kind = "error" -> Seq(Octet)
    [] kind = "payload" -> Fixed \X Seq(Octet) \X Fixed
    [] kind = "attestation" ->
         Seq(Octet) \X Seq(Octet) \X Nat \X Seq(Octet) \X Nat \X Seq(Octet)
    [] OTHER -> PartValues(kind)

LEMMA TuplesAreFine ==
  /\ \A value \in FieldValues("payload") :
       /\ \E S : value \in Seq(S)
       /\ PartsFit(PayloadParts, value) => PartsFine(PayloadParts, value)
  /\ \A value \in FieldValues("attestation") :
       /\ \E S : value \in Seq(S)
       /\ PartsFit(AttestationParts, value) => PartsFine(AttestationParts, value)
  /\ \A path \in FieldValues("path") :
       PartsFit(Entries(Len(path)), path) => PartsFine(Entries(Len(path)), path)
<1>1. ASSUME NEW value \in FieldValues("payload")
      PROVE  /\ \E S : value \in Seq(S)
             /\ PartsFit(PayloadParts, value) => PartsFine(PayloadParts, value)
  <2>1. value \in Fixed \X Seq(Octet) \X Fixed
    BY DEF FieldValues
  <2>2. /\ value = <<value[1], value[2], value[3]>>
        /\ value[1] \in Fixed /\ value[2] \in Seq(Octet) /\ value[3] \in Fixed
    BY <2>1
  <2>3. (\E S : value \in Seq(S)) /\ Len(value) = 3 /\ DOMAIN value = 1..3
    <3>1. PICK a \in Fixed, b \in Seq(Octet), c \in Fixed : value = <<a, b, c>>
      BY <2>1
    <3>2. value \in Seq({a, b, c})
      BY <3>1
    <3>3. Len(value) = 3 /\ DOMAIN value = 1..3
      BY <3>1
    <3> QED
      BY <3>2, <3>3
  <2>4. ASSUME PartsFit(PayloadParts, value) PROVE PartsFine(PayloadParts, value)
    <3>1. \A i \in 1..3 : PartFits(PayloadParts[i], value[i])
      BY <2>3, <2>4 DEF PartsFit
    <3>2. /\ Len(PayloadParts) = 3
          /\ PayloadParts[1] = "fixed" /\ PayloadParts[2] = "long text" /\ PayloadParts[3] = "fixed"
      BY DEF PayloadParts
    <3>3. /\ {"fixed", "long text"} \subseteq PartKinds
          /\ PartValues("fixed") = Fixed /\ PartValues("long text") = Seq(Octet)
      BY DEF PartKinds, PartValues
    <3>4. \A i \in 1..3 : i = 1 \/ i = 2 \/ i = 3
      OBVIOUS
    <3> QED
      BY <2>2, <2>3, <3>1, <3>2, <3>3, <3>4 DEF PartsFine
  <2> QED
    BY <2>3, <2>4
<1>2. ASSUME NEW value \in FieldValues("attestation")
      PROVE  /\ \E S : value \in Seq(S)
             /\ PartsFit(AttestationParts, value) => PartsFine(AttestationParts, value)
  <2>1. value \in Seq(Octet) \X Seq(Octet) \X Nat \X Seq(Octet) \X Nat \X Seq(Octet)
    BY DEF FieldValues
  <2>2. /\ value = <<value[1], value[2], value[3], value[4], value[5], value[6]>>
        /\ value[1] \in Seq(Octet) /\ value[2] \in Seq(Octet) /\ value[3] \in Nat
        /\ value[4] \in Seq(Octet) /\ value[5] \in Nat /\ value[6] \in Seq(Octet)
    BY <2>1
  <2>3. (\E S : value \in Seq(S)) /\ Len(value) = 6 /\ DOMAIN value = 1..6
    <3>1. PICK a \in Seq(Octet), b \in Seq(Octet), c \in Nat,
               d \in Seq(Octet), e \in Nat, f \in Seq(Octet) : value = <<a, b, c, d, e, f>>
      BY <2>1
    <3>2. value \in Seq({a, b, c, d, e, f})
      BY <3>1
    <3>3. Len(value) = 6 /\ DOMAIN value = 1..6
      BY <3>1
    <3> QED
      BY <3>2, <3>3
  <2>4. ASSUME PartsFit(AttestationParts, value) PROVE PartsFine(AttestationParts, value)
    <3>1. /\ Len(AttestationParts) = 6
          /\ AttestationParts[1] = "text" /\ AttestationParts[2] = "text"
          /\ AttestationParts[3] = "time" /\ AttestationParts[4] = "text"
          /\ AttestationParts[5] = "byte" /\ AttestationParts[6] = "text"
      BY DEF AttestationParts
    <3>2. /\ PartValues("byte") = Nat /\ PartValues("text") = Seq(Octet)
          /\ PartValues("time") = Nat
      BY DEF PartValues
    <3>3. /\ value[1] \in PartValues("text") /\ value[2] \in PartValues("text")
          /\ value[3] \in PartValues("time") /\ value[4] \in PartValues("text")
          /\ value[5] \in PartValues("byte") /\ value[6] \in PartValues("text")
      BY <2>2, <3>2
    <3>4. {"byte", "text", "time"} \subseteq PartKinds
      BY DEF PartKinds
    <3>5. \A i \in 1..6 : i = 1 \/ i = 2 \/ i = 3 \/ i = 4 \/ i = 5 \/ i = 6
      OBVIOUS
    <3>6. \A i \in 1..6 : /\ AttestationParts[i] \in PartKinds
                          /\ value[i] \in PartValues(AttestationParts[i])
      BY <3>1, <3>3, <3>4, <3>5
    <3>7. \A i \in 1..6 : PartFits(AttestationParts[i], value[i])
      BY <2>3, <2>4 DEF PartsFit
    <3> QED
      BY <2>3, <3>1, <3>6, <3>7 DEF PartsFine
  <2> QED
    BY <2>3, <2>4
<1>3. ASSUME NEW path \in FieldValues("path"), PartsFit(Entries(Len(path)), path)
      PROVE  PartsFine(Entries(Len(path)), path)
  <2>1. path \in Seq(Seq(Octet))
    BY DEF FieldValues
  <2>2. Len(path) \in Nat /\ DOMAIN path = 1..Len(path) /\ \A i \in 1..Len(path) : path[i] \in Seq(Octet)
    BY <2>1
  <2>3. /\ Len(Entries(Len(path))) = Len(path)
        /\ \A i \in 1..Len(path) : Entries(Len(path))[i] = "text"
    BY <2>2 DEF Entries
  <2>4. PartValues("text") = Seq(Octet) /\ "text" \in PartKinds
    BY DEF PartValues, PartKinds
  <2> QED
    BY <1>3, <2>2, <2>3, <2>4 DEF PartsFine, PartsFit
<1> QED
  BY <1>1, <1>2, <1>3

LEMMA PathsAreParts ==
  ASSUME NEW path \in Seq(Seq(Octet))
  PROVE  EncodePath(path) = Digits(Len(path), 1) \o EncodeParts(Entries(Len(path)), path)
<1>1. \A i \in DOMAIN path : Entries(Len(path))[i] = "text"
  BY DEF Entries
<1>2. \A text : EncodePart("text", text) = EncodeText(text)
  BY DEF EncodePart
<1>3. [i \in DOMAIN path |-> EncodePart(Entries(Len(path))[i], path[i])]
        = [i \in DOMAIN path |-> EncodeText(path[i])]
  BY <1>1, <1>2
<1> QED
  BY <1>3 DEF EncodePath, EncodeParts

LEMMA FieldIsRead ==
  ASSUME NEW kind \in FieldKinds, NEW value \in FieldValues(kind), FieldFits(kind, value)
  PROVE  /\ EncodeField(kind, value) \in Seq(Octet)
         /\ \A data \in Data, at \in Nat :
              at <= Len(data) /\ Starts(data, at, EncodeField(kind, value)) =>
                ReadField(data, at, kind) = Outcome(data, at, EncodeField(kind, value), value)
<1>1. CASE kind \in PartKinds
  <2>1. kind # "path" /\ kind # "error" /\ kind # "payload" /\ kind # "attestation"
    BY <1>1 DEF PartKinds
  <2>2. /\ value \in PartValues(kind) /\ PartFits(kind, value)
        /\ EncodeField(kind, value) = EncodePart(kind, value)
        /\ \A data, at : ReadField(data, at, kind) = ReadPart(data, at, kind)
    BY <2>1 DEF FieldValues, FieldFits, EncodeField, ReadField
  <2> QED
    BY <1>1, <2>2, PartIsRead
<1>2. CASE kind = "error"
  <2>1. /\ value \in PartValues("text") /\ PartFits("text", value) /\ "text" \in PartKinds
        /\ EncodeField(kind, value) = EncodePart("text", value)
        /\ \A data, at : ReadField(data, at, kind) = ReadPart(data, at, "text")
    BY <1>2 DEF FieldValues, PartValues, PartKinds, FieldFits, EncodeField, EncodePart, ReadField
  <2> QED
    BY <2>1, PartIsRead
<1>3. CASE kind = "payload"
  <2>1. PICK S : value \in Seq(S)
    BY <1>3, TuplesAreFine
  <2>2. PartsFine(PayloadParts, value)
    BY <1>3, TuplesAreFine DEF FieldFits
  <2>3. /\ EncodeField(kind, value) = EncodeParts(PayloadParts, value)
        /\ \A data, at : ReadField(data, at, kind) = ReadParts(data, at, PayloadParts)
    BY <1>3 DEF EncodeField, ReadField
  <2> QED
    BY <2>1, <2>2, <2>3, PartsAreRead
<1>4. CASE kind = "path"
  <2> DEFINE kinds == Entries(Len(value))
             digits == Digits(Len(value), 1)
             rest == EncodeParts(kinds, value)
  <2>1. value \in Seq(Seq(Octet)) /\ Len(value) \in Nat /\ Fits(Len(value), 1)
    BY <1>4 DEF FieldValues, FieldFits
  <2>2. PartsFine(kinds, value)
    BY <1>4, TuplesAreFine DEF FieldFits
  <2>3. /\ EncodeField(kind, value) = digits \o rest
        /\ \A data, at : ReadField(data, at, kind) = ReadPath(data, at)
    BY <1>4, <2>1, PathsAreParts DEF EncodeField, ReadField
  <2>4. digits \in Seq(Octet) /\ rest \in Seq(Octet)
    BY <2>1, <2>2, DigitsAreRead, PartsAreRead, 1 \in Nat
  <2>5. ASSUME NEW data \in Data, NEW at \in Nat, Starts(data, at, digits \o rest)
        PROVE  ReadPath(data, at) = Outcome(data, at, digits \o rest, value)
    <3> DEFINE number == ReadNumber(data, at, 1)
    <3>1. 1 \in Nat \ {0}
      OBVIOUS
    <3>2. IF number.ok
          THEN /\ number = Read(at + 1, Len(value))
               /\ ReadParts(data, at + 1, kinds) = Outcome(data, at, digits \o rest, value)
          ELSE Outcome(data, at, digits \o rest, value) = TooShort
      <4> HIDE DEF kinds
      <4> QED
        BY <2>1, <2>2, <2>5, <3>1, PartsAfterNumber
    <3>3. ReadPath(data, at) = IF number.ok THEN ReadParts(data, number.at, Entries(number.value))
                               ELSE TooShort
      BY DEF ReadPath
    <3> HIDE DEF number, digits, rest
    <3> QED
      BY <3>2, <3>3 DEF Read
  <2> HIDE DEF digits, rest
  <2> QED
    BY <2>3, <2>4, <2>5
<1>5. CASE kind = "attestation"
  <2> DEFINE rest == EncodeParts(AttestationParts, value)
             digits == Digits(Len(rest), 2)
  <2>1. PICK S : value \in Seq(S)
    BY <1>5, TuplesAreFine
  <2>2. PartsFine(AttestationParts, value) /\ Fits(Len(rest), 2)
    BY <1>5, TuplesAreFine DEF FieldFits
  <2>3. /\ EncodeField(kind, value) = digits \o rest
        /\ \A data, at : ReadField(data, at, kind) = ReadAttestation(data, at)
    BY <1>5 DEF EncodeField, EncodeText, ReadField
  <2>4. rest \in Seq(Octet) /\ Len(rest) \in Nat
    BY <2>1, <2>2, PartsAreRead
  <2>5. digits \in Seq(Octet)
    BY <2>4, DigitsAreRead, 2 \in Nat
  <2>6. ASSUME NEW data \in Data, NEW at \in Nat, Starts(data, at, digits \o rest)
        PROVE  ReadAttestation(data, at) = Outcome(data, at, digits \o rest, value)
    <3> DEFINE number == ReadNumber(data, at, 2)
    <3>1. 2 \in Nat \ {0}
      OBVIOUS
    <3>2. IF number.ok
          THEN /\ number = Read(at + 2, Len(rest))
               /\ at + 2 + Len(rest) = at + Len(digits \o rest)
               /\ ReadParts(data, at + 2, AttestationParts) = Outcome(data, at, digits \o rest, value)
          ELSE Outcome(data, at, digits \o rest, value) = TooShort
      BY <2>1, <2>2, <2>4, <2>6, <3>1, PartsAfterNumber
    <3>3. ReadAttestation(data, at) =
            IF number.ok /\ number.at + number.value <= Len(data)
            THEN ReadParts(data, number.at, AttestationParts) ELSE TooShort
      BY DEF ReadAttestation
    <3> HIDE DEF number, digits, rest
    <3>4. CASE number.ok
      <4>1. number.at + number.value = at + Len(digits \o rest) /\ number.at = at + 2
        BY <3>2, <3>4 DEF Read
      <4> QED
        BY <3>2, <3>3, <3>4, <4>1 DEF Outcome
    <3> QED
      BY <3>2, <3>3, <3>4
  <2> HIDE DEF digits, rest
  <2> QED
    BY <2>3, <2>4, <2>5, <2>6
<1> QED
  BY <1>1, <1>2, <1>3, <1>4, <1>5 DEF FieldKinds

-----------------------------------------------------------------------------
(* Messages.                                                               *)

\* What holds of the messages that are sent: every field is absent or a value
\* of its kind, and an attestation comes last.
FieldFine(m, i, kind) ==
  /\ kind \in FieldKinds
  /\ IF Present(m, i) THEN m.fields[i] \in FieldValues(kind) ELSE m.fields[i] = Absent
  /\ kind = "error" => i > 5
  /\ kind = "attestation" => i = 8 /\ Len(m.fields) = 8 /\ m.type = RESPONSE

MessageFine(m) ==
  /\ m = [type |-> m.type, flag |-> m.flag, fields |-> m.fields]
  /\ m.type \in 0..3 /\ m.flag \in BOOLEAN
  /\ \E S : m.fields \in Seq(S)
  /\ Len(KindsOf(m.type)) = Len(m.fields)
  /\ \A i \in 1..Len(m.fields) : FieldFine(m, i, KindsOf(m.type)[i])

LEMMA KindsOfEach ==
  /\ KindsOf(REQUEST) =
       <<"fixed", "text", "text", "byte", "time", "path", "fixed", "payload">>
  /\ KindsOf(RESPONSE) =
       <<"fixed", "text", "text", "path", "byte", "error", "payload", "attestation">>
  /\ KindsOf(DUPLICATE) = <<"fixed">>
  /\ KindsOf(UNREACHABLE) = <<"fixed", "byte">>
<1>1. REQUEST = 0 /\ RESPONSE = 1 /\ DUPLICATE = 2 /\ UNREACHABLE = 3
  BY DEF REQUEST, RESPONSE, DUPLICATE, UNREACHABLE
<1> QED
  BY <1>1 DEF KindsOf

LEMMA PlainFields ==
  /\ FieldValues("fixed") = Fixed /\ FieldValues("byte") = Nat /\ FieldValues("time") = Nat
  /\ FieldValues("text") = Seq(Octet) /\ FieldValues("error") = Seq(Octet)
  /\ FieldValues("path") = Seq(Seq(Octet))
  /\ FieldValues("payload") = Fixed \X Seq(Octet) \X Fixed
  /\ FieldValues("attestation") =
       Seq(Octet) \X Seq(Octet) \X Nat \X Seq(Octet) \X Nat \X Seq(Octet)
  /\ {"fixed", "byte", "time", "text", "error", "path", "payload", "attestation"}
       \subseteq FieldKinds
  BY DEF FieldValues, PartValues, FieldKinds, PartKinds

LEMMA IdsAreFixed ==
  ASSUME NEW id \in Ids, Len(id) = Width
  PROVE  id \in Fixed
<1>1. id \in Seq(Octet)
  BY WireAssumption
<1> QED
  BY <1>1 DEF Fixed

LEMMA RecordOfSets ==
  ASSUME NEW types, NEW flags, NEW fields,
         NEW m \in [type : types, flag : flags, fields : fields]
  PROVE  /\ m = [type |-> m.type, flag |-> m.flag, fields |-> m.fields]
         /\ m.type \in types /\ m.flag \in flags /\ m.fields \in fields
  OBVIOUS

LEMMA DuplicatesAreFine ==
  ASSUME NEW m \in Duplicates, Len(m.fields[1]) = Width
  PROVE  MessageFine(m)
<1>1. PICK id \in Ids : m = [type |-> DUPLICATE, flag |-> FALSE, fields |-> <<id>>]
  BY DEF Duplicates
<1>2. /\ m = [type |-> m.type, flag |-> m.flag, fields |-> m.fields]
      /\ m.type = DUPLICATE /\ m.type \in 0..3 /\ m.flag \in BOOLEAN /\ m.fields = <<id>>
  BY <1>1 DEF DUPLICATE
<1>3. m.fields \in Seq({id}) /\ Len(m.fields) = 1 /\ m.fields[1] = id
  BY <1>2
<1>4. Len(KindsOf(m.type)) = 1 /\ KindsOf(m.type)[1] = "fixed"
  BY <1>2, KindsOfEach
<1>5. FieldFine(m, 1, "fixed")
  <2>1. Present(m, 1) /\ m.fields[1] \in Fixed
    BY <1>3, <1>4, IdsAreFixed DEF Present
  <2> QED
    BY <2>1, PlainFields DEF FieldFine
<1>6. \A i \in 1..1 : i = 1
  OBVIOUS
<1> QED
  BY <1>2, <1>3, <1>4, <1>5, <1>6 DEF MessageFine

LEMMA UnreachablesAreFine ==
  ASSUME NEW m \in Unreachables, Len(m.fields[1]) = Width
  PROVE  MessageFine(m)
<1>1. /\ m = [type |-> m.type, flag |-> m.flag, fields |-> m.fields]
      /\ m.type = UNREACHABLE /\ m.type \in 0..3 /\ m.flag \in BOOLEAN
  <2> DEFINE fields == {<<i, reason>> : i \in Ids, reason \in 0..3}
  <2>1. Unreachables = [type : {UNREACHABLE}, flag : {FALSE}, fields : fields]
    BY DEF Unreachables
  <2> HIDE DEF fields
  <2>2. /\ m = [type |-> m.type, flag |-> m.flag, fields |-> m.fields]
        /\ m.type \in {UNREACHABLE} /\ m.flag \in {FALSE}
    BY <2>1, RecordOfSets
  <2>3. UNREACHABLE \in 0..3
    BY DEF UNREACHABLE
  <2> QED
    BY <2>2, <2>3
<1>2. PICK id \in Ids, reason \in 0..3 : m.fields = <<id, reason>>
  BY DEF Unreachables
<1>3. /\ m.fields \in Seq({id, reason}) /\ Len(m.fields) = 2
      /\ m.fields[1] = id /\ m.fields[2] = reason
  BY <1>2
<1>4. /\ Len(KindsOf(m.type)) = 2
      /\ KindsOf(m.type)[1] = "fixed" /\ KindsOf(m.type)[2] = "byte"
  BY <1>1, KindsOfEach
<1>5. FieldFine(m, 1, "fixed") /\ FieldFine(m, 2, "byte")
  <2>1. Present(m, 1) /\ Present(m, 2) /\ m.fields[1] \in Fixed /\ m.fields[2] \in Nat
    BY <1>3, <1>4, IdsAreFixed DEF Present
  <2> QED
    BY <2>1, PlainFields DEF FieldFine
<1>6. \A i \in 1..2 : i = 1 \/ i = 2
  OBVIOUS
<1> QED
  BY <1>1, <1>3, <1>4, <1>5, <1>6 DEF MessageFine

LEMMA RequestsAreFine ==
  ASSUME NEW m \in Requests, Len(m.fields[1]) = Width
  PROVE  MessageFine(m)
<1>1. PICK id \in Ids, o \in Texts, t \in Texts, ttl \in Ttls, at \in Times, p \in WirePaths,
           k \in {[n \in 1..Width |-> 1]}, e \in Payloads :
        m.fields = <<id, o, t, ttl, at, p, k, e>>
  BY DEF Requests
<1>2. /\ m = [type |-> m.type, flag |-> m.flag, fields |-> m.fields]
      /\ m.type = REQUEST /\ m.type \in 0..3 /\ m.flag \in BOOLEAN
  BY DEF Requests, REQUEST
<1>3. m.fields \in Seq({id, o, t, ttl, at, p, k, e}) /\ Len(m.fields) = 8
  BY <1>1
<1>4. /\ Len(KindsOf(m.type)) = 8
      /\ KindsOf(m.type) =
           <<"fixed", "text", "text", "byte", "time", "path", "fixed", "payload">>
  BY <1>2, KindsOfEach
<1>5. /\ id \in Fixed /\ o \in Seq(Octet) /\ t \in Seq(Octet) /\ ttl \in Nat /\ at \in Nat
      /\ p \in Seq(Seq(Octet)) /\ e \in Fixed \X Seq(Octet) \X Fixed
  BY <1>1, IdsAreFixed, WireAssumption
<1>6. k \in Fixed
  <2>1. Base \in Nat /\ Base >= 8 /\ Width \in Nat
    BY WireAssumption
  <2> QED
    BY <2>1 DEF Fixed, Octet
<1>7. \A i \in 1..8 : Present(m, i)
  BY <1>4 DEF Present
<1>8. /\ FieldFine(m, 1, "fixed") /\ FieldFine(m, 2, "text") /\ FieldFine(m, 3, "text")
      /\ FieldFine(m, 4, "byte") /\ FieldFine(m, 5, "time") /\ FieldFine(m, 6, "path")
      /\ FieldFine(m, 7, "fixed") /\ FieldFine(m, 8, "payload")
  <2>1. /\ m.fields[1] = id /\ m.fields[2] = o /\ m.fields[3] = t /\ m.fields[4] = ttl
        /\ m.fields[5] = at /\ m.fields[6] = p /\ m.fields[7] = k /\ m.fields[8] = e
    BY <1>1
  <2>2. /\ m.fields[1] \in FieldValues("fixed") /\ m.fields[2] \in FieldValues("text")
        /\ m.fields[3] \in FieldValues("text") /\ m.fields[4] \in FieldValues("byte")
        /\ m.fields[5] \in FieldValues("time") /\ m.fields[6] \in FieldValues("path")
        /\ m.fields[7] \in FieldValues("fixed") /\ m.fields[8] \in FieldValues("payload")
    BY <1>5, <1>6, <2>1, PlainFields
  <2>3. \A i \in 1..8, kind \in FieldKinds :
          /\ m.fields[i] \in FieldValues(kind) /\ kind # "error" /\ kind # "attestation"
          => FieldFine(m, i, kind)
    BY <1>7 DEF FieldFine
  <2>4. /\ "fixed" \in FieldKinds /\ "byte" \in FieldKinds /\ "time" \in FieldKinds
        /\ "text" \in FieldKinds /\ "path" \in FieldKinds /\ "payload" \in FieldKinds
    BY PlainFields
  <2>5. /\ FieldFine(m, 1, "fixed") /\ FieldFine(m, 2, "text") /\ FieldFine(m, 3, "text")
        /\ FieldFine(m, 4, "byte")
    BY <2>2, <2>3, <2>4
  <2>6. /\ FieldFine(m, 5, "time") /\ FieldFine(m, 6, "path")
        /\ FieldFine(m, 7, "fixed") /\ FieldFine(m, 8, "payload")
    BY <2>2, <2>3, <2>4
  <2> QED
    BY <2>5, <2>6
<1>9. \A i \in 1..8 : i = 1 \/ i = 2 \/ i = 3 \/ i = 4 \/ i = 5 \/ i = 6 \/ i = 7 \/ i = 8
  OBVIOUS
<1>10. \A i \in 1..8 : FieldFine(m, i, KindsOf(m.type)[i])
  BY <1>4, <1>8, <1>9
<1> QED
  BY <1>2, <1>3, <1>4, <1>10 DEF MessageFine

LEMMA ResponsesAreFine ==
  ASSUME NEW m \in Responses, Len(m.fields[1]) = Width
  PROVE  MessageFine(m)
<1>1. /\ m = [type |-> m.type, flag |-> m.flag, fields |-> m.fields]
      /\ m.type = RESPONSE /\ m.type \in 0..3 /\ m.flag \in BOOLEAN
  <2>1. ASSUME NEW f \in BOOLEAN, NEW a, m \in ResponsesWith(f, a)
        PROVE  /\ m = [type |-> m.type, flag |-> m.flag, fields |-> m.fields]
               /\ m.type = RESPONSE /\ m.type \in 0..3 /\ m.flag \in BOOLEAN
    <3>1. m.type = RESPONSE /\ m.flag = f
      BY <2>1 DEF ResponsesWith
    <3>2. m = [type |-> m.type, flag |-> m.flag, fields |-> m.fields]
      BY <2>1 DEF ResponsesWith
    <3>3. RESPONSE \in 0..3
      BY DEF RESPONSE
    <3> QED
      BY <3>1, <3>2, <3>3
  <2> QED
    BY <2>1 DEF Responses
<1>2. PICK id \in Ids, o \in Texts, t \in Texts, p \in WirePaths, v \in Verdicts,
           e \in Payloads, a \in IF m.flag THEN Attestations ELSE {Absent} :
        m.fields = <<id, o, t, p, v[1], v[2], e, a>>
  <2>1. PICK flag \in BOOLEAN :
          m \in ResponsesWith(flag, IF flag THEN Attestations ELSE {Absent})
    BY DEF Responses
  <2>2. m.flag = flag /\ m.fields \in
          {<<i, o, t, p, v[1], v[2], e, a>> :
             i \in Ids, o \in Texts, t \in Texts, p \in WirePaths, v \in Verdicts,
             e \in Payloads, a \in IF flag THEN Attestations ELSE {Absent}}
    BY <2>1 DEF ResponsesWith
  <2>3. \E id \in Ids, o \in Texts, t \in Texts, p \in WirePaths, v \in Verdicts,
           e \in Payloads, a \in IF flag THEN Attestations ELSE {Absent} :
           m.fields = <<id, o, t, p, v[1], v[2], e, a>>
    BY <2>2
  <2> QED
    BY <2>2, <2>3
<1>3. m.fields \in Seq({id, o, t, p, v[1], v[2], e, a}) /\ Len(m.fields) = 8
  BY <1>2
<1>4. /\ Len(KindsOf(m.type)) = 8
      /\ KindsOf(m.type) =
           <<"fixed", "text", "text", "path", "byte", "error", "payload", "attestation">>
  BY <1>1, KindsOfEach
<1>5. /\ id \in Fixed /\ o \in Seq(Octet) /\ t \in Seq(Octet)
      /\ p \in Seq(Seq(Octet)) /\ e \in Fixed \X Seq(Octet) \X Fixed
  BY <1>2, IdsAreFixed, WireAssumption
<1>6. /\ m.fields[1] = id /\ m.fields[2] = o /\ m.fields[3] = t /\ m.fields[4] = p
      /\ m.fields[5] = v[1] /\ m.fields[6] = v[2] /\ m.fields[7] = e /\ m.fields[8] = a
  BY <1>2
<1>7. v[1] \in Nat /\ IF v[1] = 1 THEN v[2] = Absent ELSE v[2] \in Seq(Octet)
  <2>1. CASE v = <<1, Absent>>
    BY <2>1
  <2>2. ASSUME NEW x \in Texts, v = <<0, x>>
        PROVE  v[1] \in Nat /\ IF v[1] = 1 THEN v[2] = Absent ELSE v[2] \in Seq(Octet)
    BY <2>2, WireAssumption
  <2> QED
    BY <2>1, <2>2 DEF Verdicts
<1>8. IF m.flag
      THEN a \in Seq(Octet) \X Seq(Octet) \X Nat \X Seq(Octet) \X Nat \X Seq(Octet)
      ELSE a = Absent
  BY WireAssumption
<1>9. /\ \A i \in 1..5 : Present(m, i)
      /\ Present(m, 6) = (v[1] # 1) /\ Present(m, 7) /\ Present(m, 8) = m.flag
  BY <1>1, <1>4, <1>6 DEF Present
<1>10. /\ FieldFine(m, 1, "fixed") /\ FieldFine(m, 2, "text") /\ FieldFine(m, 3, "text")
      /\ FieldFine(m, 4, "path") /\ FieldFine(m, 5, "byte") /\ FieldFine(m, 7, "payload")
  <2>1. /\ m.fields[1] \in FieldValues("fixed") /\ m.fields[2] \in FieldValues("text")
        /\ m.fields[3] \in FieldValues("text") /\ m.fields[4] \in FieldValues("path")
        /\ m.fields[5] \in FieldValues("byte") /\ m.fields[7] \in FieldValues("payload")
    BY <1>5, <1>6, <1>7, PlainFields
  <2>2. \A i \in {1, 2, 3, 4, 5, 7}, kind \in FieldKinds :
          /\ m.fields[i] \in FieldValues(kind) /\ kind # "error" /\ kind # "attestation"
          => FieldFine(m, i, kind)
    BY <1>9 DEF FieldFine
  <2> QED
    BY <2>1, <2>2, PlainFields
<1>11. FieldFine(m, 6, "error")
  <2>1. "error" \in FieldKinds /\ "error" # "attestation" /\ 6 > 5
    BY PlainFields
  <2>2. IF Present(m, 6) THEN m.fields[6] \in FieldValues("error") ELSE m.fields[6] = Absent
    BY <1>6, <1>7, <1>9, PlainFields
  <2> QED
    BY <2>1, <2>2 DEF FieldFine
<1>12. FieldFine(m, 8, "attestation")
  BY <1>1, <1>3, <1>6, <1>8, <1>9, PlainFields DEF FieldFine
<1>13. \A i \in 1..8 : i = 1 \/ i = 2 \/ i = 3 \/ i = 4 \/ i = 5 \/ i = 6 \/ i = 7 \/ i = 8
  OBVIOUS
<1>14. \A i \in 1..8 : FieldFine(m, i, KindsOf(m.type)[i])
  BY <1>4, <1>10, <1>11, <1>12, <1>13
<1> QED
  BY <1>1, <1>3, <1>4, <1>14 DEF MessageFine

-----------------------------------------------------------------------------
(* The fields one after another, and the header.                           *)

\* What is written of the fields, one after another.
Written(m) ==
  [i \in DOMAIN m.fields |->
     IF Present(m, i) THEN EncodeField(KindsOf(m.type)[i], m.fields[i]) ELSE <<>>]

LEMMA WrittenFields ==
  ASSUME NEW m, MessageFine(m), CanCarry(m)
  PROVE  /\ Encode(m) = <<m.type + 4 * Flag(m.flag)>> \o Concat(Written(m))
         /\ Written(m) \in Seq(Seq(Octet)) /\ Len(Written(m)) = Len(m.fields)
         /\ \A i \in 1..Len(m.fields) : LET kind == KindsOf(m.type)[i] IN
              IF Present(m, i)
              THEN \A data \in Data, at \in Nat :
                     at <= Len(data) /\ Starts(data, at, Written(m)[i]) =>
                       ReadField(data, at, kind) = Outcome(data, at, Written(m)[i], m.fields[i])
              ELSE Written(m)[i] = <<>> /\ m.fields[i] = Absent
<1> DEFINE N == Len(m.fields)
<1>1. N \in Nat /\ DOMAIN m.fields = 1..N
  BY DEF MessageFine
<1>2. Encode(m) = <<m.type + 4 * Flag(m.flag)>> \o Concat(Written(m))
  BY DEF Encode, Written
<1>3. ASSUME NEW i \in 1..N
      PROVE  /\ Written(m)[i] \in Seq(Octet)
             /\ IF Present(m, i)
                THEN \A data \in Data, at \in Nat :
                       at <= Len(data) /\ Starts(data, at, Written(m)[i]) =>
                         ReadField(data, at, KindsOf(m.type)[i])
                           = Outcome(data, at, Written(m)[i], m.fields[i])
                ELSE Written(m)[i] = <<>> /\ m.fields[i] = Absent
  <2> DEFINE kind == KindsOf(m.type)[i]
  <2>1. FieldFine(m, i, kind)
    BY DEF MessageFine
  <2>2. CASE Present(m, i)
    <3>1. kind \in FieldKinds /\ m.fields[i] \in FieldValues(kind) /\ FieldFits(kind, m.fields[i])
      BY <1>1, <2>1, <2>2 DEF FieldFine, CanCarry
    <3>2. Written(m)[i] = EncodeField(kind, m.fields[i])
      BY <1>1, <2>2 DEF Written
    <3> HIDE DEF kind
    <3> QED
      BY <2>2, <3>1, <3>2, FieldIsRead DEF kind
  <2>3. CASE ~ Present(m, i)
    <3>1. Written(m)[i] = <<>> /\ m.fields[i] = Absent
      BY <1>1, <2>1, <2>3 DEF FieldFine, Written
    <3> QED
      BY <2>3, <3>1
  <2> QED
    BY <2>2, <2>3
<1>4. Written(m) \in Seq(Seq(Octet)) /\ Len(Written(m)) = N
  <2>1. DOMAIN Written(m) = 1..N /\ Written(m) = [i \in 1..N |-> Written(m)[i]]
    BY <1>1 DEF Written
  <2>2. Written(m) \in [1..N -> Seq(Octet)]
    BY <1>3, <2>1
  <2> HIDE DEF N
  <2> QED
    BY <1>1, <2>1, <2>2
<1> QED
  BY <1>2, <1>3, <1>4

\* The data ends right before the attestation that the header announces.
Dropped(m, upTo, data) ==
  /\ m.type = RESPONSE /\ m.flag
  /\ Len(data) = 1 + Len(upTo[7])

LEMMA NextIsRead ==
  ASSUME NEW m, MessageFine(m), CanCarry(m),
         NEW upTo, Prefixes(Written(m), upTo),
         NEW data \in Data, 1 <= Len(data), Starts(data, 1, upTo[Len(m.fields)]),
         NEW i \in 1..Len(m.fields), ~ (i = 8 /\ Dropped(m, upTo, data))
  PROVE  ReadNext(data, m.flag, Outcome(data, 1, upTo[i - 1], SubSeq(m.fields, 1, i - 1)),
                  KindsOf(m.type)[i])
           = Outcome(data, 1, upTo[i], SubSeq(m.fields, 1, i))
<1> DEFINE kind == KindsOf(m.type)[i]
           s == upTo[i - 1]
           t == Written(m)[i]
           old == SubSeq(m.fields, 1, i - 1)
           new == m.fields[i]
           r == Outcome(data, 1, s, old)
<1>1. /\ Written(m) \in Seq(Seq(Octet)) /\ Len(Written(m)) = Len(m.fields)
      /\ IF Present(m, i)
         THEN \A d \in Data, at \in Nat : at <= Len(d) /\ Starts(d, at, t) =>
                ReadField(d, at, kind) = Outcome(d, at, t, new)
         ELSE t = <<>> /\ new = Absent
  BY WrittenFields
<1>2. /\ s \in Seq(Octet) /\ t \in Seq(Octet) /\ upTo[i] = s \o t
      /\ Len(s) \in Nat /\ Len(t) \in Nat /\ Len(data) \in Nat
  <2>1. i - 1 \in 0..Len(Written(m)) /\ i \in 1..Len(Written(m)) /\ Written(m)[i] \in Seq(Octet)
    BY <1>1 DEF MessageFine
  <2>2. upTo[i - 1] \in Seq(Octet) /\ upTo[i] = upTo[i - 1] \o Written(m)[i]
    BY <2>1 DEF Prefixes
  <2> QED
    BY <2>1, <2>2 DEF Data
<1>3. Starts(data, 1 + Len(s), t)
  BY <1>1, StartsWithAll
<1>4. Append(old, new) = SubSeq(m.fields, 1, i)
  BY OneMore DEF MessageFine
<1>5. FieldFine(m, i, kind)
  BY DEF MessageFine
<1>6. kind = "error" => old[5] = m.fields[5]
  <2>1. \A S : m.fields \in Seq(S) /\ i > 5 => old[5] = m.fields[5]
    OBVIOUS
  <2> QED
    BY <1>5, <2>1 DEF FieldFine, MessageFine
<1>7. kind = "attestation" => /\ i = 8 /\ s = upTo[7] /\ m.type = RESPONSE
                              /\ (Len(data) = 1 + Len(s)) = (Len(data) = 1 + Len(upTo[7]))
  BY <1>5 DEF FieldFine
<1>8. Present(m, i) = ((kind = "error" => m.fields[5] # 1) /\ (kind = "attestation" => m.flag))
  BY DEF Present
<1>9. IF 1 + Len(s) <= Len(data)
      THEN r = Read(1 + Len(s), old) /\ r.ok /\ r.at = 1 + Len(s) /\ r.value = old
      ELSE r = TooShort /\ ~ r.ok
  <2> HIDE DEF s, old
  <2> QED
    BY DEF Outcome, Read, TooShort
<1>10. ReadNext(data, m.flag, r, kind) = Outcome(data, 1, s \o t, Append(old, new))
  <2>1. CASE ~ r.ok
    <3>1. ~ (1 + Len(s \o t) <= Len(data))
      <4> HIDE DEF s, t, r, old
      <4> QED
        BY <1>2, <1>9, <2>1
    <3> QED
      BY <2>1, <3>1 DEF ReadNext, Outcome
  <2>2. CASE r.ok /\ ~ Present(m, i)
    <3>1. Skipped(data, m.flag, r, kind)
      <4>1. CASE kind = "error" /\ m.fields[5] = 1
        BY <1>6, <1>9, <2>2, <4>1 DEF Skipped
      <4>2. CASE kind = "attestation" /\ ~ m.flag
        BY <4>2 DEF Skipped
      <4> QED
        BY <1>8, <2>2, <4>1, <4>2
    <3>2. ReadNext(data, m.flag, r, kind) = Read(1 + Len(s), Append(old, Absent))
      <4> HIDE DEF s, r, old, kind
      <4> QED
        BY <1>9, <2>2, <3>1 DEF ReadNext
    <3>3. new = Absent /\ Len(s \o t) = Len(s)
      <4> HIDE DEF s
      <4> QED
        BY <1>1, <1>2, <2>2
    <3> QED
      BY <1>9, <2>2, <3>2, <3>3 DEF Outcome
  <2>3. CASE r.ok /\ Present(m, i)
    <3>1. ~ Skipped(data, m.flag, r, kind)
      <4>1. kind = "error" => r.value[5] # 1
        <5> HIDE DEF s, r, old, kind
        <5> QED
          BY <1>6, <1>8, <1>9, <2>3
      <4>2. kind = "attestation" => m.flag /\ r.at < Len(data)
        <5>1. CASE kind = "attestation"
          <6>1. m.flag /\ ~ (Len(data) = 1 + Len(s))
            BY <1>7, <1>8, <2>3, <5>1 DEF Dropped
          <6>2. r.at = 1 + Len(s) /\ 1 + Len(s) <= Len(data)
            BY <1>9, <2>3
          <6> HIDE DEF s, r
          <6> QED
            BY <1>2, <6>1, <6>2
        <5> QED
          BY <5>1
      <4> QED
        BY <4>1, <4>2 DEF Skipped
    <3> DEFINE next == ReadField(data, r.at, kind)
    <3>2. ReadNext(data, m.flag, r, kind) = Extended(r, next)
      BY <2>3, <3>1 DEF ReadNext
    <3>3. 1 + Len(s) <= Len(data) => next = Outcome(data, 1 + Len(s), t, new)
      <4>1. r.at = 1 + Len(s) /\ 1 + Len(s) \in Nat
        BY <1>2, <1>9, <2>3
      <4> HIDE DEF s, t, r, new, kind
      <4> QED
        BY <1>1, <1>3, <2>3, <4>1
    <3>4. Extended(r, next) = Outcome(data, 1, s \o t, Append(old, new))
      <4> HIDE DEF s, t, old, new, next
      <4> QED
        BY <1>2, <3>3, OutcomeExtends, 1 \in Nat
    <3> QED
      BY <3>2, <3>4
  <2> QED
    BY <2>1, <2>2, <2>3
<1> QED
  BY <1>2, <1>4, <1>10

\* What the data is read as that the encoded message was cut to.
Reading(m, upTo, data) ==
  IF Dropped(m, upTo, data)
  THEN [type |-> m.type, flag |-> m.flag, fields |-> Append(SubSeq(m.fields, 1, 7), Absent)]
  ELSE IF 1 + Len(upTo[Len(m.fields)]) <= Len(data) THEN m ELSE Refused

LEMMA MessageIsRead ==
  ASSUME NEW m, MessageFine(m), CanCarry(m),
         NEW upTo, Prefixes(Written(m), upTo),
         NEW data \in Data, 1 <= Len(data), Starts(data, 1, upTo[Len(m.fields)])
  PROVE  ReadMessage(data, m.type, m.flag) = Reading(m, upTo, data)
<1> DEFINE N == Len(m.fields)
           kinds == KindsOf(m.type)
           dropped == Dropped(m, upTo, data)
           got(i) == Outcome(data, 1, upTo[i], SubSeq(m.fields, 1, i))
           short == Read(Len(data), Append(SubSeq(m.fields, 1, 7), Absent))
           g == [i \in 0..N |-> IF i = 8 /\ dropped THEN short ELSE got(i)]
           read[i \in 0..N] ==
             IF i = 0 THEN Read(1, <<>>) ELSE ReadNext(data, m.flag, read[i - 1], kinds[i])
<1>1. N \in Nat /\ Len(kinds) = N /\ Len(data) \in Nat
  BY DEF MessageFine, Data
<1>2. dropped => N = 8 /\ kinds[8] = "attestation" /\ m.flag /\ Len(data) = 1 + Len(upTo[7])
  <2>1. dropped => m.type = RESPONSE /\ m.flag /\ Len(data) = 1 + Len(upTo[7])
    BY DEF Dropped
  <2>2. Len(KindsOf(RESPONSE)) = 8 /\ KindsOf(RESPONSE)[8] = "attestation"
    BY KindsOfEach
  <2> QED
    BY <1>1, <2>1, <2>2
<1>3. g[0] = Read(1, <<>>)
  <2>1. upTo[0] = <<>>
    BY DEF Prefixes
  <2>2. SubSeq(m.fields, 1, 0) = <<>>
    BY DEF MessageFine
  <2>3. got(0) = Read(1, <<>>)
    <3>1. got(0) = Outcome(data, 1, <<>>, <<>>)
      BY <2>1, <2>2
    <3>2. 1 + Len(<<>>) = 1 /\ 1 <= Len(data)
      OBVIOUS
    <3> HIDE DEF got
    <3> QED
      BY <3>1, <3>2 DEF Outcome
  <2>4. 0 \in 0..N /\ 0 # 8
    BY <1>1
  <2> HIDE DEF got, dropped, short
  <2> QED
    BY <2>3, <2>4
<1>4. ASSUME NEW i \in 1..N PROVE g[i] = ReadNext(data, m.flag, g[i - 1], kinds[i])
  <2>1. i \in 0..N /\ i - 1 \in 0..N
    BY <1>1
  <2>2. g[i - 1] = got(i - 1)
    <3>1. ~ (i - 1 = 8 /\ dropped)
      <4>1. dropped => N = 8
        BY <1>2
      <4> HIDE DEF dropped, N
      <4> QED
        BY <1>1, <4>1
    <3> HIDE DEF got, dropped, short
    <3> QED
      BY <2>1, <3>1
  <2>3. CASE i = 8 /\ dropped
    <3>1. got(7) = Read(Len(data), SubSeq(m.fields, 1, 7))
      BY <1>1, <1>2, <2>3 DEF Outcome
    <3>2. Skipped(data, m.flag, got(7), kinds[8]) /\ got(7).ok
      BY <1>1, <1>2, <2>3, <3>1 DEF Skipped, Read
    <3>3. ReadNext(data, m.flag, got(7), kinds[8]) = short
      <4>1. ReadNext(data, m.flag, got(7), kinds[8]) = Read(got(7).at, Append(got(7).value, Absent))
        <5> HIDE DEF got, kinds
        <5> QED
          BY <3>2 DEF ReadNext
      <4>2. got(7).at = Len(data) /\ got(7).value = SubSeq(m.fields, 1, 7)
        <5> HIDE DEF got
        <5> QED
          BY <3>1 DEF Read
      <4> HIDE DEF got
      <4> QED
        BY <4>1, <4>2
    <3>4. g[i] = short /\ g[i - 1] = got(7)
      <4>1. i - 1 = 7
        BY <2>3
      <4>2. g[i - 1] = got(7)
        BY <2>2, <4>1
      <4> HIDE DEF got, short, dropped
      <4> QED
        BY <2>1, <2>3, <4>2
    <3> HIDE DEF g, got, short
    <3> QED
      BY <2>3, <3>3, <3>4
  <2>4. CASE ~ (i = 8 /\ dropped)
    <3>1. ReadNext(data, m.flag, got(i - 1), kinds[i]) = got(i)
      BY <2>4, NextIsRead
    <3>2. g[i] = got(i)
      BY <2>1, <2>4
    <3> HIDE DEF g, got
    <3> QED
      BY <2>2, <3>1, <3>2
  <2> QED
    BY <2>3, <2>4
<1>5. \A i \in 0..N : i # 0 => i \in 1..N
  BY <1>1
<1>6. g = [i \in 0..N |-> g[i]]
  OBVIOUS
<1>7. N \in 0..N /\ 0 \in 0..N /\ \A i \in 1..N : i \in 0..N /\ i # 0
  BY <1>1
<1>8. g[N] = IF dropped THEN short ELSE got(N)
  <2>1. dropped => N = 8
    BY <1>2
  <2> HIDE DEF got, short, dropped, N
  <2> QED
    BY <1>7, <2>1
<1>9. got(N) = Outcome(data, 1, upTo[N], m.fields)
  <2>1. SubSeq(m.fields, 1, N) = m.fields
    BY DEF MessageFine
  <2> QED
    BY <2>1
<1> HIDE DEF g, got, dropped
<1>10. g = [i \in 0..N |-> IF i = 0 THEN Read(1, <<>>)
                           ELSE ReadNext(data, m.flag, g[i - 1], kinds[i])]
  <2>1. \A i \in 0..N : g[i] = IF i = 0 THEN Read(1, <<>>)
                                ELSE ReadNext(data, m.flag, g[i - 1], kinds[i])
    BY <1>3, <1>4, <1>5
  <2> QED
    BY <1>6, <2>1
<1>11. read = [i \in 0..N |-> IF i = 0 THEN Read(1, <<>>)
                              ELSE ReadNext(data, m.flag, read[i - 1], kinds[i])]
  BY <1>10
<1>12. ReadMessage(data, m.type, m.flag) =
         IF read[N].ok THEN [type |-> m.type, flag |-> m.flag, fields |-> read[N].value]
         ELSE Refused
  BY <1>1 DEF ReadMessage
<1> HIDE DEF read
<1>13. read[0] = g[0] /\ \A i \in 1..N : read[i - 1] = g[i - 1] => read[i] = g[i]
  BY <1>3, <1>4, <1>7, <1>11
<1>14. read[N] = g[N]
  <2> HIDE DEF N, kinds
  <2> QED
    BY <1>1, <1>13, SameSteps
<1>15. CASE dropped
  <2>1. read[N] = short
    BY <1>8, <1>14, <1>15
  <2>2. short.ok /\ short.value = Append(SubSeq(m.fields, 1, 7), Absent)
    BY DEF Read
  <2> QED
    BY <1>12, <1>15, <2>1, <2>2 DEF Reading, dropped
<1>16. CASE ~ dropped
  <2>1. read[N] = Outcome(data, 1, upTo[N], m.fields)
    BY <1>8, <1>9, <1>14, <1>16
  <2>2. CASE 1 + Len(upTo[N]) <= Len(data)
    <3>1. read[N].ok /\ read[N].value = m.fields
      BY <2>1, <2>2 DEF Outcome, Read
    <3>2. ReadMessage(data, m.type, m.flag) = m
      BY <1>12, <3>1 DEF MessageFine
    <3> QED
      BY <1>16, <2>2, <3>2 DEF Reading, dropped
  <2>3. CASE ~ (1 + Len(upTo[N]) <= Len(data))
    <3>1. ~ read[N].ok
      BY <2>1, <2>3 DEF Outcome, TooShort
    <3> QED
      BY <1>12, <1>16, <2>3, <3>1 DEF Reading, dropped
  <2> QED
    BY <2>2, <2>3
<1> QED
  BY <1>15, <1>16

\* An attestation is never of no bytes.
LEMMA WholeIsNotDropped ==
  ASSUME NEW m, MessageFine(m), CanCarry(m),
         NEW upTo, Prefixes(Written(m), upTo),
         NEW data, Len(data) = 1 + Len(upTo[Len(m.fields)])
  PROVE  ~ Dropped(m, upTo, data)
<1> SUFFICES ASSUME m.type = RESPONSE, m.flag, Len(data) = 1 + Len(upTo[7])
             PROVE  FALSE
  BY DEF Dropped
<1>1. /\ Len(m.fields) = 8 /\ KindsOf(m.type)[8] = "attestation"
      /\ DOMAIN m.fields = 1..8
  <2>1. Len(KindsOf(m.type)) = 8 /\ KindsOf(m.type)[8] = "attestation"
    BY KindsOfEach
  <2> QED
    BY <2>1 DEF MessageFine
<1>2. Present(m, 8) /\ FieldFits("attestation", m.fields[8])
  BY <1>1 DEF Present, CanCarry
<1>3. m.fields[8] \in FieldValues("attestation")
  BY <1>1, <1>2 DEF MessageFine, FieldFine
<1> DEFINE rest == EncodeParts(AttestationParts, m.fields[8])
<1>4. rest \in Seq(Octet) /\ Len(rest) \in Nat
  <2>1. PICK S : m.fields[8] \in Seq(S)
    BY <1>3, TuplesAreFine
  <2>2. PartsFine(AttestationParts, m.fields[8])
    BY <1>2, <1>3, TuplesAreFine DEF FieldFits
  <2> QED
    BY <2>1, <2>2, PartsAreRead
<1>5. Written(m)[8] = Digits(Len(rest), 2) \o rest
  <2>1. Written(m)[8] = EncodeField("attestation", m.fields[8])
    BY <1>1, <1>2 DEF Written
  <2>2. EncodeField("attestation", m.fields[8]) = EncodeText(rest)
    BY DEF EncodeField
  <2> QED
    BY <2>1, <2>2 DEF EncodeText
<1>6. Digits(Len(rest), 2) \in Seq(Octet) /\ Len(Digits(Len(rest), 2)) = 2
  BY <1>4, DigitsAreRead, 2 \in Nat
<1>7. /\ Written(m)[8] \in Seq(Octet) /\ Len(Written(m)[8]) >= 2
  <2> DEFINE digits == Digits(Len(rest), 2)
  <2>1. digits \in Seq(Octet) /\ Len(digits) = 2 /\ Written(m)[8] = digits \o rest
    BY <1>5, <1>6
  <2> HIDE DEF rest, digits
  <2>2. Len(digits \o rest) = Len(digits) + Len(rest) /\ digits \o rest \in Seq(Octet)
    <3>1. \A a \in Seq(Octet), b \in Seq(Octet) :
            Len(a \o b) = Len(a) + Len(b) /\ a \o b \in Seq(Octet)
      OBVIOUS
    <3> QED
      BY <1>4, <2>1, <3>1
  <2> QED
    BY <1>4, <2>1, <2>2
<1>8. upTo[7] \in Seq(Octet) /\ upTo[8] = upTo[7] \o Written(m)[8]
  <2>1. Len(Written(m)) = 8
    BY <1>1, WrittenFields
  <2>2. 7 \in 0..8 /\ 8 \in 1..8 /\ 8 - 1 = 7
    OBVIOUS
  <2> QED
    BY <2>1, <2>2 DEF Prefixes
<1>9. Len(upTo[8]) = Len(upTo[7]) + Len(Written(m)[8]) /\ Len(upTo[7]) \in Nat
  BY <1>7, <1>8
<1> QED
  BY <1>1, <1>7, <1>9

\* The header is read as it was written.
LEMMA HeaderIsRead ==
  ASSUME NEW type \in 0..3, NEW flag \in BOOLEAN
  PROVE  LET header == type + 4 * Flag(flag) IN
           /\ header \in Octet
           /\ header % 4 = type /\ ((header \div 4) % 2 = 1) = flag
<1>1. CASE flag = TRUE
  <2>1. Flag(flag) = 1 /\ type + 4 \in Octet
    BY <1>1, WireAssumption DEF Flag, Octet
  <2>2. type + 4 * Flag(flag) = type + 4
    BY <2>1
  <2>3. (type + 4) % 4 = type /\ ((type + 4) \div 4) % 2 = 1
    OBVIOUS
  <2> HIDE DEF Flag
  <2> QED
    BY <1>1, <2>1, <2>2, <2>3
<1>2. CASE flag = FALSE
  <2>1. Flag(flag) = 0 /\ type \in Octet
    BY <1>2, WireAssumption DEF Flag, Octet
  <2>2. type + 4 * Flag(flag) = type
    BY <2>1
  <2>3. type % 4 = type /\ (type \div 4) % 2 = 0
    OBVIOUS
  <2> QED
    BY <1>2, <2>1, <2>2, <2>3
<1> QED
  BY <1>1, <1>2

-----------------------------------------------------------------------------
\* The invariant behind it: where a message is, and what the wire says of it.
WireInv ==
  /\ \/ sentMessage = NoMessage /\ receivedMessage = NoMessage
     \/ /\ sentMessage \in Messages /\ Len(sentMessage.fields[1]) = Width
        /\ wire = Encode(sentMessage)
  /\ \/ receivedMessage = NoMessage
     \/ cutAt \in 0..Len(wire) /\ receivedMessage = Decode(SubSeq(wire, 1, cutAt))

LEMMA MessagesAreFine ==
  ASSUME NEW m \in Messages, Len(m.fields[1]) = Width
  PROVE  MessageFine(m)
  BY RequestsAreFine, ResponsesAreFine, DuplicatesAreFine, UnreachablesAreFine DEF Messages

LEMMA CutsAreDecoded ==
  ASSUME NEW m, MessageFine(m), CanCarry(m), NEW n \in 0..Len(Encode(m))
  PROVE  LET decoded == Decode(SubSeq(Encode(m), 1, n)) IN
         IF n = Len(Encode(m)) THEN decoded = m
         ELSE \/ decoded = Refused
              \/ /\ m.type = RESPONSE /\ m.flag
                 /\ decoded = [m EXCEPT !.fields[8] = Absent]
<1> DEFINE bytes == Encode(m)
           header == m.type + 4 * Flag(m.flag)
           data == SubSeq(bytes, 1, n)
           N == Len(m.fields)
<1>1. header \in Octet /\ header % 4 = m.type /\ ((header \div 4) % 2 = 1) = m.flag
  BY HeaderIsRead DEF MessageFine
<1>2. PICK upTo : Prefixes(Written(m), upTo) /\ Concat(Written(m)) = upTo[N]
  BY WrittenFields, Concatenation
<1>3. upTo[N] \in Seq(Octet)
  <2>1. Len(Written(m)) = N
    BY WrittenFields
  <2>2. N \in Nat
    BY DEF MessageFine
  <2> HIDE DEF N
  <2>3. N \in 0..N
    BY <2>2
  <2> QED
    BY <1>2, <2>1, <2>3 DEF Prefixes
<1>4. bytes = <<header>> \o upTo[N]
  BY <1>2, WrittenFields
<1> HIDE DEF bytes, header, N
<1>5. /\ bytes \in Seq(Octet) /\ Len(bytes) = 1 + Len(upTo[N]) /\ Len(upTo[N]) \in Nat
      /\ \A j \in 1..Len(upTo[N]) : bytes[1 + j] = upTo[N][j]
      /\ bytes[1] = header
  BY <1>1, <1>3, <1>4
<1>6. n \in 0..Len(bytes)
  BY DEF bytes
<1>7. data \in Data /\ Len(data) = n /\ \A j \in 1..n : data[j] = bytes[j]
  <2>1. data \in Seq(Octet) /\ Len(data) = n /\ \A j \in 1..n : data[j] = bytes[j]
    BY <1>5, <1>6
  <2>2. Seq(Octet) \subseteq Data
    BY WireAssumption DEF Octet, Data
  <2> QED
    BY <2>1, <2>2
<1> HIDE DEF data
<1>8. CASE n = 0
  <2>1. data = <<>>
    BY <1>7, <1>8 DEF Data
  <2>2. Decode(data) = Refused
    BY <2>1 DEF Decode
  <2> QED
    BY <1>5, <1>8, <2>2 DEF data, bytes
<1>9. CASE n # 0
  <2>1. 1 <= Len(data) /\ data # <<>> /\ data[1] = header
    BY <1>5, <1>6, <1>7, <1>9
  <2>2. Starts(data, 1, upTo[N])
    <3>1. ASSUME NEW j \in 1..Len(upTo[N]), 1 + j <= Len(data) PROVE data[1 + j] = upTo[N][j]
      BY <1>5, <1>6, <1>7, <3>1
    <3> QED
      BY <3>1 DEF Starts
  <2>3. ReadMessage(data, m.type, m.flag) = Reading(m, upTo, data)
    BY <1>2, <1>7, <2>1, <2>2, MessageIsRead DEF N
  <2>4. Decode(data) = Reading(m, upTo, data)
    <3>1. Decode(data) = ReadMessage(data, data[1] % 4, (data[1] \div 4) % 2 = 1)
      BY <2>1 DEF Decode
    <3> QED
      BY <1>1, <2>1, <2>3, <3>1
  <2>5. CASE n = Len(bytes)
    <3>1. ~ Dropped(m, upTo, data)
      BY <1>2, <1>5, <1>7, <2>5, WholeIsNotDropped DEF N
    <3>2. Decode(data) = m
      BY <1>5, <1>7, <2>4, <2>5, <3>1 DEF Reading, N
    <3> QED
      BY <2>5, <3>2 DEF data, bytes
  <2>6. CASE n # Len(bytes) /\ ~ Dropped(m, upTo, data)
    <3>1. ~ (1 + Len(upTo[N]) <= Len(data))
      BY <1>5, <1>6, <1>7, <2>6
    <3>2. Decode(data) = Refused
      BY <2>4, <2>6, <3>1 DEF Reading, N
    <3> QED
      BY <2>6, <3>2 DEF data, bytes
  <2>7. CASE n # Len(bytes) /\ Dropped(m, upTo, data)
    <3>1. m.type = RESPONSE /\ m.flag /\ N = 8
      <4>1. Len(KindsOf(RESPONSE)) = 8
        BY KindsOfEach
      <4> QED
        BY <2>7, <4>1 DEF Dropped, MessageFine, N
    <3>2. Append(SubSeq(m.fields, 1, 7), Absent) = [m.fields EXCEPT ![8] = Absent]
      <4>1. PICK S : m.fields \in Seq(S)
        BY DEF MessageFine
      <4> DEFINE a == Append(SubSeq(m.fields, 1, 7), Absent)
                 b == [m.fields EXCEPT ![8] = Absent]
      <4>2. Len(m.fields) = 8
        BY <3>1 DEF N
      <4>3. SubSeq(m.fields, 1, 7) \in Seq(S) /\ Len(SubSeq(m.fields, 1, 7)) = 7
        BY <4>1, <4>2
      <4>4. \A j \in 1..7 : SubSeq(m.fields, 1, 7)[j] = m.fields[j]
        BY <4>1, <4>2
      <4>5. a \in Seq(S \cup {Absent}) /\ Len(a) = 8
        BY <4>3
      <4>6. \A j \in 1..8 : a[j] = IF j = 8 THEN Absent ELSE m.fields[j]
        BY <4>3, <4>4
      <4>7. DOMAIN m.fields = 1..8
        BY <4>1, <4>2
      <4>8. a = [j \in 1..8 |-> IF j = 8 THEN Absent ELSE m.fields[j]]
        <5> HIDE DEF a, b
        <5> QED
          BY <4>5, <4>6
      <4>9. b = [j \in 1..8 |-> IF j = 8 THEN Absent ELSE m.fields[j]]
        BY <4>7
      <4> QED
        BY <4>8, <4>9
    <3>3. Decode(data) = [type |-> m.type, flag |-> m.flag,
                          fields |-> [m.fields EXCEPT ![8] = Absent]]
      BY <2>4, <2>7, <3>2 DEF Reading
    <3>4. [m EXCEPT !.fields[8] = Absent]
            = [type |-> m.type, flag |-> m.flag, fields |-> [m.fields EXCEPT ![8] = Absent]]
      <4>1. m = [type |-> m.type, flag |-> m.flag, fields |-> m.fields]
        BY DEF MessageFine
      <4> DEFINE fields == [m.fields EXCEPT ![8] = Absent]
                 a == [m EXCEPT !.fields[8] = Absent]
                 b == [type |-> m.type, flag |-> m.flag, fields |-> fields]
      <4>2. a = [k \in DOMAIN m |-> IF k = "fields" THEN fields ELSE m[k]]
        OBVIOUS
      <4>3. DOMAIN m = {"type", "flag", "fields"}
        BY <4>1
      <4>4. b = [k \in {"type", "flag", "fields"} |-> IF k = "fields" THEN fields ELSE m[k]]
        <5> HIDE DEF fields
        <5> QED
          OBVIOUS
      <4> QED
        BY <4>2, <4>3, <4>4
    <3> QED
      BY <2>7, <3>1, <3>3, <3>4 DEF data, bytes
  <2> QED
    BY <2>5, <2>6, <2>7
<1> QED
  BY <1>8, <1>9

LEMMA MessagesAreNotNone ==
  NoMessage \notin Messages /\ NoMessage # Refused
  BY DEF NoMessage, Refused, Messages, Requests, Responses, ResponsesWith, Duplicates,
         Unreachables, REQUEST, RESPONSE, DUPLICATE, UNREACHABLE

\* For any base, width and values: what arrives whole is decoded to what was
\* encoded, and what was cut short is refused, unless the cut is right before
\* the attestation of a response.
THEOREM MessagesSurvive == WireSpec => []DecodedOrRefused
<1>1. WireInit => WireInv
  BY DEF WireInit, WireInv
<1>2. WireInv /\ [WireNext]_wireVars => WireInv'
  <2> SUFFICES ASSUME WireInv, [WireNext]_wireVars PROVE WireInv'
    OBVIOUS
  <2>1. CASE EncodeMessage
    <3>1. sentMessage = NoMessage /\ receivedMessage' = NoMessage
      BY <2>1, MessagesAreNotNone DEF WireInv, EncodeMessage
    <3>2. PICK m \in Messages : /\ Len(m.fields[1]) = Width
                                /\ sentMessage' = m /\ wire' = Encode(m)
      BY <2>1 DEF EncodeMessage
    <3> QED
      BY <3>1, <3>2 DEF WireInv
  <2>2. CASE DecodeMessage
    BY <2>2 DEF WireInv, DecodeMessage
  <2>3. CASE NextMessage
    BY <2>3 DEF WireInv, NextMessage
  <2>4. CASE UNCHANGED wireVars
    BY <2>4 DEF WireInv, wireVars
  <2> QED
    BY <2>1, <2>2, <2>3, <2>4 DEF WireNext
<1>3. WireInv => DecodedOrRefused
  <2> SUFFICES ASSUME WireInv, receivedMessage # NoMessage, CanCarry(sentMessage)
               PROVE  DecodedOrRefused
    BY DEF DecodedOrRefused
  <2>1. /\ sentMessage \in Messages /\ Len(sentMessage.fields[1]) = Width
        /\ wire = Encode(sentMessage) /\ cutAt \in 0..Len(wire)
        /\ receivedMessage = Decode(SubSeq(wire, 1, cutAt))
    BY DEF WireInv
  <2>2. MessageFine(sentMessage)
    BY <2>1, MessagesAreFine
  <2> QED
    BY <2>1, <2>2, CutsAreDecoded DEF DecodedOrRefused
<1> QED
  BY <1>1, <1>2, <1>3, PTL DEF WireSpec
=============================================================================
