------------------------------- MODULE Distance -------------------------------
(***************************************************************************)
(* The distance of Kademlia (src/dht/distance.ts): of a local id and two   *)
(* peers, how far each is, which is nearer, and in which bucket each goes. *)
(*                                                                         *)
(* An id is a sequence of bytes; the buckets are those of ids of IdBytes   *)
(* bytes (32).  A byte is its bits, the most significant first, so that    *)
(* ^, < and clz32 are what they do to bits.                                *)
(***************************************************************************)
EXTENDS Integers, SequencesExt

CONSTANTS ByteBits,          \* 8
          IdBytes            \* 32

ASSUME DistanceAssumption == ByteBits \in Nat \ {0} /\ IdBytes \in Nat \ {0}

VARIABLES measured,          \* the local id and the ids of two peers
          nearer,            \* compareDistance of the two
          buckets            \* their bucket indices

distanceVars == <<measured, nearer, buckets>>

Byte == [1..ByteBits -> {0, 1}]
ZeroByte == [b \in 1..ByteBits |-> 0]
PeerIds == UNION {[1..n -> Byte] : n \in 1..IdBytes}

\* A byte that is not there counts as 0.
ByteAt(id, i) == IF i <= Len(id) THEN id[i] ELSE ZeroByte

Longer(a, b) == IF Len(a) >= Len(b) THEN Len(a) ELSE Len(b)

XorByte(x, y) == [b \in 1..ByteBits |-> (x[b] + y[b]) % 2]

xorDistance(a, b) ==
  [i \in 1..Longer(a, b) |-> XorByte(ByteAt(a, i), ByteAt(b, i))]

\* Of the places that count, the first decides.
Decisive(places) == Min(places)

\* Bytes are compared as numbers.
Less(x, y) ==
  LET differing == {b \in 1..ByteBits : x[b] # y[b]}
  IN differing # {} /\ x[Decisive(differing)] = 0

compareDistance(a, b) ==
  LET differing == {i \in 1..Longer(a, b) : ByteAt(a, i) # ByteAt(b, i)}
  IN IF differing = {} THEN 0
     ELSE LET i == Decisive(differing) IN
          IF Less(ByteAt(a, i), ByteAt(b, i)) THEN -1 ELSE 1

\* Mutant of LeadingZeros: the bits before the last one are counted.
PlacesBeforeLast(byte) == Max({b \in 1..ByteBits : byte[b] = 1}) - 1

\* The zeros before the first bit of a byte that is not 0.
LeadingZeros(byte) == Decisive({b \in 1..ByteBits : byte[b] = 1}) - 1

getBucketIndex(localId, peerId) ==
  LET distance == xorDistance(localId, peerId)
      set == {i \in DOMAIN distance : distance[i] # ZeroByte}
  IN IF set = {} THEN -1
     ELSE LET i == Decisive(set) IN
          ByteBits * IdBytes - 1 - ((i - 1) * ByteBits + LeadingZeros(distance[i]))

-----------------------------------------------------------------------------
DistanceInit == measured = <<>> /\ nearer = 0 /\ buckets = <<>>

Measure ==
  /\ measured = <<>>
  /\ \E localId, p, q \in PeerIds :
        /\ measured' = <<localId, p, q>>
        /\ nearer' = compareDistance(xorDistance(localId, p), xorDistance(localId, q))
        /\ buckets' = <<getBucketIndex(localId, p), getBucketIndex(localId, q)>>

MeasureNext ==
  /\ measured # <<>>
  /\ measured' = <<>> /\ nearer' = 0 /\ buckets' = <<>>

DistanceNext == Measure \/ MeasureNext

DistanceSpec == DistanceInit /\ [][DistanceNext]_distanceVars

-----------------------------------------------------------------------------
(* Properties.                                                             *)

\* The buckets partition the peers as Kademlia needs it: two peers share a
\* bucket exactly if they are nearer to each other than either is to the local
\* node. A bucket is missing only if no byte differs (one that is not there is
\* a 0), and every other is one of the table's.
SharedBucketsAreNear ==
  measured # <<>> =>
    LET localId == measured[1]
        p == measured[2]
        q == measured[3]
        apart == xorDistance(p, q)
    IN /\ buckets[1] # -1 /\ buckets[2] # -1 =>
            (buckets[1] = buckets[2] <=>
               /\ compareDistance(apart, xorDistance(localId, p)) = -1
               /\ compareDistance(apart, xorDistance(localId, q)) = -1)
       /\ buckets[1] = -1 <=> \A i \in 1..IdBytes : ByteAt(localId, i) = ByteAt(p, i)
       /\ buckets[1] \in -1..(ByteBits * IdBytes - 1)

\* What the comments of getBucketIndex say (distance.ts:56 and 74): bucket 0 is
\* for the largest distance, and closer peers have higher indices. The code
\* gives them lower ones.
CloserPeersHaveHigherBuckets ==
  nearer = -1 /\ buckets[1] # -1 => buckets[1] >= buckets[2]

\* What distance.property.test.ts:80 expects of ids that are not identical,
\* also when only their lengths differ: a bucket. The code gives none to an id
\* that continues the local one with zeros.
DifferentIdsHaveBuckets ==
  measured # <<>> /\ measured[1] # measured[2] => buckets[1] >= 0
=============================================================================
