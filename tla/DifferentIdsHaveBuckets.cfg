SPECIFICATION DistanceSpec
CONSTANTS
  ByteBits = 2
  IdBytes = 2
INVARIANT DifferentIdsHaveBuckets
