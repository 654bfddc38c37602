SPECIFICATION Spec
CONSTANTS
  Slots = {s1, s2, s3}
  Keys = {k1}
  Limit = 2
  Window = 3
  MaxCount = 5
  NoKey = NoKey
SYMMETRY Perms
INVARIANTS
  SlidingLimit
PROPERTIES
  RetryAfterHonest
