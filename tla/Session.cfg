\* Every reply of a few parts, and every session of up to three replies.
CONSTANTS
  npos = 1000
  Runs = 1
  FORMAT_SIZE = 16
  MaxBuffer = 512
  TimeBits = 16
  Codes = {"107", "108", "142", "146", "158", "161", "511", "536", "300"}
  MaxArgs = 3
  MaxText = 2
  MaxSession = 3
SPECIFICATION Spec
INVARIANTS
  ClassIsMeaning
  FieldsRecovered
  IndicesExist
  StateFollowsReplies
  PrintedWhole
  GrowthBounded
PROPERTIES
  Served
