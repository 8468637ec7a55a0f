SPECIFICATION Spec
CONSTANTS
  Items <- FileItems
  MaxItems = 4
  MaxWidth = 8
  MaxParts = 3
  Modulus = 65536
  NoParams = NoParams
  OtherTypes = {"RegType", "BitType", "ImplicitType"}
INVARIANTS SizesFit WrittenOnce Aligned FailuresKnown
CHECK_DEADLOCK FALSE
