SPECIFICATION Spec
CONSTANTS
  Items <- FileItems
  MaxItems = 3
  MaxWidth = 8
  MaxParts = 3
  Modulus = 65536
  NoParams = NoParams
  OtherTypes = {"RegType", "BitType", "ImplicitType"}
INVARIANT NamesKeptApart
CHECK_DEADLOCK FALSE
