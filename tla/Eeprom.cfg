SPECIFICATION Spec
CONSTANTS
  Size = 6
  PageSize = 2
  BlockSize = 2
  Blocks = 2
  MaxLen = 3
  MaxPolls = 2
  Blank = Blank
  Garbage = Garbage
INVARIANTS SuccessIsTrue Released
PROPERTY OnlyAsked
