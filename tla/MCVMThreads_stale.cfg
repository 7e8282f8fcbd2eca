SPECIFICATION VMSpec
CONSTANTS
  Ops = {"run", "serialize"}
  MayPowerOff = FALSE
  MaxLoads = 1
  MaxPosts = 2
INVARIANT WorkAlone
CHECK_DEADLOCK FALSE
