SPECIFICATION VMFairSpec
CONSTANTS
  Ops = {"run", "variables", "serialize", "eject", "reinit", "unload"}
  MayPowerOff = TRUE
  MaxLoads = 3
  MaxPosts = 3
INVARIANT ReloadClean
PROPERTY FrontendReturns
PROPERTY ResumeSeen
CHECK_DEADLOCK FALSE
