SPECIFICATION FairSpec
CONSTANTS
  buffSize = 9
  buffLimit = 5
  Sizes = {2}
  QueueSize = 2
  MaxPrograms = 3
  MaxKicks = 3
INVARIANT HandedOverIntact
INVARIANT KickHasPacket
INVARIANT OneItemPerProgram
INVARIANT WaitGSDrains
 
 
