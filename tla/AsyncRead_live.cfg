SPECIFICATION FairSpec
CONSTANTS
  NReq = 2
  Rows = 2
  NPages = 4
  Batches <- SharedPage
  NSlots = 3
  Ssds = 1
  NCids = 4
  Depth = 2
  Window = 1
  MaxEvents = 2
  Loaders = {"GIDS"}
  None = None
PROPERTIES ImplementsStream
CHECK_DEADLOCK FALSE
