SPECIFICATION FairSpec
CONSTANTS
  NReq = 2
  Rows = 1
  NPages = 2
  Batches <- SinglePage
  NSlots = 2
  Ssds = 1
  NCids = 2
  Depth = 2
  Window = 1
  MaxEvents = 1
  Loaders = {"CIDS"}
  None = None
PROPERTIES EveryRequestDelivered
CHECK_DEADLOCK FALSE
