SPECIFICATION Spec
CONSTANTS
  NReq = 3
  Rows = 2
  NPages = 4
  Batches <- RacingRows
  NSlots = 3
  Ssds = 1
  NCids = 3
  Depth = 2
  Window = 1
  MaxEvents = 2
  Loaders = {"GIDS", "CIDS"}
  None = None
INVARIANTS HitMeansData DmaLandsInOwnSlot LookupFindsOwner PinsAreRequests OneReadPerPage
CHECK_DEADLOCK FALSE
