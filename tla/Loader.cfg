CONSTANTS
    Modes = {"async", "single", "split", "cids", "pipeline", "sync", "accum"}
    Depths = {1, 2, 3}
    Budgets = {0, 2, 3}
    Split = 2
    Sizes = {1, 3}
    EpochLen = 3
    Epochs = 2
    QSize = 1
    WbSize = 1
    Required = 2
    MaxCpu = 1
    TryWindow = 1
SPECIFICATION FairSpec
INVARIANTS InStep ReturnsOwn NoBatchLost EpochComplete BudgetKept RaisesOnlyOversize
PROPERTY NextReturns
