CONSTANTS
    Modes = {"async"}
    Depths = {2}
    Budgets = {0}
    Split = 2
    Sizes = {1, 2}
    EpochLen = 2
    Epochs = 2
    QSize = 1
    WbSize = 1
    Required = 2
    MaxCpu = 1
    TryWindow = 1
SPECIFICATION Spec
INVARIANT AsyncEqualsSync
