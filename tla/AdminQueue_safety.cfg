SPECIFICATION Spec
CONSTANTS
    Threads = {t1}
    Clients = {c1}
    None = None
    QS = 4
    CQS = 4
    Ops = {"create_cq", "create_sq", "delete_sq", "delete_cq"}
    ClientOps = {"identify"}
    MaxCalls <- ManyLocalCalls
    MaxEnables = 2
    MaxLives = 2
    MaxTotal = 5
INVARIANTS TypeOK RingAccounting OwnCompletion DescriptorsTrue ExportIsLive
CHECK_DEADLOCK FALSE
