SPECIFICATION StackSpec
CONSTANTS
    Ioctl = {d1}
    Sci = {}
    Pci = {d1, d2, d3}
    MaxCtrls = 2
    Tasks = {t1, t2}
    Maps = {m1, m2}
    Handles = {h1, h2}
    HostBufs = {0, 1}
    GpuBufs = {16}
    Cdevs = {c1, c2}
    Ids = {i1, i2}
    Kinds = {"host", "cuda", "api"}
    None = None
SYMMETRY Symmetry
CONSTRAINT FewAtOnce
INVARIANTS NumbersValid P2PBalanced MappedInKernel NoStaleEntries
CHECK_DEADLOCK FALSE
