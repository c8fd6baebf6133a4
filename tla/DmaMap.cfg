SPECIFICATION Spec
CONSTANTS
    Ioctl = {d1}
    Sci = {s1}
    Tasks = {t1, t2}
    Maps = {m1, m2}
    Handles = {h1, h2, h3}
    Kinds = {"user", "cuda", "lseg", "rseg", "lown", "lmem", "rown"}
    None = None
SYMMETRY Symmetry
INVARIANTS CountsHandles RefsCounted MappedWhileOpen NothingLeft
PROPERTY ImplementsSharing
CHECK_DEADLOCK FALSE
