\* Every component of rust_async but the synchronisation primitives.
SPECIFICATION Spec
CONSTANTS
    k1 = k1  k2 = k2  k3 = k3  w1 = w1  w2 = w2  r1 = r1  r2 = r2
    s1 = s1  s2 = s2  f1 = f1
    Main = main
    None = None
    WakeFd = wake_fd
    NoEntry = NoEntry
SYMMETRY AsyncSymmetry
INVARIANTS
    TypeOK
    ContextIsOwn
    NoLostWake
    
    StreamsFaithful
\* Tasks end, connections close, the clock stops at its bound.
CHECK_DEADLOCK FALSE
