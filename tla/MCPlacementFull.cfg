\* Tables of 2 entries, 3 changes of the allocator: the third may find its table full.
SPECIFICATION Spec
CONSTANTS
    Topologies <- MCTopologies
    PoolTopologies = {"smt", "three"}
    Args <- MCArgs
    Clients <- MCClients
    MCTOP_ALLOC_POOL_MAX_N = 2
    MaxSets = 3
INVARIANTS
    FullPoolIsSequential
CHECK_DEADLOCK FALSE
