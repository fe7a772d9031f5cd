\* Every client of a node tree: the table is that of its allocator.
SPECIFICATION Spec
CONSTANTS
    Topologies <- MCTopologies
    PoolTopologies = {"smt", "three"}
    Args <- MCArgs
    Clients <- MCClients
    MCTOP_ALLOC_POOL_MAX_N = 2
    MaxSets = 3
INVARIANTS
    NodeFindsSocket
CHECK_DEADLOCK FALSE
