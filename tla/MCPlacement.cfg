\* Tables of 2 entries, 3 changes of the allocator; trees of 1 to 8 nodes, up to 8 threads.
SPECIFICATION Spec
CONSTANTS
    Topologies <- MCTopologies
    PoolTopologies = {"smt", "three"}
    Args <- MCArgs
    Clients <- MCClients
    MCTOP_ALLOC_POOL_MAX_N = 2
    MaxSets = 3
INVARIANTS
    PoolAnswers
    PlacementIsSound
    BestSockets
    TreeIsSound
    DataArrivesWhole
PROPERTIES
    EveryoneLeaves
CHECK_DEADLOCK FALSE
