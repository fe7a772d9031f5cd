\* 28 machines, 19 settings, one kill, two more runs with --augment.
SPECIFICATION Spec
CONSTANTS
    Machines <- MCMachines
    Settings <- MCSettings
    MaxKills = 1
    MaxAugments = 2
INVARIANTS
    ClustersAreSound
    LatencyIsTable
    TopologyIsMachine
    PositionsAreBijective
    SiblingsAreRanked
    FreesAll
    AugmentCompletes
PROPERTIES
    SearchEnds
CHECK_DEADLOCK FALSE
