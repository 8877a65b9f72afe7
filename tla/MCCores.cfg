CONSTANTS
    Shapes <- MCProduct
    Configs <- MCConfigs
    Hosts <- MCInterleaved
    Machines <- MCInterleavedMachines
    Gap = Gap
SPECIFICATION TunedSpec
INVARIANT PhysicalCoresCounted
CHECK_DEADLOCK FALSE
