CONSTANTS
    Shapes <- MCShapes
    Configs <- MCConfigs
    Hosts <- MCHosts
    Machines <- MCMachines
    Gap = Gap
SPECIFICATION TunedSpec
INVARIANTS BandsAreDisjoint TilesInBounds AscendingSums ProductAtReturn
    TunedTilesFit DetectionIsTrue
PROPERTY Returns
CHECK_DEADLOCK FALSE
