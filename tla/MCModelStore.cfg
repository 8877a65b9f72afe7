CONSTANTS
    Conns = {c1, c2, c3}
    Sizes <- MCSizes
    Width = 65536
    Hole = Hole
    NoFile = NoFile
    NoModel = NoModel
SPECIFICATION StoreSpec
SYMMETRY Symmetry
INVARIANTS WholeModel UploadIsStored CpuIsShare
CHECK_DEADLOCK FALSE
