CONSTANTS
    r1 = r1
    r2 = r2
    Archives <- MCArchives
    Bases <- MCBases
    MaxEntries = 2
    MaxBytes = 2
    MaxFile = 2
    ImageNames <- MCImageNames
    BuildNames <- MCBuildNames
    ImgReqs = {r1, r2}
    MaxImgOps = 3
    MaxImgFaults = 1
    Programs <- MCPrograms
    BaseFiles = {"base"}
    ContextFiles = {"c"}
    MaxBuildFaults = 1
SPECIFICATION MCSpec
INVARIANTS
    TreeSound
    ImageSound
    BuildSound
CHECK_DEADLOCK FALSE
