CONSTANTS
    p1 = p1
    p2 = p2
    p3 = p3
    f = f
    g = g
    Programs <- MCPrograms
    FileNames <- MCFileNames
    NoFile = NoFile
    Nobody = Nobody
    NumPhysPages = 3
    PageSize = 2
    UserStackSize = 1
    Executables <- MCExecutables
    TableSize = 3
SYMMETRY MCSymmetry
SPECIFICATION Spec
PROPERTY LoadStaysInFrames
