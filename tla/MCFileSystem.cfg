CONSTANTS
    a = a
    b = b
    c = c
    Names <- MCNames
    Paths <- MCPaths
    NoName = NoName
    Fan = 32
    NumSectors = 26
    Half = 14
    DirEntries = 2
    Boundary = 2
    FileSizes = {1}
SPECIFICATION Spec
INVARIANTS
    TypeOK
    NoLeak
    DamageConfined
PROPERTY ImplementsNameTree
SYMMETRY MCSymmetry
