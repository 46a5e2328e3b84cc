CONSTANTS
    a = a
    b = b
    Files <- MCFiles
    Fan = 2
    NumDirect = 2
    NumSectors = 34
    Sizes = {0, 1, 2, 3, 5, 9}
SPECIFICATION Spec
INVARIANTS
    HeaderReadBack
    DataReadBack
    MapExact
SYMMETRY MCSymmetry
