SPECIFICATION Spec
CONSTANTS
    Contexts = {c1, c2}
    Size = 4
    Values = {0, 1}
    Locations <- MCLocations
    Contents <- MCContents
    Garbage <- MCGarbage
INVARIANTS
    ComparesWithLoaded
PROPERTY Implements
SYMMETRY MCSymmetry
