\* Two runs at a time, three images.
SPECIFICATION Spec
CONSTANTS
    r1 = r1
    r2 = r2
    Runs = {r1, r2}
    None = None
    MaxImages = 3
SYMMETRY RunSymmetry
INVARIANTS
    GoodImageKept
PROPERTIES
    LastLineIsTrue
