\* Two tabs, three tokens that live for two instants, one new key.
SPECIFICATION Spec
CONSTANTS
    left = left
    right = right
    None = None
    Clear = Clear
    Tabs = {left, right}
    Ttl = 2
    MaxNow = 3
    MaxTokens = 3
    MaxKey = 1
SYMMETRY TabSymmetry
INVARIANTS
    TypeOK
PROPERTIES
    RefusedForCause
    ValidCookieStays
