\* Two tokens, two passwords, nine environment files, 19 paths.
SPECIFICATION Spec
CONSTANTS
    Names <- MCNames
    Lower <- MCLower
    Decoded <- MCDecoded
    Length <- MCLength
    SlugShaped <- MCSlugShaped
    Files <- MCFiles
    Paths <- MCPaths
    Methods = {"GET", "POST"}
    Tokens = {"t1", "t2"}
    Passwords = {"p1", "p2"}
    Bogus = "bogus"
    None = "none"
INVARIANTS
    GateHolds
    PublicStaysPublic
    Hardened
    OwnFormsPassOrigin
PROPERTIES
    LoggedOutMeansForgotten
