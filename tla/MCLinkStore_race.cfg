\* Three concurrent mutations, two of whose slugs can be drawn.
SPECIFICATION Spec
CONSTANTS
    r1 = r1
    r2 = r2
    r3 = r3
    s1 = s1
    s2 = s2
    url = url
    badUrl = badUrl
    text = text
    nul = nul
    Null = Null
    Keep = Keep
    NoRow = NoRow
    Reqs = {r1, r2, r3}
    Slugs = {s1, s2}
    Generated = {s1, s2}
    Targets = {url, badUrl}
    Texts = {text}
    Labels = {nul}
    Invalid = {badUrl}
    Ops <- RacingMutations
    MaxRetries = 2
    MaxNow = 1
SYMMETRY ReqSymmetry
INVARIANTS
    ReplyTellsCommit
    HoldsLastWrite
    ConflictMeansTaken
    OnlyTogglesPredate
