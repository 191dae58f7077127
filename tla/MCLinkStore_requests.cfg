\* Two requests: every one ends, and the store implements the link table.
SPECIFICATION FairSpec
CONSTANTS
    r1 = r1
    r2 = r2
    r3 = r3
    s1 = s1
    s2 = s2
    url = url
    badUrl = badUrl
    text = text
    nul = nul
    Null = Null
    Keep = Keep
    NoRow = NoRow
    Reqs = {r1, r2}
    Slugs = {s1, s2}
    Generated = {s1, s2}
    Targets = {url, badUrl}
    Texts = {text}
    Labels = {nul}
    Invalid = {badUrl}
    Ops <- AllMutations
    MaxRetries = 2
    MaxNow = 2
INVARIANTS
    TypeOK
    CheckNeverTrips
PROPERTIES
    ImplementsTable
    EveryRequestEnds
