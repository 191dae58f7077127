\* A visit to one slug while its row is created, edited and switched.
SPECIFICATION Spec
CONSTANTS
    v1 = v1
    r1 = r1
    s1 = s1
    urlA = urlA
    urlB = urlB
    note = note
    Null = Null
    Keep = Keep
    NoRow = NoRow
    Slugs = {s1}
    Reqs = {r1}
    Targets = {urlA, urlB}
    Texts = {note}
    Labels = {}
    Invalid = {}
    Visits = {v1}
    Rows <- SmallRows
    MaxNow = 3
INVARIANTS
    TypeOK
    AnswerWasTrue
    GoneWasDue
    OnlyViewsCount
