\* One list among writers, over three links, two to a page.
SPECIFICATION ListSpec
CONSTANTS
    q1 = q1
    r1 = r1
    url = url
    note = note
    word = word
    Null = Null
    Keep = Keep
    NoRow = NoRow
    Slugs = {1, 2, 3}
    Reqs = {r1}
    Targets = {url}
    Texts = {note}
    Labels = {}
    Invalid = {}
    Lists = {q1}
    Filters <- SmallFilters
    Searches <- SmallSearches
    Contains <- SmallContains
    PerPage = 2
    Pages = {1, 3}
    Soon = 1
    Written <- SmallRows
    MaxNow = 1
    MaxClicks = 1
INVARIANTS
    StatusesPartition
    PagesPartition
    QuietListIsExact
