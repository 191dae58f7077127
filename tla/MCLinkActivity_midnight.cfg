\* Does the week of a card made around midnight end with its day?
SPECIFICATION Spec
CONSTANTS
    reader = reader
    c1 = c1
    c2 = c2
    mine = mine
    other = other
    Readers = {reader}
    Clicks = {c1, c2}
    Links = {mine, other}
    SeriesDays = 3
    WeekDays = 2
    MillisPerDay = 2
    MaxNow = 7
PROPERTY WeekEndsToday
