\* One card while two clicks on two links are recorded, over four days.
SPECIFICATION Spec
CONSTANTS
    reader = reader
    c1 = c1
    c2 = c2
    mine = mine
    other = other
    Readers = {reader}
    Clicks = {c1, c2}
    Links = {mine, other}
    SeriesDays = 3
    WeekDays = 2
    MillisPerDay = 2
    MaxNow = 7
SYMMETRY ClickSymmetry
PROPERTIES
    SeriesExact
    FiguresBracketed
