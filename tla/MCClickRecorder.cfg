\* Two clicks over two days and three flushes against a queue of one, one restart.
SPECIFICATION FairSpec
CONSTANTS
    c1 = c1
    c2 = c2
    t1 = t1
    t2 = t2
    Main = Main
    Idle = Idle
    link = link
    Links = {link}
    Clicks = {c1, c2}
    Flushers = {Main, t1, t2}
    Capacity = 1
    MillisPerDay = 2
    MaxNow = 2
    MaxBoots = 1
INVARIANTS
    TypeOK
    PermitsAccounted
    NoIdlePermit
    FlushIsBarrier
    DailyExact
PROPERTIES
    DrainedLosesNothing
    ImplementsLedger
    FlushReturns
    ShutdownEnds
