\* Two records, pages of one.  A transaction takes up to one tick and an
\* extraction up to one, together more than the overlap of one: late and slow
\* changes both occur.  One extraction may fail.
SPECIFICATION FairSpec
CONSTANTS
    Records <- MCRecords
    PageSize = 1
    Overlap = 1
    MaxTxn = 1
    MaxExtract = 1
    MaxClock = 5
    MaxFailures = 1
INVARIANTS
    TypeOK
    NothingMissed
PROPERTY
    EventuallyMirrors
