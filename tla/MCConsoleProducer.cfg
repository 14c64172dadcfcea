\* Four lines, of which the third may be no record, with and without --sync.
SPECIFICATION FairSpec
CONSTANTS
    N = 4
    Malformed = {3}
    SyncModes = {TRUE, FALSE}
INVARIANTS  SyncWritesInOrder
PROPERTIES RunEnds
