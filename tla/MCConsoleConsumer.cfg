\* A run of a group over two partitions and one of any kind, with one lapse.
SPECIFICATION FairSpec
CONSTANTS
    Runs = {r1, r2}
    Partitions = {"p", "q"}
    End <- Ends
    Unformattable <- OneBad
    Lines <- AllLines
    MaxPoll = 2
    MaxLapses = 1
    None = None
    Other = r2
INVARIANTS CommitsOnlyProcessed NoneTwice
PROPERTIES CommitsMoveForward RunsEnd
