\* The stdout of a run of a named group is closed.
SPECIFICATION Spec
CONSTANTS
    Runs = {r1}
    Partitions = {"p"}
    End <- Ends
    Unformattable <- NoBad
    Lines <- PrintLines
    MaxPoll = 2
    MaxLapses = 0
    None = None
    Other = r1
INVARIANTS CommitsOnlyPrinted
