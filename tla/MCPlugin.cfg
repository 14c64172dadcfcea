CONSTANTS
    Path <- MCPath
    EmptyEntry = ""
    Codes = {0, 3}
    MaxEdits = 2
    MaxSignals = 3
    None = None
SPECIFICATION FairSpec
INVARIANTS
    FindsWhatIsThere
    OwnsThePlugin
PROPERTIES
    TermReachesPlugin
    EndsWithPlugin
