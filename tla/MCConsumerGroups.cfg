\* Two groups and two partitions; every action and every scenario.
SPECIFICATION Spec
CONSTANTS
    Groups = {"g", "h"}
    Parts = {"a", "b"}
    Unknown = {"x"}
    Lines <- AllLines
    FirstOffsets <- SomeOffsets
    MaxEnd = 2
    MaxMoves = 2
    All = All
    None = None
INVARIANTS KeepsToTheLog ReportedIsDone LagIsNeverNegative
PROPERTIES ChangesAreAskedFor
