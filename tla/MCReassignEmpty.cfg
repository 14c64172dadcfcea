\* A --cancel with a file that names no partition.
SPECIFICATION Spec
CONSTANTS
    Operators = {o}
    Initial <- MCInitial
    TopicOf <- MCTopicOf
    Nodes = {1, 2, 3}
    Dirs = {"d1"}
    Files <- OneAndNone
    None = None
    MaxCommands = 2
    Kinds = {"execute", "cancel"}
PROPERTY CancelsTheSpecified
