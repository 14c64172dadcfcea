\* One operator at a time: moves of two partitions of one topic between brokers
\* and log dirs, and files that --execute refuses.
SPECIFICATION FairSpec
CONSTANTS
    Operators = {o}
    Initial <- MCInitial
    TopicOf <- MCTopicOf
    Nodes = {1, 2, 3}
    Dirs = {"d1", "d2"}
    Files <- AllFiles
    None = None
    MaxCommands = 2
    Kinds = {"execute", "verify", "cancel"}
  
PROPERTIES RollbackIsWhatItReplaces ConsentedChanges CommandsEnd
