SPECIFICATION Spec
CONSTANTS
    MaxMoves = 2
    TopicNames <- MCTopicNames
    InternalTopics = {"__c"}
    Unavailable = {"b"}
    MaxPartitions = 2
    BrokerIds = {1, 2, 3}
    NoLeader = 0
    Bindings <- MCBindings
    Covers <- MCCovers
    Entities <- MCEntities
    QuotaKeys = {"rate"}
    IpQuotaKeys = {"conns"}
    ScramKeys = {"scram"}
    OtherKeys = {"retention"}
    LogPartitions = {"t1", "t2"}
    Producers = {"p1", "p2"}
    Coordinators = {1, 2}
    MaxRetries = 1
    Parts = {"x", "y"}
    Dirs = {"d1", "d2"}
    MaxOffset = 1
    Nodes = {1, 2}
    Features = {"mv", "tv"}
    Depends <- MCDepends
    MaxLevel = 1
    Lines <- MCLines
INVARIANTS
    ChangesAreAgreedTo
    RowsAreOfChanges
    SuccessMeansDone
    ReportsWhatHeld
    
PROPERTY CommandsEnd
