----------------------------- MODULE MCCommands -----------------------------
(***************************************************************************)
(* An instance of Commands: command lines of every command, in the ways in *)
(* which an operator may be asked.                                         *)
(***************************************************************************)
EXTENDS Commands, TLC

Line(kind, flags) == [kind |-> kind, flags |-> flags, dry |-> FALSE, yes |-> FALSE, tty |-> TRUE]

DryRun(l) == [l EXCEPT !.dry = TRUE]

\* At a terminal, from a script with and without --yes, and as a dry run.
Ways(l) == {l, DryRun(l), [l EXCEPT !.tty = FALSE], [l EXCEPT !.tty = FALSE, !.yes = TRUE]}

-----------------------------------------------------------------------------

MCTopicNames == {"a", "b", "__c"}

TopicLine(kind, flags, names) ==
    Line(kind, flags) @@ [names |-> names, patterns |-> {{n} : n \in names},
                          partitions |-> 2, assignment |-> <<>>]

TopicLines ==
    Ways(TopicLine("create", {"topic"}, {"a"}))
      \cup Ways(TopicLine("delete", {"topic"}, {"a", "b"}))
      \cup {TopicLine("create", {"topic", "ifNotExists", "partitions"}, {"b"}),
            TopicLine("create", {"topic", "ifExists"}, {"b"}),
            TopicLine("delete", {"topic", "ifExists"}, {"a", "b"}),
            TopicLine("alter", {"topic", "partitions"}, {"a", "b"}),
            TopicLine("alter", {"topic", "partitions", "ifExists"}, {"a"}),
            [TopicLine("alter", {"topic", "partitions", "replicaAssignment"}, {"a", "b"})
               EXCEPT !.assignment = <<<<1, 2>>, <<2, 1>>>>],
            [TopicLine("alter", {"topic", "partitions", "replicaAssignment"}, {"a"})
               EXCEPT !.assignment = <<<<1, 2>>, <<2>>>>],
            [TopicLine("create", {"topic", "partitions"}, {"a"}) EXCEPT !.partitions = 0],
            DryRun(TopicLine("list", {}, {})),
            TopicLine("list", {"excludeInternal"}, {}),
            TopicLine("list", {"topic"}, {"b"})}

DescribeLines ==
    {Line("describe", flags) : flags \in
       {{"ifExists"}, {"underReplicated"}, {"underReplicated", "denied"}, {"unavailable"},
        {"atMinIsr"}, {"unavailable", "underMinIsr"}}}

-----------------------------------------------------------------------------

MCCovers == {<<"pre", "pre1">>}

AclLine(kind, flags) ==
    Line(kind, flags) @@ [topics |-> {}, groups |-> {}, txids |-> {}, pattern |-> "literal",
                          allow |-> {}, deny |-> {}, allowHosts |-> {}, denyHosts |-> {},
                          ops |-> {}, principals |-> {}]

Entry(op) == [who |-> "u", host |-> "*", op |-> op, may |-> TRUE]

MCBindings ==
    {Binding(Resource("topic", "pre1", "literal"), Entry("read")),
     Binding(Resource("topic", "pre1", "literal"), Entry("describe")),
     Binding(Resource("topic", "pre", "prefixed"), Entry("read")),
     Binding(Resource("group", "g", "literal"), Entry("read"))}

Consume(kind) ==
    [AclLine(kind, {"consumer"}) EXCEPT !.topics = {"pre1"}, !.groups = {"g"}, !.allow = {"u"}]

AclLines ==
    Ways([AclLine("aclsRemove", {}) EXCEPT !.topics = {"pre1"}, !.groups = {"g"}])
      \cup {Consume("aclsAdd"), DryRun(Consume("aclsAdd")), Consume("aclsRemove"),
            [AclLine("aclsRemove", {}) EXCEPT !.topics = {"pre1"}, !.pattern = "match",
                                              !.allow = {"u"}, !.ops = {"read"}],
            [AclLine("aclsAdd", {}) EXCEPT !.groups = {"g"}, !.allow = {"u"}, !.ops = {"write"}],
            [AclLine("aclsAdd", {"producer", "idempotent"}) EXCEPT !.groups = {"g"}],
            AclLine("aclsList", {}),
            [AclLine("aclsList", {}) EXCEPT !.topics = {"pre1"}, !.groups = {"g"},
                                            !.pattern = "match"],
            [AclLine("aclsList", {"principal"}) EXCEPT !.principals = {"v"}]}

-----------------------------------------------------------------------------

MCEntities ==
    {<<<<"topics">>, <<"t">>>>, <<<<"topics">>, <<"s">>>>, <<<<"groups">>, <<"g">>>>,
     <<<<"broker-loggers">>, <<"1">>>>, <<<<"users">>, <<"u">>>>, <<<<"users">>, <<"">>>>,
     <<<<"users", "clients">>, <<"u", "c">>>>, <<<<"ips">>, <<"">>>>}

ConfigLine(kind, flags, types, names) ==
    Line(kind, flags) @@ [types |-> types, names |-> names, sets |-> {}, deletes |-> {}]

Alter(types, names, sets, deletes) ==
    [ConfigLine("configsAlter", {}, types, names) EXCEPT !.sets = sets, !.deletes = deletes]

ConfigLines ==
    {Alter(<<"topics">>, <<"t">>, {"retention"}, {}),
     Alter(<<"broker-loggers">>, <<"1">>, {"retention"}, {}),
     Alter(<<"users">>, <<"u">>, {"rate"}, {}),
     Alter(<<"users">>, <<"u">>, {}, {"scram"}),
     Alter(<<"users">>, <<"">>, {"scram"}, {}),
     Alter(<<"users">>, <<"u">>, {"scram", "rate"}, {}),
     [Alter(<<"users">>, <<"u">>, {}, {}) EXCEPT !.flags = {"emptyFile"}],
     [Alter(<<"users">>, <<"">>, {"rate"}, {}) EXCEPT !.flags = {"badValue"}],
     Alter(<<"users", "clients">>, <<"u", "c">>, {}, {"rate"}),
     Alter(<<"ips">>, <<"">>, {"conns"}, {}),
     Alter(<<"ips">>, <<"">>, {"rate"}, {}),
     Alter(<<"topics">>, <<>>, {"retention"}, {}),
     ConfigLine("configsDescribe", {}, <<"topics">>, <<>>),
     ConfigLine("configsDescribe", {}, <<"topics">>, <<"t">>),
     ConfigLine("configsDescribe", {"all"}, <<"topics">>, <<"t">>),
     ConfigLine("configsDescribe", {}, <<"groups">>, <<"g">>),
     ConfigLine("configsDescribe", {}, <<"users">>, <<>>),
     ConfigLine("configsDescribe", {}, <<"users", "clients">>, <<"u">>),
     ConfigLine("configsDescribe", {}, <<"topics">>, <<"t", "s">>),
     ConfigLine("configsDescribe", {}, <<"broker-loggers">>, <<>>)}

-----------------------------------------------------------------------------

TransactionLine(kind, flags) ==
    Line(kind, flags) @@ [partitions |-> LogPartitions, target |-> <<"t1", "p1">>,
                          ids |-> Producers]

TransactionLines ==
    {TransactionLine("abort", {"startOffset"}), DryRun(TransactionLine("abort", {"startOffset"})),
     [TransactionLine("abort", {}) EXCEPT !.tty = FALSE, !.yes = TRUE],
     TransactionLine("abort", {"malformed"}),
     TransactionLine("forceTerminate", {}), DryRun(TransactionLine("forceTerminate", {})),
     TransactionLine("transactionsList", {}), TransactionLine("describeProducers", {}),
     TransactionLine("transactionsDescribe", {}), TransactionLine("findHanging", {}),
     [TransactionLine("findHanging", {"partition"}) EXCEPT !.partitions = {"t1"}]}

ReplicaLine(kind, flags) ==
    Line(kind, flags) @@ [offsets |-> [p \in Parts |-> IF p = "x" THEN 1 ELSE HighWatermark],
                          replicaMoves |-> <<<<"x", "d1">>, <<"y", "d2">>>>,
                          partitions |-> Parts]

ReplicaLines ==
    Ways(ReplicaLine("deleteRecords", {})) \cup Ways(ReplicaLine("logDirsAlter", {}))
      \cup {ReplicaLine(kind, {}) : kind \in ReplicaActions}
      \cup {ReplicaLine("leaderElection", {"all"}), ReplicaLine("deleteRecords", {"malformed"}),
            DryRun(ReplicaLine("logDirsDescribe", {})),
            [ReplicaLine("logDirsAlter", {}) EXCEPT
               !.replicaMoves = <<<<"x", "d1">>, <<"y", "d1">>, <<"x", "d2">>>>],
            [ReplicaLine("getOffsets", {}) EXCEPT !.partitions = {"x"}]}

-----------------------------------------------------------------------------

\* Level 1 of the transaction version needs level 1 of the metadata version.
MCDepends == [f \in Features |-> [l \in 0..MaxLevel |->
                IF f = "tv" /\ l > 0 THEN {<<"mv", 1>>} ELSE {}]]

ClusterLine(kind, flags, updates) == Line(kind, flags) @@ [target |-> 1, updates |-> updates]

ClusterLines ==
    UNION {Ways(ClusterLine(kind, {}, <<>>)) : kind \in Asks}
      \cup {ClusterLine(kind, {}, <<>>) : kind \in (UnitActions \ Asks) \cup ClusterReads}
      \cup {DryRun(ClusterLine("tokenRenew", {}, <<>>)),
            DryRun(ClusterLine("tokenDescribe", {}, <<>>)),
            DryRun(ClusterLine("addController", {"badPort"}, <<>>)),
            ClusterLine("addController", {"badPort"}, <<>>),
            ClusterLine("tokenDescribe", {"malformed"}, <<>>),
            ClusterLine("listEndpoints", {"fenced"}, <<>>),
            ClusterLine("featuresDescribe", {}, <<>>),
            ClusterLine("featuresUpdate", {}, <<>>),
            ClusterLine("featuresUpdate", {"upgrade"}, [tv |-> 1]),
            DryRun(ClusterLine("featuresUpdate", {"upgrade"}, [tv |-> 1])),
            ClusterLine("featuresUpdate", {}, [mv |-> 0, tv |-> 0])}

MCLines ==
    TopicLines \cup DescribeLines \cup AclLines \cup ConfigLines \cup TransactionLines
      \cup ReplicaLines \cup ClusterLines
=============================================================================
