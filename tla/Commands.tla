------------------------------ MODULE Commands ------------------------------
(***************************************************************************)
(* The admin commands of krabka together: one of them runs against a       *)
(* cluster that other operators change meanwhile.                          *)
(***************************************************************************)
EXTENDS Topics, TopicDescribe, Acls, Configs, Transactions, Replicas, ClusterOps

CONSTANT Lines    \* the command lines

\* What the parser lets through.
ConfirmArgs(l) == l.dry \in BOOLEAN /\ l.yes \in BOOLEAN /\ l.tty \in BOOLEAN

ASSUME LinesAreParsed ==
    \A l \in Lines :
      /\ ConfirmArgs(l)
      /\ \/ TopicsArgs(l) \/ DescribeArgs(l) \/ AclsArgs(l) \/ ConfigsArgs(l)
         \/ TransactionsArgs(l) \/ DeleteRecordsArgs(l) \/ LogDirsArgs(l)
         \/ LeaderElectionArgs(l) \/ GetOffsetsArgs(l) \/ ClusterArgs(l)
         \/ MetadataQuorumArgs(l) \/ DelegationTokensArgs(l) \/ FeaturesArgs(l)

VARIABLE facts    \* of what a reading command reports, what has held, and
                  \* what has not, since it started (history)

allVars == <<vars, facts>>

\* The family of a command line.
Of(actions) == line.kind \in actions

\* What the commands that read have to report now.
Holds ==
    CASE Of({"list"}) -> Resolve(Existing)
      [] Of({"describe"}) -> DescribeHolds
      [] Of({"aclsList"}) ->
           {b \in cluster : /\ ResourceFilters = {} \/ \E r \in ResourceFilters : Matches(r, b.on)
                            /\ line.principals = {} \/ b.entry.who \in line.principals}
      [] Of({"configsDescribe"}) ->
           UNION {{<<e, k>> : k \in cluster[e].keys} : e \in {x \in Described : OfTheType(x)}}
      [] Of({"transactionsList"}) -> {<<p, cluster.on[p]>> : p \in cluster.known}
      [] Of({"transactionsDescribe"}) -> {<<p, cluster.coord[p]>> : p \in line.ids \cap cluster.known}
      [] Of({"describeProducers"}) -> {o \in cluster.open : o[1] \in line.partitions}
      [] Of({"findHanging"}) ->
           {o \in cluster.old : IsHanging(o) /\ o[1] \in line.partitions}
      [] Of({"getOffsets"}) -> DOMAIN cluster.parts \cap line.partitions
      [] Of({"logDirsDescribe"}) -> cluster.dirs
      [] Of({"featuresDescribe"}) -> {<<f, cluster.levels[f]>> : f \in Features}
      [] Of({"listEndpoints"}) ->
           IF "fenced" \in line.flags /\ ~cluster.knows THEN {} ELSE cluster.nodes
      [] Of({"quorumDescribe"}) -> cluster.voters
      [] Of({"tokenDescribe"}) -> cluster.tokens
      [] OTHER -> {}

\* What they must not report now.  A live transaction is not hanging.
Denies ==
    CASE Of({"list"}) -> TopicNames \ Holds
      [] Of({"describe"}) -> DescribeDenies
      [] Of({"aclsList"}) -> Bindings \ Holds
      [] Of({"configsDescribe"}) ->
           LET entities == {e \in Entities : e[1] = line.types}
           IN  ((entities \X ConfigKeys) \ Holds)
                 \cup {<<e, "none">> : e \in {x \in entities : OfTheType(x)}}
      [] Of({"transactionsList"}) -> (Producers \X Coordinators) \ Holds
      [] Of({"transactionsDescribe"}) -> (Producers \X SUBSET LogPartitions) \ Holds
      [] Of({"describeProducers"}) -> (LogPartitions \X Producers) \ Holds
      [] Of({"findHanging"}) ->
           {o \in cluster.open : ~IsHanging(o)}
      [] Of({"getOffsets"}) -> Parts \ Holds
      [] Of({"logDirsDescribe"}) -> Dirs \ Holds
      [] Of({"featuresDescribe"}) -> (Features \X (0..MaxLevel)) \ Holds
      [] Of({"listEndpoints", "quorumDescribe", "tokenDescribe"}) -> Nodes \ Holds
      [] OTHER -> {}

InitialCluster ==
    CASE Of(TopicActions) -> TopicsInit
      [] Of({"describe"}) -> DescribeInit
      [] Of(AclActions) -> AclsInit
      [] Of(ConfigActions) -> ConfigsInit
      [] Of(TransactionActions) -> TransactionsInit
      [] Of(ReplicaActions) -> ReplicasInit
      [] Of(ClusterActions) -> ClusterOpsInit

Init ==
    /\ CommandInit(Lines)
    /\ InitialCluster
    /\ facts = [held |-> Holds, denied |-> Denies]

\* The commands that make something of the error of their call.
LookInto == {"aclsAdd", "aclsRemove", "logDirsAlter", "leaderElection", "featuresUpdate"}

Step ==
    \/ TopicsNext \/ DescribeNext \/ AclsNext \/ ConfigsNext \/ TransactionsNext
    \/ ReplicasNext \/ ClusterOpsNext
    \/ Lost(LookInto)

Remember ==
    facts' = [held |-> facts.held \cap Holds', denied |-> facts.denied \cap Denies']

Runs == Step /\ UNCHANGED <<line, moves>> /\ Remember

Interrupted == Cancel /\ UNCHANGED <<line, moves>> /\ Remember

\* Another operator, a client or a broker changes the cluster while the
\* command runs.
Elsewhere ==
    /\ cmd.pc \notin {"start", "ended"} /\ moves < MaxMoves
    /\ moves' = moves + 1
    /\ UNCHANGED <<line, cmd, effects>>
    /\ \/ Of(TopicActions) /\ TopicsElsewhere
       \/ Of({"describe"}) /\ DescribeElsewhere
       \/ Of(AclActions) /\ AclsElsewhere
       \/ Of(ConfigActions) /\ ConfigsElsewhere
       \/ Of(TransactionActions) /\ TransactionsElsewhere
       \/ Of(ReplicaActions) /\ ReplicasElsewhere
       \/ Of(ClusterActions) /\ ClusterOpsElsewhere
    /\ Remember

Ends == Stay /\ UNCHANGED <<line, moves, facts>>

Next == Runs \/ Interrupted \/ Elsewhere \/ Ends

\* The operator at a terminal who has not agreed beforehand may think it over
\* for as long as they like.
Waits == cmd.pc = "prompt" /\ line.tty /\ ~line.yes

\* The runtime polls the command: a step that it can take is taken.  A call
\* that is not answered ends with its timeout, as one that fails.
Spec == Init /\ [][Next]_allVars /\ WF_allVars(~Waits /\ Runs)

-----------------------------------------------------------------------------

Exits == {"none", "success", "failure", "usage", "cancelled"}

\* The type of the state: a command has an exit code exactly when it has ended,
\* and one that was refused or cancelled reports no rows.
TypeOK ==
    /\ line \in Lines /\ moves \in 0..MaxMoves
    /\ cmd.exit \in Exits
    /\ cmd.pc = "ended" <=> cmd.exit # "none"
    /\ cmd.exit \in {"usage", "cancelled"} => cmd.rows = {}

\* The commands that ask before they change anything.
Asking == {"delete", "aclsRemove", "abort", "forceTerminate", "deleteRecords",
           "logDirsAlter"} \cup Asks

\* safety.rs: a dry run changes nothing, and a command that asks changes only
\* what it has shown and been agreed to, however the cluster has moved since
\* it was shown.
ChangesAreAgreedTo ==
    /\ line.dry => effects = {}
    /\ line.kind \in Asking => effects \subseteq cmd.agreed

Reading == {"list", "describe", "aclsList", "configsDescribe", "transactionsList",
            "transactionsDescribe", "describeProducers", "findHanging", "getOffsets",
            "logDirsDescribe", "featuresDescribe"} \cup ClusterReads

Changing == line.kind \notin Reading /\ ~line.dry

Reported == {r.what : r \in {x \in cmd.rows : x.ok}}

\* An earlier --move of a replica that a later one of the same command line has
\* moved elsewhere: it is never sent, and passes for done.
Replaced(x) == Of({"logDirsAlter"}) /\ x \notin Assignments /\ \E m \in effects : m[1] = x[1]

\* A row that says a change was made is of a change that the cluster has made,
\* also where an earlier or a later request of the same command failed, and a
\* command that was refused or cancelled (exit codes 2 and 130) has none.  The
\* rows of replaced moves of log-dirs are the only exception.
RowsAreOfChanges ==
    /\ TypeOK
    /\ cmd.pc = "ended" /\ Changing => \A x \in Reported : x \in effects \/ Replaced(x)

\* What exit code 0 forgives: a topic that --if-not-exists found, a leader that
\* was the preferred one, a cluster without the unregister API, a move that
\* another one replaces.
Forgiven(x) ==
    \/ Of({"create"}) /\ "ifNotExists" \in Flags /\ cmd.reply[x] = "exists"
    \/ Of({"leaderElection"}) /\ cmd.reply[x] = "notNeeded"
    \/ Of({"unregister"}) /\ cmd.reply[x] = "unsupported"
    \/ Replaced(x)

\* exit.rs: with exit code 0 the command did what it was asked to do.  All that
\* it asked the cluster for was done, or is forgiven, and all that the cluster
\* did for it is reported.
SuccessMeansDone ==
    cmd.exit = "success" /\ Changing =>
      /\ \A x \in cmd.asked : x \in effects \/ Forgiven(x)
      /\ effects \subseteq Reported

\* A report that succeeds leaves out nothing that held in every state from the
\* command's start to its end, though it was put together from several reads of
\* a cluster that changed between them: a topic that was there throughout is
\* listed, a partition that was short of replicas throughout is found, as is a
\* transaction that was hanging throughout.
ReportsWhatHeld ==
    cmd.exit = "success" /\ line.kind \in Reading => facts.held \subseteq Reported

\* A report says nothing that was false in every state since the command's
\* start: find-hanging, whose output operators feed to abort, never names a
\* transaction that was live throughout.
ReportsNothingFalse ==
    cmd.pc = "ended" /\ line.kind \in Reading => Reported \cap facts.denied = {}

\* Every command comes to its exit code unless it waits for its operator, also
\* when a coordinator is loading for ever.
CommandsEnd == <>(cmd.pc = "ended" \/ Waits)
=============================================================================
