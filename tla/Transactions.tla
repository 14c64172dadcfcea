---------------------------- MODULE Transactions ----------------------------
(***************************************************************************)
(* krabka transactions: list, describe, describe-producers, find-hanging,  *)
(* abort and force-terminate.  For them cluster holds                      *)
(*   open   the open transactions on the logs: pairs of a partition and a  *)
(*          producer,                                                      *)
(*   old    those whose last write is older than --max-transaction-timeout,*)
(*   coord  for each producer, the partitions of its transaction as its    *)
(*          coordinator has them,                                          *)
(*   known  the producers whose transactional id a coordinator knows,      *)
(*   on     for each producer, the broker that coordinates it,             *)
(*   loading the brokers whose coordinator is loading its state.           *)
(* A producer stands for its transactional id too.                         *)
(***************************************************************************)
EXTENDS Command

CONSTANTS LogPartitions,
          Producers,
          Coordinators,
          MaxRetries      \* bound: asks of a loading coordinator before the deadline

ASSUME CoordinatorsExist == Coordinators # {}

TransactionActions ==
    {"transactionsList", "transactionsDescribe", "describeProducers", "findHanging", "abort",
     "forceTerminate"}

\* The command lines.  The transaction to abort is named by its start offset
\* or by its producer.
TransactionsArgs(l) ==
    /\ l.kind \in TransactionActions
    /\ l.flags \subseteq {"startOffset", "partition", "malformed"}
    /\ l.partitions \subseteq LogPartitions /\ l.ids \subseteq Producers
    /\ l.target \in LogPartitions \X Producers

Open(t, p) == <<t, p>>

\* A transaction hangs that is open on a log without its coordinator's knowing.
IsHanging(o) == o \in cluster.open /\ o[1] \notin cluster.coord[o[2]]

\* list sees the coordinators only, the other commands see what they know.
TransactionsInit ==
    \E live \in SUBSET (LogPartitions \X Producers), hanging \in SUBSET (LogPartitions \X Producers) :
      /\ line.kind = "transactionsList" => live \cup hanging = {}
      /\ cluster = [open |-> live \cup hanging, old |-> live \cup hanging, known |-> Producers,
                    coord |-> [p \in Producers |-> {t \in LogPartitions : Open(t, p) \in live}],
                    on |-> [p \in Producers |-> CHOOSE b \in Coordinators : TRUE],
                    loading |-> {}]

\* Coordinators move and load.
CoordinatorsElsewhere ==
    \/ \E p \in Producers, b \in Coordinators : cluster' = [cluster EXCEPT !.on[p] = b]
    \/ \E b \in Coordinators :
         cluster' = [cluster EXCEPT !.loading = IF b \in @ THEN @ \ {b} ELSE @ \cup {b}]

\* Producers begin and write, coordinators complete and forget, and a late
\* write is left hanging.
ProducersElsewhere ==
    \E p \in Producers :
      \/ \E t \in LogPartitions :
           \/ cluster' = [cluster EXCEPT !.coord[p] = @ \cup {t}, !.known = @ \cup {p}]
           \/ cluster' = [cluster EXCEPT !.open = @ \cup {Open(t, p)}]
      \/ cluster' = [cluster EXCEPT !.coord[p] = {},
                       !.open = {o \in @ : o[2] # p \/ o[1] \notin cluster.coord[p]},
                       !.old = {o \in @ : o[2] # p \/ o[1] \notin cluster.coord[p]}]
      \/ cluster.coord[p] = {} /\ cluster' = [cluster EXCEPT !.known = @ \ {p}]

TransactionsElsewhere ==
    IF line.kind = "transactionsList" THEN CoordinatorsElsewhere ELSE ProducersElsewhere

-----------------------------------------------------------------------------
(* list: every broker is asked, each with a connection of its own          *)

\* FindHangingArgs::check and AbortArgs::target.
TransactionsStart ==
    /\ At(TransactionActions, "start")
    /\ IF "malformed" \in line.flags THEN Fail
       ELSE Goto(IF line.kind = "forceTerminate" /\ ~line.dry THEN "prompt" ELSE "connect")

\* describe_cluster; asks counts the requests to each broker.
ListBegin ==
    /\ At({"transactionsList"}, "connected")
    /\ Call("list", [asks |-> [b \in Coordinators |-> 0], left |-> Coordinators, failed |-> {}])

\* (fault) a coordinator that is loading has no transactions.
ListOnBrokerEmpty ==
    /\ At({"transactionsList"}, "list")
    /\ \E b \in cmd.seen.left :
         \/ cmd' = [cmd EXCEPT !.seen.left = @ \ {b}, !.rows = @ \cup
               {Row(<<p, b>>, TRUE) : p \in {q \in cluster.known :
                                              b \notin cluster.loading /\ cluster.on[q] = b}}]
         \/ cmd' = [cmd EXCEPT !.seen.left = @ \ {b}, !.seen.failed = @ \cup {b}]
    /\ OnlyLocal

\* (fault) a loading coordinator is asked again for as long as it loads.
ListOnBrokerForever ==
    /\ At({"transactionsList"}, "list")
    /\ \E b \in cmd.seen.left \ cluster.loading :
         \/ cmd' = [cmd EXCEPT !.seen.left = @ \ {b}, !.rows = @ \cup
               {Row(<<p, b>>, TRUE) : p \in {q \in cluster.known : cluster.on[q] = b}}]
         \/ cmd' = [cmd EXCEPT !.seen.left = @ \ {b}, !.seen.failed = @ \cup {b}]
    /\ OnlyLocal

\* A loading coordinator is asked again until the deadline, and then its
\* answer is an error.
ListOnBroker ==
    /\ At({"transactionsList"}, "list")
    /\ \E b \in cmd.seen.left :
         LET answered == [cmd.seen EXCEPT !.left = @ \ {b}]
         IN  \/ /\ b \in cluster.loading /\ cmd.seen.asks[b] < MaxRetries
                /\ cmd' = [cmd EXCEPT !.seen.asks[b] = @ + 1]
             \/ /\ b \notin cluster.loading
                /\ cmd' = [cmd EXCEPT !.seen = answered, !.rows = @ \cup
                     {Row(<<p, b>>, TRUE) : p \in {q \in cluster.known : cluster.on[q] = b}}]
             \/ /\ b \in cluster.loading => cmd.seen.asks[b] = MaxRetries
                /\ cmd' = [cmd EXCEPT !.seen = [answered EXCEPT !.failed = @ \cup {b}]]
    /\ OnlyLocal

\* One failed broker fails the command.
ListDone ==
    /\ At({"transactionsList"}, "list") /\ cmd.seen.left = {}
    /\ IF cmd.seen.failed # {} THEN Fail ELSE Report(cmd.rows, FALSE)

\* describe: one request for each transactional id, and the first that fails
\* fails the command.
DescribeIds ==
    /\ At({"transactionsDescribe"}, "connected")
    /\ LET left == line.ids \ {r.what[1] : r \in cmd.rows}
       IN  \/ left = {} /\ Report(cmd.rows, FALSE)
           \/ \E p \in left \cap cluster.known :
                /\ cmd' = [cmd EXCEPT !.rows = @ \cup {Row(<<p, cluster.coord[p]>>, TRUE)}]
                /\ OnlyLocal
           \/ left # {} /\ Fail

-----------------------------------------------------------------------------
(* find-hanging and describe-producers                                     *)

\* partitions_to_search, which reads nothing for a partition that is named;
\* then the producer states in batches.  A batch that fails fails the command.
SearchPartitions ==
    /\ At({"findHanging", "describeProducers"}, "connected")
    /\ LET search == [left |-> line.partitions, candidates |-> {}]
       IN  IF line.kind = "findHanging" /\ "partition" \notin line.flags THEN Call("search", search)
           ELSE cmd' = [cmd EXCEPT !.pc = "search", !.seen = search] /\ OnlyLocal

\* open_candidates
OpenCandidates ==
    /\ At({"findHanging", "describeProducers"}, "search")
    /\ \E batch \in SUBSET cmd.seen.left :
         LET found == {o \in cluster.open : o[1] \in batch}
             kept == IF line.kind = "findHanging" THEN found \cap cluster.old ELSE found
         IN  /\ batch # {}
             /\ Call("search", [left |-> cmd.seen.left \ batch,
                                candidates |-> cmd.seen.candidates \cup kept])

ProducersReported ==
    /\ At({"describeProducers"}, "search") /\ cmd.seen.left = {}
    /\ Report({Row(o, TRUE) : o \in cmd.seen.candidates}, FALSE)

\* group_by_producer and the list by producer ids.
ListByProducers ==
    /\ At({"findHanging"}, "search") /\ cmd.seen.left = {}
    /\ LET producers == {o[2] : o \in cmd.seen.candidates}
       IN  IF producers = {} THEN Report({}, FALSE)
           ELSE Call("describe", [candidates |-> cmd.seen.candidates,
                                  todo |-> producers \cap cluster.known, hanging |->
                                    {o \in cmd.seen.candidates : o[2] \notin cluster.known}])

\* (fault) the partition of a candidate is to be the only one of its transaction.
DescribeTransactionOnly ==
    /\ At({"findHanging"}, "describe")
    /\ \E p \in cmd.seen.todo :
         LET unknown == {o \in cmd.seen.candidates :
                           o[2] = p /\ (p \notin cluster.known \/ {o[1]} # cluster.coord[p])}
         IN  Call("describe", [cmd.seen EXCEPT !.todo = @ \ {p}, !.hanging = @ \cup unknown])

\* One describe for each transactional id: hanging_transactions keeps what
\* its coordinator does not know of.
DescribeTransaction ==
    /\ At({"findHanging"}, "describe")
    /\ \E p \in cmd.seen.todo :
         LET unknown == {o \in cmd.seen.candidates :
                           o[2] = p /\ (p \notin cluster.known \/ o[1] \notin cluster.coord[p])}
         IN  Call("describe", [cmd.seen EXCEPT !.todo = @ \ {p}, !.hanging = @ \cup unknown])

HangingReported ==
    /\ At({"findHanging"}, "describe") /\ cmd.seen.todo = {}
    /\ Report({Row(o, TRUE) : o \in cmd.seen.hanging}, FALSE)

-----------------------------------------------------------------------------
(* abort and force-terminate                                               *)

\* spec_at reads the producer of the transaction at --start-offset; the other
\* form names the producer itself.
AbortSpec ==
    /\ At({"abort"}, "connected")
    /\ IF "startOffset" \in line.flags /\ line.target \notin cluster.open THEN Fail
       ELSE \/ line.dry /\ Report({Row(line.target, TRUE)}, FALSE)
            \/ ~line.dry /\ Goto("prompt")
            \/ "startOffset" \in line.flags /\ Fail

ConfirmAbort == At({"abort"}, "prompt") /\ Confirm({line.target}, "abort")

\* External: the leader writes the marker, which ends whatever transaction the
\* producer has open on the partition.
AbortTransaction ==
    /\ At({"abort"}, "abort")
    /\ \E answer \in {"ok", "refused"} :
         /\ Sent({line.target}, [x \in {line.target} |-> answer], "aborted")
         /\ cluster' = IF answer = "refused" THEN cluster
                       ELSE [cluster EXCEPT !.open = @ \ {line.target}, !.old = @ \ {line.target}]

\* force-terminate asks before it connects, and its dry run only connects.
ConfirmTermination ==
    /\ At({"forceTerminate"}, "prompt")
    /\ Confirm({line.target[2]}, "connect")

TerminateDryRun ==
    /\ At({"forceTerminate"}, "connected") /\ line.dry
    /\ Report({Row(line.target[2], TRUE)}, FALSE)

\* External: the coordinator aborts the transaction on all its partitions.
ForceTerminate ==
    /\ At({"forceTerminate"}, "connected") /\ ~line.dry
    /\ LET p == line.target[2]
           ended == {Open(t, p) : t \in cluster.coord[p]}
       IN  \E answer \in {"ok", "refused"} :
             /\ answer = "ok" => p \in cluster.known
             /\ Sent({p}, [x \in {p} |-> answer], "aborted")
             /\ cluster' = IF answer = "refused" THEN cluster
                           ELSE [cluster EXCEPT !.coord[p] = {}, !.open = @ \ ended,
                                   !.old = @ \ ended]

TransactionAnswered ==
    /\ At({"abort", "forceTerminate"}, "aborted")
    /\ IF AnyFailed(RowsOf(cmd.reply)) THEN Fail ELSE Report(RowsOf(cmd.reply), FALSE)

TransactionsNext ==
    \/ TransactionsStart \/ Connect(TransactionActions)
    \/ ListBegin \/ ListOnBroker \/ ListDone \/ DescribeIds
    \/ SearchPartitions \/ OpenCandidates \/ ProducersReported \/ ListByProducers
    \/ DescribeTransaction \/ HangingReported
    \/ AbortSpec \/ ConfirmAbort \/ AbortTransaction
    \/ ConfirmTermination \/ TerminateDryRun \/ ForceTerminate \/ TransactionAnswered
=============================================================================
