------------------------------- MODULE Topics -------------------------------
(***************************************************************************)
(* krabka topics --create, --alter, --delete and --list.  For them cluster *)
(* is the number of partitions of every topic, 0 where there is none.      *)
(***************************************************************************)
EXTENDS Command

CONSTANTS TopicNames,
          InternalTopics,  \* __consumer_offsets and the like
          Unavailable,     \* topics that the metadata lists with an error
          MaxPartitions    \* bound: partitions of a topic

TopicActions == {"create", "alter", "delete", "list"}

TopicsInit == cluster \in {t \in [TopicNames -> 0..1] : \E n \in TopicNames : t[n] = 1}

\* Others create, grow and delete topics.
TopicsElsewhere ==
    \E n \in TopicNames :
      /\ cluster' = [cluster EXCEPT ![n] = IF @ = MaxPartitions THEN 0 ELSE @ + 1]

-----------------------------------------------------------------------------
(* The checks before the connect                                           *)

\* The actions that take a flag, from check_args and the check on --dry-run.
Takes ==
    [topic |-> TopicActions, config |-> {"create"},
     partitions |-> {"alter", "create"}, replicationFactor |-> {"create"},
     replicaAssignment |-> {"alter", "create"},
     ifExists |-> {"alter", "delete"}, ifNotExists |-> {"create"},
     excludeInternal |-> {"list"}, dryRun |-> {"create", "delete"}]

\* The command lines: --topic gives names to create and patterns to match.
TopicsArgs(l) ==
    /\ l.kind \in TopicActions
    /\ l.flags \subseteq DOMAIN Takes
    /\ l.names \subseteq TopicNames /\ l.patterns \subseteq SUBSET TopicNames
    /\ l.partitions \in Int
    /\ \A i \in 1..Len(l.assignment) : l.assignment[i] \in Seq(Nat)

Flags == line.flags \cup (IF line.dry THEN {"dryRun"} ELSE {})

CheckArgs ==
    /\ \A f \in Flags : line.kind \in Takes[f]
    /\ line.kind # "list" => "topic" \in Flags
    /\ line.kind = "alter" => "partitions" \in Flags
    /\ line.kind = "create" /\ "replicaAssignment" \in Flags
         => Flags \cap {"partitions", "replicationFactor"} = {}

\* parse_replica_assignment: a broker named twice, or a replica count other
\* than that of the first partition.
AssignmentParses(a) ==
    \A i \in 1..Len(a) : /\ Cardinality({a[i][k] : k \in 1..Len(a[i])}) = Len(a[i])
                         /\ Len(a[i]) = Len(a[1])

PlanHolds ==
    /\ CheckArgs
    /\ AssignmentParses(line.assignment)
    /\ line.kind = "create" /\ "partitions" \in Flags => line.partitions >= 1

TopicsStart ==
    /\ At(TopicActions, "start")
    /\ IF PlanHolds THEN Goto("connect") ELSE Fail

-----------------------------------------------------------------------------
(* Which topics: a pattern is the set of names that it matches             *)

Existing == {n \in TopicNames : cluster[n] > 0}

Allowed(all) ==
    IF "excludeInternal" \in Flags THEN all \ InternalTopics ELSE all

\* resolve: a pattern without a match is an error unless --if-exists says no.
Unmatched(all) ==
    /\ line.kind # "list" /\ "ifExists" \notin Flags
    /\ \E p \in line.patterns : p \cap Allowed(all) = {}

Resolve(all) ==
    IF line.patterns = {} THEN Allowed(all) ELSE UNION line.patterns \cap Allowed(all)

\* The listing of --alter, --delete and --list and what is made of it.
ListTopics ==
    /\ At({"alter", "delete", "list"}, "connected")
    /\ LET all == Existing
           selected == Resolve(all)
       IN  \/ Unmatched(all) /\ Fail
           \/ ~Unmatched(all) /\ line.kind = "list"
                /\ Report({Row(n, TRUE) : n \in selected}, FALSE)
           \/ ~Unmatched(all) /\ line.kind = "delete" /\ line.dry
                /\ LET rows == {Row(n, n \notin Unavailable) : n \in selected}
                   IN  Report(rows, AnyFailed(rows))
           \/ ~Unmatched(all) /\ line.kind # "list" /\ ~line.dry /\ selected = {}
                /\ Report({}, FALSE)
           \/ ~Unmatched(all) /\ line.kind # "list" /\ ~line.dry /\ selected # {}
                /\ cmd' = [cmd EXCEPT !.seen = selected,
                             !.pc = IF line.kind = "delete" THEN "prompt" ELSE "describe"]
                /\ OnlyLocal
           \/ Fail

-----------------------------------------------------------------------------
(* --create                                                                *)

\* (fault) a topic that exists is never a failure.
CreatedOrThere(reply) ==
    Report(RowsOf(reply), \E n \in DOMAIN reply : reply[n] = "refused")

\* created: a topic that exists is no failure under --if-not-exists.
Created(reply) ==
    Report(RowsOf(reply),
           \E n \in DOMAIN reply : \/ reply[n] = "refused"
                                   \/ reply[n] = "exists" /\ "ifNotExists" \notin Flags)

CreateDryRun ==
    /\ At({"create"}, "connected") /\ line.dry
    /\ \/ Created([n \in line.names |-> IF n \in Existing \ Unavailable THEN "exists" ELSE "ok"])
       \/ Fail

\* External: the controller creates what is not there, or refuses it.
CreateTopics ==
    /\ At({"create"}, "connected") /\ ~line.dry
    /\ \E reply \in [line.names -> {"ok", "exists", "refused"}] :
         /\ \A n \in line.names : /\ reply[n] = "exists" => n \in Existing
                                  /\ reply[n] = "ok" => n \notin Existing
         /\ Sent(line.names, reply, "created")
         /\ cluster' = [n \in TopicNames |->
              IF n \in line.names /\ reply[n] = "ok"
              THEN IF "partitions" \in Flags THEN line.partitions ELSE 1 ELSE cluster[n]]

CreateAnswered == At({"create"}, "created") /\ Created(cmd.reply)

-----------------------------------------------------------------------------
(* --alter                                                                 *)

\* The description gives the partitions that each topic has; it is only used
\* with --replica-assignment, and then a topic that is gone, or that cannot be
\* described, ends the command.
AlterDescribe ==
    /\ At({"alter"}, "describe")
    /\ \/ "replicaAssignment" \in Flags /\ Report({}, TRUE)
       \/ /\ "replicaAssignment" \in Flags => cmd.seen \subseteq Existing
          /\ cmd' = [cmd EXCEPT !.pc = "grow", !.seen = [n \in cmd.seen |-> cluster[n]]]
          /\ OnlyLocal

\* new_assignments: the rows past the partitions that were described.
NewRows(n) == IF cmd.seen[n] < Len(line.assignment) THEN Len(line.assignment) - cmd.seen[n] ELSE 0

\* External: a topic grows only, and by as many partitions as have a row.
MayGrow(n) ==
    /\ n \in Existing
    /\ line.partitions > cluster[n]
    /\ "replicaAssignment" \in Flags => NewRows(n) = line.partitions - cluster[n]

CreatePartitions ==
    /\ At({"alter"}, "grow")
    /\ \E reply \in [DOMAIN cmd.seen -> {"ok", "refused"}] :
         /\ \A n \in DOMAIN reply : reply[n] = "ok" => MayGrow(n)
         /\ Sent(DOMAIN cmd.seen, reply, "altered")
         /\ cluster' = [n \in TopicNames |->
              IF n \in DOMAIN reply /\ reply[n] = "ok" THEN line.partitions ELSE cluster[n]]

-----------------------------------------------------------------------------
(* --delete                                                                *)

ConfirmDelete == At({"delete"}, "prompt") /\ Confirm(cmd.seen, "delete")

\* (fault) the patterns are resolved again after the prompt.
DeleteTopicsAfresh ==
    /\ At({"delete"}, "delete")
    /\ LET names == Resolve(Existing)
       IN  \E reply \in [names -> {"ok", "refused"}] :
             /\ \A n \in names : reply[n] = "ok" => n \notin Unavailable
             /\ Sent(names, reply, "deleted")
             /\ cluster' = [n \in TopicNames |->
                  IF n \in names /\ reply[n] = "ok" THEN 0 ELSE cluster[n]]

\* The request names what was confirmed; a topic may be gone by now.
DeleteTopics ==
    /\ At({"delete"}, "delete")
    /\ \E reply \in [cmd.seen -> {"ok", "refused"}] :
         /\ \A n \in cmd.seen : reply[n] = "ok" => n \in Existing \ Unavailable
         /\ Sent(cmd.seen, reply, "deleted")
         /\ cluster' = [n \in TopicNames |->
              IF n \in cmd.seen /\ reply[n] = "ok" THEN 0 ELSE cluster[n]]

\* failures_only
TopicsAnswered ==
    /\ At({"alter"}, "altered") \/ At({"delete"}, "deleted")
    /\ Report(RowsOf(cmd.reply), AnyFailed(RowsOf(cmd.reply)))

TopicsNext ==
    \/ TopicsStart \/ Connect(TopicActions) \/ ListTopics
    \/ CreateDryRun \/ CreateTopics \/ CreateAnswered
    \/ AlterDescribe \/ CreatePartitions
    \/ ConfirmDelete \/ DeleteTopics \/ TopicsAnswered
=============================================================================
