---------------------------- MODULE TopicDescribe ---------------------------
(***************************************************************************)
(* krabka topics --describe with the selectors that operators triage       *)
(* incidents with.  The description, the configs, the live brokers and the *)
(* reassignments are four requests, and the cluster moves between them.    *)
(* For this command cluster is one partition of a topic, the live brokers  *)
(* and the topic's min.insync.replicas.                                    *)
(***************************************************************************)
EXTENDS Command

CONSTANTS BrokerIds,
          NoLeader

Selectors == {"underReplicated", "unavailable", "underMinIsr", "atMinIsr"}

\* The command lines.  To a caller that is denied it the cluster lists no
\* reassignments.
DescribeArgs(l) ==
    l.kind = "describe" /\ l.flags \subseteq Selectors \cup {"ifExists", "denied"}

PartitionState(leader, replicas, isr) ==
    [leader |-> leader, replicas |-> replicas, isr |-> isr, adding |-> {}, removing |-> {}]

DescribeInit ==
    LET b == CHOOSE x \in BrokerIds : TRUE
        c == CHOOSE x \in BrokerIds : x # b
    IN  \E isr \in {{b}, {b, c}} :
          cluster = [part |-> PartitionState(b, {b, c}, isr), there |-> TRUE,
                     live |-> BrokerIds, min |-> 2]

\* Replicas fall behind, catch up and take over; brokers come and go; the
\* config is changed; a reassignment starts, and ends once its new replicas
\* are in sync; the topic is deleted.
DescribeElsewhere ==
    LET p == cluster.part
    IN  \/ \E isr \in SUBSET p.replicas : \E leader \in isr \cup {NoLeader} :
             cluster' = [cluster EXCEPT !.part.isr = isr, !.part.leader = leader]
        \/ \E b \in BrokerIds :
             cluster' = [cluster EXCEPT !.live = IF b \in @ THEN @ \ {b} ELSE @ \cup {b}]
        \/ cluster' = [cluster EXCEPT !.min = 3 - @]
        \/ /\ p.adding \cup p.removing = {}
           /\ \E adding \in SUBSET (BrokerIds \ p.replicas), removing \in SUBSET p.replicas :
                /\ adding \cup removing # {} /\ p.replicas \cup adding # removing
                /\ cluster' = [cluster EXCEPT !.part.adding = adding, !.part.removing = removing,
                                 !.part.replicas = @ \cup adding]
        \/ /\ p.adding \cup p.removing # {} /\ p.adding \subseteq p.isr
           /\ cluster' = [cluster EXCEPT !.part =
                PartitionState(IF p.leader \in p.removing THEN NoLeader ELSE p.leader,
                               p.replicas \ p.removing, p.isr \ p.removing)]
        \/ cluster' = [cluster EXCEPT !.there = FALSE]

-----------------------------------------------------------------------------
(* The predicates of describe.rs on a partition and a reassignment         *)

None == [replicas |-> {}, adding |-> {}, removing |-> {}]

ReassignmentInProgress(p, r) == p.replicas \cap (r.adding \cup r.removing) # {}

ReplicationFactor(p, r) ==
    IF ReassignmentInProgress(p, r)
    THEN LET n == Cardinality(r.replicas) - Cardinality(r.adding) IN IF n < 0 THEN 0 ELSE n
    ELSE Cardinality(p.replicas)

IsUnderReplicated(p, r) == ReplicationFactor(p, r) > Cardinality(p.isr)

IsUnavailable(p, live) == p.leader = NoLeader \/ p.leader \notin live

IsUnderMinIsr(p, min) == p.leader = NoLeader \/ Cardinality(p.isr) < min

IsAtMinIsr(p, min) == Cardinality(p.isr) = min

\* Without a selector of partitions every partition is printed.
ShouldPrint(p, r, live, min) ==
    \/ line.flags \cap Selectors = {}
    \/ "underReplicated" \in line.flags /\ IsUnderReplicated(p, r)
    \/ "unavailable" \in line.flags /\ IsUnavailable(p, live)
    \/ "underMinIsr" \in line.flags /\ IsUnderMinIsr(p, min)
    \/ "atMinIsr" \in line.flags /\ IsAtMinIsr(p, min)

-----------------------------------------------------------------------------
(* describe: one read after the other                                      *)

Ongoing ==
    IF cluster.part.adding \cup cluster.part.removing = {} THEN None
    ELSE [replicas |-> cluster.part.replicas, adding |-> cluster.part.adding,
          removing |-> cluster.part.removing]

DescribeStart == At({"describe"}, "start") /\ Goto("connect")

\* The listing, of which described keeps the topics that are meant.
DescribeListing ==
    /\ At({"describe"}, "connected")
    /\ IF cluster.there THEN Call("descriptions", cmd.seen)
       ELSE Fail \/ ("ifExists" \in line.flags /\ Report({}, FALSE))

\* A topic that cannot be described, or is gone by now, ends the command with
\* its error.
DescribeTopics ==
    /\ At({"describe"}, "descriptions")
    /\ \/ /\ cluster.there
          /\ cmd' = [cmd EXCEPT !.pc = "configs", !.seen = [part |-> cluster.part]]
          /\ OnlyLocal
       \/ Report({}, TRUE)

\* The error of a topic's config is only met when the lines are made.
DescribeTopicConfigs ==
    /\ At({"describe"}, "configs")
    /\ Call("brokers", [part |-> cmd.seen.part, min |-> IF cluster.there THEN cluster.min ELSE 0])

DescribeLive ==
    /\ At({"describe"}, "brokers")
    /\ Call("reassignments", [part |-> cmd.seen.part, min |-> cmd.seen.min, live |-> cluster.live])

\* describe_topic, from all that was read.
DescribeTopic(s, reassignment) ==
    IF ShouldPrint(s.part, reassignment, s.live, s.min)
    THEN {Row(<<s.min, s.part.leader>>, TRUE)} ELSE {}

\* A cluster that refuses or does not know the request has none to report.
ListReassignments ==
    /\ At({"describe"}, "reassignments")
    /\ LET found == IF "denied" \in line.flags THEN None ELSE Ongoing
       IN  \/ IF cmd.seen.min = 0 THEN Report({}, TRUE)
              ELSE Report(DescribeTopic(cmd.seen, found), FALSE)
           \/ Fail

\* What holds of the partition now, under a config and a leader: all that the
\* selectors ask for.  Of a partition that one selector applies to at one time
\* and another later, or whose reassignments come and go, the reads may show
\* a mixture to which none applies.
DescribeHolds ==
    IF /\ cluster.there
       /\ "underReplicated" \in line.flags =>
            Ongoing = None /\ IsUnderReplicated(cluster.part, None)
       /\ "unavailable" \in line.flags => IsUnavailable(cluster.part, cluster.live)
       /\ "underMinIsr" \in line.flags => IsUnderMinIsr(cluster.part, cluster.min)
       /\ "atMinIsr" \in line.flags => IsAtMinIsr(cluster.part, cluster.min)
    THEN {<<cluster.min, cluster.part.leader>>} ELSE {}

\* What does not hold of it, with no reassignment under way.
DescribeDenies ==
    IF /\ cluster.there /\ Ongoing = None
       /\ ~ShouldPrint(cluster.part, None, cluster.live, cluster.min)
    THEN {<<cluster.min, cluster.part.leader>>} ELSE {}

DescribeNext ==
    \/ DescribeStart \/ Connect({"describe"}) \/ DescribeListing \/ DescribeTopics
    \/ DescribeTopicConfigs \/ DescribeLive \/ ListReassignments
=============================================================================
