------------------------------ MODULE Replicas ------------------------------
(***************************************************************************)
(* The commands on partitions and their replicas: krabka delete-records,   *)
(* log-dirs, leader-election and get-offsets.  For them cluster holds      *)
(*   parts  the partitions that are there, with their start and end offset *)
(*          and whether the preferred replica leads,                       *)
(*   dirs   the log directories of the broker that the command names,      *)
(*   at     for each partition, the directory of its replica there,        *)
(*   up     whether that broker is in the cluster.                         *)
(***************************************************************************)
EXTENDS Command, Functions

CONSTANTS Parts,
          Dirs,
          MaxOffset    \* bound: records of a partition

ReplicaActions == {"deleteRecords", "logDirsAlter", "logDirsDescribe", "leaderElection",
                   "getOffsets"}

\* The command lines.  What cannot be read or parsed is malformed.  An election
\* has no --dry-run.
DeleteRecordsArgs(l) ==
    /\ l.kind = "deleteRecords"
    /\ l.flags \subseteq {"malformed"} /\ l.offsets \in [Parts -> Int]

LogDirsArgs(l) ==
    /\ l.kind \in {"logDirsAlter", "logDirsDescribe"}
    /\ l.flags \subseteq {"malformed"} /\ l.replicaMoves \in Seq(Parts \X Dirs)

LeaderElectionArgs(l) ==
    l.kind = "leaderElection" /\ ~l.dry /\ l.flags \subseteq {"all", "malformed"}

GetOffsetsArgs(l) ==
    /\ l.kind = "getOffsets"
    /\ l.flags \subseteq {"malformed"} /\ l.partitions \subseteq Parts

\* The offset of the file that stands for the high watermark.
HighWatermark == -1

ReplicasInit ==
    \E there \in SUBSET Parts, dirs \in SUBSET Dirs, end \in 0..MaxOffset :
      cluster = [parts |-> [p \in there |-> [start |-> 0, end |-> end, preferred |-> FALSE]],
                 dirs |-> dirs, at |-> [p \in Parts |-> CHOOSE d \in Dirs : TRUE], up |-> TRUE]

\* Records are written and expire, leaders change, topics and directories go
\* and the broker leaves.
ReplicasElsewhere ==
    \/ \E p \in DOMAIN cluster.parts :
         \/ /\ cluster.parts[p].end < MaxOffset
            /\ cluster' = [cluster EXCEPT !.parts[p].end = @ + 1]
         \/ cluster' = [cluster EXCEPT !.parts[p].start = cluster.parts[p].end]
         \/ cluster' = [cluster EXCEPT !.parts[p].preferred = ~@]
         \/ cluster' = [cluster EXCEPT !.parts =
              [q \in DOMAIN cluster.parts \ {p} |-> cluster.parts[q]]]
    \/ \E d \in cluster.dirs : cluster' = [cluster EXCEPT !.dirs = @ \ {d}]
    \/ cluster' = [cluster EXCEPT !.up = FALSE]

ReplicasStart ==
    /\ At(ReplicaActions, "start")
    /\ IF \/ "malformed" \in line.flags
          \/ line.kind = "logDirsDescribe" /\ line.dry
       THEN Fail ELSE Goto("connect")

-----------------------------------------------------------------------------
(* delete-records: line.offsets gives the offset for each partition        *)

Asked == DOMAIN line.offsets

\* The dry run reads the partition counts, not the offsets.
PlannedRecords ==
    /\ At({"deleteRecords"}, "connected") /\ line.dry
    /\ LET rows == {Row(p, p \in DOMAIN cluster.parts) : p \in Asked}
       IN  Report(rows, AnyFailed(rows)) \/ Fail

BeforeDelete == At({"deleteRecords"}, "connected") /\ ~line.dry /\ Goto("prompt")

ConfirmRecords == At({"deleteRecords"}, "prompt") /\ Confirm(Asked, "records")

\* External: the leader moves the log start up to the offset, but never past
\* the high watermark and never back.
NewStart(p) ==
    LET log == cluster.parts[p]
        upTo == IF line.offsets[p] = HighWatermark THEN log.end ELSE line.offsets[p]
    IN  IF upTo > log.start THEN upTo ELSE log.start

DeleteRecords ==
    /\ At({"deleteRecords"}, "records")
    /\ \E reply \in [Asked -> {"ok", "refused", "missing"}] :
         /\ \A p \in Asked : reply[p] = "ok" =>
              p \in DOMAIN cluster.parts /\ line.offsets[p] <= cluster.parts[p].end
         /\ Sent(Asked, reply, "answered")
         /\ cluster' = [cluster EXCEPT !.parts = [p \in DOMAIN cluster.parts |->
              IF p \in Asked /\ reply[p] = "ok"
              THEN [cluster.parts[p] EXCEPT !.start = NewStart(p)] ELSE cluster.parts[p]]]

\* One row for each operation; one that the answer leaves out has failed.
RecordsDeleted ==
    /\ At({"deleteRecords"}, "answered")
    /\ Report(RowsOf(cmd.reply), AnyFailed(RowsOf(cmd.reply)))

-----------------------------------------------------------------------------
(* log-dirs --alter: line.replicaMoves is a sequence of partition and dir  *)

\* The requests of a later move of the same replica replace those of an
\* earlier one.
Assignments ==
    {m \in Range(line.replicaMoves) :
       \E i \in 1..Len(line.replicaMoves) :
         /\ line.replicaMoves[i] = m
         /\ \A j \in (i + 1)..Len(line.replicaMoves) : line.replicaMoves[j][1] # m[1]}

\* moved: a row for each move, by the outcome of its replica.
Moved(outcome) ==
    LET rows == {Row(m, outcome[m[1]] = "ok") : m \in Range(line.replicaMoves)}
    IN  Report(rows, AnyFailed(rows))

\* The brokers, then the directories of the one that is named.
DescribeCurrent ==
    /\ At({"logDirsAlter"}, "connected")
    /\ IF cluster.up THEN Call("described", [dirs |-> cluster.dirs]) ELSE Fail

LogDirsDryRun ==
    /\ At({"logDirsAlter"}, "described") /\ line.dry
    /\ LET known(p) == \A m \in Assignments : m[1] = p => m[2] \in cmd.seen.dirs
       IN  Moved([p \in {m[1] : m \in Assignments} |-> IF known(p) THEN "ok" ELSE "refused"])

BeforeMove == At({"logDirsAlter"}, "described") /\ ~line.dry /\ Goto("prompt")

ConfirmMoves == At({"logDirsAlter"}, "prompt") /\ Confirm(Range(line.replicaMoves), "move")

\* External: the broker moves a replica to a directory that it has.  An answer
\* that does not come is the error of every replica.
AlterReplicaLogDirs ==
    /\ At({"logDirsAlter"}, "move")
    /\ \E reply \in [Assignments -> {"ok", "refused"}] :
         /\ \A m \in Assignments : reply[m] = "ok" => cluster.up /\ m[2] \in cluster.dirs
         /\ Sent(Range(line.replicaMoves), reply, "moved")
         /\ cluster' = [cluster EXCEPT !.at = [p \in Parts |->
              IF \E m \in Assignments : m[1] = p /\ reply[m] = "ok"
              THEN (CHOOSE m \in Assignments : m[1] = p)[2] ELSE cluster.at[p]]]

MovesAnswered ==
    /\ At({"logDirsAlter"}, "moved") \/ At({"logDirsAlter"}, "lost")
    /\ Moved([p \in {m[1] : m \in Assignments} |->
                IF cmd.pc = "lost" THEN "refused"
                ELSE cmd.reply[CHOOSE m \in Assignments : m[1] = p]])

\* An answer without directories is a refused authorization.
DescribeLogDirs ==
    /\ At({"logDirsDescribe"}, "connected")
    /\ IF ~cluster.up THEN Fail
       ELSE \/ Report({Row(d, TRUE) : d \in cluster.dirs}, cluster.dirs = {})
            \/ Report({}, TRUE)
            \/ Fail

-----------------------------------------------------------------------------
(* leader-election and get-offsets                                         *)

\* A null request stands for every partition.
Electable == IF "all" \in line.flags THEN DOMAIN cluster.parts ELSE Asked

\* External: an election moves the lead to the preferred replica.
ElectLeaders ==
    /\ At({"leaderElection"}, "connected")
    /\ \E reply \in [Electable -> {"ok", "notNeeded", "refused"}] :
         /\ \A p \in Electable :
              /\ reply[p] # "refused" => p \in DOMAIN cluster.parts
              /\ reply[p] = "ok" => ~cluster.parts[p].preferred
              /\ reply[p] = "notNeeded" => cluster.parts[p].preferred
         /\ Sent(Electable, reply, "elected")
         /\ cluster' = [cluster EXCEPT !.parts = [p \in DOMAIN cluster.parts |->
              IF p \in Electable /\ reply[p] = "ok"
              THEN [cluster.parts[p] EXCEPT !.preferred = TRUE] ELSE cluster.parts[p]]]

\* election_report: no need for an election is no failure.  call_failure: a
\* call that fails with a timeout or a refusal is a report without rows.
ElectionAnswered ==
    \/ /\ At({"leaderElection"}, "elected")
       /\ Report(RowsOf(cmd.reply), \E p \in DOMAIN cmd.reply : cmd.reply[p] = "refused")
    \/ /\ At({"leaderElection"}, "lost")
       /\ Fail \/ Report({}, TRUE)

\* list_partitions: the listing, and a describe of each topic, which fails
\* the command for one that is gone.
ListPartitions ==
    /\ At({"getOffsets"}, "connected")
    /\ Call("selected", [all |-> DOMAIN cluster.parts])

SelectPartitions ==
    /\ At({"getOffsets"}, "selected")
    /\ LET selected == cmd.seen.all \cap line.partitions
       IN  IF selected = {} \/ ~(selected \subseteq DOMAIN cluster.parts) THEN Fail
           ELSE Call("offsets", [parts |-> selected])

\* offsets_result: a partition that failed is a row of its own and a failure.
OffsetsResult ==
    /\ At({"getOffsets"}, "offsets")
    /\ \E failed \in SUBSET cmd.seen.parts :
         /\ cmd.seen.parts \ DOMAIN cluster.parts \subseteq failed
         /\ Report({Row(p, p \notin failed) : p \in cmd.seen.parts}, failed # {})

ReplicasNext ==
    \/ ReplicasStart \/ Connect(ReplicaActions)
    \/ PlannedRecords \/ BeforeDelete \/ ConfirmRecords \/ DeleteRecords \/ RecordsDeleted
    \/ DescribeCurrent \/ LogDirsDryRun \/ BeforeMove \/ ConfirmMoves \/ AlterReplicaLogDirs
    \/ MovesAnswered \/ DescribeLogDirs
    \/ ElectLeaders \/ ElectionAnswered \/ ListPartitions \/ SelectPartitions \/ OffsetsResult
=============================================================================
