--------------------------- MODULE ConsumerGroups ---------------------------
(***************************************************************************)
(* consumer-groups: --describe, --reset-offsets, --delete and              *)
(* --delete-offsets, against groups whose members join, commit and leave   *)
(* and logs that grow and are trimmed meanwhile.                           *)
(*                                                                         *)
(* Every request is a step.  The coordinator and the logs are external: a  *)
(* request may fail, fail for some partitions only, or be applied and      *)
(* reported as failed.                                                     *)
(***************************************************************************)
EXTENDS Integers, FiniteSets

CONSTANTS Groups,
          Parts,       \* the partitions of the cluster
          Unknown,     \* names of topics that do not exist
          Lines,       \* the command lines, parsed
          FirstOffsets,  \* bound: the offsets that a group may start with
          MaxEnd,      \* bound: the end of a log
          MaxMoves,    \* bound: what members and logs do meanwhile
          All,         \* --all-groups, --all-topics
          None

NoPlan == [p \in {} |-> 0]

\* A command line: its action, --group or --all-groups, --topic or --all-topics,
\* the scenario of a reset with its number or its file, and whether it is more
\* than a dry run.
LineArgs(l) ==
    /\ l.action \in {"describe", "reset", "delete", "deleteOffsets"}
    /\ l.groups = All \/ l.groups \subseteq Groups
    /\ l.topics = All \/ l.topics \subseteq Parts \cup Unknown
    /\ l.action = "deleteOffsets" => l.topics # All
    /\ l.scenario \in {"offset", "earliest", "latest", "shift", "time", "file", "current"}
    /\ l.n \in Int /\ l.execute \in BOOLEAN
    /\ DOMAIN l.file \subseteq Groups
    /\ \A g \in DOMAIN l.file : /\ DOMAIN l.file[g] \subseteq Parts
                                /\ \A p \in DOMAIN l.file[g] : l.file[g][p] \in Int

ASSUME LinesAreLines == \A l \in Lines : LineArgs(l)

ASSUME LogsCoverThem == \A f \in FirstOffsets : f \in [Parts -> {None, 0, 1}]

ASSUME SizesAreTyped == /\ MaxEnd \in Nat \ {0} /\ MaxMoves \in Nat
                        /\ None \notin Int

VARIABLES log,      \* where each partition starts and ends
          group,    \* the state of each group; Stable stands for all with members
          offset,   \* the committed offsets of each group
          moves,
          pc,       \* where the command is
          line,     \* its command line
          todo,     \* the groups that it has not dealt with
          seen,     \* what describe_raw said of them
          work,     \* what it has read for each group
          rows,     \* the rows of its report
          failed,   \* a row failed
          exit,     \* how it ended: exit 0, exit 1, or exit 1 without a report
          agreed,   \* the operator confirmed (history)
          written   \* what it wrote into the offsets (history)

cluster == <<log, group, offset>>
vars == <<log, group, offset, moves, pc, line, todo, seen, work, rows, failed, exit,
          agreed, written>>

Blank == [at |-> "none", committed |-> NoPlan, first |-> NoPlan, plan |-> NoPlan]

Init ==
    /\ log = [p \in Parts |-> [start |-> 0, end |-> 1]]
    /\ group \in [Groups -> {"Dead", "Empty", "Stable"}]
    /\ offset \in [Groups -> FirstOffsets]
    /\ \A g \in Groups, p \in Parts : group[g] = "Dead" => offset[g][p] = None
    /\ moves = 0
    /\ pc = "start"
    /\ line \in Lines
    /\ todo = {} /\ seen = [g \in Groups |-> None]
    /\ work = [g \in Groups |-> Blank]
    /\ rows = {} /\ failed = FALSE /\ exit = None
    /\ agreed = FALSE /\ written = {}

-----------------------------------------------------------------------------
(* Members and logs                                                        *)

Move ==
    /\ pc # "done"
    /\ moves < MaxMoves
    /\ moves' = moves + 1
    /\ UNCHANGED <<pc, line, todo, seen, work, rows, failed, exit, agreed, written>>

Join(g) ==
    /\ Move
    /\ group[g] # "Stable"
    /\ group' = [group EXCEPT ![g] = "Stable"]
    /\ UNCHANGED <<log, offset>>

Leave(g) ==
    /\ Move
    /\ group[g] = "Stable"
    /\ group' = [group EXCEPT ![g] = "Empty"]
    /\ UNCHANGED <<log, offset>>

Commit(g, p) ==
    /\ Move
    /\ group[g] = "Stable"
    /\ \E o \in log[p].start..log[p].end : offset' = [offset EXCEPT ![g][p] = o]
    /\ UNCHANGED <<log, group>>

\* An empty group and its offsets are forgotten.
Expire(g) ==
    /\ Move
    /\ group[g] = "Empty"
    /\ group' = [group EXCEPT ![g] = "Dead"]
    /\ offset' = [offset EXCEPT ![g] = [p \in Parts |-> None]]
    /\ UNCHANGED log

Produce(p) ==
    /\ Move
    /\ log[p].end < MaxEnd
    /\ log' = [log EXCEPT ![p].end = @ + 1]
    /\ UNCHANGED <<group, offset>>

Trim(p) ==
    /\ Move
    /\ log[p].start < log[p].end
    /\ log' = [log EXCEPT ![p].start = @ + 1]
    /\ UNCHANGED <<group, offset>>

-----------------------------------------------------------------------------
(* The start of the command                                                *)

Exit(code) == pc' = "done" /\ exit' = code

\* check_args
Refused ==
    \/ line.groups = {}
    \/ line.action = "deleteOffsets" /\ (line.groups = All \/ line.topics = {})
    \/ line.action \in {"delete", "describe"} /\ line.topics # {}
    \/ line.action = "describe" /\ ~line.execute

Start ==
    /\ pc = "start"
    /\ IF Refused THEN Exit("error")
       ELSE pc' = "target" /\ UNCHANGED exit
    /\ UNCHANGED <<cluster, moves, line, todo, seen, work, rows, failed, agreed, written>>

\* reset: "One of the reset scopes should be defined".
NoScope == line.action = "reset" /\ line.topics = {} /\ line.scenario # "file"

\* --delete-offsets takes the first --group only.
Targets ==
    IF line.groups = All THEN {{g \in Groups : group[g] # "Dead"}}
    ELSE IF line.action = "deleteOffsets" THEN {{g} : g \in line.groups}
    ELSE {line.groups}

\* (fault) --dry-run is ignored, as the JVM tool does.
AsksAlways == line.action \in {"delete", "deleteOffsets"}

\* What deletes, and is no dry run, asks first.
Asks == line.action \in {"delete", "deleteOffsets"} /\ line.execute

\* target_groups, and the scope of --delete-offsets.
Target ==
    /\ pc = "target"
    /\ todo' \in Targets
    /\ IF NoScope THEN Exit("error")
       ELSE /\ pc' = IF Asks THEN "prompt" ELSE "describe"
            /\ UNCHANGED exit
    /\ UNCHANGED <<cluster, moves, line, seen, work, rows, failed, agreed, written>>

\* A request of the command itself fails, or Ctrl-C drops it.
Fails ==
    /\ pc \in {"target", "describe", "prompt", "groups"}
    /\ Exit("error")
    /\ UNCHANGED <<cluster, moves, line, todo, seen, work, rows, failed, agreed, written>>

Verdict(bad) == IF bad THEN "error" ELSE "ok"

\* The dry runs of --delete and --delete-offsets end with the description.
DryRows(described) ==
    IF line.action = "delete"
    THEN {<<g, None, Verdict(described[g] # "Empty")>> : g \in todo}
    ELSE {<<g, p, Verdict(p \in Unknown)>> : g \in todo, p \in line.topics}

\* describe_raw: one answer per group, which may be an error.
Describe ==
    /\ pc = "describe"
    /\ seen' \in [Groups -> {"Dead", "Empty", "Stable", "error", None}]
    /\ \A g \in Groups : IF g \in todo THEN seen'[g] \in {group[g], "error"}
                         ELSE seen'[g] = None
    /\ IF line.action \in {"describe", "reset"}
       THEN pc' = "groups" /\ UNCHANGED <<rows, failed, exit>>
       ELSE /\ rows' = DryRows(seen')
            /\ failed' = (\/ \E r \in rows' : r[3] = "error"
                         \/ \E g \in todo : seen'[g] \in {"Dead", "error"})
            /\ Exit(IF failed' THEN "failed" ELSE "ok")
    /\ UNCHANGED <<cluster, moves, line, todo, work, agreed, written>>

-----------------------------------------------------------------------------
(* --delete and --delete-offsets                                           *)

Prompt ==
    /\ pc = "prompt"
    /\ \/ agreed' = TRUE /\ pc' = "send" /\ UNCHANGED exit
       \/ Exit("error") /\ UNCHANGED agreed
    /\ UNCHANGED <<cluster, moves, line, todo, seen, work, rows, failed, written>>

\* (fault) What the answer leaves out counts as done.
DoneUnlessRefused(answer) == answer # "refused"

\* A row is done when the answer names it without an error.
Done(answer) == answer = "done"

\* The answers that a deletion of x may have: x can be gone although the answer
\* says otherwise or does not mention it.
Answers(gone) == IF gone THEN {"done", "refused", "absent"} ELSE {"refused", "absent"}

Report(new) ==
    /\ rows' = new
    /\ failed' = (\E r \in rows' : r[3] = "error")
    /\ Exit(IF failed' THEN "failed" ELSE "ok")

\* client.delete_consumer_groups, not sent when there is no group.
SendDelete ==
    /\ pc = "send"
    /\ line.action = "delete"
    /\ \E gone \in SUBSET {g \in todo : group[g] = "Empty"} :
        /\ group' = [g \in Groups |-> IF g \in gone THEN "Dead" ELSE group[g]]
        /\ offset' = [g \in Groups |-> IF g \in gone THEN [p \in Parts |-> None] ELSE offset[g]]
        /\ \/ \E answer \in [todo -> {"done", "refused", "absent"}] :
                 /\ \A g \in todo : answer[g] \in Answers(g \in gone)
                 /\ Report({<<g, None, Verdict(~Done(answer[g]))>> : g \in todo})
           \/ Exit("error") /\ UNCHANGED <<rows, failed>>
    /\ UNCHANGED <<log, moves, line, todo, seen, work, agreed, written>>

\* client.delete_consumer_group_offsets of the partitions, and
\* apply_offset_deletions; a group that does not exist fails every row.
SendDeleteOffsets ==
    /\ pc = "send"
    /\ line.action = "deleteOffsets"
    /\ \E g \in todo, gone \in SUBSET (line.topics \cap Parts) :
        /\ group[g] = "Dead" => gone = {}
        /\ offset' = [offset EXCEPT ![g] = [p \in Parts |-> IF p \in gone THEN None ELSE @[p]]]
        /\ \/ \E answer \in [line.topics -> {"done", "refused", "absent"}] :
                 /\ \A p \in line.topics \cap Parts :
                        answer[p] \in Answers(p \in gone \/ offset[g][p] = None)
                 /\ \A p \in line.topics \ Parts : answer[p] = "refused"
                 /\ group[g] = "Dead" => \A p \in line.topics : answer[p] = "refused"
                 /\ Report({<<g, p, Verdict(~Done(answer[p]))>> : p \in line.topics})
           \/ Exit("error") /\ UNCHANGED <<rows, failed>>
    /\ UNCHANGED <<log, group, moves, line, todo, seen, work, agreed, written>>

-----------------------------------------------------------------------------
(* --describe --offsets                                                    *)

Keep(g, w) == work' = [work EXCEPT ![g] = w]

\* The row of one group is done.
DoneWith(g, new) ==
    /\ todo' = todo \ {g}
    /\ rows' = rows \cup new
    /\ Keep(g, Blank)

Offsets(g) == [p \in {q \in Parts : offset[g][q] # None} |-> offset[g][p]]

Ends(ps) == [p \in ps |-> log[p].end]

\* offset_rows and lag, for what has an offset.
Lags(g, committed, ends) ==
    {<<g, p, ends[p] - committed[p]>> : p \in DOMAIN committed \cap DOMAIN ends}

\* (fault) The ends of the logs are read before the offsets.
GroupOffsetsEndsFirst(g) ==
    \/ /\ work[g].at = "none"
       /\ Keep(g, [Blank EXCEPT !.at = "ends", !.first = Ends(Parts)])
       /\ UNCHANGED <<todo, rows>>
    \/ /\ work[g].at = "ends"
       /\ DoneWith(g, Lags(g, Offsets(g), work[g].first))

\* group_offsets: the offsets of the group, then the ends of their partitions.
GroupOffsets(g) ==
    \/ /\ work[g].at = "none"
       /\ Keep(g, [Blank EXCEPT !.at = "ends", !.committed = Offsets(g)])
       /\ UNCHANGED <<todo, rows>>
    \/ /\ work[g].at = "ends"
       /\ DoneWith(g, Lags(g, work[g].committed, Ends(DOMAIN work[g].committed)))

\* Up to GROUP_FAN_OUT groups at once; one that fails does not stop the others.
DescribeGroup(g) ==
    /\ pc = "groups"
    /\ line.action = "describe"
    /\ g \in todo
    /\ \/ seen[g] # "error" /\ GroupOffsets(g) /\ UNCHANGED failed
       \/ DoneWith(g, {}) /\ failed' = TRUE
    /\ UNCHANGED <<cluster, moves, pc, line, seen, exit, agreed, written>>

-----------------------------------------------------------------------------
(* --reset-offsets                                                         *)

\* The loop takes the next group when it is done with the one before.
Between == pc = "groups" /\ line.action = "reset" /\ \A g \in Groups : work[g].at = "none"

\* A group that had members when it was described is left alone; one that
\* could not be described ends the command, whatever it has altered by then.
NextGroup(g) ==
    /\ Between
    /\ g \in todo
    /\ CASE seen[g] = "Stable" -> DoneWith(g, {}) /\ UNCHANGED <<pc, exit>>
         [] seen[g] = "error" -> Exit("error") /\ UNCHANGED <<todo, rows, work>>
         [] OTHER -> Keep(g, [Blank EXCEPT !.at = "committed"]) /\ UNCHANGED <<pc, exit, todo, rows>>
    /\ UNCHANGED <<cluster, moves, line, seen, failed, agreed, written>>

At(g, label) == pc = "groups" /\ line.action = "reset" /\ work[g].at = label

\* The request fails, or what it says does, and so does the command.
Abort == Exit("error") /\ UNCHANGED <<todo, rows, work>>

Continue(g, w) == Keep(g, w) /\ UNCHANGED <<pc, exit, todo, rows>>

\* The offsets of the group are read only where the scope or the scenario
\* needs them.
ReadCommitted(g) ==
    /\ At(g, "committed")
    /\ Continue(g, [work[g] EXCEPT !.at = "valid",
          !.committed = IF line.topics = All \/ line.scenario \in {"shift", "current"}
                        THEN Offsets(g) ELSE NoPlan])
    /\ UNCHANGED <<cluster, moves, line, seen, failed, agreed, written>>

Scope(g) == IF line.topics = All THEN DOMAIN work[g].committed ELSE line.topics

\* The partitions that the scenario sets.
Sets(g) ==
    IF line.scenario = "file"
    THEN (IF g \in DOMAIN line.file THEN DOMAIN line.file[g] ELSE {})
    ELSE Scope(g)

\* check_partitions_valid, and what plan refuses before it asks for an offset.
Valid(g) ==
    /\ Scope(g) \subseteq Parts
    /\ line.scenario = "shift" => Scope(g) \subseteq DOMAIN work[g].committed

CheckPartitions(g) ==
    /\ At(g, "valid")
    /\ IF Valid(g) THEN Continue(g, [work[g] EXCEPT !.at = "first"]) ELSE Abort
    /\ UNCHANGED <<cluster, moves, line, seen, failed, agreed, written>>

\* The first offset at or after a timestamp, -1 if there is none; the record at
\* offset o has timestamp o.
ForTimestamp(p, t) ==
    IF t >= log[p].end THEN -1 ELSE IF t < log[p].start THEN log[p].start ELSE t

\* The first ListOffsets of the scenario.
Lookup(p) ==
    CASE line.scenario \in {"latest", "current"} -> log[p].end
      [] line.scenario = "time" -> ForTimestamp(p, line.n)
      [] OTHER -> log[p].start

\* --to-current asks only for what has no committed offset.
Asked(g) ==
    IF line.scenario = "current" THEN Sets(g) \ DOMAIN work[g].committed ELSE Sets(g)

LookUpFirst(g) ==
    /\ At(g, "first")
    /\ Continue(g, [work[g] EXCEPT !.at = "second",
                                   !.first = [p \in Asked(g) |-> Lookup(p)]])
    /\ UNCHANGED <<cluster, moves, line, seen, failed, agreed, written>>

\* The offset that the command line asks for, before it is clamped.
Requested(g, p) ==
    CASE line.scenario = "offset" -> line.n
      [] line.scenario = "shift" -> work[g].committed[p] + line.n
      [] line.scenario = "file" -> line.file[g][p]

\* (fault) The end of the log does not bound the offset.
ClampedBelow(offsetOf, start, end) == IF offsetOf < start THEN start ELSE offsetOf

\* (fault) The start of the log does not bound it.
ClampedAbove(offsetOf, start, end) == IF offsetOf > end THEN end ELSE offsetOf

\* clamped
Clamped(offsetOf, start, end) ==
    IF offsetOf > end THEN end ELSE IF offsetOf < start THEN start ELSE offsetOf

\* (fault) A partition without a record after the timestamp keeps the -1.
PlannedUnknown(g, p) ==
    LET first == work[g].first
    IN  CASE line.scenario \in {"earliest", "latest", "time"} -> first[p]
          [] line.scenario = "current" ->
                IF p \in DOMAIN first THEN first[p] ELSE work[g].committed[p]
          [] OTHER -> Clamped(Requested(g, p), first[p], log[p].end)

\* The offset that plan sets p to; the ends are those of the second lookup.
Planned(g, p) ==
    LET first == work[g].first
    IN  CASE line.scenario \in {"earliest", "latest"} -> first[p]
          [] line.scenario = "time" -> IF first[p] = -1 THEN log[p].end ELSE first[p]
          [] line.scenario = "current" ->
                IF p \in DOMAIN first THEN first[p] ELSE work[g].committed[p]
          [] OTHER -> Clamped(Requested(g, p), first[p], log[p].end)

\* The rest of plan, with the second lookup where the scenario has one.  A dry
\* run, and an empty plan, are done then.
LookUpSecond(g) ==
    /\ At(g, "second")
    /\ LET plan == [p \in Sets(g) |-> Planned(g, p)]
       IN  IF line.execute /\ plan # NoPlan
           THEN Continue(g, [work[g] EXCEPT !.at = "alter", !.plan = plan])
           ELSE /\ DoneWith(g, {<<g, p, plan[p]>> : p \in DOMAIN plan})
                /\ UNCHANGED <<pc, exit>>
    /\ UNCHANGED <<cluster, moves, line, seen, failed, agreed, written>>

\* (fault) The group is reported although some of its partitions failed.
AlteredAll(g, done) == TRUE

\* No partition of the answer has an error.
Altered(g, done) == done = DOMAIN work[g].plan

\* alter_consumer_group_offsets, which the coordinator refuses for a group with
\* members.  A failed partition ends the loop, with the report of the groups
\* before this one.
Alter(g) ==
    /\ At(g, "alter")
    /\ LET plan == work[g].plan
       IN  \E done \in SUBSET DOMAIN plan :
            /\ group[g] = "Stable" => done = {}
            /\ offset' = [offset EXCEPT ![g] =
                              [p \in Parts |-> IF p \in done THEN plan[p] ELSE @[p]]]
            /\ group' = [group EXCEPT ![g] = IF @ = "Dead" /\ done # {} THEN "Empty" ELSE @]
            /\ written' = written \cup {<<g, p, plan[p]>> : p \in done}
            /\ \/ /\ Altered(g, done)
                  /\ DoneWith(g, {<<g, p, plan[p]>> : p \in DOMAIN plan})
                  /\ UNCHANGED <<pc, exit, failed>>
               \/ /\ ~Altered(g, done)
                  /\ failed' = TRUE
                  /\ Exit("failed") /\ UNCHANGED <<todo, rows, work>>
               \/ Abort /\ UNCHANGED failed
    /\ UNCHANGED <<log, moves, line, seen, agreed>>

\* The report of --describe and of --reset-offsets.
Finish ==
    /\ pc = "groups"
    /\ todo = {}
    /\ Exit(IF failed THEN "failed" ELSE "ok")
    /\ UNCHANGED <<cluster, moves, line, todo, seen, work, rows, failed, agreed, written>>

Ended == pc = "done" /\ UNCHANGED vars

Next ==
    \/ Start \/ Target \/ Describe \/ Prompt \/ Fails \/ SendDelete \/ SendDeleteOffsets
    \/ \E g \in Groups :
          \/ DescribeGroup(g)
          \/ NextGroup(g) \/ ReadCommitted(g) \/ CheckPartitions(g) \/ LookUpFirst(g)
          \/ LookUpSecond(g) \/ Alter(g)
          \/ Join(g) \/ Leave(g) \/ Expire(g)
          \/ \E p \in Parts : Commit(g, p)
    \/ \E p \in Parts : Produce(p) \/ Trim(p)
    \/ Finish \/ Ended

Spec == Init /\ [][Next]_vars
-----------------------------------------------------------------------------
(* Properties                                                              *)

\* Every variable has its type.
TypeOK ==
    /\ \A p \in Parts : 0 <= log[p].start /\ log[p].start <= log[p].end /\ log[p].end <= MaxEnd
    /\ group \in [Groups -> {"Dead", "Empty", "Stable"}]
    /\ offset \in [Groups -> [Parts -> Nat \cup {None}]]
    /\ moves \in 0..MaxMoves
    /\ pc \in {"start", "target", "describe", "prompt", "send", "groups", "done"}
    /\ line \in Lines
    /\ todo \subseteq Groups
    /\ seen \in [Groups -> {"Dead", "Empty", "Stable", "error", None}]
    /\ \A g \in Groups :
          /\ work[g].at \in {"none", "ends", "committed", "valid", "first", "second", "alter"}
          /\ DOMAIN work[g].committed \cup DOMAIN work[g].first \cup DOMAIN work[g].plan
                \subseteq Parts
          /\ work[g].at # "none" => g \in todo
    /\ failed \in BOOLEAN /\ agreed \in BOOLEAN
    /\ exit \in {"ok", "failed", "error", None}

\* A reset keeps to the log, although it reads offsets, starts and ends one after
\* the other while the log grows and is trimmed: no committed offset is ever past
\* the end, and one that was asked for by number (checkOffsetsRange) is not below
\* the start that the command read either.
KeepsToTheLog ==
    /\ TypeOK
    /\ \A g \in Groups, p \in Parts : offset[g][p] # None => offset[g][p] <= log[p].end
    /\ \A g \in Groups :
          work[g].at = "alter" /\ line.scenario \in {"offset", "shift", "file"} =>
              \A p \in DOMAIN work[g].plan : work[g].first[p] <= work[g].plan[p]

\* The report tells the truth.  The table of an executed reset lists only what was
\* written, and, when the command exits 0, all of it: not a partition that the
\* coordinator refused, and not a group that gained members after it was
\* described.  A group or an offset that is reported as deleted is gone, also
\* when the answer leaves out some of those that were asked for.
ReportedIsDone ==
    pc = "done" /\ line.execute =>
        CASE line.action = "reset" -> rows \subseteq written /\ (exit = "ok" => rows = written)
          [] line.action = "delete" -> \A r \in rows : r[3] = "ok" => group[r[1]] = "Dead"
          [] line.action = "deleteOffsets" ->
                \A r \in rows : r[3] = "ok" => offset[r[1]][r[2]] = None
          [] OTHER -> written = {}

\* --describe never shows a negative lag, although the members commit and the
\* producers append between its requests: it reads the offsets first.
LagIsNeverNegative ==
    line.action = "describe" => \A r \in rows : r[3] >= 0

\* What a step of the command may do to a group and to its offset of p.
Permitted(g, p) ==
    pc' # pc \/ work' # work =>
      /\ group'[g] # group[g] \/ offset'[g][p] # offset[g][p] =>
            /\ line.groups = All \/ g \in line.groups
            /\ line.execute
            /\ line.action = "reset" \/ agreed
      /\ offset'[g][p] # offset[g][p] =>
            CASE line.action = "deleteOffsets" -> p \in line.topics
              [] line.action = "reset" /\ line.scenario = "file" ->
                    g \in DOMAIN line.file /\ p \in DOMAIN line.file[g]
              [] line.action = "reset" /\ line.scenario # "file" ->
                    line.topics = All \/ p \in line.topics
              [] OTHER -> line.action = "delete"

\* The command changes a group only as its command line asks: in its scope, never
\* on a dry run or a description, and after a confirmation if it deletes.
ChangesAreAskedFor ==
    [][\A g \in Groups, p \in Parts : Permitted(g, p)]_vars
=============================================================================
