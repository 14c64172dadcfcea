--------------------------- MODULE ConsoleConsumer ---------------------------
(***************************************************************************)
(* console-consumer: runs of the command that share the partitions of one  *)
(* consumer group.  A run polls a batch, keeps it in `buffered`, processes *)
(* one record at a time, and on its way out seeks every partition back to  *)
(* the first record that it polled and did not process, so that the commit *)
(* of the closing consumer leaves that record to the next run.             *)
(*                                                                         *)
(* The consumer (krabka-client-consumer), its group coordinator and stdout *)
(* are external.  The consumer is taken to behave as the code relies on:   *)
(* it commits and gives partitions up only inside poll and close, poll is  *)
(* cancel safe, and the coordinator refuses the commit of a run that it    *)
(* has evicted.                                                            *)
(*                                                                         *)
(* A run awaits at the open, in poll, and in close; it blocks in the write *)
(* to stdout.  The code between two of those is one step.                  *)
(***************************************************************************)
EXTENDS Integers, Sequences, FiniteSets

CONSTANTS Runs,           \* the processes, each of which runs once
          Partitions,     \* the partitions of the topic
          End,            \* partition p holds the offsets 0 .. End[p] - 1
          Unformattable,  \* the records that the formatter fails on
          Lines,          \* Lines[r]: the command lines of run r
          MaxPoll,        \* max.poll.records
          MaxLapses,      \* bound on `lapses`
          None            \* no run, no partition, no record, no plan

Records == UNION {{p} \X (0..(End[p] - 1)) : p \in Partitions}

Offsets == {x[2] : x \in Records}

\* A command line, with the client properties that come with it.
LineType == [partition : Partitions \cup {None},       \* --partition
             offset : Nat,                             \* --offset
             group : {"named", "none"},                \* --group or group.id
             auto : {"unset", "true", "false"},        \* enable.auto.commit
             max : Int,                                \* --max-messages
             timed : BOOLEAN,                          \* --timeout-ms
             skip : BOOLEAN]                           \* --skip-message-on-error

\* What plan() resolves it to.  The source is a partition, the named group that
\* the runs share, or the generated group that a run has for itself.
PlanType == [source : {"group", "own"} \cup Partitions,
             from : Nat,            \* where a run without the group starts
             commits : BOOLEAN,     \* commits the offsets of the named group
             max : Int,             \* -1 without a bound
             timed : BOOLEAN,
             skip : BOOLEAN]

ASSUME GroupIsNoPartition == Partitions \cap {"group", "own"} = {}
ASSUME BoundsAreNaturals == End \in [Partitions -> Nat] /\ MaxLapses \in Nat
ASSUME RecordsAreFinite == IsFiniteSet(Records)
ASSUME LinesAreTyped == \A r \in Runs : Lines[r] \subseteq LineType
ASSUME NoneIsNothing == None \notin Runs \cup Partitions \cup Records \cup PlanType

VARIABLES pc,         \* pc[r]: "new", "open", "process", "write", "close",
                      \* "leave", "ended" or "killed"
          plan,       \* plan[r]: the resolved command line, None before
          cancel,     \* cancel[r]: Ctrl-C has fired the token
          assigned,   \* assigned[r]: the partitions its consumer holds
          position,   \* position[r][p]: where its consumer reads on
          buffered,   \* buffered[r]: polled and not processed
          current,    \* current[r]: the record being written
          count,      \* count[r]
          ending,     \* ending[r]: how the consume loop ended, or the exit
          owner,      \* owner[p]: the run the coordinator gave p to, or None
          committed,  \* committed[p]: the offset of the group
          seen,       \* the records that committing runs processed
          again,      \* those that they processed more than once before a lapse
          missed,     \* those that none of them printed or was told to skip
          lapses      \* evictions of live runs, kills, failed closes, and
                      \* revocations from a run that does not commit

consumer == <<assigned, position>>
group == <<owner, committed>>
history == <<seen, again, missed>>
vars == <<pc, plan, cancel, assigned, position, buffered, current, count, ending,
          owner, committed, seen, again, missed, lapses>>

Init ==
    /\ pc = [r \in Runs |-> "new"]
    /\ plan = [r \in Runs |-> None]
    /\ cancel = [r \in Runs |-> FALSE]
    /\ assigned = [r \in Runs |-> {}]
    /\ position = [r \in Runs |-> [p \in Partitions |-> 0]]
    /\ buffered = [r \in Runs |-> <<>>]
    /\ current = [r \in Runs |-> None]
    /\ count = [r \in Runs |-> 0]
    /\ ending = [r \in Runs |-> "none"]
    /\ owner = [p \in Partitions |-> None]
    /\ committed = [p \in Partitions |-> 0]
    /\ seen = {}
    /\ again = {}
    /\ missed = {}
    /\ lapses = 0

Live(r) == pc[r] \notin {"new", "ended", "killed"}

Goto(r, l) == pc' = [pc EXCEPT ![r] = l]

\* The consume loop returns `e`; close is next.
EndWith(r, e) == Goto(r, "close") /\ ending' = [ending EXCEPT ![r] = e]

\* The process is gone, and its memory with it.
Gone(r, l) ==
    /\ Goto(r, l)
    /\ plan' = [plan EXCEPT ![r] = None]
    /\ assigned' = [assigned EXCEPT ![r] = {}]
    /\ position' = [position EXCEPT ![r] = [p \in Partitions |-> 0]]
    /\ buffered' = [buffered EXCEPT ![r] = <<>>]
    /\ current' = [current EXCEPT ![r] = None]
    /\ count' = [count EXCEPT ![r] = 0]
    /\ cancel' = [cancel EXCEPT ![r] = FALSE]

\* The command returns without a stream to close.
ExitWith(r, e) ==
    /\ Goto(r, "ended")
    /\ ending' = [ending EXCEPT ![r] = e]
    /\ plan' = [plan EXCEPT ![r] = None]

-----------------------------------------------------------------------------
(* Start and open                                                          *)

\* plan(): a group does not go with --partition.
Refused(line) == line.group = "named" /\ line.partition # None

\* plan() with consumer_properties.  A generated group commits only when asked
\* to, and then to offsets that no other run reads.
PlanOf(line) ==
    [source |-> CASE line.partition # None -> line.partition
                  [] line.partition = None /\ line.group = "named" -> "group"
                  [] line.partition = None /\ line.group = "none" -> "own",
     from |-> line.offset,
     commits |-> line.group = "named" /\ line.auto # "false",
     max |-> line.max, timed |-> line.timed, skip |-> line.skip]

\* A checked command line, or a refusal: of the line, or of a property.
Start(r) ==
    /\ pc[r] = "new"
    /\ \E line \in Lines[r] :
          \/ Refused(line) /\ ExitWith(r, "usage")
          \/ ~Refused(line) /\ ExitWith(r, "failed")
          \/ /\ ~Refused(line)
             /\ plan' = [plan EXCEPT ![r] = PlanOf(line)]
             /\ Goto(r, "open") /\ UNCHANGED ending
    /\ UNCHANGED <<cancel, consumer, buffered, current, count, group, history, lapses>>

\* Stream::open.  A member of the group has no partition yet; --partition assigns
\* its own and seeks; a generated group gives its only member all of them.
Open(r) ==
    /\ pc[r] = "open"
    /\ Goto(r, "process")
    /\ LET alone == CASE plan[r].source = "group" -> {}
                      [] plan[r].source = "own" -> Partitions
                      [] OTHER -> {plan[r].source}
       IN  /\ assigned' = [assigned EXCEPT ![r] = alone]
           /\ position' = [position EXCEPT ![r] =
                  [p \in Partitions |-> IF p \in alone THEN plan[r].from ELSE 0]]
    /\ UNCHANGED <<plan, cancel, buffered, current, count, ending, group, history, lapses>>

OpenFails(r) ==
    /\ pc[r] = "open"
    /\ \/ ExitWith(r, "failed")
       \/ cancel[r] /\ ExitWith(r, "cancelled")
    /\ UNCHANGED <<cancel, consumer, buffered, current, count, group, history, lapses>>

\* Ctrl-C.
Interrupt(r) ==
    /\ Live(r)
    /\ ~cancel[r]
    /\ cancel' = [cancel EXCEPT ![r] = TRUE]
    /\ UNCHANGED <<pc, plan, consumer, buffered, current, count, ending, group, history, lapses>>

-----------------------------------------------------------------------------
(* The consume loop                                                        *)

\* (fault) One record too many.
AtBoundLate(r) == plan[r].max # -1 /\ (plan[r].max < 0 \/ count[r] > plan[r].max)

\* The test at the head of process: a bound below -1 is no u64 and stops at once.
AtBound(r) == plan[r].max # -1 /\ (plan[r].max < 0 \/ count[r] >= plan[r].max)

Bounded(r) ==
    /\ pc[r] = "process"
    /\ AtBound(r)
    /\ EndWith(r, "done")
    /\ UNCHANGED <<plan, cancel, consumer, buffered, current, count, group, history, lapses>>

\* receive finds a buffered record; Ctrl-C and the timeout are not looked at.
Pop(r) ==
    /\ pc[r] = "process"
    /\ ~AtBound(r)
    /\ buffered[r] # <<>>
    /\ LET record == Head(buffered[r])
           counts == plan[r].commits
       IN  /\ current' = [current EXCEPT ![r] = record]
           /\ seen' = IF counts THEN seen \cup {record} ELSE seen
           /\ again' = IF counts /\ record \in seen /\ lapses = 0 THEN again \cup {record} ELSE again
    /\ buffered' = [buffered EXCEPT ![r] = Tail(@)]
    /\ count' = [count EXCEPT ![r] = @ + 1]
    /\ Goto(r, "write")
    /\ UNCHANGED <<plan, cancel, consumer, ending, group, missed, lapses>>

Missed(r) == IF plan[r].commits THEN missed \cup {current[r]} ELSE missed

\* render, and the write to stdout, which fails when its reader is gone.
Write(r) ==
    /\ pc[r] = "write"
    /\ \/ /\ current[r] \notin Unformattable
          /\ missed' = missed \ {current[r]}
          /\ Goto(r, "process") /\ UNCHANGED ending
       \/ /\ current[r] \notin Unformattable
          /\ EndWith(r, "done")
          /\ missed' = Missed(r)
       \/ /\ current[r] \in Unformattable
          /\ plan[r].skip
          /\ Goto(r, "process") /\ UNCHANGED <<ending, missed>>
       \/ /\ current[r] \in Unformattable
          /\ ~plan[r].skip
          /\ EndWith(r, "failed")
          /\ missed' = Missed(r)
    /\ current' = [current EXCEPT ![r] = None]
    /\ UNCHANGED <<plan, cancel, consumer, buffered, count, group, seen, again, lapses>>

\* receive waits in poll: the buffer is empty.
Polling(r) == pc[r] = "process" /\ ~AtBound(r) /\ buffered[r] = <<>>

\* The records that a poll can return when it reads p up to upto[p].
Between(from, upto) ==
    UNION {{p} \X {o \in Offsets : from[p] <= o /\ o < upto[p]} : p \in DOMAIN upto}

\* Those records in an order that keeps the order of every partition.
Batches(records) ==
    {s \in [1..Cardinality(records) -> records] :
        /\ \A x \in records : \E i \in DOMAIN s : s[i] = x
        /\ \A i, j \in DOMAIN s : i < j /\ s[i][1] = s[j][1] => s[i][2] < s[j][2]}

Poll(r) ==
    /\ Polling(r)
    /\ \E upto \in [assigned[r] -> {o + 1 : o \in Offsets} \cup {0}] :
          LET records == Between(position[r], upto)
          IN  /\ \A p \in assigned[r] : upto[p] \in position[r][p]..End[p]
              /\ records # {}
              /\ Cardinality(records) <= MaxPoll
              /\ buffered' \in {[buffered EXCEPT ![r] = s] : s \in Batches(records)}
              /\ position' = [position EXCEPT ![r] =
                     [p \in Partitions |-> IF p \in assigned[r] THEN upto[p] ELSE @[p]]]
    /\ UNCHANGED <<pc, plan, cancel, assigned, current, count, ending, group, history, lapses>>

\* (fault) Every slice of the poll starts the clock again.
TimeoutNever(r) == FALSE

\* --timeout-ms went by without a record.
Timeout(r) == Polling(r) /\ plan[r].timed /\ EndWith(r, "done")

\* (fault) The token is not looked at in the wait.
CancelIgnored(r) == FALSE

CancelSeen(r) == Polling(r) /\ cancel[r] /\ EndWith(r, "cancelled")

PollFails(r) == Polling(r) /\ EndWith(r, "failed")

Stop(r) ==
    /\ Timeout(r) \/ CancelSeen(r) \/ PollFails(r)
    /\ UNCHANGED <<plan, cancel, consumer, buffered, current, count, group, history, lapses>>

-----------------------------------------------------------------------------
(* The group, inside poll                                                  *)

\* The offsets of the group after r commits its positions of ps: the
\* coordinator takes those of the partitions that it gave to r.
Committed(r, ps) ==
    [p \in Partitions |-> IF plan[r].commits /\ p \in ps /\ owner[p] = r
                          THEN position[r][p] ELSE committed[p]]

\* auto.commit.interval.ms went by.
AutoCommit(r) ==
    /\ Polling(r)
    /\ committed' = Committed(r, assigned[r])
    /\ UNCHANGED <<pc, plan, cancel, consumer, buffered, current, count, ending, owner,
                   history, lapses>>

\* A rebalance gives p to r, which reads on from the offset of the group.
Assign(r, p) ==
    /\ Polling(r)
    /\ plan[r].source = "group"
    /\ owner[p] = None
    /\ p \notin assigned[r]
    /\ owner' = [owner EXCEPT ![p] = r]
    /\ assigned' = [assigned EXCEPT ![r] = @ \cup {p}]
    /\ position' = [position EXCEPT ![r][p] = committed[p]]
    /\ UNCHANGED <<pc, plan, cancel, buffered, current, count, ending, committed, history, lapses>>

\* A lapse is what makes a run lose its place in the group.
Lapse == lapses < MaxLapses /\ lapses' = lapses + 1

\* A rebalance takes p from r, which commits first.
Revoke(r, p) ==
    /\ Polling(r)
    /\ owner[p] = r
    /\ p \in assigned[r]
    /\ committed' = Committed(r, {p})
    /\ owner' = [owner EXCEPT ![p] = None]
    /\ assigned' = [assigned EXCEPT ![r] = @ \ {p}]
    /\ IF plan[r].commits THEN UNCHANGED lapses ELSE Lapse
    /\ UNCHANGED <<pc, plan, cancel, position, buffered, current, count, ending, history>>

\* The session of r, or its max.poll.interval.ms while stdout blocks, runs out.
\* The run learns of it later, in Lose.
Evict(r) ==
    /\ \E p \in Partitions : owner[p] = r
    /\ owner' = [p \in Partitions |-> IF owner[p] = r THEN None ELSE owner[p]]
    /\ IF Live(r) THEN Lapse ELSE UNCHANGED lapses
    /\ UNCHANGED <<pc, plan, cancel, consumer, buffered, current, count, ending, committed, history>>

\* The consumer drops the partitions that it no longer owns.
Lose(r) ==
    /\ Live(r)
    /\ plan[r].source = "group"
    /\ assigned' = [assigned EXCEPT ![r] = {p \in @ : owner[p] = r}]
    /\ assigned' # assigned
    /\ UNCHANGED <<pc, plan, cancel, position, buffered, current, count, ending, group, history, lapses>>

-----------------------------------------------------------------------------
(* Close                                                                   *)

\* (fault) Nothing is sought back.
UnconsumedNone(records) == <<>>

\* (fault) The record before the first unconsumed one.
UnconsumedOneBefore(records) ==
    [p \in {records[i][1] : i \in DOMAIN records} |->
        LET first == CHOOSE i \in DOMAIN records :
                        /\ records[i][1] = p
                        /\ \A j \in 1..(i - 1) : records[j][1] # p
        IN  IF records[first][2] = 0 THEN 0 ELSE records[first][2] - 1]

\* unconsumed: for each partition of the records, the offset of the first one.
Unconsumed(records) ==
    [p \in {records[i][1] : i \in DOMAIN records} |->
        LET first == CHOOSE i \in DOMAIN records :
                        /\ records[i][1] = p
                        /\ \A j \in 1..(i - 1) : records[j][1] # p
        IN  records[first][2]]

\* The first half of Stream::close.  A seek of a partition that the consumer
\* has lost fails, and is logged.
SeekBack(r) ==
    /\ pc[r] = "close"
    /\ LET back == Unconsumed(buffered[r])
       IN  position' = [position EXCEPT ![r] =
               [p \in Partitions |-> IF p \in DOMAIN back \cap assigned[r] THEN back[p] ELSE @[p]]]
    /\ Goto(r, "leave")
    /\ UNCHANGED <<plan, cancel, assigned, buffered, current, count, ending, group, history, lapses>>

\* consumer.close(): commits and leaves the group.
Leave(r) ==
    /\ pc[r] = "leave"
    /\ committed' = Committed(r, assigned[r])
    /\ owner' = [p \in Partitions |-> IF owner[p] = r THEN None ELSE owner[p]]
    /\ Gone(r, "ended")
    /\ UNCHANGED <<ending, history, lapses>>

\* The close fails, which is logged.
LeaveFails(r) ==
    /\ pc[r] = "leave"
    /\ Lapse
    /\ Gone(r, "ended")
    /\ UNCHANGED <<ending, group, history>>

\* The process dies.
Kill(r) ==
    /\ Live(r)
    /\ Lapse
    /\ Gone(r, "killed")
    /\ ending' = [ending EXCEPT ![r] = "none"]
    /\ UNCHANGED <<group, history>>

-----------------------------------------------------------------------------

Step(r) ==
    \/ Start(r) \/ Open(r) \/ OpenFails(r)
    \/ Bounded(r) \/ Pop(r) \/ Write(r) \/ Poll(r) \/ Stop(r)
    \/ SeekBack(r) \/ Leave(r) \/ LeaveFails(r)

Next ==
    \/ \E r \in Runs :
          \/ Step(r)
          \/ Interrupt(r) \/ AutoCommit(r) \/ Evict(r) \/ Lose(r) \/ Kill(r)
          \/ \E p \in Partitions : Assign(r, p) \/ Revoke(r, p)
    \/ /\ \A r \in Runs : pc[r] \in {"ended", "killed"}
       /\ UNCHANGED vars

Spec == Init /\ [][Next]_vars

\* What a run does by itself: it goes on where it can, and in a wait it notices
\* the two events that end it.
Proceeds(r) ==
    \/ Open(r) \/ OpenFails(r) \/ Bounded(r) \/ Pop(r) \/ Write(r) \/ SeekBack(r) \/ Leave(r)
    \/ (Timeout(r) \/ CancelSeen(r)) /\ Stop(r)

Fairness == \A r \in Runs : WF_vars(Proceeds(r))

FairSpec == Spec /\ Fairness
-----------------------------------------------------------------------------
(* Properties                                                              *)

\* Every variable has its type, the offset of the group is one of the partition,
\* and a bounded run never processes more than its bound.
TypeOK ==
    /\ pc \in [Runs -> {"new", "open", "process", "write", "close", "leave", "ended", "killed"}]
    /\ plan \in [Runs -> PlanType \cup {None}]
    /\ cancel \in [Runs -> BOOLEAN]
    /\ assigned \in [Runs -> SUBSET Partitions]
    /\ position \in [Runs -> [Partitions -> Nat]]
    /\ buffered \in [Runs -> Seq(Records)]
    /\ current \in [Runs -> Records \cup {None}]
    /\ count \in [Runs -> Nat]
    /\ ending \in [Runs -> {"none", "usage", "failed", "cancelled", "done"}]
    /\ owner \in [Partitions -> Runs \cup {None}]
    /\ committed \in [Partitions -> Nat]
    /\ \A p \in Partitions : committed[p] <= End[p]
    /\ seen \subseteq Records /\ again \subseteq seen /\ missed \subseteq seen
    /\ lapses \in 0..MaxLapses
    /\ \A r \in Runs : plan[r] # None /\ plan[r].max >= 0 => count[r] <= plan[r].max

\* The commit of the group never passes a record that no run has processed:
\* what a run polled and did not get to is given back by the seeks of close,
\* whether it ends by its bound, a timeout, Ctrl-C, a failure or a closed
\* stdout, and a run that is killed or evicted commits nothing it has buffered.
CommitsOnlyProcessed ==
    /\ TypeOK
    /\ \A p \in Partitions, o \in Offsets : o < committed[p] => <<p, o>> \in seen

\* As long as no run is killed, evicted or fails to close, no record is
\* processed twice by the committing runs of the group, however the partitions
\* go from one to the other.
NoneTwice == again = {}

\* The offset of a partition never moves back, not by the seeks of close and not
\* by a run that was evicted and still holds old positions.
CommitsMoveForward ==
    [][\A p \in Partitions : committed'[p] >= committed[p]]_vars

\* Ctrl-C ends a run, whatever it is doing: a run that has records buffered
\* processes them first, one that waits notices at once.  A run with
\* --timeout-ms ends by itself once the records have run out.
RunsEnd ==
    \A r \in Runs :
        (cancel[r] \/ (Live(r) /\ plan[r].timed)) ~> pc[r] \in {"ended", "killed"}

\* What tests/console.rs says of a named group: it "commits only what was
\* printed".
CommitsOnlyPrinted ==
    \A p \in Partitions, o \in Offsets : o < committed[p] => <<p, o>> \notin missed
=============================================================================
