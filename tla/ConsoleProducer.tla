--------------------------- MODULE ConsoleProducer ---------------------------
(***************************************************************************)
(* console-producer: reads chunks of stdin, turns every line into a record *)
(* and hands it to the producer.  With --sync each delivery is awaited in  *)
(* the loop; without it each one is awaited by a task of its own, and the  *)
(* tasks are joined after the producer is closed.                          *)
(*                                                                         *)
(* The producer (krabka-client-producer) and stdin are external: a record  *)
(* that the producer accepted is acknowledged or fails, a record that it   *)
(* reports as failed may have been written all the same, and close waits   *)
(* for all of them or gives up and fails the rest.                         *)
(*                                                                         *)
(* Every await is the end of a step.  Ctrl-C is seen at the start, in the  *)
(* read and in the enqueue, and nowhere else.                              *)
(***************************************************************************)
EXTENDS Naturals, FiniteSets

CONSTANTS N,           \* the lines of stdin before its end
          Malformed,   \* the lines that LineReader::record may refuse
          SyncModes    \* the values of --sync

Lines == 1..N

ASSUME SizesAreTyped == N \in Nat /\ Malformed \subseteq Lines /\ SyncModes \subseteq BOOLEAN

VARIABLES pc,        \* "start", "read", "lines", "enqueue", "deliver", "close",
                     \* "join" or "ended"
          sync,      \* --sync
          cancel,    \* Ctrl-C has fired the token
          read,      \* the lines read from stdin
          line,      \* the lines taken from the chunks
          record,    \* record[i]: "none", "queued", "acked", "lost" or "refused"
          tasks,     \* `pending`: the records whose task is not done
          counted,   \* the records that delivered() has counted
          sent,      \* counts.sent
          failed,    \* counts.failed
          failure,   \* "none" or what the run failed by
          cancelled, \* the flag that Ctrl-C sets in the loop
          written,   \* the records in the topic
          exit       \* "none" or the exit of the command

vars == <<pc, sync, cancel, read, line, record, tasks, counted, sent, failed,
          failure, cancelled, written, exit>>

input == <<read, line>>
counts == <<counted, sent, failed>>
producer == <<record, written>>

Init ==
    /\ pc = "start"
    /\ sync \in SyncModes
    /\ cancel = FALSE
    /\ read = 0
    /\ line = 0
    /\ record = [i \in Lines |-> "none"]
    /\ tasks = {}
    /\ counted = {}
    /\ sent = 0
    /\ failed = 0
    /\ failure = "none"
    /\ cancelled = FALSE
    /\ written = {}
    /\ exit = "none"

-----------------------------------------------------------------------------
(* The producer                                                            *)

\* An accepted record is acknowledged, or fails and may be in the topic.
Resolve(i) ==
    /\ record[i] = "queued"
    /\ \/ /\ record' = [record EXCEPT ![i] = "acked"]
          /\ written' = written \cup {i}
       \/ /\ record' = [record EXCEPT ![i] = "lost"]
          /\ written' \in {written, written \cup {i}}
    /\ UNCHANGED <<pc, sync, cancel, input, tasks, counts, failure, cancelled, exit>>

Interrupt ==
    /\ pc # "ended"
    /\ ~cancel
    /\ cancel' = TRUE
    /\ UNCHANGED <<pc, sync, input, producer, tasks, counts, failure, cancelled, exit>>

-----------------------------------------------------------------------------
(* The command                                                             *)

\* Settings::from_properties, client_options and the build of the producer.
Start ==
    /\ pc = "start"
    /\ \/ pc' = "read" /\ UNCHANGED exit
       \/ pc' = "ended" /\ exit' = "failure"
       \/ cancel /\ pc' = "ended" /\ exit' = "cancelled"
    /\ UNCHANGED <<sync, cancel, input, producer, tasks, counts, failure, cancelled>>

\* read_until: a chunk of one or more lines.
ReadChunk ==
    /\ pc = "read"
    /\ \E upto \in (read + 1)..N : read' = upto
    /\ pc' = "lines"
    /\ UNCHANGED <<sync, cancel, line, producer, tasks, counts, failure, cancelled, exit>>

\* (fault) An empty read is read again.
ReadEndRepeats == pc = "read" /\ read = N /\ UNCHANGED vars

\* The end of stdin.
ReadEnd ==
    /\ pc = "read"
    /\ read = N
    /\ pc' = "close"
    /\ UNCHANGED <<sync, cancel, input, producer, tasks, counts, failure, cancelled, exit>>

ReadFails ==
    /\ pc = "read"
    /\ pc' = "close"
    /\ failure' = "read"
    /\ UNCHANGED <<sync, cancel, input, producer, tasks, counts, cancelled, exit>>

ReadCancelled ==
    /\ pc = "read"
    /\ cancel
    /\ pc' = "close"
    /\ cancelled' = TRUE
    /\ UNCHANGED <<sync, cancel, input, producer, tasks, counts, failure, exit>>

\* The next line of the chunk: a line that is no record ends the loop.
Take ==
    /\ pc = "lines"
    /\ IF line = read
       THEN pc' = "read" /\ UNCHANGED <<line, failure>>
       ELSE /\ line' = line + 1
            /\ \/ line' \in Malformed /\ pc' = "close" /\ failure' = "line"
               \/ pc' = "enqueue" /\ UNCHANGED failure
    /\ UNCHANGED <<sync, cancel, read, producer, tasks, counts, cancelled, exit>>

\* (fault) The refusal of the producer is dropped.
EnqueueIgnoresRefusal ==
    /\ pc = "enqueue"
    /\ \E verdict \in {"queued", "refused"} :
          /\ record' = [record EXCEPT ![line] = verdict]
          /\ IF verdict = "refused" THEN pc' = "lines" /\ UNCHANGED tasks
             ELSE IF sync THEN pc' = "deliver" /\ UNCHANGED tasks
                          ELSE pc' = "lines" /\ tasks' = tasks \cup {line}
    /\ UNCHANGED <<sync, cancel, input, counts, failure, cancelled, written, exit>>

\* enqueue: the producer takes the record or refuses it (max.block.ms, its size).
Enqueue ==
    /\ pc = "enqueue"
    /\ \E verdict \in {"queued", "refused"} : record' = [record EXCEPT ![line] = verdict]
    /\ IF sync THEN pc' = "deliver" /\ UNCHANGED tasks
               ELSE pc' = "lines" /\ tasks' = tasks \cup {line}
    /\ UNCHANGED <<sync, cancel, input, counts, failure, cancelled, written, exit>>

\* Ctrl-C in the enqueue: the record may be with the producer or not.
EnqueueCancelled ==
    /\ pc = "enqueue"
    /\ cancel
    /\ \E verdict \in {"queued", "none"} : record' = [record EXCEPT ![line] = verdict]
    /\ pc' = "close"
    /\ cancelled' = TRUE
    /\ UNCHANGED <<sync, cancel, input, tasks, counts, failure, written, exit>>

\* The outcome of the send is there: the delivery's, or the enqueue's error.
Resolved(i) == record[i] \in {"acked", "lost", "refused"}

\* delivered(): counts the outcome of one send.
Count(i) ==
    /\ counted' = counted \cup {i}
    /\ IF record[i] = "acked" THEN sent' = sent + 1 /\ UNCHANGED failed
                              ELSE failed' = failed + 1 /\ UNCHANGED sent

\* (fault) --sync goes on after a failed send.
DeliverGoesOn ==
    /\ pc = "deliver"
    /\ Resolved(line)
    /\ Count(line)
    /\ pc' = "lines"
    /\ UNCHANGED <<sync, cancel, input, producer, tasks, failure, cancelled, exit>>

\* --sync: the delivery is awaited in the loop, and a failure ends it.
Deliver ==
    /\ pc = "deliver"
    /\ Resolved(line)
    /\ Count(line)
    /\ IF record[line] = "acked"
       THEN pc' = "lines" /\ UNCHANGED failure
       ELSE pc' = "close" /\ failure' = "delivery"
    /\ UNCHANGED <<sync, cancel, input, producer, tasks, cancelled, exit>>

\* (fault) The finished task stays in the set.
TaskStays(i) ==
    /\ i \in tasks
    /\ Resolved(i)
    /\ Count(i)
    /\ UNCHANGED <<pc, sync, cancel, input, producer, tasks, failure, cancelled, exit>>

\* The task of a delivery: it counts, and logs a failure.
Task(i) ==
    /\ i \in tasks
    /\ Resolved(i)
    /\ Count(i)
    /\ tasks' = tasks \ {i}
    /\ UNCHANGED <<pc, sync, cancel, input, producer, failure, cancelled, exit>>

\* producer.close(): flushes what it has, or gives up on it.
Close ==
    /\ pc = "close"
    /\ \/ /\ \A i \in Lines : record[i] # "queued"
          /\ UNCHANGED <<record, failure>>
       \/ /\ record' = [i \in Lines |-> IF record[i] = "queued" THEN "lost" ELSE record[i]]
          /\ failure' = IF failure = "none" THEN "close" ELSE failure
    /\ pc' = "join"
    /\ UNCHANGED <<sync, cancel, input, tasks, counts, cancelled, written, exit>>

\* (fault) The tasks are not waited for.
JoinedAtOnce == TRUE

\* pending.join_next() has returned None.
Joined == tasks = {}

\* The exit, in the order that produce() decides it.
Outcome ==
    CASE failure # "none" -> "failure"
      [] failure = "none" /\ cancelled -> "cancelled"
      [] failure = "none" /\ ~cancelled /\ failed > 0 -> "failure"
      [] OTHER -> "success"

Exit ==
    /\ pc = "join"
    /\ Joined
    /\ exit' = Outcome
    /\ pc' = "ended"
    /\ UNCHANGED <<sync, cancel, input, producer, tasks, counts, failure, cancelled>>

\* The command has ended.
Ended == pc = "ended" /\ UNCHANGED vars

Next ==
    \/ Start \/ ReadChunk \/ ReadEnd \/ ReadFails \/ ReadCancelled \/ Take
    \/ Enqueue \/ EnqueueCancelled \/ Deliver \/ Close \/ Exit
    \/ \E i \in Lines : Resolve(i) \/ Task(i)
    \/ Interrupt \/ Ended

Spec == Init /\ [][Next]_vars

\* The command goes on when it can, the tasks run, and the producer resolves
\* every delivery within delivery.timeout.ms.  Nothing makes stdin produce a
\* line or end.
Fairness ==
    /\ WF_vars(Start) /\ WF_vars(Take) /\ WF_vars(Enqueue) /\ WF_vars(Deliver)
    /\ WF_vars(Close) /\ WF_vars(Exit)
    /\ WF_vars(ReadEnd) /\ WF_vars(ReadCancelled)
    /\ \A i \in Lines : WF_vars(Resolve(i)) /\ WF_vars(Task(i))

FairSpec == Spec /\ Fairness

-----------------------------------------------------------------------------
(* Properties                                                              *)

\* Every variable has its type; a task is one of a record that the producer was
\* handed and that was not counted yet.
TypeOK ==
    /\ pc \in {"start", "read", "lines", "enqueue", "deliver", "close", "join", "ended"}
    /\ sync \in BOOLEAN /\ cancel \in BOOLEAN /\ cancelled \in BOOLEAN
    /\ read \in 0..N /\ line \in 0..read
    /\ record \in [Lines -> {"none", "queued", "acked", "lost", "refused"}]
    /\ tasks \subseteq {i \in Lines : record[i] # "none"} \ counted
    /\ counted \subseteq Lines
    /\ sent \in Nat /\ failed \in Nat
    /\ failure \in {"none", "read", "line", "delivery", "close"}
    /\ written \subseteq Lines
    /\ exit \in {"none", "failure", "cancelled", "success"}

\* The report adds up: when the command ends without a failure of its own, every
\* record that it handed over and was not interrupted in is counted once.
ReportAddsUp ==
    pc = "ended" /\ failure = "none" /\ exit \in {"success", "failure"} /\ line > 0
        => sent + failed = line

\* Exit 0 means that stdin was read to its end and that every line of it is in
\* the topic: a malformed line, a failed or refused send, a failed close and
\* Ctrl-C all keep the command from it, and no task is left behind or counted
\* twice.
SuccessMeansWritten ==
    /\ TypeOK /\ ReportAddsUp
    /\ exit = "success" => read = N /\ line = N /\ Lines \subseteq written

\* With --sync a record is handed over only when all lines before it are in the
\* topic, so a run that ends early has written a prefix of its input.
SyncWritesInOrder ==
    sync => \A i, j \in Lines : i < j /\ record[j] # "none" => record[i] = "acked"

\* Once Ctrl-C arrives, or stdin has been read to its end, the command ends.
RunEnds == (cancel \/ read = N) ~> pc = "ended"
=============================================================================
