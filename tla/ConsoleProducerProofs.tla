------------------------ MODULE ConsoleProducerProofs -----------------------
(***************************************************************************)
(* That exit code 0 of console-producer means that all of stdin is in the  *)
(* topic, and that --sync writes a prefix, for an input of any length.     *)
(***************************************************************************)
EXTENDS ConsoleProducer, FiniteSetTheorems, TLAPS

\* The provers of a step that names none, and the seconds each has.
USE ZenonT(10), SMTT(20)

\* The line was handed over and its outcome is counted or has a task for it.
Accounted(i) == i \in tasks \cup counted

\* Nothing ended the loop early.
AllRead == failure = "none" /\ ~cancelled

LoopInv ==
    /\ pc = "start" => line = 0
    /\ pc \in {"start", "read"} => line = read
    /\ pc \in {"start", "read", "lines"} => \A i \in 1..line : Accounted(i)
    /\ pc \in {"enqueue", "deliver"} =>
         /\ line > 0 /\ ~Accounted(line)
         /\ \A i \in 1..(line - 1) : Accounted(i)
    /\ pc = "deliver" => sync /\ record[line] # "none"
    /\ pc \in {"start", "read", "lines", "enqueue", "deliver"} => AllRead
    /\ pc \in {"close", "join"} /\ AllRead => line = read /\ read = N /\ \A i \in Lines : Accounted(i)

\* What is ahead of the loop was not handed over.
AheadInv ==
    \A i \in Lines : i > line \/ (i = line /\ pc = "enqueue") => record[i] = "none" /\ ~Accounted(i)

CountInv ==
    /\ sent + failed = Cardinality(counted)
    /\ \A i \in counted : Resolved(i)
    /\ failed = 0 => \A i \in counted : record[i] = "acked"
    /\ \A i \in Lines : record[i] = "acked" => i \in written

EndInv ==
    /\ pc # "ended" => exit = "none"
    /\ pc \in {"start", "ended"} => tasks = {}
    /\ pc = "ended" /\ line > 0 /\ exit \in {"success", "failure"} /\ failure = "none" => ~cancelled
    /\ exit = "success" => AllRead /\ failed = 0
    /\ pc = "ended" /\ AllRead /\ line > 0 =>
         line = N /\ read = N /\ \A i \in Lines : i \in counted
    /\ exit = "success" => line = N /\ read = N /\ \A i \in Lines : i \in counted

SyncInv ==
    sync =>
      /\ tasks = {}
      /\ pc \in {"start", "read", "lines"} => \A i \in 1..line : record[i] = "acked"
      /\ \A i, j \in Lines : i < j /\ j <= line /\ (record[j] # "none" \/ pc = "enqueue")
            => record[i] = "acked"

Inv == TypeOK /\ LoopInv /\ AheadInv /\ CountInv /\ EndInv /\ SyncInv

LEMMA CountedIsFinite ==
    ASSUME TypeOK
    PROVE  IsFiniteSet(counted) /\ Cardinality(counted) \in Nat
<1>1. IsFiniteSet(Lines)
  BY SMTT(20), SizesAreTyped, FS_Interval DEF Lines
<1> QED
  BY <1>1, FS_Subset, FS_CardinalityType DEF TypeOK

LEMMA InitInv == Init => Inv
<1> SUFFICES ASSUME Init PROVE Inv
  OBVIOUS
<1>1. Cardinality(counted) = 0
  BY FS_EmptySet DEF Init
<1>2. TypeOK
  <2>1. sync \in BOOLEAN /\ read \in 0..N /\ line \in 0..read
    BY SMTT(20), SizesAreTyped DEF Init
  <2> QED
    BY <2>1 DEF Init, TypeOK
<1> QED
  BY SMTT(20), <1>1, <1>2, SizesAreTyped
  DEF Init, Inv, LoopInv, AheadInv, CountInv, EndInv, SyncInv, Accounted, AllRead, Lines, Resolved

\* A resolved record stays as it is: the steps of the loop and the producer do
\* not touch it.
LEMMA NextInv == Inv /\ [Next]_vars => Inv'
<1> SUFFICES ASSUME Inv, [Next]_vars PROVE Inv'
  OBVIOUS
<1> USE SizesAreTyped DEF Lines, input, counts, producer
<1>1. CASE Start
  BY SMTT(20), <1>1 DEF Start, Inv, TypeOK, LoopInv, AheadInv, CountInv, EndInv, SyncInv, Accounted, AllRead,
              Resolved
<1>2. CASE ReadChunk
  BY SMTT(20), <1>2 DEF ReadChunk, Inv, TypeOK, LoopInv, AheadInv, CountInv, EndInv, SyncInv, Accounted,
              AllRead, Resolved
<1>3. CASE ReadEnd
  BY <1>3 DEF ReadEnd, Inv, TypeOK, LoopInv, AheadInv, CountInv, EndInv, SyncInv, Accounted,
              AllRead, Resolved
<1>4. CASE ReadFails \/ ReadCancelled
  <2>1. /\ pc = "read" /\ pc' = "close" /\ (failure' = "read" \/ cancelled')
        /\ UNCHANGED <<sync, cancel, read, line, record, tasks, counted, sent, failed, written,
                       exit>>
    BY <1>4 DEF ReadFails, ReadCancelled
  <2>2. failure' \in {"read", failure} /\ cancelled' \in BOOLEAN
    BY <1>4 DEF ReadFails, ReadCancelled, Inv, TypeOK
  <2>3. TypeOK'
    BY <2>1, <2>2 DEF Inv, TypeOK
  <2> QED
    BY <2>1, <2>2, <2>3
    DEF Inv, LoopInv, AheadInv, CountInv, EndInv, SyncInv, Accounted, AllRead, Resolved
<1>5. CASE Take
  <2>1. TypeOK'
    BY SMTT(20), <1>5 DEF Take, Inv, TypeOK
  <2>2. LoopInv' /\ AheadInv'
    BY SMTT(20), <1>5 DEF Take, Inv, TypeOK, LoopInv, AheadInv, Accounted, AllRead
  <2>3. CountInv' /\ EndInv'
    BY <1>5 DEF Take, Inv, TypeOK, CountInv, EndInv, AllRead, Resolved
  <2>4. SyncInv'
    BY SMTT(20), <1>5 DEF Take, Inv, TypeOK, SyncInv
  <2> QED
    BY <2>1, <2>2, <2>3, <2>4 DEF Inv
<1>6. CASE Enqueue \/ EnqueueCancelled
  <2>0. pc = "enqueue" /\ line \in Lines /\ record[line] = "none" /\ ~Accounted(line)
    BY SMTT(20), <1>6 DEF Enqueue, EnqueueCancelled, Inv, TypeOK, LoopInv, AheadInv
  <2>5. /\ record' \in [Lines -> {"none", "queued", "acked", "lost", "refused"}]
        /\ \A i \in Lines : i # line => record'[i] = record[i]
        /\ UNCHANGED <<sync, cancel, read, line, counted, sent, failed, failure, written, exit>>
        /\ tasks' = tasks \/ (~sync /\ tasks' = tasks \cup {line} /\ record'[line] # "none")
        /\ pc' \in {"deliver", "lines", "close"} /\ (sync => pc' # "lines")
    BY <1>6, <2>0 DEF Enqueue, EnqueueCancelled, Inv, TypeOK
  <2>6. cancelled' \in BOOLEAN
    BY <1>6 DEF Enqueue, EnqueueCancelled, Inv, TypeOK
  <2>7. tasks' \subseteq {i \in Lines : record'[i] # "none"} \ counted'
    BY <2>0, <2>5 DEF Inv, TypeOK, Accounted
  <2>1. TypeOK'
    BY <2>5, <2>6, <2>7 DEF Inv, TypeOK
  <2>2. LoopInv' /\ AheadInv'
    BY SMTT(20), <1>6, <2>0
    DEF Enqueue, EnqueueCancelled, Inv, TypeOK, LoopInv, AheadInv, Accounted, AllRead
  <2>3. CountInv' /\ EndInv'
    BY <1>6, <2>0
    DEF Enqueue, EnqueueCancelled, Inv, TypeOK, CountInv, EndInv, Accounted, AllRead, Resolved
  <2>4. SyncInv'
    BY <2>0, <2>5 DEF Inv, TypeOK, SyncInv
  <2> QED
    BY <2>1, <2>2, <2>3, <2>4 DEF Inv
<1>7. ASSUME NEW i \in Lines, i \notin counted, Resolved(i), Count(i), UNCHANGED producer
      PROVE  CountInv' /\ counted' \subseteq Lines /\ sent' \in Nat /\ failed' \in Nat
  <2>1. counted' = counted \cup {i} /\ sent' + failed' = sent + failed + 1
    BY SMTT(20), <1>7 DEF Count, Inv, TypeOK
  <2>2. Cardinality(counted') = Cardinality(counted) + 1
    BY <1>7, <2>1, CountedIsFinite, FS_AddElement DEF Inv
  <2>3. sent' \in Nat /\ failed' \in Nat /\ (failed' = 0 => failed = 0 /\ record[i] = "acked")
    BY SMTT(20), <1>7 DEF Count, Inv, TypeOK
  <2>4. sent' + failed' = Cardinality(counted')
    BY <2>1, <2>2 DEF Inv, CountInv
  <2> QED
    BY <1>7, <2>1, <2>3, <2>4 DEF Inv, TypeOK, CountInv, Resolved
<1>8. CASE Deliver
  <2>0. line \in Lines /\ line \notin counted /\ sync /\ tasks = {}
    BY SMTT(20), <1>8 DEF Deliver, Inv, TypeOK, LoopInv, SyncInv, Accounted
  <2>1. CountInv' /\ counted' = counted \cup {line} /\ sent' \in Nat /\ failed' \in Nat
    BY <1>7, <1>8, <2>0 DEF Deliver, Count
  <2>2. TypeOK'
    BY <1>8, <2>0, <2>1 DEF Deliver, Inv, TypeOK
  <2>3. LoopInv' /\ AheadInv'
    BY SMTT(20), <1>8, <2>0, <2>1 DEF Deliver, Inv, TypeOK, LoopInv, AheadInv, Accounted, AllRead
  <2>4. EndInv' /\ SyncInv'
    BY SMTT(20), <1>8, <2>0, <2>1 DEF Deliver, Inv, TypeOK, LoopInv, EndInv, SyncInv, AllRead
  <2> QED
    BY <2>1, <2>2, <2>3, <2>4 DEF Inv
<1>9. ASSUME NEW i \in Lines, Task(i) PROVE Inv'
  <2>1. /\ CountInv' /\ counted' = counted \cup {i} /\ tasks' = tasks \ {i}
        /\ sent' \in Nat /\ failed' \in Nat /\ i \in tasks
    BY <1>7, <1>9 DEF Task, Count, Inv, TypeOK
  <2>2. \A j : Accounted(j)' <=> Accounted(j)
    BY <2>1 DEF Accounted
  <2>3. TypeOK'
    BY SMTT(20), <1>9, <2>1 DEF Task, Inv, TypeOK
  <2>4. LoopInv' /\ AheadInv'
    BY <1>9, <2>2 DEF Task, Inv, LoopInv, AheadInv, AllRead
  <2>5. EndInv'
    BY <1>9, <2>1 DEF Task, Inv, EndInv
  <2>6. SyncInv'
    BY <1>9, <2>1 DEF Task, Inv, SyncInv
  <2> QED
    BY <2>1, <2>3, <2>4, <2>5, <2>6 DEF Inv
<1>10. ASSUME NEW i \in Lines, Resolve(i) PROVE Inv'
  <2>1. /\ record \in [Lines -> {"none", "queued", "acked", "lost", "refused"}]
        /\ record' \in [Lines -> {"none", "queued", "acked", "lost", "refused"}]
        /\ record[i] = "queued" /\ record'[i] \in {"acked", "lost"}
        /\ \A j \in Lines : j # i => record'[j] = record[j]
        /\ written \subseteq written' /\ written' \subseteq Lines
        /\ record'[i] = "acked" => i \in written'
    BY <1>10 DEF Resolve, Inv, TypeOK
  <2>2. /\ UNCHANGED <<pc, sync, cancel, read, line, tasks, counted, sent, failed, failure,
                       cancelled, exit>>
        /\ counted \subseteq Lines
    BY <1>10 DEF Resolve, Inv, TypeOK
  <2>3. TypeOK'
    BY SMTT(20), <2>1, <2>2 DEF Inv, TypeOK
  <2>4. LoopInv' /\ AheadInv'
    BY SMTT(20), <2>1, <2>2 DEF Inv, TypeOK, LoopInv, AheadInv, Accounted, AllRead
  <2>5. CountInv'
    BY <2>1, <2>2 DEF Inv, CountInv, Resolved
  <2>6. EndInv'
    BY <2>2 DEF Inv, EndInv, AllRead
  <2>7. SyncInv'
    BY SMTT(20), <2>1, <2>2 DEF Inv, TypeOK, SyncInv
  <2> QED
    BY <2>3, <2>4, <2>5, <2>6, <2>7 DEF Inv
<1>11. CASE Close
  <2>1. /\ record' \in [Lines -> {"none", "queued", "acked", "lost", "refused"}]
        /\ \A j \in Lines : /\ record[j] # "queued" => record'[j] = record[j]
                            /\ record[j] = "queued" => record'[j] = "lost"
    BY <1>11 DEF Close, Inv, TypeOK
  <2>2. /\ UNCHANGED <<sync, cancel, read, line, tasks, counted, sent, failed, cancelled, written,
                       exit>>
        /\ pc = "close" /\ pc' = "join" /\ counted \subseteq Lines
        /\ failure' \in {"none", "read", "line", "delivery", "close"}
        /\ failure' = "none" => failure = "none"
    BY <1>11 DEF Close, Inv, TypeOK
  <2>3. TypeOK'
    BY <2>1, <2>2 DEF Inv, TypeOK
  <2>4. LoopInv' /\ AheadInv'
    BY <2>1, <2>2 DEF Inv, TypeOK, LoopInv, AheadInv, Accounted, AllRead
  <2>5. CountInv'
    BY <2>1, <2>2 DEF Inv, CountInv, Resolved
  <2>6. EndInv'
    BY <2>2 DEF Inv, EndInv
  <2>7. SyncInv'
    BY <2>1, <2>2 DEF Inv, TypeOK, SyncInv
  <2> QED
    BY <2>3, <2>4, <2>5, <2>6, <2>7 DEF Inv
<1>12. CASE Exit
  <2>1. /\ pc = "join" /\ pc' = "ended" /\ tasks = {} /\ exit' = Outcome
        /\ UNCHANGED <<sync, cancel, read, line, record, tasks, counted, sent, failed, failure,
                       cancelled, written>>
    BY <1>12 DEF Exit, Joined
  <2>2. /\ exit' \in {"failure", "cancelled", "success"}
        /\ exit' = "success" => AllRead /\ ~(failed > 0)
        /\ exit' \in {"success", "failure"} /\ failure = "none" => ~cancelled
    BY <2>1 DEF Outcome, AllRead
  <2>3. AllRead => line = N /\ read = N /\ \A i \in Lines : i \in counted
    BY <2>1 DEF Inv, LoopInv, Accounted
  <2>4. TypeOK'
    BY <2>1, <2>2 DEF Inv, TypeOK
  <2>5. LoopInv' /\ AheadInv' /\ CountInv' /\ SyncInv'
    BY <2>1 DEF Inv, LoopInv, AheadInv, CountInv, SyncInv, Accounted, Resolved
  <2>6. EndInv'
    BY SMTT(20), <2>1, <2>2, <2>3 DEF Inv, TypeOK, EndInv, AllRead
  <2> QED
    BY <2>4, <2>5, <2>6 DEF Inv
<1>13. CASE Interrupt \/ Ended \/ UNCHANGED vars
  <2>1. UNCHANGED <<pc, sync, read, line, record, tasks, counted, sent, failed, failure, cancelled,
                    written, exit>>
    BY <1>13 DEF Interrupt, Ended, vars
  <2>2. cancel' \in BOOLEAN
    BY <1>13 DEF Interrupt, Ended, vars, Inv, TypeOK
  <2>3. TypeOK'
    BY SMTT(20), <2>1, <2>2 DEF Inv, TypeOK
  <2> QED
    BY SMTT(20), <2>1, <2>3
    DEF Inv, LoopInv, AheadInv, CountInv, EndInv, SyncInv, Accounted, AllRead, Resolved
<1> QED
  BY <1>1, <1>2, <1>3, <1>4, <1>5, <1>6, <1>8, <1>9, <1>10, <1>11, <1>12, <1>13 DEF Next

\* Exit code 0 means that stdin was read to its end and every line of it is in
\* the topic, however the deliveries resolve and whenever their tasks run; and
\* the counts of the report add up.
THEOREM Success == Spec => []SuccessMeansWritten
<1>1. Inv => SuccessMeansWritten
  <2> SUFFICES ASSUME Inv PROVE SuccessMeansWritten
    OBVIOUS
  <2>1. exit = "success" => read = N /\ line = N /\ Lines \subseteq written
    BY DEF Inv, EndInv, CountInv
  <2>2. ReportAddsUp
    <3> SUFFICES ASSUME pc = "ended", failure = "none", exit \in {"success", "failure"}, line > 0
                 PROVE  sent + failed = line
      BY DEF ReportAddsUp
    <3>1. line = N /\ counted = 1..N
      BY DEF Inv, TypeOK, EndInv, AllRead, Lines
    <3>2. Cardinality(1..N) = N
      BY SMTT(20), SizesAreTyped, FS_Interval
    <3> QED
      BY <3>1, <3>2 DEF Inv, CountInv
  <2> QED
    BY <2>1, <2>2 DEF SuccessMeansWritten, Inv
<1> QED
  BY <1>1, InitInv, NextInv, PTL DEF Spec

\* With --sync a record is handed over only when every line before it is in the
\* topic: the loop waits for each delivery and stops at the first that fails.
THEOREM SyncOrder == Spec => []SyncWritesInOrder
<1>1. Inv => SyncWritesInOrder
  BY SMTT(20), SizesAreTyped DEF Inv, TypeOK, AheadInv, SyncInv, SyncWritesInOrder, Lines
<1> QED
  BY <1>1, InitInv, NextInv, PTL DEF Spec
=============================================================================
