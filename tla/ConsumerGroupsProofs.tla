------------------------ MODULE ConsumerGroupsProofs ------------------------
(***************************************************************************)
(* For any groups, partitions, logs and command lines: a reset keeps to    *)
(* the log, a description never shows a negative lag, the report is true,  *)
(* and only what the command line names is changed.  For any batch of      *)
(* requests, such as the ones a description asks for: bounded keeps to its *)
(* limit, loses no request and returns the outputs in order.               *)
(***************************************************************************)
EXTENDS ConsumerGroups, FanOut, TLAPS

\* The provers of a step that names none, and the seconds each has.
USE ZenonT(10), SMTT(20)

Labels == {"none", "ends", "committed", "valid", "first", "second", "alter"}

\* The logs and the notes of the command are the records that the code keeps.
Shape ==
    /\ log \in [Parts -> [start: Nat, end: Nat]]
    /\ DOMAIN work = Groups
    /\ \A g \in Groups :
         work[g] = [at |-> work[g].at, committed |-> work[g].committed,
                    first |-> work[g].first, plan |-> work[g].plan]
    /\ pc \notin {"groups", "done"} => \A g \in Groups : work[g].at = "none"

\* An offset that is now within the log of p; it stays so, because the end of a
\* log never comes back.
Within(o, p) == o \in Nat /\ o <= log[p].end

\* What has been read for a group: offsets that were within the log, and a first
\* lookup of what the scenario asks for.
CommittedInv(g) ==
    \A p \in DOMAIN work[g].committed : p \in Parts /\ Within(work[g].committed[p], p)

ValidInv(g) ==
    work[g].at \in {"first", "second", "alter"} => Valid(g) /\ Sets(g) \subseteq Parts

FirstInv(g) ==
    work[g].at \in {"second", "alter"} =>
      /\ DOMAIN work[g].first = Asked(g)
      /\ \A p \in DOMAIN work[g].first :
           Within(work[g].first[p], p) \/ (line.scenario = "time" /\ work[g].first[p] = -1)

\* What is to be written: offsets within the log, and by number not below the
\* start that was read.
PlanInv(g) ==
    work[g].at = "alter" =>
      \A p \in DOMAIN work[g].plan :
        /\ p \in Parts /\ Within(work[g].plan[p], p)
        /\ line.scenario \in {"offset", "shift", "file"} => work[g].first[p] <= work[g].plan[p]

WorkInv(g) == CommittedInv(g) /\ ValidInv(g) /\ FirstInv(g) /\ PlanInv(g)

Inv == /\ KeepsToTheLog /\ LagIsNeverNegative
       /\ Shape /\ \A g \in Groups : WorkInv(g)

-----------------------------------------------------------------------------

LogsGrow ==
    /\ log' \in [Parts -> [start: Nat, end: Nat]]
    /\ \A p \in Parts : log'[p].end >= log[p].end

\* What the command has noted of a group stays right while the logs grow.
LEMMA NotesStay ==
    ASSUME Inv, NEW g \in Groups, work'[g] = work[g], line' = line, LogsGrow
    PROVE  WorkInv(g)'
<1>1. WorkInv(g) /\ Shape /\ Valid(g)' = Valid(g) /\ Sets(g)' = Sets(g) /\ Asked(g)' = Asked(g)
  BY DEF Inv, Valid, Sets, Asked, Scope
<1>2. \A p \in Parts : \A o : Within(o, p) => Within(o, p)'
  BY SMTT(20), <1>1 DEF Within, LogsGrow, Shape
<1>3. CommittedInv(g)' BY <1>1, <1>2 DEF WorkInv, CommittedInv
<1>4. ValidInv(g)' BY <1>1 DEF WorkInv, ValidInv
<1>5. FirstInv(g)'
  <2>1. work[g].at \in {"second", "alter"} => DOMAIN work[g].first \subseteq Parts
    BY <1>1 DEF WorkInv, FirstInv, ValidInv, Asked
  <2>2. QED BY <1>1, <1>2, <2>1 DEF WorkInv, FirstInv
<1>6. PlanInv(g)' BY <1>1, <1>2 DEF WorkInv, PlanInv
<1>7. QED BY <1>3, <1>4, <1>5, <1>6 DEF WorkInv

\* The parts of the invariant that follow from the others.
LEMMA Combine ==
    ASSUME TypeOK', Shape', LagIsNeverNegative', \A g \in Groups : WorkInv(g)',
           (\A g \in Groups, p \in Parts : offset[g][p] # None => offset[g][p] <= log[p].end)'
    PROVE  Inv'
<1>1. (\A g \in Groups :
          work[g].at = "alter" /\ line.scenario \in {"offset", "shift", "file"} =>
              \A p \in DOMAIN work[g].plan : work[g].first[p] <= work[g].plan[p])'
  BY DEF WorkInv, PlanInv
<1>2. QED BY <1>1 DEF Inv, KeepsToTheLog

LEMMA InitInv == Init => Inv
<1> SUFFICES ASSUME Init PROVE Inv OBVIOUS
<1>1. \A g \in Groups, p \in Parts : offset[g][p] \in {None, 0, 1} BY LogsCoverThem DEF Init
<1>2. offset \in [Groups -> [Parts -> Nat \cup {None}]]
  <2>1. \A f \in FirstOffsets : f \in [Parts -> Nat \cup {None}] BY SMTT(20), LogsCoverThem
  <2>2. QED BY <2>1 DEF Init
<1>3. failed \in BOOLEAN /\ agreed \in BOOLEAN BY DEF Init
<1>4. TypeOK
  BY SMTT(20), <1>2, <1>3, SizesAreTyped DEF Init, TypeOK, Blank, NoPlan
<1>5. KeepsToTheLog BY SMTT(20), <1>1, <1>4, SizesAreTyped DEF Init, KeepsToTheLog, Blank
<1>6. Shape BY DEF Init, Shape, Blank
<1>7. \A g \in Groups : WorkInv(g)
  BY DEF Init, WorkInv, CommittedInv, ValidInv, FirstInv, PlanInv, Blank, NoPlan
<1>8. LagIsNeverNegative BY DEF Init, LagIsNeverNegative
<1>9. QED BY <1>5, <1>6, <1>7, <1>8 DEF Inv

-----------------------------------------------------------------------------
(* Members and logs                                                        *)

LEMMA MoveInv ==
    ASSUME Inv, Move, LogsGrow,
           (\A p \in Parts : /\ 0 <= log[p].start /\ log[p].start <= log[p].end
                             /\ log[p].end <= MaxEnd)',
           group' \in [Groups -> {"Dead", "Empty", "Stable"}],
           offset' \in [Groups -> [Parts -> Nat \cup {None}]],
           (\A g \in Groups, p \in Parts : offset[g][p] # None => offset[g][p] <= log[p].end)'
    PROVE  Inv'
<1>1. TypeOK /\ Shape BY DEF Inv, KeepsToTheLog
<1>2. TypeOK'
  <2>1. moves' \in 0..MaxMoves BY SMTT(20), <1>1, SizesAreTyped DEF TypeOK, Move
  <2>2. QED BY <1>1, <2>1 DEF TypeOK, Move
<1>3. Shape' BY <1>1 DEF Shape, Move, LogsGrow
<1>4. LagIsNeverNegative' BY DEF Inv, LagIsNeverNegative, Move
<1>5. \A g \in Groups : WorkInv(g)' BY NotesStay DEF Move
<1>6. QED BY <1>2, <1>3, <1>4, <1>5, Combine

LEMMA MembersInv ==
    ASSUME Inv, NEW g \in Groups,
           Join(g) \/ Leave(g) \/ Expire(g) \/ \E p \in Parts : Commit(g, p)
    PROVE  Inv'
<1>1. TypeOK /\ Shape /\ KeepsToTheLog BY DEF Inv, KeepsToTheLog
<1>2. LogsGrow /\ log' = log /\ Move
  BY SMTT(20), <1>1 DEF Shape, LogsGrow, Join, Leave, Expire, Commit
<1>3. \A h \in Groups, p \in Parts : offset[h][p] # None => offset[h][p] <= log[p].end
  BY <1>1 DEF KeepsToTheLog
<1>4. CASE Join(g) \/ Leave(g)
  <2>1. group' \in [Groups -> {"Dead", "Empty", "Stable"}] /\ offset' = offset
    BY <1>1, <1>4 DEF Join, Leave, TypeOK
  <2>2. QED BY <1>1, <1>2, <1>3, <2>1, MoveInv DEF TypeOK
<1>5. CASE Expire(g)
  <2>1. /\ offset' \in [Groups -> [Parts -> Nat \cup {None}]]
        /\ \A h \in Groups, p \in Parts : offset'[h][p] = offset[h][p] \/ offset'[h][p] = None
    BY <1>1, <1>5 DEF Expire, TypeOK
  <2>2. QED BY <1>1, <1>2, <1>3, <1>5, <2>1, MoveInv DEF Expire, TypeOK
<1>6. ASSUME NEW p \in Parts, Commit(g, p) PROVE Inv'
  <2>1. PICK o \in log[p].start..log[p].end : offset' = [offset EXCEPT ![g][p] = o]
    BY <1>6 DEF Commit
  <2>2. o \in Nat /\ o <= log[p].end BY SMTT(20), <1>1 DEF Shape
  <2>3. /\ offset' \in [Groups -> [Parts -> Nat \cup {None}]]
        /\ \A h \in Groups, q \in Parts :
             offset'[h][q] = offset[h][q] \/ (q = p /\ offset'[h][q] = o)
    BY <1>1, <2>1, <2>2 DEF TypeOK
  <2>4. QED BY SMTT(20), <1>1, <1>2, <1>3, <1>6, <2>2, <2>3, MoveInv DEF Commit, TypeOK
<1>7. QED BY <1>4, <1>5, <1>6

LEMMA LogsInv == ASSUME Inv, NEW p \in Parts, Produce(p) \/ Trim(p) PROVE Inv'
<1>1. TypeOK /\ Shape /\ KeepsToTheLog BY DEF Inv, KeepsToTheLog
<1>2. /\ Move /\ group' = group /\ offset' = offset
      /\ \/ log[p].end < MaxEnd /\ log' = [log EXCEPT ![p].end = @ + 1]
         \/ log[p].start < log[p].end /\ log' = [log EXCEPT ![p].start = @ + 1]
  BY DEF Produce, Trim
<1>3. log' \in [Parts -> [start: Nat, end: Nat]] BY SMTT(20), <1>1, <1>2 DEF Shape
<1>4. ASSUME NEW q \in Parts
      PROVE  /\ log'[q].end >= log[q].end /\ 0 <= log'[q].start
             /\ log'[q].start <= log'[q].end /\ log'[q].end <= MaxEnd
             /\ log[q].end \in Nat /\ log'[q].end \in Nat
  <2>1. /\ log[q].start \in Nat /\ log[q].end \in Nat /\ log[q].start <= log[q].end
        /\ log[q].end <= MaxEnd /\ MaxEnd \in Nat /\ log[p].start \in Nat /\ log[p].end \in Nat
    BY <1>1, SizesAreTyped DEF Shape, TypeOK
  <2>2. CASE q # p
    <3>1. log'[q] = log[q] BY <1>1, <1>2, <2>2 DEF Shape
    <3>2. QED BY SMTT(20), <2>1, <3>1
  <2>3. CASE q = p
    <3>1. \/ /\ log[p].end < MaxEnd
             /\ log'[p].end = log[p].end + 1 /\ log'[p].start = log[p].start
          \/ /\ log[p].start < log[p].end
             /\ log'[p].start = log[p].start + 1 /\ log'[p].end = log[p].end
      BY <1>1, <1>2 DEF Shape
    <3>2. QED BY SMTT(20), <2>1, <2>3, <3>1
  <2>4. QED BY <2>2, <2>3
<1>5. \A g \in Groups, q \in Parts : offset[g][q] # None => offset[g][q] <= log'[q].end
  <2>1. \A g \in Groups, q \in Parts : offset[g][q] # None => offset[g][q] \in Nat
    BY SMTT(20), <1>1 DEF TypeOK
  <2>2. QED BY SMTT(20), <1>1, <1>4, <2>1 DEF KeepsToTheLog
<1>6. LogsGrow BY <1>3, <1>4 DEF LogsGrow
<1>7. QED BY <1>1, <1>2, <1>4, <1>5, <1>6, MoveInv DEF TypeOK

-----------------------------------------------------------------------------
(* The command                                                             *)

\* A step that leaves the logs and the notes alone, and rows too where they are
\* lags.
LEMMA QuietInv ==
    ASSUME Inv, UNCHANGED <<log, moves, line, work>>,
           group' \in [Groups -> {"Dead", "Empty", "Stable"}],
           \A g \in Groups, p \in Parts : offset'[g][p] = offset[g][p] \/ offset'[g][p] = None,
           offset' \in [Groups -> [Parts -> Nat \cup {None}]],
           pc' \in {"start", "target", "describe", "prompt", "send", "groups", "done"},
           pc \in {"groups", "done"} => pc' \in {"groups", "done"},
           todo' = todo \/ (todo' \subseteq Groups /\ pc \notin {"groups", "done"}),
           seen' \in [Groups -> {"Dead", "Empty", "Stable", "error", None}],
           failed' \in BOOLEAN, agreed' \in BOOLEAN, exit' \in {"ok", "failed", "error", None},
           line.action = "describe" => rows' = rows
    PROVE  Inv'
<1>1. TypeOK /\ Shape /\ KeepsToTheLog BY DEF Inv, KeepsToTheLog
<1>2. \A g \in Groups : work[g].at # "none" => g \in todo'
  BY <1>1 DEF TypeOK, Shape
<1>3. todo' \subseteq Groups BY <1>1 DEF TypeOK
<1>4. TypeOK' BY <1>1, <1>2, <1>3 DEF TypeOK
<1>5. Shape' BY <1>1 DEF Shape
<1>6. LagIsNeverNegative' BY DEF Inv, LagIsNeverNegative
<1>7. LogsGrow
  <2>1. \A p \in Parts : log[p].end \in Nat BY <1>1 DEF Shape
  <2>2. QED BY SMTT(20), <1>1, <2>1 DEF Shape, LogsGrow
<1>8. \A g \in Groups : WorkInv(g)' BY <1>7, NotesStay
<1>9. (\A g \in Groups, p \in Parts : offset[g][p] # None => offset[g][p] <= log[p].end)'
  BY <1>1 DEF KeepsToTheLog
<1>10. QED BY <1>4, <1>5, <1>6, <1>8, <1>9, Combine

LEMMA TargetsAreGroups == Inv => \A t \in Targets : t \subseteq Groups
<1> SUFFICES ASSUME Inv, NEW t \in Targets PROVE t \subseteq Groups OBVIOUS
<1>1. line.groups = All \/ line.groups \subseteq Groups
  BY LinesAreLines DEF Inv, KeepsToTheLog, TypeOK, LineArgs
<1>2. CASE line.groups = All
  <2>1. Targets = {{g \in Groups : group[g] # "Dead"}} BY <1>2 DEF Targets
  <2>2. QED BY <2>1
<1>3. CASE line.groups # All
  <2>1. line.groups \subseteq Groups BY <1>1, <1>3
  <2>2. Targets = {{g} : g \in line.groups} \/ Targets = {line.groups} BY <1>3 DEF Targets
  <2>3. QED BY SMTT(20), <2>1, <2>2
<1>4. QED BY <1>2, <1>3

LEMMA BeginningInv ==
    ASSUME Inv, Start \/ Target \/ Describe \/ Prompt \/ Fails \/ Finish \/ Ended
    PROVE  Inv'
<1> USE DEF cluster
<1>1. TypeOK BY DEF Inv, KeepsToTheLog
<1>2. CASE Start BY <1>1, <1>2, QuietInv DEF Start, Exit, TypeOK
<1>3. CASE Target BY <1>1, <1>3, QuietInv, TargetsAreGroups DEF Target, Exit, TypeOK
<1>4. CASE Describe
  <2>1. failed' \in BOOLEAN BY <1>1, <1>4 DEF Describe, TypeOK
  <2>2. exit' \in {"ok", "failed", "error", None} /\ pc' \in {"groups", "done"}
    BY <1>1, <1>4 DEF Describe, TypeOK, Exit
  <2>3. QED BY <1>1, <1>4, <2>1, <2>2, QuietInv DEF Describe, TypeOK
<1>5. CASE Prompt
  <2>1. agreed' \in BOOLEAN BY <1>1, <1>5 DEF Prompt, TypeOK
  <2>2. QED BY <1>1, <1>5, <2>1, QuietInv DEF Prompt, Exit, TypeOK
<1>6. CASE Fails BY <1>1, <1>6, QuietInv DEF Fails, Exit, TypeOK
<1>7. CASE Finish BY <1>1, <1>7, QuietInv DEF Finish, Exit, TypeOK
<1>8. CASE Ended BY <1>1, <1>8, QuietInv DEF Ended, vars, TypeOK
<1>9. QED BY <1>2, <1>3, <1>4, <1>5, <1>6, <1>7, <1>8

LEMMA ReportType ==
    ASSUME NEW new, Report(new)
    PROVE  failed' \in BOOLEAN /\ exit' \in {"ok", "failed"} /\ pc' = "done"
<1>1. failed' \in BOOLEAN BY DEF Report
<1>2. QED BY <1>1 DEF Report, Exit

LEMMA SendInv == ASSUME Inv, SendDelete \/ SendDeleteOffsets PROVE Inv'
<1>1. TypeOK BY DEF Inv, KeepsToTheLog
<1>2. CASE SendDelete
  <2>1. PICK gone \in SUBSET {g \in todo : group[g] = "Empty"} :
          /\ group' = [g \in Groups |-> IF g \in gone THEN "Dead" ELSE group[g]]
          /\ offset' = [g \in Groups |-> IF g \in gone THEN [p \in Parts |-> None] ELSE offset[g]]
    BY <1>2 DEF SendDelete
  <2>2. failed' \in BOOLEAN /\ exit' \in {"ok", "failed", "error"} /\ pc' = "done"
    BY <1>1, <1>2, ReportType DEF SendDelete, Exit, TypeOK
  <2>3. /\ group' \in [Groups -> {"Dead", "Empty", "Stable"}]
        /\ \A g \in Groups, p \in Parts : offset'[g][p] = offset[g][p] \/ offset'[g][p] = None
        /\ offset' \in [Groups -> [Parts -> Nat \cup {None}]]
    BY <1>1, <2>1 DEF TypeOK
  <2>4. line.action # "describe" /\ UNCHANGED <<log, moves, line, work, todo, seen, agreed>>
    BY <1>2 DEF SendDelete
  <2>5. QED BY <1>1, <2>2, <2>3, <2>4, QuietInv DEF TypeOK
<1>3. CASE SendDeleteOffsets
  <2>1. PICK g \in todo, gone \in SUBSET (line.topics \cap Parts) :
          offset' = [offset EXCEPT ![g] = [p \in Parts |-> IF p \in gone THEN None ELSE @[p]]]
    BY <1>3 DEF SendDeleteOffsets
  <2>2. failed' \in BOOLEAN /\ exit' \in {"ok", "failed", "error"} /\ pc' = "done"
    BY <1>1, <1>3, ReportType DEF SendDeleteOffsets, Exit, TypeOK
  <2>3. /\ \A h \in Groups, p \in Parts : offset'[h][p] = offset[h][p] \/ offset'[h][p] = None
        /\ offset' \in [Groups -> [Parts -> Nat \cup {None}]]
    BY <1>1, <2>1 DEF TypeOK
  <2>4. line.action # "describe" /\ UNCHANGED <<log, group, moves, line, work, todo, seen, agreed>>
    BY <1>3 DEF SendDeleteOffsets
  <2>5. QED BY <1>1, <2>2, <2>3, <2>4, QuietInv DEF TypeOK
<1>4. QED BY <1>2, <1>3

-----------------------------------------------------------------------------
(* Group by group                                                          *)

\* A step on one group that notes w of it.
LEMMA NoteInv ==
    ASSUME Inv, NEW g \in Groups, NEW w, UNCHANGED <<log, moves, line, seen, agreed>>,
           work' = [work EXCEPT ![g] = w],
           w = [at |-> w.at, committed |-> w.committed, first |-> w.first, plan |-> w.plan],
           w.at \in Labels, DOMAIN w.committed \cup DOMAIN w.first \cup DOMAIN w.plan \subseteq Parts,
           todo' \in {todo, todo \ {g}}, w.at # "none" => g \in todo',
           pc = "groups", pc' \in {"groups", "done"},
           failed' \in BOOLEAN, exit' \in {"ok", "failed", "error", None},
           group' \in [Groups -> {"Dead", "Empty", "Stable"}],
           offset' \in [Groups -> [Parts -> Nat \cup {None}]],
           (\A h \in Groups, p \in Parts : offset[h][p] # None => offset[h][p] <= log[p].end)',
           LagIsNeverNegative', WorkInv(g)'
    PROVE  Inv'
<1>1. TypeOK /\ Shape BY DEF Inv, KeepsToTheLog
<1>2. /\ DOMAIN work' = Groups /\ work'[g] = w
      /\ \A h \in Groups : h # g => work'[h] = work[h]
  BY <1>1 DEF Shape
<1>3. TypeOK'
  <2>1. ASSUME NEW h \in Groups
        PROVE  /\ work'[h].at \in Labels
               /\ DOMAIN work'[h].committed \cup DOMAIN work'[h].first \cup DOMAIN work'[h].plan
                     \subseteq Parts
               /\ work'[h].at # "none" => h \in todo'
    <3>1. CASE h = g BY <1>2, <3>1
    <3>2. CASE h # g
      <4>1. work'[h] = work[h] /\ (h \in todo => h \in todo') BY <1>2, <3>2
      <4>2. QED BY <1>1, <4>1 DEF TypeOK, Labels
    <3>3. QED BY <3>1, <3>2
  <2>2. todo' \subseteq Groups BY <1>1 DEF TypeOK
  <2>3. QED BY <1>1, <2>1, <2>2 DEF TypeOK, Labels
<1>4. Shape'
  <2>1. ASSUME NEW h \in Groups
        PROVE  work'[h] = [at |-> work'[h].at, committed |-> work'[h].committed,
                           first |-> work'[h].first, plan |-> work'[h].plan]
    <3>1. CASE h = g BY <1>2, <3>1
    <3>2. CASE h # g BY <1>1, <1>2, <3>2 DEF Shape
    <3>3. QED BY <3>1, <3>2
  <2>2. QED BY <1>1, <1>2, <2>1 DEF Shape
<1>5. LogsGrow
  <2>1. \A p \in Parts : log[p].end \in Nat BY <1>1 DEF Shape
  <2>2. QED BY SMTT(20), <1>1, <2>1 DEF Shape, LogsGrow
<1>6. \A h \in Groups : WorkInv(h)' BY <1>2, <1>5, NotesStay
<1>7. QED BY <1>3, <1>4, <1>6, Combine

\* The group is done, with its notes blank again.
LEMMA DoneWithInv ==
    ASSUME Inv, NEW g \in Groups, NEW new, UNCHANGED <<log, moves, line, seen, agreed>>,
           DoneWith(g, new), pc = "groups", pc' = "groups", exit' = exit, failed' \in BOOLEAN,
           group' \in [Groups -> {"Dead", "Empty", "Stable"}],
           offset' \in [Groups -> [Parts -> Nat \cup {None}]],
           (\A h \in Groups, p \in Parts : offset[h][p] # None => offset[h][p] <= log[p].end)',
           line.action = "describe" => \A r \in new : r[3] >= 0
    PROVE  Inv'
<1>1. /\ work' = [work EXCEPT ![g] = Blank] /\ todo' = todo \ {g} /\ rows' = rows \cup new
  BY DEF DoneWith, Keep
<1>2. LagIsNeverNegative' BY <1>1 DEF Inv, LagIsNeverNegative
<1>3. work'[g] = Blank BY <1>1 DEF Inv, Shape
<1>4. WorkInv(g)'
  BY SMTT(20), <1>3 DEF WorkInv, CommittedInv, ValidInv, FirstInv, PlanInv, Blank, NoPlan
<1>5. /\ Blank = [at |-> Blank.at, committed |-> Blank.committed, first |-> Blank.first,
                  plan |-> Blank.plan]
      /\ DOMAIN Blank.committed \cup DOMAIN Blank.first \cup DOMAIN Blank.plan \subseteq Parts
      /\ Blank.at \in Labels /\ Blank.at = "none"
  BY DEF Blank, NoPlan, Labels
<1>6. exit' \in {"ok", "failed", "error", None} BY DEF Inv, KeepsToTheLog, TypeOK
<1> HIDE DEF Blank
<1>7. QED BY <1>1, <1>2, <1>4, <1>5, <1>6, NoteInv

\* The command goes on with the group, with w noted of it.
LEMMA ContinueInv ==
    ASSUME Inv, NEW g \in Groups, NEW w, UNCHANGED <<cluster, moves, line, seen, agreed, failed>>,
           Keep(g, w), UNCHANGED <<pc, exit, todo, rows>>, pc = "groups", g \in todo,
           w = [at |-> w.at, committed |-> w.committed, first |-> w.first, plan |-> w.plan],
           w.at \in Labels, DOMAIN w.committed \cup DOMAIN w.first \cup DOMAIN w.plan \subseteq Parts,
           WorkInv(g)'
    PROVE  Inv'
<1>1. TypeOK /\ KeepsToTheLog BY DEF Inv, KeepsToTheLog
<1>2. (\A h \in Groups, p \in Parts : offset[h][p] # None => offset[h][p] <= log[p].end)'
  BY <1>1 DEF KeepsToTheLog, cluster
<1>3. LagIsNeverNegative' BY DEF Inv, LagIsNeverNegative
<1>4. failed' \in BOOLEAN BY <1>1 DEF TypeOK
<1>5. work' = [work EXCEPT ![g] = w] BY DEF Keep
<1>6. QED BY <1>1, <1>2, <1>3, <1>4, <1>5, NoteInv DEF TypeOK, cluster

\* The command ends, and its notes with it.
LEMMA AbortInv ==
    ASSUME Inv, UNCHANGED <<log, moves, line, seen, agreed, todo, rows, work>>, pc = "groups",
           pc' = "done", exit' \in {"failed", "error"}, failed' \in BOOLEAN,
           group' \in [Groups -> {"Dead", "Empty", "Stable"}],
           offset' \in [Groups -> [Parts -> Nat \cup {None}]],
           (\A h \in Groups, p \in Parts : offset[h][p] # None => offset[h][p] <= log[p].end)'
    PROVE  Inv'
<1>1. TypeOK /\ Shape BY DEF Inv, KeepsToTheLog
<1>2. TypeOK' BY <1>1 DEF TypeOK
<1>3. Shape' BY <1>1 DEF Shape
<1>4. LagIsNeverNegative' BY DEF Inv, LagIsNeverNegative
<1>5. LogsGrow
  <2>1. \A p \in Parts : log[p].end \in Nat BY <1>1 DEF Shape
  <2>2. QED BY SMTT(20), <1>1, <2>1 DEF Shape, LogsGrow
<1>6. \A g \in Groups : WorkInv(g)' BY <1>5, NotesStay
<1>7. QED BY <1>2, <1>3, <1>4, <1>6, Combine

\* Notes have these four fields.
Notes(w) ==
    DOMAIN w = {"at", "committed", "first", "plan"} /\ w = [i \in DOMAIN w |-> w[i]]

LEMMA NotesFields ==
    ASSUME NEW w, Notes(w)
    PROVE  w = [at |-> w.at, committed |-> w.committed, first |-> w.first, plan |-> w.plan]
BY DEF Notes

\* The offsets of a group are within the logs.
LEMMA OffsetsFacts ==
    ASSUME Inv, NEW g \in Groups
    PROVE  /\ DOMAIN Offsets(g) \subseteq Parts
           /\ \A p \in DOMAIN Offsets(g) : Within(Offsets(g)[p], p)
<1>1. \A p \in Parts : offset[g][p] # None => Within(offset[g][p], p)
  BY SMTT(20) DEF Inv, KeepsToTheLog, TypeOK, Within
<1>2. QED BY <1>1 DEF Offsets

LEMMA OffsetsNow ==
    Inv => /\ TypeOK /\ Shape /\ failed \in BOOLEAN
           /\ \A h \in Groups, p \in Parts : offset[h][p] # None => offset[h][p] <= log[p].end
<1>1. Inv => TypeOK /\ Shape /\ KeepsToTheLog BY DEF Inv, KeepsToTheLog
<1>2. TypeOK => failed \in BOOLEAN BY DEF TypeOK
<1>3. QED BY <1>1, <1>2 DEF KeepsToTheLog

LEMMA DescribeGroupInv == ASSUME Inv, NEW g \in Groups, DescribeGroup(g) PROVE Inv'
<1> USE DEF cluster
<1>1. /\ TypeOK /\ Shape /\ failed \in BOOLEAN
      /\ \A h \in Groups, p \in Parts : offset[h][p] # None => offset[h][p] <= log[p].end
  BY OffsetsNow
<1>2. ASSUME DoneWith(g, {}), failed' = TRUE PROVE Inv'
  BY <1>1, <1>2, DoneWithInv DEF DescribeGroup, TypeOK
<1>3. ASSUME work[g].at = "none", UNCHANGED <<todo, rows, failed>>,
             Keep(g, [Blank EXCEPT !.at = "ends", !.committed = Offsets(g)])
      PROVE  Inv'
  <2> DEFINE w == [Blank EXCEPT !.at = "ends", !.committed = Offsets(g)]
  <2>1. /\ Notes(w) /\ w.at = "ends" /\ w.committed = Offsets(g)
        /\ w.first = NoPlan /\ w.plan = NoPlan
    BY DEF Blank, Notes
  <2> HIDE DEF w
  <2>2. /\ w = [at |-> w.at, committed |-> w.committed, first |-> w.first, plan |-> w.plan]
        /\ w.at = "ends" /\ w.committed = Offsets(g)
        /\ DOMAIN w.committed \cup DOMAIN w.first \cup DOMAIN w.plan \subseteq Parts
    <3>1. DOMAIN NoPlan = {} BY DEF NoPlan
    <3>2. DOMAIN Offsets(g) \subseteq Parts BY OffsetsFacts
    <3>3. QED BY <2>1, <3>1, <3>2, NotesFields
  <2>3. work'[g] = w BY <1>1, <1>3 DEF w, Keep, Shape
  <2>4. \A p \in Parts : \A o : Within(o, p)' <=> Within(o, p) BY DEF Within, DescribeGroup
  <2>5. WorkInv(g)'
    <3>1. CommittedInv(g)' BY <2>2, <2>3, <2>4, OffsetsFacts DEF CommittedInv
    <3>2. QED BY <2>2, <2>3, <3>1 DEF WorkInv, ValidInv, FirstInv, PlanInv
  <2>6. QED BY <1>3, <2>2, <2>5, ContinueInv DEF w, Labels, DescribeGroup
<1>4. ASSUME DoneWith(g, Lags(g, work[g].committed, Ends(DOMAIN work[g].committed))), failed' = failed
      PROVE  Inv'
  <2> DEFINE committed == work[g].committed
             new == Lags(g, committed, Ends(DOMAIN committed))
  <2>1. ASSUME NEW r \in new PROVE r[3] >= 0
    <3>1. PICK p \in DOMAIN committed : r = <<g, p, log[p].end - committed[p]>>
      BY <2>1 DEF Lags, Ends
    <3>2. p \in Parts /\ committed[p] \in Nat /\ committed[p] <= log[p].end
      BY DEF Inv, WorkInv, CommittedInv, Within
    <3>3. log[p].end \in Nat BY <1>1, <3>2 DEF Shape
    <3>4. r[3] = log[p].end - committed[p] BY <3>1
    <3>5. QED BY SMTT(20), <3>2, <3>3, <3>4
  <2> HIDE DEF new
  <2>2. QED BY <1>1, <1>4, <2>1, DoneWithInv DEF DescribeGroup, TypeOK, new
<1>5. QED BY <1>2, <1>3, <1>4 DEF DescribeGroup, GroupOffsets

LEMMA NextGroupInv == ASSUME Inv, NEW g \in Groups, NextGroup(g) PROVE Inv'
<1> USE DEF cluster
<1>1. /\ TypeOK /\ Shape /\ failed \in BOOLEAN
      /\ \A h \in Groups, p \in Parts : offset[h][p] # None => offset[h][p] <= log[p].end
  BY OffsetsNow
<1>2. CASE seen[g] = "Stable" BY <1>1, <1>2, DoneWithInv DEF NextGroup, Between, TypeOK
<1>3. CASE seen[g] = "error" BY <1>1, <1>3, AbortInv DEF NextGroup, Between, Exit, TypeOK
<1>4. CASE seen[g] \notin {"Stable", "error"}
  <2> DEFINE w == [Blank EXCEPT !.at = "committed"]
  <2>1. w = [at |-> "committed", committed |-> NoPlan, first |-> NoPlan, plan |-> NoPlan]
    BY SMTT(20) DEF Blank
  <2>2. /\ w = [at |-> w.at, committed |-> w.committed, first |-> w.first, plan |-> w.plan]
        /\ w.at = "committed" /\ w.committed = NoPlan
        /\ DOMAIN w.committed \cup DOMAIN w.first \cup DOMAIN w.plan \subseteq Parts
    BY SMTT(20), <2>1 DEF NoPlan
  <2> HIDE DEF w
  <2>3. Keep(g, w) /\ UNCHANGED <<pc, exit, todo, rows>> BY <1>4 DEF NextGroup, w
  <2>4. work'[g] = w BY <1>1, <2>3 DEF Keep, Shape
  <2>5. WorkInv(g)'
    BY <2>2, <2>4 DEF WorkInv, CommittedInv, ValidInv, FirstInv, PlanInv, NoPlan
  <2>6. QED BY <2>2, <2>3, <2>5, ContinueInv DEF Labels, NextGroup, Between
<1>5. QED BY <1>2, <1>3, <1>4

\* A step of a reset that notes more of its group.
LEMMA ResetInv ==
    ASSUME Inv, NEW g \in Groups, NEW w, UNCHANGED <<cluster, moves, line, seen, failed, agreed>>,
           Continue(g, w), pc = "groups", work[g].at # "none", Notes(w), w.at \in Labels,
           DOMAIN w.committed \cup DOMAIN w.first \cup DOMAIN w.plan \subseteq Parts,
           work'[g] = w => WorkInv(g)'
    PROVE  Inv'
<1>1. g \in todo BY DEF Inv, KeepsToTheLog, TypeOK
<1>2. work'[g] = w BY DEF Continue, Keep, Inv, Shape
<1>3. Keep(g, w) /\ UNCHANGED <<pc, exit, todo, rows>> BY DEF Continue
<1>4. w = [at |-> w.at, committed |-> w.committed, first |-> w.first, plan |-> w.plan]
  BY NotesFields
<1>5. UNCHANGED <<cluster, moves, line, seen, agreed, failed>> OBVIOUS
<1>6. QED BY <1>1, <1>2, <1>3, <1>4, <1>5, ContinueInv

\* The notes of a group before the step.
LEMMA NotesNow ==
    ASSUME Inv, NEW g \in Groups
    PROVE  /\ Notes(work[g]) /\ WorkInv(g) /\ LineArgs(line)
           /\ DOMAIN work[g].committed \cup DOMAIN work[g].first \cup DOMAIN work[g].plan
                 \subseteq Parts
<1>1. Notes(work[g]) BY DEF Inv, Shape, Notes
<1>2. QED BY <1>1, LinesAreLines DEF Inv, KeepsToTheLog, TypeOK

LEMMA ReadCommittedInv == ASSUME Inv, NEW g \in Groups, ReadCommitted(g) PROVE Inv'
<1> DEFINE c == IF line.topics = All \/ line.scenario \in {"shift", "current"}
                THEN Offsets(g) ELSE NoPlan
           w == [work[g] EXCEPT !.at = "valid", !.committed = c]
<1>1. /\ pc = "groups" /\ work[g].at = "committed" /\ Continue(g, w)
      /\ UNCHANGED <<cluster, moves, line, seen, failed, agreed>>
  BY DEF ReadCommitted, At
<1>2. DOMAIN c \subseteq Parts /\ \A p \in DOMAIN c : Within(c[p], p)
  BY OffsetsFacts DEF NoPlan
<1> HIDE DEF c
<1>3. /\ Notes(w) /\ w.at = "valid" /\ w.committed = c
      /\ w.first = work[g].first /\ w.plan = work[g].plan
  BY NotesNow DEF Notes
<1> HIDE DEF w
<1>4. DOMAIN w.committed \cup DOMAIN w.first \cup DOMAIN w.plan \subseteq Parts
  BY <1>2, <1>3, NotesNow
<1>5. ASSUME work'[g] = w PROVE WorkInv(g)'
  <2>1. \A p \in Parts : \A o : Within(o, p)' <=> Within(o, p) BY <1>1 DEF Within, cluster
  <2>2. CommittedInv(g)' BY <1>2, <1>3, <1>5, <2>1 DEF CommittedInv
  <2>3. QED BY <1>3, <1>5, <2>2 DEF WorkInv, ValidInv, FirstInv, PlanInv
<1>6. QED BY <1>1, <1>3, <1>4, <1>5, ResetInv DEF Labels

LEMMA ValidSets ==
    ASSUME Inv, NEW g \in Groups, Valid(g) PROVE Sets(g) \subseteq Parts
<1>1. LineArgs(line) BY NotesNow
<1>2. CASE line.scenario = "file" BY <1>1, <1>2 DEF Sets, LineArgs
<1>3. CASE line.scenario # "file" BY <1>3 DEF Sets, Valid
<1>4. QED BY <1>2, <1>3

LEMMA CheckPartitionsInv == ASSUME Inv, NEW g \in Groups, CheckPartitions(g) PROVE Inv'
<1>1. /\ pc = "groups" /\ work[g].at = "valid"
      /\ UNCHANGED <<cluster, moves, line, seen, failed, agreed>>
  BY DEF CheckPartitions, At
<1>2. CASE ~Valid(g)
  <2>1. Abort BY <1>2 DEF CheckPartitions
  <2>2. QED BY <1>1, <2>1, OffsetsNow, AbortInv DEF Abort, Exit, cluster, TypeOK
<1>3. CASE Valid(g)
  <2> DEFINE w == [work[g] EXCEPT !.at = "first"]
  <2>1. Continue(g, w) BY <1>3 DEF CheckPartitions
  <2>2. /\ Notes(w) /\ w.at = "first" /\ w.committed = work[g].committed
        /\ w.first = work[g].first /\ w.plan = work[g].plan
    BY NotesNow DEF Notes
  <2> HIDE DEF w
  <2>3. DOMAIN w.committed \cup DOMAIN w.first \cup DOMAIN w.plan \subseteq Parts
    BY <2>2, NotesNow
  <2>4. ASSUME work'[g] = w PROVE WorkInv(g)'
    <3>1. \A p \in Parts : \A o : Within(o, p)' <=> Within(o, p) BY <1>1 DEF Within, cluster
    <3>2. CommittedInv(g)' BY <2>2, <2>4, <3>1, NotesNow DEF WorkInv, CommittedInv
    <3>3. Valid(g)' /\ Sets(g)' = Sets(g) BY <1>1, <1>3, <2>2, <2>4 DEF Valid, Sets, Scope
    <3>4. QED BY <1>3, <2>2, <2>4, <3>2, <3>3, ValidSets DEF WorkInv, ValidInv, FirstInv, PlanInv
  <2>5. QED BY <1>1, <2>1, <2>2, <2>3, <2>4, ResetInv DEF Labels
<1>4. QED BY <1>2, <1>3

\* A lookup is within the log, or is the -1 of a timestamp after all records.
LEMMA LookupFacts ==
    ASSUME Inv, NEW p \in Parts
    PROVE  Within(Lookup(p), p) \/ (line.scenario = "time" /\ Lookup(p) = -1)
<1>1. /\ log[p].start \in Nat /\ log[p].end \in Nat /\ log[p].start <= log[p].end
  BY DEF Inv, KeepsToTheLog, TypeOK, Shape
<1>2. line.n \in Int BY LinesAreLines DEF Inv, KeepsToTheLog, TypeOK, LineArgs
<1>3. QED BY SMTT(20), <1>1, <1>2 DEF Lookup, ForTimestamp, Within

LEMMA LookUpFirstInv == ASSUME Inv, NEW g \in Groups, LookUpFirst(g) PROVE Inv'
<1> DEFINE f == [p \in Asked(g) |-> Lookup(p)]
           w == [work[g] EXCEPT !.at = "second", !.first = f]
<1>1. /\ pc = "groups" /\ work[g].at = "first" /\ Continue(g, w)
      /\ UNCHANGED <<cluster, moves, line, seen, failed, agreed>>
  BY DEF LookUpFirst, At
<1>2. Valid(g) /\ Sets(g) \subseteq Parts /\ Asked(g) \subseteq Parts
  BY <1>1, NotesNow DEF WorkInv, ValidInv, Asked
<1>3. /\ DOMAIN f = Asked(g)
      /\ \A p \in DOMAIN f : Within(f[p], p) \/ (line.scenario = "time" /\ f[p] = -1)
  BY <1>2, LookupFacts
<1> HIDE DEF f
<1>4. /\ Notes(w) /\ w.at = "second" /\ w.committed = work[g].committed
      /\ w.first = f /\ w.plan = work[g].plan
  BY NotesNow DEF Notes
<1> HIDE DEF w
<1>5. DOMAIN w.committed \cup DOMAIN w.first \cup DOMAIN w.plan \subseteq Parts
  BY <1>2, <1>3, <1>4, NotesNow
<1>6. ASSUME work'[g] = w PROVE WorkInv(g)'
  <2>1. \A p \in Parts : \A o : Within(o, p)' <=> Within(o, p) BY <1>1 DEF Within, cluster
  <2>2. CommittedInv(g)' BY <1>4, <1>6, <2>1, NotesNow DEF WorkInv, CommittedInv
  <2>3. Valid(g)' = Valid(g) /\ Sets(g)' = Sets(g) /\ Asked(g)' = Asked(g)
    BY <1>1, <1>4, <1>6 DEF Valid, Sets, Scope, Asked
  <2>4. FirstInv(g)' BY <1>1, <1>2, <1>3, <1>4, <1>6, <2>1, <2>3 DEF FirstInv
  <2>5. QED BY <1>2, <1>4, <1>6, <2>2, <2>3, <2>4 DEF WorkInv, ValidInv, PlanInv
<1>7. QED BY <1>1, <1>4, <1>5, <1>6, ResetInv DEF Labels

\* plan() sets offsets within the log, and by number not below the start read.
LEMMA PlannedFacts ==
    ASSUME Inv, NEW g \in Groups, work[g].at = "second", NEW p \in Sets(g)
    PROVE  /\ p \in Parts /\ Within(Planned(g, p), p)
           /\ line.scenario \in {"offset", "shift", "file"} => work[g].first[p] <= Planned(g, p)
<1> DEFINE first == work[g].first
<1>1. /\ WorkInv(g) /\ LineArgs(line) /\ Sets(g) \subseteq Parts /\ Valid(g)
      /\ DOMAIN first = Asked(g)
  BY NotesNow DEF WorkInv, ValidInv, FirstInv
<1>2. p \in Parts BY <1>1
<1>3. log[p].end \in Nat BY <1>2 DEF Inv, Shape
<1>4. \A q \in DOMAIN first :
        Within(first[q], q) \/ (line.scenario = "time" /\ first[q] = -1)
  BY <1>1 DEF WorkInv, FirstInv
<1>5. line.scenario # "current" => p \in DOMAIN first BY <1>1 DEF Asked
<1>6. \A q \in DOMAIN work[g].committed : Within(work[g].committed[q], q)
  BY <1>1 DEF WorkInv, CommittedInv
<1> HIDE DEF first
<1>7. CASE line.scenario \in {"earliest", "latest"}
  <2>1. Planned(g, p) = first[p] BY <1>7 DEF Planned, first
  <2>2. QED BY <1>2, <1>4, <1>5, <1>7, <2>1
<1>8. CASE line.scenario = "time"
  <2>1. Planned(g, p) = IF first[p] = -1 THEN log[p].end ELSE first[p] BY <1>8 DEF Planned, first
  <2>2. QED BY SMTT(20), <1>2, <1>3, <1>4, <1>5, <1>8, <2>1 DEF Within
<1>9. CASE line.scenario = "current"
  <2>1. Planned(g, p) = IF p \in DOMAIN first THEN first[p] ELSE work[g].committed[p]
    BY <1>9 DEF Planned, first
  <2>2. p \notin DOMAIN first => p \in DOMAIN work[g].committed BY <1>1, <1>9 DEF Asked
  <2>3. QED BY <1>2, <1>4, <1>6, <1>9, <2>1, <2>2
<1>10. CASE line.scenario \in {"offset", "shift", "file"}
  <2>1. Planned(g, p) = Clamped(Requested(g, p), first[p], log[p].end)
    BY <1>10 DEF Planned, first
  <2>2. Requested(g, p) \in Int
    <3>1. CASE line.scenario = "offset" BY <1>1, <3>1 DEF Requested, LineArgs
    <3>2. CASE line.scenario = "shift"
      <4>1. p \in DOMAIN work[g].committed BY <1>1, <3>2 DEF Valid, Sets
      <4>2. work[g].committed[p] \in Nat BY <1>6, <4>1 DEF Within
      <4>3. QED BY SMTT(20), <1>1, <3>2, <4>2 DEF Requested, LineArgs
    <3>3. CASE line.scenario = "file"
      <4>1. g \in DOMAIN line.file /\ p \in DOMAIN line.file[g] BY <3>3 DEF Sets
      <4>2. QED BY <1>1, <3>3, <4>1 DEF Requested, LineArgs
    <3>4. QED BY <1>10, <3>1, <3>2, <3>3
  <2>3. first[p] \in Nat /\ first[p] <= log[p].end BY <1>4, <1>5, <1>10 DEF Within
  <2>4. QED BY SMTT(20), <1>2, <1>3, <2>1, <2>2, <2>3 DEF Clamped, Within, first
<1>11. QED BY <1>1, <1>7, <1>8, <1>9, <1>10 DEF LineArgs

LEMMA LookUpSecondInv == ASSUME Inv, NEW g \in Groups, LookUpSecond(g) PROVE Inv'
<1> DEFINE q == [p \in Sets(g) |-> Planned(g, p)]
           w == [work[g] EXCEPT !.at = "alter", !.plan = q]
<1>1. /\ pc = "groups" /\ work[g].at = "second" /\ line.action = "reset"
      /\ UNCHANGED <<cluster, moves, line, seen, failed, agreed>>
      /\ \/ Continue(g, w)
         \/ DoneWith(g, {<<g, p, q[p]>> : p \in DOMAIN q}) /\ UNCHANGED <<pc, exit>>
  BY DEF LookUpSecond, At
<1>2. \A p \in DOMAIN q :
        /\ p \in Parts /\ Within(q[p], p)
        /\ line.scenario \in {"offset", "shift", "file"} => work[g].first[p] <= q[p]
  BY <1>1, PlannedFacts
<1> HIDE DEF q
<1>3. /\ Notes(w) /\ w.at = "alter" /\ w.committed = work[g].committed
      /\ w.first = work[g].first /\ w.plan = q
  BY NotesNow DEF Notes
<1> HIDE DEF w
<1>4. CASE Continue(g, w)
  <2>1. DOMAIN w.committed \cup DOMAIN w.first \cup DOMAIN w.plan \subseteq Parts
    BY <1>2, <1>3, NotesNow
  <2>2. ASSUME work'[g] = w PROVE WorkInv(g)'
    <3>1. \A p \in Parts : \A o : Within(o, p)' <=> Within(o, p) BY <1>1 DEF Within, cluster
    <3>2. CommittedInv(g)' BY <1>3, <2>2, <3>1, NotesNow DEF WorkInv, CommittedInv
    <3>3. Valid(g)' = Valid(g) /\ Sets(g)' = Sets(g) /\ Asked(g)' = Asked(g)
      BY <1>1, <1>3, <2>2 DEF Valid, Sets, Scope, Asked
    <3>4. ValidInv(g)' BY <1>1, <3>3, NotesNow DEF WorkInv, ValidInv
    <3>5. FirstInv(g)'
      <4>1. FirstInv(g) /\ DOMAIN work[g].first \subseteq Parts BY NotesNow DEF WorkInv
      <4>2. QED BY <1>1, <1>3, <2>2, <3>1, <3>3, <4>1 DEF FirstInv
    <3>6. PlanInv(g)' BY <1>1, <1>2, <1>3, <2>2, <3>1 DEF PlanInv
    <3>7. QED BY <3>2, <3>4, <3>5, <3>6 DEF WorkInv
  <2>3. QED BY <1>1, <1>3, <1>4, <2>1, <2>2, ResetInv DEF Labels
<1>5. CASE DoneWith(g, {<<g, p, q[p]>> : p \in DOMAIN q}) /\ UNCHANGED <<pc, exit>>
  <2> DEFINE new == {<<g, p, q[p]>> : p \in DOMAIN q}
  <2>1. DoneWith(g, new) /\ pc' = "groups" /\ exit' = exit BY <1>1, <1>5
  <2> HIDE DEF new
  <2>2. QED BY <1>1, <2>1, OffsetsNow, DoneWithInv DEF cluster, TypeOK
<1>6. QED BY <1>1, <1>4, <1>5

LEMMA AlterInv == ASSUME Inv, NEW g \in Groups, Alter(g) PROVE Inv'
<1>1. /\ pc = "groups" /\ work[g].at = "alter" /\ line.action = "reset"
      /\ UNCHANGED <<log, moves, line, seen, agreed>>
  BY DEF Alter, At
<1> DEFINE q == work[g].plan
<1>2. PICK done \in SUBSET DOMAIN q :
        /\ offset' = [offset EXCEPT ![g] = [p \in Parts |-> IF p \in done THEN q[p] ELSE @[p]]]
        /\ group' = [group EXCEPT ![g] = IF @ = "Dead" /\ done # {} THEN "Empty" ELSE @]
        /\ \/ /\ DoneWith(g, {<<g, p, q[p]>> : p \in DOMAIN q})
              /\ UNCHANGED <<pc, exit, failed>>
           \/ failed' = TRUE /\ Exit("failed") /\ UNCHANGED <<todo, rows, work>>
           \/ Abort /\ UNCHANGED failed
  BY DEF Alter
<1>3. \A p \in done : p \in Parts /\ q[p] \in Nat /\ q[p] <= log[p].end
  BY <1>1, <1>2, NotesNow DEF WorkInv, PlanInv, Within
<1>4. /\ TypeOK /\ failed \in BOOLEAN
      /\ \A h \in Groups, p \in Parts : offset[h][p] # None => offset[h][p] <= log[p].end
  BY OffsetsNow
<1> HIDE DEF q
<1>5. offset' \in [Groups -> [Parts -> Nat \cup {None}]] BY <1>2, <1>3, <1>4 DEF TypeOK
<1>6. group' \in [Groups -> {"Dead", "Empty", "Stable"}] BY <1>2, <1>4 DEF TypeOK
<1>7. (\A h \in Groups, p \in Parts : offset[h][p] # None => offset[h][p] <= log[p].end)'
  BY <1>1, <1>2, <1>3, <1>4 DEF TypeOK
<1>8. CASE DoneWith(g, {<<g, p, q[p]>> : p \in DOMAIN q}) /\ UNCHANGED <<pc, exit, failed>>
  <2> DEFINE new == {<<g, p, q[p]>> : p \in DOMAIN q}
  <2>1. DoneWith(g, new) /\ pc' = "groups" /\ exit' = exit /\ failed' = failed BY <1>1, <1>8
  <2> HIDE DEF new
  <2>2. QED BY <1>1, <1>4, <1>5, <1>6, <1>7, <2>1, DoneWithInv
<1>9. CASE failed' = TRUE /\ Exit("failed") /\ UNCHANGED <<todo, rows, work>>
  BY <1>1, <1>5, <1>6, <1>7, <1>9, AbortInv DEF Exit
<1>10. CASE Abort /\ UNCHANGED failed
  BY <1>1, <1>4, <1>5, <1>6, <1>7, <1>10, AbortInv DEF Abort, Exit
<1>11. QED BY <1>2, <1>8, <1>9, <1>10

LEMMA NextInv == Inv /\ [Next]_vars => Inv'
<1> SUFFICES ASSUME Inv, [Next]_vars PROVE Inv' OBVIOUS
<1>1. CASE UNCHANGED vars
  <2>1. TypeOK' BY <1>1, OffsetsNow DEF vars, TypeOK
  <2>2. QED BY <1>1, <2>1, OffsetsNow, QuietInv DEF vars, TypeOK
<1>2. CASE Next
  BY <1>2, BeginningInv, SendInv, DescribeGroupInv, NextGroupInv, ReadCommittedInv,
     CheckPartitionsInv, LookUpFirstInv, LookUpSecondInv, AlterInv, MembersInv, LogsInv
  DEF Next
<1>3. QED BY <1>1, <1>2

-----------------------------------------------------------------------------
(* Offsets and lags                                                        *)

\* consumer-groups --reset-offsets: for any groups, partitions, scenarios and
\* files, no committed offset is ever past the end of its log, although the
\* command reads offsets, starts and ends one after the other while the logs
\* grow, are trimmed and members commit; one asked for by number is not below
\* the start that was read.
THEOREM Keeps == Spec => []KeepsToTheLog
<1>1. Inv => KeepsToTheLog BY DEF Inv
<1>2. QED BY InitInv, NextInv, <1>1, PTL DEF Spec

\* consumer-groups --describe: no lag that it shows is negative, however many
\* commits and appends come between the two reads of a group.
THEOREM LagHolds == Spec => []LagIsNeverNegative
<1>1. Inv => LagIsNeverNegative BY DEF Inv
<1>2. QED BY InitInv, NextInv, <1>1, PTL DEF Spec

-----------------------------------------------------------------------------
(* Reports and changes                                                     *)

Deletes == line.action \in {"delete", "deleteOffsets"}

\* The reports of a reset are what it has written until it aborts, and what
\* deletes has no report before its one request.
Told ==
    /\ line.action # "reset" => written = {}
    /\ line.action = "reset" /\ line.execute =>
         rows \subseteq written /\ (pc # "done" \/ exit = "ok" => rows = written)
    /\ Deletes /\ pc # "done" => rows = {}
    /\ pc = "describe" => ~(Deletes /\ line.execute)
    /\ pc = "groups" => ~Deletes
    /\ pc \in {"prompt", "send"} => line.execute /\ Deletes
    /\ pc = "send" => agreed
    /\ ReportedIsDone

InScope(g, p) ==
    IF line.scenario = "file" THEN g \in DOMAIN line.file /\ p \in DOMAIN line.file[g]
    ELSE line.topics = All \/ p \in line.topics

\* What the command is about to write is in the scope of its command line.
Scoped ==
    /\ line.groups = All \/ todo \subseteq line.groups
    /\ \A g \in Groups :
         work[g].at = "alter" =>
           line.execute /\ \A p \in DOMAIN work[g].plan : InScope(g, p)

LEMMA ToldBeginning ==
    ASSUME Inv, Told, Start \/ Target \/ Describe \/ Prompt \/ Fails \/ Finish \/ Ended
    PROVE  Told'
<1>1. LineArgs(line) BY OffsetsNow, LinesAreLines DEF TypeOK
<1>2. CASE Start BY <1>1, <1>2 DEF Start, Exit, Told, ReportedIsDone, Deletes
<1>3. CASE Target BY <1>1, <1>3 DEF Target, Exit, Told, ReportedIsDone, Deletes, Asks
<1>4. CASE Describe
  <2>1. CASE line.action \in {"describe", "reset"}
    BY <1>1, <1>4, <2>1 DEF Describe, Exit, Told, ReportedIsDone, Deletes
  <2>2. CASE line.action \notin {"describe", "reset"}
    <3>1. Deletes BY <1>1, <2>2 DEF LineArgs, Deletes
    <3>2. pc = "describe" /\ line' = line /\ written' = written BY <1>4 DEF Describe
    <3>3. pc' = "done" BY <1>4, <2>2 DEF Describe, Exit
    <3>4. ~line.execute BY <3>1, <3>2 DEF Told
    <3>5. QED BY <3>1, <3>2, <3>3, <3>4 DEF Told, ReportedIsDone, Deletes
  <2>3. QED BY <2>1, <2>2
<1>5. CASE Prompt BY <1>1, <1>5 DEF Prompt, Exit, Told, ReportedIsDone, Deletes
<1>6. CASE Fails BY <1>1, <1>6 DEF Fails, Exit, Told, ReportedIsDone, Deletes
<1>7. CASE Finish BY <1>1, <1>7 DEF Finish, Exit, Told, ReportedIsDone, Deletes
<1>8. CASE Ended BY <1>1, <1>8 DEF Ended, vars, Told, ReportedIsDone, Deletes
<1>9. QED BY <1>2, <1>3, <1>4, <1>5, <1>6, <1>7, <1>8

\* A row without an error is of what the answer names as done.
LEMMA ToldSend ==
    ASSUME Inv, Told, SendDelete \/ SendDeleteOffsets PROVE Told'
<1>1. LineArgs(line) /\ TypeOK BY OffsetsNow, LinesAreLines DEF TypeOK
<1>2. CASE SendDelete
  <2>1. /\ line.action = "delete" /\ line' = line /\ written' = written /\ pc = "send"
        /\ rows = {} /\ written = {} /\ pc' = "done"
    BY <1>2 DEF SendDelete, Told, Deletes, Report, Exit
  <2>2. \A r \in rows' : r[3] = "ok" => group'[r[1]] = "Dead"
    <3>1. PICK gone \in SUBSET {g \in todo : group[g] = "Empty"} :
            /\ group' = [g \in Groups |-> IF g \in gone THEN "Dead" ELSE group[g]]
            /\ \/ \E answer \in [todo -> {"done", "refused", "absent"}] :
                     /\ \A g \in todo : answer[g] \in Answers(g \in gone)
                     /\ Report({<<g, None, Verdict(~Done(answer[g]))>> : g \in todo})
               \/ Exit("error") /\ UNCHANGED <<rows, failed>>
      BY <1>2 DEF SendDelete
    <3>2. CASE \E answer \in [todo -> {"done", "refused", "absent"}] :
                     /\ \A g \in todo : answer[g] \in Answers(g \in gone)
                     /\ Report({<<g, None, Verdict(~Done(answer[g]))>> : g \in todo})
      <4>1. PICK answer \in [todo -> {"done", "refused", "absent"}] :
                     /\ \A g \in todo : answer[g] \in Answers(g \in gone)
                     /\ Report({<<g, None, Verdict(~Done(answer[g]))>> : g \in todo})
        BY <3>2
      <4>2. \A g \in todo : Verdict(~Done(answer[g])) = "ok" => g \in gone
        BY <4>1 DEF Verdict, Done, Answers
      <4>3. \A g \in gone : g \in Groups /\ group'[g] = "Dead" BY <1>1, <3>1 DEF TypeOK
      <4>4. rows' = {<<g, None, Verdict(~Done(answer[g]))>> : g \in todo} BY <4>1 DEF Report
      <4>5. QED BY SMTT(20), <4>2, <4>3, <4>4
    <3>3. QED BY <2>1, <3>1, <3>2
  <2>3. QED BY <2>1, <2>2 DEF Told, ReportedIsDone, Deletes
<1>3. CASE SendDeleteOffsets
  <2>1. /\ line.action = "deleteOffsets" /\ line' = line /\ written' = written /\ pc = "send"
        /\ rows = {} /\ written = {} /\ pc' = "done"
    BY <1>3 DEF SendDeleteOffsets, Told, Deletes, Report, Exit
  <2>2. \A r \in rows' : r[3] = "ok" => offset'[r[1]][r[2]] = None
    <3>1. PICK g \in todo, gone \in SUBSET (line.topics \cap Parts) :
            /\ offset' = [offset EXCEPT ![g] = [p \in Parts |-> IF p \in gone THEN None ELSE @[p]]]
            /\ \/ \E answer \in [line.topics -> {"done", "refused", "absent"}] :
                     /\ \A p \in line.topics \cap Parts :
                            answer[p] \in Answers(p \in gone \/ offset[g][p] = None)
                     /\ \A p \in line.topics \ Parts : answer[p] = "refused"
                     /\ Report({<<g, p, Verdict(~Done(answer[p]))>> : p \in line.topics})
               \/ Exit("error") /\ UNCHANGED <<rows, failed>>
      BY ZenonT(60), <1>3 DEF SendDeleteOffsets
    <3>2. CASE \E answer \in [line.topics -> {"done", "refused", "absent"}] :
                     /\ \A p \in line.topics \cap Parts :
                            answer[p] \in Answers(p \in gone \/ offset[g][p] = None)
                     /\ \A p \in line.topics \ Parts : answer[p] = "refused"
                     /\ Report({<<g, p, Verdict(~Done(answer[p]))>> : p \in line.topics})
      <4>1. PICK answer \in [line.topics -> {"done", "refused", "absent"}] :
                     /\ \A p \in line.topics \cap Parts :
                            answer[p] \in Answers(p \in gone \/ offset[g][p] = None)
                     /\ \A p \in line.topics \ Parts : answer[p] = "refused"
                     /\ Report({<<g, p, Verdict(~Done(answer[p]))>> : p \in line.topics})
        BY <3>2
      <4>2. \A p \in line.topics : Verdict(~Done(answer[p])) = "ok" =>
              p \in Parts /\ (p \in gone \/ offset[g][p] = None)
        BY <4>1 DEF Verdict, Done, Answers
      <4>3. \A p \in Parts : p \in gone \/ offset[g][p] = None => offset'[g][p] = None
        BY <1>1, <3>1 DEF TypeOK
      <4>4. rows' = {<<g, p, Verdict(~Done(answer[p]))>> : p \in line.topics} BY <4>1 DEF Report
      <4>5. QED BY SMTT(20), <4>2, <4>3, <4>4
    <3>3. QED BY <2>1, <3>1, <3>2
  <2>3. QED BY <2>1, <2>2 DEF Told, ReportedIsDone, Deletes
<1>4. QED BY <1>2, <1>3

\* A step of the loop over the groups that writes nothing reports nothing of
\* an executed reset.
LEMMA ToldQuiet ==
    ASSUME Inv, Told, pc = "groups", line' = line, written' = written,
           \/ pc' = "groups" /\ exit' = exit
           \/ pc' = "done" /\ exit' = "error",
           line.action = "reset" /\ line.execute => rows' = rows
    PROVE  Told'
<1>1. LineArgs(line) BY OffsetsNow, LinesAreLines DEF TypeOK
<1>2. QED BY <1>1 DEF Told, ReportedIsDone, Deletes

LEMMA ToldLoop ==
    ASSUME Inv, Told, NEW g \in Groups,
           \/ DescribeGroup(g) \/ NextGroup(g) \/ ReadCommitted(g) \/ CheckPartitions(g)
           \/ LookUpFirst(g) \/ LookUpSecond(g)
    PROVE  Told'
<1>1. CASE DescribeGroup(g)
  <2>1. /\ pc = "groups" /\ line' = line /\ written' = written /\ pc' = pc /\ exit' = exit
        /\ line.action = "describe"
    BY <1>1 DEF DescribeGroup
  <2>2. QED BY <2>1, ToldQuiet
<1>2. CASE NextGroup(g)
  BY <1>2, ToldQuiet DEF NextGroup, Between, DoneWith, Exit
<1>3. CASE ReadCommitted(g)
  BY <1>3, ToldQuiet DEF ReadCommitted, At, Continue
<1>4. CASE CheckPartitions(g)
  BY <1>4, ToldQuiet DEF CheckPartitions, At, Continue, Abort, Exit
<1>5. CASE LookUpFirst(g)
  BY <1>5, ToldQuiet DEF LookUpFirst, At, Continue
<1>6. CASE LookUpSecond(g)
  <2> DEFINE q == [p \in Sets(g) |-> Planned(g, p)]
  <2>1. /\ pc = "groups" /\ line' = line /\ written' = written /\ pc' = pc /\ exit' = exit
        /\ \/ rows' = rows
           \/ ~(line.execute /\ q # NoPlan) /\ rows' = rows \cup {<<g, p, q[p]>> : p \in DOMAIN q}
    BY <1>6 DEF LookUpSecond, At, Continue, DoneWith
  <2> HIDE DEF q
  <2>2. q = NoPlan => {<<g, p, q[p]>> : p \in DOMAIN q} = {} BY DEF NoPlan
  <2>3. line.execute => rows' = rows BY <2>1, <2>2
  <2>4. QED BY <2>1, <2>3, ToldQuiet
<1>7. QED BY <1>1, <1>2, <1>3, <1>4, <1>5, <1>6

\* What the coordinator wrote is reported, all of it or none.
LEMMA ToldAlter == ASSUME Inv, Told, NEW g \in Groups, Alter(g) PROVE Told'
<1> DEFINE q == work[g].plan
           all == {<<g, p, q[p]>> : p \in DOMAIN q}
<1>1. /\ pc = "groups" /\ line.action = "reset" /\ line' = line
  BY DEF Alter, At
<1>2. PICK done \in SUBSET DOMAIN q :
        /\ written' = written \cup {<<g, p, q[p]>> : p \in done}
        /\ \/ done = DOMAIN q /\ rows' = rows \cup all /\ pc' = pc /\ exit' = exit
           \/ pc' = "done" /\ exit' \in {"failed", "error"} /\ rows' = rows
  BY DEF Alter, Altered, DoneWith, Exit, Abort
<1>3. line.execute => rows = written BY <1>1 DEF Told
<1> HIDE DEF q
<1>4. line.execute => rows' \subseteq written' /\ (pc' # "done" => rows' = written')
  BY <1>1, <1>2, <1>3
<1>5. QED BY <1>1, <1>2, <1>4 DEF Told, ReportedIsDone, Deletes

LEMMA ToldNext == Inv /\ Told /\ [Next]_vars => Told'
<1> SUFFICES ASSUME Inv, Told, [Next]_vars PROVE Told' OBVIOUS
<1>1. CASE UNCHANGED vars BY <1>1 DEF vars, Told, ReportedIsDone, Deletes
<1>2. CASE Move BY <1>2 DEF Move, Told, ReportedIsDone, Deletes
<1>3. CASE Next
  <2>1. ASSUME NEW g \in Groups,
               \/ Join(g) \/ Leave(g) \/ Expire(g) \/ \E p \in Parts : Commit(g, p)
        PROVE  Move
    BY <2>1 DEF Join, Leave, Expire, Commit
  <2>2. ASSUME NEW p \in Parts, Produce(p) \/ Trim(p) PROVE Move BY <2>2 DEF Produce, Trim
  <2>3. QED BY <1>2, <1>3, <2>1, <2>2, ToldBeginning, ToldSend, ToldLoop, ToldAlter DEF Next
<1>4. QED BY <1>1, <1>3

\* A step that starts no new write keeps what is to be written in scope.
LEMMA ScopedQuiet ==
    ASSUME Inv, Scoped, line' = line, todo' \subseteq todo,
           \A g \in Groups : work'[g] = work[g] \/ work'[g].at # "alter"
    PROVE  Scoped'
BY SMTT(20) DEF Scoped, InScope

LEMMA KeepOnly ==
    ASSUME Inv, NEW g \in Groups, NEW w, Keep(g, w), w.at # "alter"
    PROVE  \A h \in Groups : work'[h] = work[h] \/ work'[h].at # "alter"
BY DEF Inv, Shape, Keep

LEMMA ScopedBeginning ==
    ASSUME Inv, Scoped,
           \/ Start \/ Target \/ Describe \/ Prompt \/ Fails \/ Finish \/ Ended
           \/ SendDelete \/ SendDeleteOffsets \/ Move
    PROVE  Scoped'
<1>1. LineArgs(line) /\ TypeOK BY OffsetsNow, LinesAreLines DEF TypeOK
<1>2. CASE Target
  <2>1. line.groups = All \/ todo' \subseteq line.groups BY <1>2 DEF Target, Targets
  <2>2. QED BY <1>2, <2>1 DEF Target, Scoped, InScope
<1>3. CASE Start \/ Describe \/ Prompt \/ Fails \/ Finish \/ Ended \/ Move
  BY <1>3, ScopedQuiet DEF Start, Describe, Prompt, Fails, Finish, Ended, Move, vars
<1>4. CASE SendDelete \/ SendDeleteOffsets
  BY <1>4, ScopedQuiet DEF SendDelete, SendDeleteOffsets
<1>5. QED BY <1>2, <1>3, <1>4

LEMMA ScopedLoop ==
    ASSUME Inv, Scoped, NEW g \in Groups,
           \/ DescribeGroup(g) \/ NextGroup(g) \/ ReadCommitted(g) \/ CheckPartitions(g)
           \/ LookUpFirst(g) \/ LookUpSecond(g) \/ Alter(g)
    PROVE  Scoped'
<1>1. LineArgs(line) /\ DOMAIN work = Groups /\ Notes(work[g])
  BY NotesNow, OffsetsNow DEF Shape
<1>2. Blank.at = "none" BY DEF Blank
<1>3. ASSUME NEW new, DoneWith(g, new), line' = line PROVE Scoped'
  BY <1>2, <1>3, KeepOnly, ScopedQuiet DEF DoneWith
<1>4. ASSUME NEW w, Keep(g, w), w.at # "alter", todo' = todo, line' = line PROVE Scoped'
  BY <1>4, KeepOnly, ScopedQuiet
<1>5. ASSUME UNCHANGED <<todo, work, line>> PROVE Scoped' BY <1>5, ScopedQuiet
<1>6. CASE DescribeGroup(g)
  <2> DEFINE w == [Blank EXCEPT !.at = "ends", !.committed = Offsets(g)]
  <2>1. w.at = "ends" BY DEF Blank
  <2> HIDE DEF w
  <2>2. line' = line /\ ((\E new : DoneWith(g, new)) \/ (Keep(g, w) /\ todo' = todo))
    BY <1>6 DEF DescribeGroup, GroupOffsets, w
  <2>3. QED BY <1>3, <1>4, <2>1, <2>2
<1>7. CASE NextGroup(g)
  <2> DEFINE w == [Blank EXCEPT !.at = "committed"]
  <2>1. w.at = "committed" BY DEF Blank
  <2> HIDE DEF w
  <2>2. /\ line' = line
        /\ DoneWith(g, {}) \/ UNCHANGED <<todo, work>> \/ (Keep(g, w) /\ todo' = todo)
    BY <1>7 DEF NextGroup, w
  <2>3. QED BY <1>3, <1>4, <1>5, <2>1, <2>2
<1>8. CASE ReadCommitted(g)
  <2> DEFINE w == [work[g] EXCEPT !.at = "valid",
          !.committed = IF line.topics = All \/ line.scenario \in {"shift", "current"}
                        THEN Offsets(g) ELSE NoPlan]
  <2>1. w.at = "valid" BY <1>1 DEF Notes
  <2>2. Keep(g, w) /\ todo' = todo /\ line' = line BY <1>8 DEF ReadCommitted, Continue
  <2> HIDE DEF w
  <2>3. QED BY <1>4, <2>1, <2>2
<1>9. CASE CheckPartitions(g)
  <2> DEFINE w == [work[g] EXCEPT !.at = "first"]
  <2>1. w.at = "first" BY <1>1 DEF Notes
  <2>2. line' = line /\ todo' = todo /\ (Keep(g, w) \/ work' = work)
    BY <1>9 DEF CheckPartitions, Continue, Abort
  <2> HIDE DEF w
  <2>3. QED BY <1>4, <1>5, <2>1, <2>2
<1>10. CASE LookUpFirst(g)
  <2> DEFINE w == [work[g] EXCEPT !.at = "second", !.first = [p \in Asked(g) |-> Lookup(p)]]
  <2>1. w.at = "second" BY <1>1 DEF Notes
  <2>2. Keep(g, w) /\ todo' = todo /\ line' = line BY <1>10 DEF LookUpFirst, Continue
  <2> HIDE DEF w
  <2>3. QED BY <1>4, <2>1, <2>2
<1>11. CASE LookUpSecond(g)
  <2> DEFINE q == [p \in Sets(g) |-> Planned(g, p)]
             w == [work[g] EXCEPT !.at = "alter", !.plan = q]
  <2>1. /\ line' = line
        /\ \/ line.execute /\ Keep(g, w) /\ todo' = todo
           \/ \E new : DoneWith(g, new)
    BY <1>11 DEF LookUpSecond, Continue
  <2>2. DOMAIN q = Sets(g) /\ \A p \in Sets(g) : InScope(g, p)
    BY DEF Sets, Scope, InScope
  <2> HIDE DEF q
  <2>3. w.plan = q BY <1>1 DEF Notes
  <2> HIDE DEF w
  <2>4. CASE line.execute /\ Keep(g, w) /\ todo' = todo
    <3>1. work'[g] = w /\ \A h \in Groups : h # g => work'[h] = work[h]
      BY <1>1, <2>4 DEF Keep
    <3>2. \A h, p : InScope(h, p)' <=> InScope(h, p) BY <2>1 DEF InScope
    <3>3. QED BY <2>1, <2>2, <2>3, <2>4, <3>1, <3>2 DEF Scoped
  <2>5. QED BY <1>3, <2>1, <2>4
<1>12. CASE Alter(g)
  <2>1. line' = line /\ ((\E new : DoneWith(g, new)) \/ UNCHANGED <<todo, work>>)
    BY <1>12 DEF Alter, Abort
  <2>2. QED BY <1>3, <1>5, <2>1
<1>13. QED BY <1>6, <1>7, <1>8, <1>9, <1>10, <1>11, <1>12

LEMMA ScopedNext == Inv /\ Scoped /\ [Next]_vars => Scoped'
<1> SUFFICES ASSUME Inv, Scoped, [Next]_vars PROVE Scoped' OBVIOUS
<1>1. CASE UNCHANGED vars BY <1>1, ScopedQuiet DEF vars
<1>2. CASE Next
  <2>1. ASSUME NEW g \in Groups,
               \/ Join(g) \/ Leave(g) \/ Expire(g) \/ \E p \in Parts : Commit(g, p)
        PROVE  Move
    BY <2>1 DEF Join, Leave, Expire, Commit
  <2>2. ASSUME NEW p \in Parts, Produce(p) \/ Trim(p) PROVE Move BY <2>2 DEF Produce, Trim
  <2>3. QED BY <1>2, <2>1, <2>2, ScopedBeginning, ScopedLoop DEF Next
<1>3. QED BY <1>1, <1>2

LEMMA PermittedSend ==
    ASSUME Inv, Told, Scoped, SendDelete \/ SendDeleteOffsets, NEW g \in Groups, NEW p \in Parts
    PROVE  Permitted(g, p)
<1>1. TypeOK BY OffsetsNow
<1>2. line.execute /\ agreed
  BY DEF SendDelete, SendDeleteOffsets, Told
<1>3. CASE SendDelete
  <2>1. PICK gone \in SUBSET {h \in todo : group[h] = "Empty"} :
          /\ group' = [h \in Groups |-> IF h \in gone THEN "Dead" ELSE group[h]]
          /\ offset' = [h \in Groups |-> IF h \in gone THEN [x \in Parts |-> None] ELSE offset[h]]
    BY <1>3 DEF SendDelete
  <2>2. g \notin gone => group'[g] = group[g] /\ offset'[g][p] = offset[g][p] BY <2>1
  <2>3. g \in gone => line.groups = All \/ g \in line.groups BY <2>1 DEF Scoped
  <2>4. line.action = "delete" BY <1>3 DEF SendDelete
  <2>5. QED BY <1>2, <2>2, <2>3, <2>4 DEF Permitted
<1>4. CASE SendDeleteOffsets
  <2>1. PICK h \in todo, gone \in SUBSET (line.topics \cap Parts) :
          offset' = [offset EXCEPT ![h] = [x \in Parts |-> IF x \in gone THEN None ELSE @[x]]]
    BY <1>4 DEF SendDeleteOffsets
  <2>2. offset'[g][p] # offset[g][p] => g = h /\ p \in gone BY <1>1, <2>1 DEF TypeOK
  <2>3. line.groups = All \/ h \in line.groups BY DEF Scoped
  <2>4. line.action = "deleteOffsets" /\ group' = group BY <1>4 DEF SendDeleteOffsets
  <2>5. QED BY <1>2, <2>2, <2>3, <2>4 DEF Permitted
<1>5. QED BY <1>3, <1>4

LEMMA PermittedAlter ==
    ASSUME Inv, Scoped, NEW h \in Groups, Alter(h), NEW g \in Groups, NEW p \in Parts
    PROVE  Permitted(g, p)
<1>1. TypeOK BY OffsetsNow
<1>2. pc = "groups" /\ line.action = "reset" /\ work[h].at = "alter" BY DEF Alter, At
<1> DEFINE q == work[h].plan
<1>3. PICK done \in SUBSET DOMAIN q :
        /\ offset' = [offset EXCEPT ![h] = [x \in Parts |-> IF x \in done THEN q[x] ELSE @[x]]]
        /\ group' = [group EXCEPT ![h] = IF @ = "Dead" /\ done # {} THEN "Empty" ELSE @]
  BY DEF Alter
<1>4. h \in todo /\ line.execute /\ \A x \in DOMAIN q : InScope(h, x)
  BY <1>1, <1>2 DEF Scoped, TypeOK
<1> HIDE DEF q
<1>5. offset'[g][p] # offset[g][p] => g = h /\ p \in done BY <1>1, <1>3 DEF TypeOK
<1>6. group'[g] # group[g] => g = h BY <1>1, <1>3 DEF TypeOK
<1>7. line.groups = All \/ h \in line.groups BY <1>4 DEF Scoped
<1>8. p \in done => InScope(h, p) BY <1>4
<1>9. QED BY <1>2, <1>4, <1>5, <1>6, <1>7, <1>8 DEF Permitted, InScope

LEMMA PermittedNext ==
    ASSUME Inv, Told, Scoped, Next, NEW g \in Groups, NEW p \in Parts
    PROVE  Permitted(g, p)
<1>1. CASE UNCHANGED cluster BY <1>1 DEF cluster, Permitted
<1>2. CASE Move BY <1>2 DEF Move, Permitted
<1>3. ASSUME NEW h \in Groups,
             \/ Join(h) \/ Leave(h) \/ Expire(h) \/ \E x \in Parts : Commit(h, x)
      PROVE  Move
  BY <1>3 DEF Join, Leave, Expire, Commit
<1>4. ASSUME NEW x \in Parts, Produce(x) \/ Trim(x) PROVE Move BY <1>4 DEF Produce, Trim
<1>5. ASSUME Start \/ Target \/ Describe \/ Prompt \/ Fails \/ Finish \/ Ended
      PROVE  UNCHANGED cluster
  BY <1>5 DEF Start, Target, Describe, Prompt, Fails, Finish, Ended, vars, cluster
<1>6. ASSUME NEW h \in Groups,
             \/ DescribeGroup(h) \/ NextGroup(h) \/ ReadCommitted(h) \/ CheckPartitions(h)
             \/ LookUpFirst(h) \/ LookUpSecond(h)
      PROVE  UNCHANGED cluster
  BY <1>6 DEF DescribeGroup, NextGroup, ReadCommitted, CheckPartitions, LookUpFirst,
              LookUpSecond
<1>7. QED BY <1>1, <1>2, <1>3, <1>4, <1>5, <1>6, PermittedSend, PermittedAlter DEF Next

\* The report tells the truth, for any groups and command lines: what an executed
\* reset lists was written, what is reported as deleted is gone, whatever parts
\* of a request the coordinator refused or its answer left out.
THEOREM Tells == Spec => []ReportedIsDone
<1>1. Init => Told
  BY DEF Init, Told, ReportedIsDone, Deletes
<1>2. Told => ReportedIsDone BY DEF Told
<1>3. QED BY InitInv, NextInv, ToldNext, <1>1, <1>2, PTL DEF Spec

\* The command changes a group only in the scope of its command line, never on
\* a dry run or a description, and after a confirmation if it deletes.
THEOREM StaysInScope == Spec => ChangesAreAskedFor
<1>1. Init => Told /\ Scoped
  BY SMTT(20) DEF Init, Told, ReportedIsDone, Deletes, Scoped, Blank
<1>2. Inv /\ Told /\ Scoped /\ [Next]_vars =>
        [\A g \in Groups, p \in Parts : Permitted(g, p)]_vars
  BY PermittedNext
<1>3. QED BY InitInv, NextInv, ToldNext, ScopedNext, <1>1, <1>2, PTL
       DEF Spec, ChangesAreAskedFor

-----------------------------------------------------------------------------
(* The batch that --describe asks its questions with: fan_out::bounded, for *)
(* every number of items and every limit, the zero limit and the empty      *)
(* batch included.                                                          *)

\* A limit of 0 counts as 1: there is always room for one request.
LEMMA LimitPositive == EffectiveLimit \in Nat /\ EffectiveLimit >= 1
  BY SMTT(20), SizesAreNaturals DEF EffectiveLimit

\* swap_remove on a typed vector: one slot fewer, no new item, and what is
\* left is every slot but the removed one.
LEMMA SwapRemoveFacts ==
  ASSUME NEW S, NEW s \in Seq(S), NEW k \in 1..Len(s)
  PROVE  /\ SwapRemove(s, k) \in Seq(S)
         /\ Len(SwapRemove(s, k)) = Len(s) - 1
         /\ \A j \in 1..(Len(s) - 1) :
               SwapRemove(s, k)[j] = IF j = k THEN s[Len(s)] ELSE s[j]
  BY SMTT(20) DEF SwapRemove

\* swap_remove keeps the slots distinct.
LEMMA SwapRemoveDistinct ==
  ASSUME NEW S, NEW s \in Seq(S), NEW k \in 1..Len(s),
         \A x, y \in 1..Len(s) : s[x] = s[y] => x = y,
         NEW i \in 1..(Len(s) - 1), NEW j \in 1..(Len(s) - 1),
         SwapRemove(s, k)[i] = SwapRemove(s, k)[j]
  PROVE  i = j
  <1> DEFINE n == Len(s)
             a == IF i = k THEN n ELSE i
             b == IF j = k THEN n ELSE j
  <1>1. a \in 1..n /\ b \in 1..n
    BY SMTT(20)
  <1>2. s[a] = s[b]
    BY DEF SwapRemove
  <1>3. a = b
    BY <1>1, <1>2
  <1> QED
    BY SMTT(20), <1>3

\* The refill on a typed vector.
LEMMA FillFacts ==
  ASSUME FanTypeOK, InFlightBound
  PROVE  /\ Started \in Nat
         /\ pending + Started \in 1..(N + 1)
         /\ Len(running) + Started <= EffectiveLimit
         /\ Len(running) + Started = EffectiveLimit \/ pending + Started = N + 1
  BY SMTT(20), LimitPositive, SizesAreNaturals DEF Started, FanTypeOK, InFlightBound

LEMMA InitFan == FanInit => FanInv
  <1> SUFFICES ASSUME FanInit PROVE FanInv
    OBVIOUS
  <1>1. FanTypeOK
    BY SMTT(20), SizesAreNaturals DEF FanInit, FanTypeOK, Items
  <1>2. InFlightBound
    BY SMTT(20), LimitPositive DEF FanInit, InFlightBound
  <1>3. ItemsConserved /\ OutputIsAnswer /\ ResultInOrder
    BY SMTT(20), SizesAreNaturals DEF FanInit, ItemsConserved, OutputIsAnswer, ResultInOrder, Items
  <1> QED
    BY <1>1, <1>2, <1>3 DEF FanInv

LEMMA FillFan == FanInv /\ Fill => FanInv'
  <1> SUFFICES ASSUME FanInv, Fill PROVE FanInv'
    OBVIOUS
  <1> USE SizesAreNaturals, LimitPositive DEF FanInv
  <1> DEFINE n == Len(running)
  <1>1. /\ Started \in Nat
        /\ pending + Started \in 1..(N + 1)
        /\ n + Started <= EffectiveLimit
        /\ n + Started = EffectiveLimit \/ pending + Started = N + 1
    BY FillFacts
  <1>2. /\ running' \in Seq(Items)
        /\ Len(running') = n + Started
        /\ \A j \in 1..(n + Started) :
              running'[j] = IF j <= n THEN running[j] ELSE pending + (j - n - 1)
    BY SMTT(20), <1>1 DEF Fill, FanTypeOK, Items
  <1>3. FanTypeOK'
    BY <1>1, <1>2 DEF FanTypeOK, Fill
  <1>n. n \in Nat /\ pending \in Nat /\ \A j \in 1..n : running[j] \in Nat
    BY SMTT(20) DEF FanTypeOK, Items
  <1>4. InFlightBound'
    BY <1>1, <1>2 DEF Fill, InFlightBound, EffectiveLimit
  <1>5. ItemsConserved'
    <2>1. \A j \in 1..n : running[j] < pending
      BY SMTT(20) DEF ItemsConserved, FanTypeOK, Fill
    <2>2. ASSUME NEW j \in 1..Len(running'), NEW k \in 1..Len(running'), running'[j] = running'[k]
          PROVE  j = k
      <3>1. CASE j <= n /\ k <= n
        BY SMTT(20), <1>1, <1>2, <1>n, <2>2, <3>1 DEF ItemsConserved
      <3>2. CASE j > n \/ k > n
        BY SMTT(20), <1>1, <1>2, <1>n, <2>1, <2>2, <3>2
      <3> QED BY SMTT(20), <1>1, <1>2, <1>n, <3>1, <3>2
    <2>3. ASSUME NEW i \in Items
          PROVE  /\ i < pending' <=> (outputs'[i] # NoOutput \/ \E k \in 1..Len(running') : running'[k] = i)
                 /\ outputs'[i] # NoOutput => \A k \in 1..Len(running') : running'[k] # i
      <3>1. i < pending <=> (outputs[i] # NoOutput \/ \E k \in 1..n : running[k] = i)
        BY DEF ItemsConserved, Fill
      <3>2. outputs[i] # NoOutput => \A k \in 1..n : running[k] # i
        BY DEF ItemsConserved, Fill
      <3>3. (\E k \in 1..n : running[k] = i) => \E k \in 1..Len(running') : running'[k] = i
        BY SMTT(20), <1>1, <1>2 DEF FanTypeOK
      <3>4. ASSUME i >= pending, i < pending + Started
            PROVE  \E k \in 1..Len(running') : running'[k] = i
        <4> DEFINE k == n + 1 + (i - pending)
        <4>1. k \in 1..Len(running')
          BY SMTT(20), <1>1, <1>2, <1>n, <3>4 DEF Items
        <4>2. running'[k] = i
          BY SMTT(20), <1>1, <1>2, <1>n, <3>4, <4>1 DEF Items
        <4> QED BY <4>1, <4>2
      <3>5. ASSUME NEW k \in 1..Len(running'), running'[k] = i, k > n
            PROVE  i >= pending /\ i < pending + Started
        BY SMTT(20), <1>1, <1>2, <3>5 DEF FanTypeOK, Items
      <3>6. ASSUME NEW k \in 1..Len(running'), running'[k] = i, k <= n
            PROVE  running[k] = i /\ k \in 1..n
        BY SMTT(20), <1>1, <1>2, <3>6 DEF FanTypeOK, Items
      <3>7. pending' = pending + Started /\ outputs' = outputs
        BY DEF Fill
      <3>8. i \in Nat /\ pending \in Nat /\ n \in Nat
        BY SMTT(20) DEF FanTypeOK, Items
      <3>9. i < pending' <=> (outputs'[i] # NoOutput \/ \E k \in 1..Len(running') : running'[k] = i)
        BY SMTT(20), <1>1, <1>2, <3>1, <3>3, <3>4, <3>5, <3>6, <3>7, <3>8
      <3>10. outputs'[i] # NoOutput => \A k \in 1..Len(running') : running'[k] # i
        BY SMTT(20), <1>1, <1>2, <3>1, <3>2, <3>5, <3>6, <3>7, <3>8
      <3> QED BY <3>9, <3>10
    <2> QED
      BY <2>2, <2>3 DEF ItemsConserved, Items
  <1>6. OutputIsAnswer'
    BY DEF OutputIsAnswer, Fill
  <1>7. ResultInOrder'
    <2>1. CASE n + Started = 0
      <3>1. pending = N + 1 /\ n = 0
        BY SMTT(20), <1>1, <2>1 DEF FanTypeOK
      <3>2. \A i \in Items : outputs[i] # NoOutput /\ outputs[i] = answers[i]
        BY SMTT(20), <3>1 DEF ItemsConserved, OutputIsAnswer, Items, Fill
      <3>3. outputs # NoOutput
        BY NoneIsNoValue DEF FanTypeOK, Items
      <3> QED BY <2>1, <3>2, <3>3 DEF Fill, ResultInOrder
    <2>2. CASE n + Started # 0
      BY <2>2 DEF Fill, ResultInOrder
    <2> QED BY <2>1, <2>2
  <1> QED
    BY <1>3, <1>4, <1>5, <1>6, <1>7

LEMMA PollFan == FanInv /\ Poll => FanInv'
  <1> SUFFICES ASSUME FanInv, Poll PROVE FanInv'
    OBVIOUS
  <1> USE SizesAreNaturals, LimitPositive DEF FanInv
  <1> DEFINE n == Len(running)
  <1>1. PICK k \in 1..n : /\ FirstReady(k)
                          /\ StoreOutput(k)
                          /\ running' = SwapRemove(running, k)
    BY DEF Poll
  <1>2. /\ n \in Nat
        /\ running[k] \in Items
        /\ answers[running[k]] \in Values
        /\ answers[running[k]] # NoOutput
    BY SMTT(20), <1>1, NoneIsNoValue DEF FanTypeOK, FirstReady
  <1>3. /\ running' \in Seq(Items)
        /\ Len(running') = n - 1
        /\ \A j \in 1..(n - 1) : running'[j] = IF j = k THEN running[n] ELSE running[j]
    BY <1>1, SwapRemoveFacts DEF FanTypeOK
  <1>4. /\ outputs' = [outputs EXCEPT ![running[k]] = answers[running[k]]]
        /\ outputs' \in [Items -> Values \cup {NoOutput}]
    BY <1>1, <1>2 DEF StoreOutput, FanTypeOK
  <1>5. FanTypeOK'
    BY <1>3, <1>4 DEF Poll, FanTypeOK
  <1>6. InFlightBound'
    BY SMTT(20), <1>2, <1>3 DEF Poll, InFlightBound, EffectiveLimit
  <1>7. ItemsConserved'
    <2>1. \A i, j \in 1..n : running[i] = running[j] => i = j
      BY DEF ItemsConserved
    <2>2. ASSUME NEW i \in 1..Len(running'), NEW j \in 1..Len(running'), running'[i] = running'[j]
          PROVE  i = j
      BY SMTT(20), <1>1, <1>2, <1>3, <2>1, <2>2, SwapRemoveDistinct DEF FanTypeOK
    <2>3. ASSUME NEW i \in Items
          PROVE  /\ i < pending' <=> (outputs'[i] # NoOutput \/ \E j \in 1..Len(running') : running'[j] = i)
                 /\ outputs'[i] # NoOutput => \A j \in 1..Len(running') : running'[j] # i
      <3>1. /\ i < pending <=> (outputs[i] # NoOutput \/ \E j \in 1..n : running[j] = i)
            /\ outputs[i] # NoOutput => \A j \in 1..n : running[j] # i
        BY DEF ItemsConserved, Poll
      <3>2. pending' = pending
        BY DEF Poll
      <3>3. ASSUME NEW j \in 1..Len(running')
            PROVE  /\ running'[j] # running[k]
                   /\ \E m \in 1..n : running'[j] = running[m]
        BY SMTT(20), <1>1, <1>2, <1>3, <2>1
      <3>4. ASSUME NEW j \in 1..n, j # k
            PROVE  \E m \in 1..Len(running') : running'[m] = running[j]
        <4>1. CASE j = n
          BY SMTT(20), <1>2, <1>3, <3>4, <4>1
        <4>2. CASE j # n
          BY SMTT(20), <1>2, <1>3, <3>4, <4>2
        <4> QED BY <4>1, <4>2
      <3>5. CASE i = running[k]
        <4>1. outputs'[i] # NoOutput /\ i < pending
          BY <1>2, <1>4, <3>1, <3>5 DEF FanTypeOK
        <4> QED BY <3>2, <3>3, <3>5, <4>1
      <3>6. CASE i # running[k]
        <4>1. outputs'[i] = outputs[i]
          BY <1>4, <3>6 DEF FanTypeOK
        <4>2. (\E j \in 1..n : running[j] = i) <=> (\E j \in 1..Len(running') : running'[j] = i)
          BY SMTT(20), <3>3, <3>4, <3>6
        <4> QED BY <3>1, <3>2, <3>3, <4>1, <4>2
      <3> QED BY <3>5, <3>6
    <2> QED
      BY <2>2, <2>3 DEF ItemsConserved, Items
  <1>8. OutputIsAnswer'
    BY <1>2, <1>4 DEF OutputIsAnswer, Poll, FanTypeOK
  <1>9. ResultInOrder'
    BY DEF ResultInOrder, Poll
  <1> QED
    BY <1>5, <1>6, <1>7, <1>8, <1>9

LEMMA ResolveFan ==
  ASSUME NEW i \in Items, NEW v \in Values, FanInv, Resolve(i, v)
  PROVE  FanInv'
  <1> USE SizesAreNaturals DEF FanInv
  <1>1. outputs[i] = NoOutput
    BY DEF Resolve, ItemsConserved
  <1>2. FanTypeOK' /\ InFlightBound'
    BY DEF Resolve, FanTypeOK, InFlightBound, EffectiveLimit
  <1>3. ItemsConserved'
    BY DEF Resolve, ItemsConserved, Items
  <1>4. OutputIsAnswer'
    BY <1>1 DEF Resolve, OutputIsAnswer, FanTypeOK
  <1>5. ResultInOrder'
    BY DEF Resolve, ResultInOrder, FanTypeOK
  <1> QED
    BY <1>2, <1>3, <1>4, <1>5

LEMMA CancelFan == FanInv /\ Cancel => FanInv'
  <1> SUFFICES ASSUME FanInv, Cancel PROVE FanInv'
    OBVIOUS
  <1>1. FanTypeOK' /\ InFlightBound'
    BY SMTT(20), LimitPositive DEF FanInv, Cancel, FanTypeOK, InFlightBound, EffectiveLimit
  <1>2. ItemsConserved' /\ OutputIsAnswer' /\ ResultInOrder'
    BY SMTT(20) DEF FanInv, Cancel, ItemsConserved, OutputIsAnswer, ResultInOrder
  <1> QED
    BY <1>1, <1>2 DEF FanInv

LEMMA StutterFan == FanInv /\ UNCHANGED fanVars => FanInv'
  BY SMTT(20) DEF FanInv, fanVars, FanTypeOK, InFlightBound, ItemsConserved, OutputIsAnswer,
         ResultInOrder, EffectiveLimit, Items

\* The inductive invariant holds in every state of bounded.
THEOREM FanHolds == FanSpec => []FanInv
  <1>1. FanInv /\ [FanNext]_fanVars => FanInv'
    BY FillFan, PollFan, ResolveFan, CancelFan, StutterFan DEF FanNext, Finished
  <1> QED
    BY InitFan, <1>1, PTL DEF FanSpec

\* Whatever the limit and the number of items, bounded never has more
\* requests in flight than the limit and never idles a slot it could use.
THEOREM FanBound == FanSpec => []InFlightBound
  BY FanHolds, PTL DEF FanInv

\* No request is lost and none is started twice, however the slots move.
THEOREM FanConserves == FanSpec => []ItemsConserved
  BY FanHolds, PTL DEF FanInv

\* What bounded returns is, item by item, what the request of that item
\* answered.
THEOREM FanOrder == FanSpec => []ResultInOrder
  BY FanHolds, PTL DEF FanInv

\* bounded implements the batch promise: a wake-up that finds a ready future
\* answers one item, the last refill returns, everything else stutters.
THEOREM FanImplements == FanSpec => BatchPromise
  <1>1. FanInit => Promise!Init
    BY DEF FanInit, Promise!Init, Items
  <1>2. FanInv /\ [FanNext]_fanVars => [Promise!Next]_(Promise!vars)
    <2> SUFFICES ASSUME FanInv, [FanNext]_fanVars
                 PROVE  [Promise!Next]_(Promise!vars)
      OBVIOUS
    <2>1. CASE Fill
      <3>1. CASE Len(running) + Started = 0
        <4>1. FanInv'
          BY <2>1, FillFan
        <4>2. \A i \in 1..N : outputs[i] # NoOutput
          BY SMTT(20), <2>1, <3>1, <4>1 DEF Fill, FanInv, ResultInOrder, OutputIsAnswer, Items
        <4>3. result = NoOutput
          BY <2>1 DEF Fill, FanInv, ResultInOrder
        <4> QED BY <2>1, <3>1, <4>2, <4>3 DEF Fill, Promise!Next, Promise!Return
      <3>2. CASE Len(running) + Started # 0
        BY <2>1, <3>2 DEF Fill, Promise!vars
      <3> QED BY <3>1, <3>2
    <2>2. CASE Poll
      <3>1. PICK k \in 1..Len(running) : FirstReady(k) /\ StoreOutput(k)
        BY <2>2 DEF Poll
      <3>2. /\ running[k] \in 1..N
            /\ answers[running[k]] \in Values
        <4>1. running \in Seq(Items)
          BY DEF FanInv, FanTypeOK
        <4>2. running[k] \in Items
          BY SMTT(20), <4>1
        <4> QED
          BY <3>1, <4>2, NoneIsNoValue DEF FanInv, FanTypeOK, FirstReady, Items
      <3>3. outputs[running[k]] = NoOutput
        BY <2>2, <3>2 DEF Poll, FanInv, ItemsConserved, Items
      <3>4. Promise!Answer(running[k], answers[running[k]])
        BY <2>2, <3>1, <3>3 DEF Poll, StoreOutput, Promise!Answer
      <3> QED BY <3>2, <3>4 DEF Promise!Next
    <2>3. CASE \E i \in Items, v \in Values : Resolve(i, v)
      BY <2>3 DEF Resolve, Promise!vars
    <2>4. CASE Cancel \/ Finished \/ UNCHANGED fanVars
      BY <2>4 DEF Cancel, Finished, fanVars, Promise!vars
    <2> QED
      BY <2>1, <2>2, <2>3, <2>4 DEF FanNext
  <1> QED
    BY <1>1, <1>2, FanHolds, PTL DEF FanSpec, BatchPromise, Promise!Spec
=============================================================================
