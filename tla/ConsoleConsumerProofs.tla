----------------------- MODULE ConsoleConsumerProofs -----------------------
(***************************************************************************)
(* For any number of runs, partitions and records: the commit of the group *)
(* never passes a record that no run has processed, and never moves back,  *)
(* and no record is processed twice before a run loses its place.          *)
(***************************************************************************)
EXTENDS ConsoleConsumer, FiniteSetTheorems, WellFoundedInduction, TLAPS

\* The provers of a step that names none, and the seconds each has.
USE ZenonT(10), SMTT(20)

InBuffer(r, x) == \E i \in 1..Len(buffered[r]) : buffered[r][i] = x

\* Where a run is, it has what that place needs: a plan while it lives, nothing
\* polled before it is open, and a record while it writes.
PlaceInv(r) ==
    /\ Live(r) <=> plan[r] # None
    /\ pc[r] \in {"new", "open"} => assigned[r] = {} /\ buffered[r] = <<>> /\ count[r] = 0
    /\ plan[r] # None => (plan[r].commits => plan[r].source = "group")
    /\ pc[r] = "write" => current[r] # None /\ (plan[r].commits => current[r] \in seen)

\* The buffer has the order of the offsets, and the consumer reads on behind it
\* until the seeks of close.
BufferInv(r) ==
    /\ \A i, j \in 1..Len(buffered[r]) :
         i < j /\ buffered[r][i][1] = buffered[r][j][1] => buffered[r][i][2] < buffered[r][j][2]
    /\ pc[r] # "leave" =>
         \A i \in 1..Len(buffered[r]) :
           buffered[r][i][1] \in assigned[r] =>
             buffered[r][i][2] < position[r][buffered[r][i][1]]

\* What lies before the position of a committing run has been processed or is
\* in its buffer; after the seeks of close it has all been processed.
CoverInv(r) ==
    plan[r] # None /\ plan[r].source = "group" =>
      \A p \in assigned[r] :
        /\ position[r][p] <= End[p]
        /\ plan[r].commits =>
             \A o \in Offsets : o < position[r][p] =>
               <<p, o>> \in seen \/ (pc[r] # "leave" /\ InBuffer(r, <<p, o>>))

\* The run that the coordinator gave a partition to is not behind the offset of
\* the group, and neither is what it has in its buffer.
AheadInv(r) ==
    plan[r] # None /\ plan[r].commits =>
      \A p \in assigned[r] : owner[p] = r =>
        /\ committed[p] <= position[r][p]
        /\ \A i \in 1..Len(buffered[r]) :
             buffered[r][i][1] = p => committed[p] <= buffered[r][i][2]

RunInv(r) == PlaceInv(r) /\ BufferInv(r) /\ CoverInv(r) /\ AheadInv(r)

Inv == CommitsOnlyProcessed /\ \A r \in Runs : RunInv(r)

-----------------------------------------------------------------------------
(* Sequences and sets                                                      *)

\* Of a set of natural numbers that is not empty, one is the least.
LEMMA LeastBy ==
    ASSUME NEW R, IsWellFoundedOn(R, Nat), \A x, y \in Nat : y < x => <<y, x>> \in R,
           NEW T \in SUBSET Nat, T # {}
    PROVE  \E x \in T : \A y \in T : x <= y
<1>1. \E x \in T : \A y \in T : <<y, x>> \notin R BY WFMin, Zenon
<1>2. PICK x \in T : \A y \in T : <<y, x>> \notin R BY <1>1
<1>3. \A y \in T : ~(y < x) BY Zenon, <1>2
<1>4. \A y \in T : x <= y BY SMTT(20), <1>3
<1>5. QED BY <1>4

LEMMA Least ==
    ASSUME NEW T \in SUBSET Nat, T # {}
    PROVE  \E x \in T : \A y \in T : x <= y
<1>1. IsWellFoundedOn(OpToRel(<, Nat), Nat) BY NatLessThanWellFounded, Zenon
<1>2. \A x, y \in Nat : y < x => <<y, x>> \in OpToRel(<, Nat) BY DEF OpToRel
<1>3. QED BY <1>1, <1>2, LeastBy, Zenon

\* A record is a partition and an offset of it.
LEMMA RecordFacts ==
    /\ \A x \in Records : /\ x[1] \in Partitions /\ x[2] \in Nat /\ x[2] < End[x[1]]
                          /\ x = <<x[1], x[2]>> /\ x[2] \in Offsets
    /\ \A p \in Partitions, o \in Nat : o < End[p] => <<p, o>> \in Records
    /\ Offsets \subseteq Nat
<1>1. \A p \in Partitions : End[p] \in Nat BY BoundsAreNaturals
<1>2. \A x \in Records : /\ x[1] \in Partitions /\ x[2] \in Nat /\ x[2] < End[x[1]]
                         /\ x = <<x[1], x[2]>>
  BY SMTT(20), <1>1 DEF Records
<1>3. \A p \in Partitions, o \in Nat : o < End[p] => <<p, o>> \in Records
  <2>1. ASSUME NEW p \in Partitions, NEW o \in Nat, o < End[p] PROVE <<p, o>> \in Records
    <3>1. o \in 0..(End[p] - 1) BY SMTT(20), <1>1, <2>1
    <3>2. <<p, o>> \in {p} \X (0..(End[p] - 1)) BY <3>1
    <3>3. QED BY <3>2 DEF Records
  <2>2. QED BY <2>1
<1>4. QED BY <1>2, <1>3 DEF Offsets

FirstOffsets(s, back) ==
    /\ DOMAIN back = {s[i][1] : i \in 1..Len(s)}
    /\ \A p \in DOMAIN back :
         \E i \in 1..Len(s) : /\ s[i][1] = p
                              /\ \A j \in 1..(i - 1) : s[j][1] # p
                              /\ back[p] = s[i][2]

\* unconsumed gives, for a partition of the records, the offset of the first.
LEMMA UnconsumedFacts ==
    ASSUME NEW s \in Seq(Records)
    PROVE  FirstOffsets(s, Unconsumed(s))
<1>1. DOMAIN s = 1..Len(s) /\ Len(s) \in Nat BY SMTT(20)
<1>2. DOMAIN Unconsumed(s) = {s[i][1] : i \in 1..Len(s)} BY <1>1 DEF Unconsumed
<1>3. ASSUME NEW p \in DOMAIN Unconsumed(s)
      PROVE  \E i \in 1..Len(s) : /\ s[i][1] = p
                                  /\ \A j \in 1..(i - 1) : s[j][1] # p
                                  /\ Unconsumed(s)[p] = s[i][2]
  <2> DEFINE T == {i \in 1..Len(s) : s[i][1] = p}
             First(i) == s[i][1] = p /\ \A j \in 1..(i - 1) : s[j][1] # p
             first == CHOOSE i \in DOMAIN s : First(i)
  <2>1. T \in SUBSET Nat /\ T # {} BY SMTT(20), <1>1, <1>2
  <2>2. PICK i \in T : \A j \in T : i <= j
    <3> HIDE DEF T
    <3>1. QED BY <2>1, Least
  <2>3. i \in DOMAIN s /\ First(i)
    <3>1. \A j \in 1..(i - 1) : j \in 1..Len(s) /\ ~(i <= j) BY SMTT(20), <1>1, <2>2
    <3>2. QED BY <1>1, <2>2, <3>1
  <2>4. first \in DOMAIN s /\ First(first)
    <3> HIDE DEF First
    <3>1. QED BY <2>3
  <2>5. Unconsumed(s)[p] = s[first][2] BY <1>1, <1>2, <1>3 DEF Unconsumed
  <2> HIDE DEF first
  <2>6. QED BY <1>1, <2>4, <2>5
<1>4. QED BY <1>2, <1>3 DEF FirstOffsets

\* A batch is a sequence of the records, with all of them and in order.
LEMMA BatchFacts ==
    ASSUME NEW records \in SUBSET Records, NEW s \in Batches(records)
    PROVE  /\ s \in Seq(Records)
           /\ \A i \in 1..Len(s) : s[i] \in records
           /\ \A x \in records : \E i \in 1..Len(s) : s[i] = x
           /\ \A i, j \in 1..Len(s) : i < j /\ s[i][1] = s[j][1] => s[i][2] < s[j][2]
<1>1. Cardinality(records) \in Nat BY RecordsAreFinite, FS_Subset, FS_CardinalityType
<1>2. s \in [1..Cardinality(records) -> records] /\ DOMAIN s = 1..Cardinality(records)
  BY DEF Batches
<1>3. s \in Seq(records) /\ s \in Seq(Records) /\ Len(s) = Cardinality(records) BY SMTT(20), <1>1, <1>2
<1>4. QED BY <1>2, <1>3 DEF Batches

-----------------------------------------------------------------------------
(* The steps                                                               *)

\* What a step of another run leaves of q, and of the group for q.  A partition
\* that is taken away takes no more.
Untouched(q) ==
    /\ pc'[q] = pc[q] /\ plan'[q] = plan[q] /\ assigned'[q] \subseteq assigned[q]
    /\ position'[q] = position[q] /\ buffered'[q] = buffered[q]
    /\ current'[q] = current[q] /\ count'[q] = count[q]

GroupKept(q) ==
    /\ seen \subseteq seen'
    /\ \A p \in Partitions : owner'[p] = q => owner[p] = q /\ committed'[p] = committed[p]

LEMMA OthersKeep ==
    ASSUME Inv, NEW q \in Runs, Untouched(q), GroupKept(q)
    PROVE  RunInv(q)'
<1>1. RunInv(q) /\ assigned[q] \subseteq Partitions BY DEF Inv, CommitsOnlyProcessed, TypeOK
<1>2. PlaceInv(q)'
  <2>1. PlaceInv(q) BY <1>1 DEF RunInv
  <2>2. (pc[q] = "write" => current[q] # None /\ (plan[q].commits => current[q] \in seen))'
    BY <2>1 DEF PlaceInv, Untouched, GroupKept
  <2>3. QED BY <2>1, <2>2 DEF PlaceInv, Live, Untouched
<1>3. BufferInv(q)' BY <1>1 DEF RunInv, BufferInv, Untouched
<1>4. CoverInv(q)'
  <2>1. CoverInv(q) /\ \A x : InBuffer(q, x)' <=> InBuffer(q, x)
    BY <1>1 DEF RunInv, InBuffer, Untouched
  <2>2. QED BY <2>1 DEF CoverInv, Untouched, GroupKept
<1>5. AheadInv(q)' BY <1>1 DEF RunInv, AheadInv, Untouched, GroupKept
<1>6. QED BY <1>2, <1>3, <1>4, <1>5 DEF RunInv

LEMMA InitInv == Init => Inv
<1> SUFFICES ASSUME Init PROVE Inv OBVIOUS
<1>1. TypeOK
  <2>1. \A p \in Partitions : 0 <= End[p] BY SMTT(20), BoundsAreNaturals
  <2>2. cancel \in [Runs -> BOOLEAN] BY DEF Init
  <2>3. QED BY SMTT(20), <2>1, <2>2, BoundsAreNaturals DEF Init, TypeOK
<1>2. CommitsOnlyProcessed BY SMTT(20), <1>1, RecordFacts DEF Init, CommitsOnlyProcessed
<1>3. \A r \in Runs : RunInv(r)
  BY SMTT(20) DEF Init, RunInv, PlaceInv, BufferInv, CoverInv, AheadInv, Live, InBuffer
<1>4. QED BY <1>2, <1>3 DEF Inv

LEMMA StartInv == ASSUME Inv, NEW r \in Runs, Start(r) PROVE Inv'
<1> USE DEF consumer, group, history, ExitWith, Goto
<1>1. TypeOK /\ PlaceInv(r) BY DEF Inv, CommitsOnlyProcessed, RunInv
<1>2. PICK line \in Lines[r] :
          \/ Refused(line) /\ ExitWith(r, "usage")
          \/ ~Refused(line) /\ ExitWith(r, "failed")
          \/ /\ ~Refused(line)
             /\ plan' = [plan EXCEPT ![r] = PlanOf(line)]
             /\ Goto(r, "open") /\ UNCHANGED ending
  BY DEF Start
<1>3. line \in LineType BY LinesAreTyped
<1>4. PlanOf(line) \in PlanType
  <2>1. (line.group = "named" /\ line.auto # "false") \in BOOLEAN OBVIOUS
  <2>2. line.timed \in BOOLEAN /\ line.skip \in BOOLEAN BY <1>3, Zenon DEF LineType
  <2>3. QED BY <1>3, <2>1, <2>2 DEF PlanOf, PlanType, LineType
<1>5. ~Refused(line) => (PlanOf(line).commits => PlanOf(line).source = "group")
  BY Zenon, <1>3 DEF PlanOf, Refused, LineType
<1>6. PlanOf(line) # None BY <1>4, NoneIsNothing
<1>7. TypeOK'
  <2>1. /\ plan' \in [Runs -> PlanType \cup {None}] /\ count' = count
        /\ \A q \in Runs : q # r => plan'[q] = plan[q]
    <3>1. plan' = [plan EXCEPT ![r] = None] \/ plan' = [plan EXCEPT ![r] = PlanOf(line)]
      BY <1>2
    <3>2. plan \in [Runs -> PlanType \cup {None}] BY <1>1 DEF TypeOK
    <3>3. QED BY <1>4, <3>1, <3>2 DEF Start
  <2>2. (\A q \in Runs : plan[q] # None /\ plan[q].max >= 0 => count[q] <= plan[q].max)'
    <3>1. count[r] = 0 BY <1>1 DEF PlaceInv, Start
    <3>2. QED BY Zenon, <1>1, <2>1, <3>1 DEF TypeOK, PlanType
  <2>3. /\ pc' \in [Runs -> {"new", "open", "process", "write", "close", "leave", "ended", "killed"}]
        /\ ending' \in [Runs -> {"none", "usage", "failed", "cancelled", "done"}]
    BY Zenon, <1>1, <1>2 DEF TypeOK
  <2>4. QED BY <1>1, <2>1, <2>2, <2>3 DEF TypeOK, Start
<1>8. CommitsOnlyProcessed' BY <1>7 DEF Inv, CommitsOnlyProcessed, Start
<1>9. ASSUME NEW q \in Runs, q # r PROVE RunInv(q)'
  BY <1>1, <1>2, <1>9, OthersKeep DEF TypeOK, Start, Untouched, GroupKept
<1>10. RunInv(r)'
  BY SMTT(20), <1>1, <1>2, <1>5, <1>6
     DEF TypeOK, Start, RunInv, PlaceInv, BufferInv, CoverInv, AheadInv, Live
<1>11. QED BY <1>8, <1>9, <1>10 DEF Inv

LEMMA OpenInv == ASSUME Inv, NEW r \in Runs, Open(r) PROVE Inv'
<1> USE DEF consumer, group, history, Goto
<1>1. TypeOK /\ PlaceInv(r) /\ plan[r] # None /\ plan[r] \in PlanType
  BY Zenon DEF Inv, CommitsOnlyProcessed, RunInv, PlaceInv, Live, Open, TypeOK
<1> DEFINE alone == CASE plan[r].source = "group" -> {}
                      [] plan[r].source = "own" -> Partitions
                      [] OTHER -> {plan[r].source}
<1>2. /\ assigned' = [assigned EXCEPT ![r] = alone]
      /\ position' = [position EXCEPT ![r] =
             [p \in Partitions |-> IF p \in alone THEN plan[r].from ELSE 0]]
  BY DEF Open
<1>3. alone \in SUBSET Partitions /\ plan[r].from \in Nat BY <1>1 DEF PlanType
<1>4. plan[r].source = "group" => alone = {} OBVIOUS
<1> HIDE DEF alone
<1>5. TypeOK'
  <2>1. assigned' \in [Runs -> SUBSET Partitions] /\ position' \in [Runs -> [Partitions -> Nat]]
    BY <1>1, <1>2, <1>3 DEF TypeOK
  <2>2. QED BY <1>1, <2>1 DEF TypeOK, Open
<1>6. CommitsOnlyProcessed' BY <1>5 DEF Inv, CommitsOnlyProcessed, Open
<1>7. ASSUME NEW q \in Runs, q # r PROVE RunInv(q)'
  BY <1>1, <1>2, <1>7, OthersKeep DEF TypeOK, Open, Untouched, GroupKept
<1>8. RunInv(r)'
  <2>1. /\ pc'[r] = "process" /\ plan'[r] = plan[r] /\ assigned'[r] = alone
        /\ buffered'[r] = <<>>
    BY <1>1, <1>2 DEF TypeOK, PlaceInv, Open
  <2>2. PlaceInv(r)' BY <1>1, <2>1 DEF PlaceInv, Live
  <2>3. BufferInv(r)' BY SMTT(20), <2>1 DEF BufferInv
  <2>4. CoverInv(r)' BY <1>4, <2>1 DEF CoverInv
  <2>5. AheadInv(r)' BY <1>1, <1>4, <2>1 DEF AheadInv, PlaceInv
  <2>6. QED BY <2>2, <2>3, <2>4, <2>5 DEF RunInv
<1>9. QED BY <1>6, <1>7, <1>8 DEF Inv

LEMMA OpenFailsInv == ASSUME Inv, NEW r \in Runs, OpenFails(r) PROVE Inv'
<1> USE DEF consumer, group, history, Goto, ExitWith
<1>1. TypeOK BY DEF Inv, CommitsOnlyProcessed
<1>2. PICK e \in {"failed", "cancelled"} : ExitWith(r, e) BY DEF OpenFails
<1>3. TypeOK'
  <2>1. plan' \in [Runs -> PlanType \cup {None}] /\ \A q \in Runs : plan'[q] \in {plan[q], None}
    BY <1>1, <1>2 DEF TypeOK
  <2>2. (\A q \in Runs : plan[q] # None /\ plan[q].max >= 0 => count[q] <= plan[q].max)'
    BY <1>1, <2>1 DEF TypeOK, OpenFails
  <2>3. QED BY <1>1, <1>2, <2>1, <2>2 DEF TypeOK, OpenFails
<1>4. CommitsOnlyProcessed' BY <1>3 DEF Inv, CommitsOnlyProcessed, OpenFails
<1>5. ASSUME NEW q \in Runs, q # r PROVE RunInv(q)'
  BY <1>1, <1>2, <1>5, OthersKeep DEF TypeOK, OpenFails, Untouched, GroupKept
<1>6. RunInv(r)'
  <2>1. pc'[r] = "ended" /\ plan'[r] = None /\ buffered'[r] = buffered[r] /\ assigned'[r] = assigned[r]
    BY <1>1, <1>2 DEF TypeOK, OpenFails
  <2>2. buffered[r] = <<>> BY DEF Inv, RunInv, PlaceInv, OpenFails
  <2>3. QED BY SMTT(20), <2>1, <2>2 DEF RunInv, PlaceInv, BufferInv, CoverInv, AheadInv, Live
<1>7. QED BY <1>4, <1>5, <1>6 DEF Inv

LEMMA InterruptInv == ASSUME Inv, NEW r \in Runs, Interrupt(r) PROVE Inv'
<1> USE DEF consumer, group, history
<1>1. TypeOK' BY DEF Inv, CommitsOnlyProcessed, TypeOK, Interrupt
<1>2. CommitsOnlyProcessed' BY <1>1 DEF Inv, CommitsOnlyProcessed, Interrupt
<1>3. \A q \in Runs : RunInv(q)' BY OthersKeep DEF Interrupt, Untouched, GroupKept
<1>4. QED BY <1>2, <1>3 DEF Inv

\* The loop ends, which leaves all that the run has for close.
LEMMA EndWithInv ==
    ASSUME Inv, NEW r \in Runs, NEW e \in {"done", "cancelled", "failed"},
           pc[r] = "process", EndWith(r, e),
           UNCHANGED <<plan, cancel, consumer, buffered, current, count, group, history, lapses>>
    PROVE  Inv'
<1> USE DEF consumer, group, history, Goto, EndWith
<1>1. TypeOK BY DEF Inv, CommitsOnlyProcessed
<1>2. TypeOK' BY <1>1 DEF TypeOK
<1>3. CommitsOnlyProcessed' BY <1>2 DEF Inv, CommitsOnlyProcessed
<1>4. ASSUME NEW q \in Runs, q # r PROVE RunInv(q)'
  BY <1>1, <1>4, OthersKeep DEF TypeOK, Untouched, GroupKept
<1>5. RunInv(r)'
  <2>1. RunInv(r) /\ pc'[r] = "close" BY <1>1 DEF TypeOK, Inv
  <2>2. PlaceInv(r)' BY <2>1 DEF RunInv, PlaceInv, Live
  <2>3. BufferInv(r)' BY <2>1 DEF RunInv, BufferInv
  <2>4. CoverInv(r)' BY Zenon, <2>1 DEF RunInv, CoverInv, InBuffer
  <2>5. AheadInv(r)' BY <2>1 DEF RunInv, AheadInv
  <2>6. QED BY <2>2, <2>3, <2>4, <2>5 DEF RunInv
<1>6. QED BY <1>3, <1>4, <1>5 DEF Inv

LEMMA StopInv == ASSUME Inv, NEW r \in Runs, Bounded(r) \/ Stop(r) PROVE Inv'
<1>1. CASE Bounded(r) BY <1>1, EndWithInv DEF Bounded
<1>2. CASE Stop(r)
  <2>1. PICK e \in {"done", "cancelled", "failed"} : pc[r] = "process" /\ EndWith(r, e)
    BY <1>2 DEF Stop, Timeout, CancelSeen, PollFails, Polling
  <2>2. QED BY <1>2, <2>1, EndWithInv DEF Stop
<1>3. QED BY <1>1, <1>2

\* The record that is taken off the buffer is processed.
LEMMA PopInv == ASSUME Inv, NEW r \in Runs, Pop(r) PROVE Inv'
<1> USE DEF consumer, group, Goto
<1>1. TypeOK /\ RunInv(r) BY DEF Inv, CommitsOnlyProcessed
<1>2. plan[r] # None /\ plan[r] \in PlanType
  BY <1>1 DEF RunInv, PlaceInv, Live, Pop, TypeOK
<1> DEFINE s == buffered[r]
           record == Head(s)
           t == Tail(s)
<1>3. /\ s \in Seq(Records) /\ s # <<>> /\ record = s[1] /\ record \in Records
      /\ t \in Seq(Records) /\ Len(t) = Len(s) - 1 /\ Len(s) >= 1
      /\ \A i \in 1..Len(t) : t[i] = s[i + 1]
  BY SMTT(20), <1>1 DEF TypeOK, Pop
<1>4. /\ buffered' = [buffered EXCEPT ![r] = t] /\ current' = [current EXCEPT ![r] = record]
      /\ seen' = (IF plan[r].commits THEN seen \cup {record} ELSE seen)
      /\ again' \subseteq again \cup {record} /\ (~plan[r].commits => again' = again)
  BY DEF Pop
<1> HIDE DEF record, t
<1>5. TypeOK'
  <2>1. buffered' \in [Runs -> Seq(Records)] /\ current' \in [Runs -> Records \cup {None}]
    BY <1>1, <1>3, <1>4 DEF TypeOK
  <2>2. seen' \subseteq Records /\ again' \subseteq seen' /\ missed' \subseteq seen'
    BY <1>1, <1>3, <1>4 DEF TypeOK, Pop
  <2>3. (\A q \in Runs : plan[q] # None /\ plan[q].max >= 0 => count[q] <= plan[q].max)'
    <3>1. plan[r].max >= 0 => count[r] < plan[r].max
      BY SMTT(20), <1>1, <1>2 DEF Pop, AtBound, TypeOK, PlanType
    <3>2. QED BY SMTT(20), <1>1, <1>2, <3>1 DEF Pop, TypeOK, PlanType
  <2>4. pc' \in [Runs -> {"new", "open", "process", "write", "close", "leave", "ended", "killed"}]
        /\ count' \in [Runs -> Nat]
    BY SMTT(20), <1>1 DEF Pop, TypeOK
  <2>5. QED BY <1>1, <2>1, <2>2, <2>3, <2>4 DEF TypeOK, Pop
<1>6. CommitsOnlyProcessed' BY <1>4, <1>5 DEF Inv, CommitsOnlyProcessed, Pop
<1>7. ASSUME NEW q \in Runs, q # r PROVE RunInv(q)'
  BY <1>1, <1>4, <1>7, OthersKeep DEF TypeOK, Pop, Untouched, GroupKept
<1>8. RunInv(r)'
  <2>1. /\ pc[r] = "process" /\ pc'[r] = "write" /\ plan'[r] = plan[r] /\ assigned'[r] = assigned[r]
        /\ position'[r] = position[r] /\ buffered'[r] = t /\ current'[r] = record
        /\ owner' = owner /\ committed' = committed
    BY <1>1, <1>4 DEF TypeOK, Pop
  <2>2. PlaceInv(r)'
    <3>1. record # None BY <1>3, NoneIsNothing
    <3>2. plan[r].commits => record \in seen' BY <1>4
    <3>3. plan[r].commits => plan[r].source = "group" BY <1>1, <1>2 DEF RunInv, PlaceInv
    <3>4. QED BY <1>2, <2>1, <3>1, <3>2, <3>3 DEF PlaceInv, Live
  <2>3. BufferInv(r)'
    <3>1. BufferInv(r) BY <1>1 DEF RunInv
    <3>2. ASSUME NEW i \in 1..Len(t), NEW j \in 1..Len(t), i < j, t[i][1] = t[j][1]
          PROVE  t[i][2] < t[j][2]
      <4>1. i + 1 \in 1..Len(s) /\ j + 1 \in 1..Len(s) /\ i + 1 < j + 1 BY SMTT(20), <1>3, <3>2
      <4>2. t[i] = s[i + 1] /\ t[j] = s[j + 1] BY <1>3
      <4>3. QED BY <3>1, <3>2, <4>1, <4>2 DEF BufferInv
    <3>3. ASSUME NEW i \in 1..Len(t), t[i][1] \in assigned[r]
          PROVE  t[i][2] < position[r][t[i][1]]
      <4>1. i + 1 \in 1..Len(s) /\ t[i] = s[i + 1] BY SMTT(20), <1>3
      <4>2. QED BY <2>1, <3>1, <3>3, <4>1 DEF BufferInv
    <3>4. QED BY <2>1, <3>2, <3>3 DEF BufferInv
  <2>4. CoverInv(r)'
    <3>1. ASSUME NEW x, InBuffer(r, x) PROVE x = record \/ InBuffer(r, x)'
      <4>1. PICK i \in 1..Len(s) : s[i] = x BY <3>1 DEF InBuffer
      <4>2. CASE i = 1 BY <1>3, <4>1, <4>2
      <4>3. CASE i # 1
        <5>1. i - 1 \in 1..Len(t) /\ t[i - 1] = x BY SMTT(20), <1>3, <4>1, <4>3
        <5>2. QED BY <2>1, <5>1 DEF InBuffer
      <4>4. QED BY <4>2, <4>3
    <3>2. QED BY <1>1, <1>4, <2>1, <3>1 DEF RunInv, CoverInv
  <2>5. AheadInv(r)'
    <3>1. AheadInv(r) BY <1>1 DEF RunInv
    <3>2. ASSUME plan[r] # None, plan[r].commits, NEW p \in assigned[r], owner[p] = r,
                 NEW i \in 1..Len(t), t[i][1] = p
          PROVE  committed[p] <= t[i][2]
      <4>1. i + 1 \in 1..Len(s) /\ t[i] = s[i + 1] BY SMTT(20), <1>3
      <4>2. QED BY <3>1, <3>2, <4>1 DEF AheadInv
    <3>3. QED BY <2>1, <3>1, <3>2 DEF AheadInv
  <2>6. QED BY <2>2, <2>3, <2>4, <2>5 DEF RunInv
<1>9. QED BY <1>6, <1>7, <1>8 DEF Inv

LEMMA WriteInv == ASSUME Inv, NEW r \in Runs, Write(r) PROVE Inv'
<1> USE DEF consumer, group
<1>1. TypeOK /\ RunInv(r) BY DEF Inv, CommitsOnlyProcessed
<1>2. /\ pc[r] = "write" /\ \E l \in {"process", "close"} : pc' = [pc EXCEPT ![r] = l]
      /\ ending' = ending \/ \E e \in {"done", "failed"} : ending' = [ending EXCEPT ![r] = e]
      /\ missed' \subseteq missed \/ missed' = Missed(r)
  BY DEF Write, Goto, EndWith
<1>3. TypeOK'
  <2>1. Missed(r) \subseteq seen BY <1>1, <1>2 DEF TypeOK, RunInv, PlaceInv, Missed
  <2>2. missed' \subseteq seen' BY <1>1, <1>2, <2>1 DEF TypeOK, Write
  <2>3. /\ pc' \in [Runs -> {"new", "open", "process", "write", "close", "leave", "ended", "killed"}]
        /\ ending' \in [Runs -> {"none", "usage", "failed", "cancelled", "done"}]
        /\ current' \in [Runs -> Records \cup {None}]
    BY ZenonT(60), <1>1, <1>2 DEF TypeOK, Write
  <2>4. QED BY <1>1, <2>2, <2>3 DEF TypeOK, Write
<1>4. CommitsOnlyProcessed' BY <1>3 DEF Inv, CommitsOnlyProcessed, Write
<1>5. ASSUME NEW q \in Runs, q # r PROVE RunInv(q)'
  BY <1>1, <1>2, <1>5, OthersKeep DEF TypeOK, Write, Untouched, GroupKept
<1>6. RunInv(r)'
  <2>1. pc'[r] \in {"process", "close"} BY <1>1, <1>2 DEF TypeOK
  <2>2. PlaceInv(r)' BY <1>1, <1>2, <2>1 DEF RunInv, PlaceInv, Live, Write
  <2>3. BufferInv(r)' BY <1>1, <1>2, <2>1 DEF RunInv, BufferInv, Write
  <2>4. CoverInv(r)'
    <3>1. CoverInv(r) /\ pc[r] # "leave" /\ pc'[r] # "leave" BY <1>1, <1>2, <2>1 DEF RunInv
    <3>2. \A x : InBuffer(r, x)' <=> InBuffer(r, x) BY DEF InBuffer, Write
    <3>3. UNCHANGED <<plan, assigned, position, seen>> BY DEF Write
    <3>4. QED BY <3>1, <3>2, <3>3 DEF CoverInv
  <2>5. AheadInv(r)' BY <1>1 DEF RunInv, AheadInv, Write
  <2>6. QED BY <2>2, <2>3, <2>4, <2>5 DEF RunInv
<1>7. QED BY <1>4, <1>5, <1>6 DEF Inv

\* What is polled goes to the buffer, which was empty.
LEMMA PollInv == ASSUME Inv, NEW r \in Runs, Poll(r) PROVE Inv'
<1> USE DEF group, history
<1>1. TypeOK /\ RunInv(r) BY DEF Inv, CommitsOnlyProcessed
<1>2. pc[r] = "process" /\ buffered[r] = <<>> BY DEF Poll, Polling
<1>3. PICK upto \in [assigned[r] -> {o + 1 : o \in Offsets} \cup {0}] :
        /\ \A p \in assigned[r] : upto[p] \in position[r][p]..End[p]
        /\ buffered' \in {[buffered EXCEPT ![r] = s] : s \in Batches(Between(position[r], upto))}
        /\ position' = [position EXCEPT ![r] =
               [p \in Partitions |-> IF p \in assigned[r] THEN upto[p] ELSE @[p]]]
  BY Zenon DEF Poll
<1> DEFINE records == Between(position[r], upto)
<1>4. PICK s \in Batches(records) : buffered' = [buffered EXCEPT ![r] = s] BY <1>3
<1>5. /\ assigned[r] \subseteq Partitions /\ position[r] \in [Partitions -> Nat]
      /\ \A p \in assigned[r] :
           /\ upto[p] \in Nat /\ position[r][p] <= upto[p] /\ upto[p] <= End[p] /\ End[p] \in Nat
  BY SMTT(20), <1>1, <1>3, BoundsAreNaturals DEF TypeOK
<1>6. /\ \A p \in assigned[r], o \in Offsets :
           position[r][p] <= o /\ o < upto[p] => <<p, o>> \in records
      /\ \A x \in records : /\ x[1] \in assigned[r] /\ x = <<x[1], x[2]>> /\ x[2] \in Offsets
                            /\ position[r][x[1]] <= x[2] /\ x[2] < upto[x[1]]
  BY SMTT(20), <1>3 DEF Between
<1> HIDE DEF records
<1>7. records \in SUBSET Records
  <2>1. ASSUME NEW x \in records PROVE x \in Records
    <3>1. x[2] \in Nat /\ x[1] \in Partitions /\ x[2] < End[x[1]] BY SMTT(20), <1>5, <1>6, RecordFacts
    <3>2. QED BY <1>6, <3>1, RecordFacts
  <2>2. QED BY <2>1
<1>8. /\ s \in Seq(Records) /\ \A i \in 1..Len(s) : s[i] \in records
      /\ \A x \in records : \E i \in 1..Len(s) : s[i] = x
      /\ \A i, j \in 1..Len(s) : i < j /\ s[i][1] = s[j][1] => s[i][2] < s[j][2]
  BY <1>4, <1>7, BatchFacts
<1>9. TypeOK'
  <2>1. position' \in [Runs -> [Partitions -> Nat]] BY <1>1, <1>3, <1>5 DEF TypeOK
  <2>2. buffered' \in [Runs -> Seq(Records)] BY <1>1, <1>4, <1>8 DEF TypeOK
  <2>3. QED BY <1>1, <2>1, <2>2 DEF TypeOK, Poll
<1>10. CommitsOnlyProcessed' BY <1>9 DEF Inv, CommitsOnlyProcessed, Poll
<1>11. ASSUME NEW q \in Runs, q # r PROVE RunInv(q)'
  BY <1>1, <1>3, <1>4, <1>11, OthersKeep DEF TypeOK, Poll, Untouched, GroupKept
<1>12. RunInv(r)'
  <2>1. /\ buffered'[r] = s /\ \A p \in assigned[r] : position'[r][p] = upto[p]
        /\ pc' = pc /\ plan' = plan /\ assigned' = assigned /\ owner' = owner
        /\ committed' = committed /\ seen' = seen /\ current' = current /\ count' = count
    BY <1>1, <1>3, <1>4, <1>5 DEF TypeOK, Poll
  <2>2. PlaceInv(r)' BY <1>1, <1>2, <2>1 DEF RunInv, PlaceInv, Live
  <2>3. BufferInv(r)' BY <1>6, <1>8, <2>1 DEF BufferInv
  <2>4. CoverInv(r)'
    <3>1. ASSUME plan[r] # None, plan[r].source = "group", plan[r].commits,
                 NEW p \in assigned[r], NEW o \in Offsets, o < upto[p]
          PROVE  <<p, o>> \in seen \/ InBuffer(r, <<p, o>>)'
      <4>1. CASE o < position[r][p]
        <5>1. ~InBuffer(r, <<p, o>>) BY SMTT(20), <1>2 DEF InBuffer
        <5>2. QED BY <1>1, <3>1, <4>1, <5>1 DEF RunInv, CoverInv
      <4>2. CASE ~(o < position[r][p])
        <5>1. <<p, o>> \in records BY SMTT(20), <1>5, <1>6, <3>1, <4>2, RecordFacts
        <5>2. QED BY <1>8, <2>1, <5>1 DEF InBuffer
      <4>3. QED BY <4>1, <4>2
    <3>2. QED BY <1>2, <1>5, <2>1, <3>1 DEF CoverInv
  <2>5. AheadInv(r)'
    <3>1. ASSUME plan[r] # None, plan[r].commits, NEW p \in assigned[r], owner[p] = r
          PROVE  /\ committed[p] <= upto[p]
                 /\ \A i \in 1..Len(s) : s[i][1] = p => committed[p] <= s[i][2]
      <4>1. committed[p] <= position[r][p] /\ committed[p] \in Nat /\ position[r][p] \in Nat
        BY <1>1, <1>5, <3>1 DEF RunInv, AheadInv, TypeOK
      <4>2. \A x \in records : x[2] \in Nat BY <1>6, RecordFacts
      <4>3. QED BY SMTT(20), <1>5, <1>6, <1>8, <4>1, <4>2
    <3>2. QED BY <2>1, <3>1 DEF AheadInv
  <2>6. QED BY <2>2, <2>3, <2>4, <2>5 DEF RunInv
<1>13. QED BY <1>10, <1>11, <1>12 DEF Inv

\* A run that has nothing buffered, or has sought it back, commits positions
\* before which all is processed, and which are not behind the group.
LEMMA CommitFacts ==
    ASSUME Inv, NEW r \in Runs, NEW ps \in SUBSET assigned[r], Live(r),
           buffered[r] = <<>> \/ pc[r] = "leave"
    PROVE  /\ Committed(r, ps) \in [Partitions -> Nat]
           /\ \A p \in Partitions :
                /\ Committed(r, ps)[p] <= End[p]
                /\ Committed(r, ps)[p] >= committed[p]
                /\ \A o \in Offsets : o < Committed(r, ps)[p] => <<p, o>> \in seen
                /\ owner[p] # r \/ p \notin ps => Committed(r, ps)[p] = committed[p]
<1>1. TypeOK /\ RunInv(r) /\ plan[r] # None
  BY DEF Inv, CommitsOnlyProcessed, RunInv, PlaceInv
<1>2. /\ committed \in [Partitions -> Nat] /\ \A p \in Partitions : committed[p] <= End[p]
      /\ assigned[r] \subseteq Partitions /\ position[r] \in [Partitions -> Nat]
  BY <1>1 DEF TypeOK
<1>3. \A p \in Partitions, o \in Offsets : o < committed[p] => <<p, o>> \in seen
  BY DEF Inv, CommitsOnlyProcessed
<1>4. ASSUME NEW p \in ps, plan[r].commits, owner[p] = r
      PROVE  /\ position[r][p] <= End[p] /\ position[r][p] >= committed[p]
             /\ \A o \in Offsets : o < position[r][p] => <<p, o>> \in seen
  <2>1. plan[r].source = "group" BY <1>1, <1>4 DEF RunInv, PlaceInv
  <2>2. \A x : ~(pc[r] # "leave" /\ InBuffer(r, x)) BY SMTT(20) DEF InBuffer
  <2>3. QED BY <1>1, <1>2, <1>4, <2>1, <2>2 DEF RunInv, CoverInv, AheadInv
<1>5. ASSUME NEW p \in Partitions
      PROVE  /\ Committed(r, ps)[p] \in Nat
             /\ Committed(r, ps)[p] <= End[p]
             /\ Committed(r, ps)[p] >= committed[p]
             /\ \A o \in Offsets : o < Committed(r, ps)[p] => <<p, o>> \in seen
             /\ owner[p] # r \/ p \notin ps => Committed(r, ps)[p] = committed[p]
  <2>1. CASE plan[r].commits /\ p \in ps /\ owner[p] = r
    <3>1. Committed(r, ps)[p] = position[r][p] BY <2>1 DEF Committed
    <3>2. QED BY <1>2, <1>4, <2>1, <3>1
  <2>2. CASE ~(plan[r].commits /\ p \in ps /\ owner[p] = r)
    <3>1. Committed(r, ps)[p] = committed[p] BY <2>2 DEF Committed
    <3>2. QED BY SMTT(20), <1>2, <1>3, <3>1
  <2>3. QED BY <2>1, <2>2
<1>6. Committed(r, ps) \in [Partitions -> Nat] BY <1>5 DEF Committed
<1>7. QED BY <1>5, <1>6

LEMMA AutoCommitInv == ASSUME Inv, NEW r \in Runs, AutoCommit(r) PROVE Inv'
<1> USE DEF consumer, history
<1>1. TypeOK /\ RunInv(r) BY DEF Inv, CommitsOnlyProcessed
<1>2. /\ pc[r] = "process" /\ buffered[r] = <<>> /\ Live(r)
      /\ committed' = Committed(r, assigned[r])
  BY DEF AutoCommit, Polling, Live
<1>3. /\ committed' \in [Partitions -> Nat]
      /\ \A p \in Partitions :
           /\ committed'[p] <= End[p] /\ \A o \in Offsets : o < committed'[p] => <<p, o>> \in seen
           /\ owner[p] # r => committed'[p] = committed[p]
  BY <1>2, CommitFacts
<1>4. TypeOK' BY <1>1, <1>3 DEF TypeOK, AutoCommit
<1>5. CommitsOnlyProcessed' BY <1>3, <1>4 DEF CommitsOnlyProcessed, AutoCommit
<1>6. ASSUME NEW q \in Runs, q # r PROVE RunInv(q)'
  BY <1>3, <1>6, OthersKeep DEF AutoCommit, Untouched, GroupKept
<1>7. RunInv(r)'
  <2>1. PlaceInv(r)' BY <1>1 DEF RunInv, PlaceInv, Live, AutoCommit
  <2>2. BufferInv(r)' BY <1>1 DEF RunInv, BufferInv, AutoCommit
  <2>3. CoverInv(r)' BY Zenon, <1>1 DEF RunInv, CoverInv, InBuffer, AutoCommit
  <2>4. AheadInv(r)'
    <3>1. ASSUME plan[r].commits, NEW p \in assigned[r], owner[p] = r
          PROVE  committed'[p] <= position[r][p]
      <4>1. committed'[p] = position[r][p] /\ position[r][p] \in Nat
        BY SMTT(20), <1>1, <1>2, <3>1 DEF Committed, TypeOK
      <4>2. QED BY SMTT(20), <4>1
    <3>2. UNCHANGED <<plan, assigned, owner, position, buffered>> BY DEF AutoCommit
    <3>3. 1..Len(buffered[r]) = {} BY SMTT(20), <1>2
    <3>4. QED BY <3>1, <3>2, <3>3 DEF AheadInv
  <2>5. QED BY <2>1, <2>2, <2>3, <2>4 DEF RunInv
<1>8. QED BY <1>5, <1>6, <1>7 DEF Inv

LEMMA AssignInv == ASSUME Inv, NEW r \in Runs, NEW p \in Partitions, Assign(r, p) PROVE Inv'
<1> USE DEF history
<1>1. TypeOK /\ RunInv(r) BY DEF Inv, CommitsOnlyProcessed
<1>2. pc[r] = "process" /\ buffered[r] = <<>> /\ p \notin assigned[r]
  BY DEF Assign, Polling
<1>3. TypeOK'
  <2>1. /\ owner' \in [Partitions -> Runs \cup {None}] /\ assigned' \in [Runs -> SUBSET Partitions]
        /\ position' \in [Runs -> [Partitions -> Nat]]
    BY <1>1 DEF TypeOK, Assign
  <2>2. QED BY <1>1, <2>1 DEF TypeOK, Assign
<1>4. CommitsOnlyProcessed' BY <1>3 DEF Inv, CommitsOnlyProcessed, Assign
<1>5. ASSUME NEW q \in Runs, q # r PROVE RunInv(q)'
  BY <1>1, <1>5, OthersKeep DEF TypeOK, Assign, Untouched, GroupKept
<1>6. RunInv(r)'
  <2>1. /\ pc' = pc /\ plan' = plan /\ buffered' = buffered /\ committed' = committed
        /\ seen' = seen /\ current' = current /\ count' = count
        /\ assigned'[r] = assigned[r] \cup {p} /\ position'[r][p] = committed[p]
        /\ \A x \in assigned[r] : position'[r][x] = position[r][x] /\ owner'[x] = owner[x]
    BY <1>1, <1>2 DEF TypeOK, Assign
  <2>2. PlaceInv(r)' BY <1>1, <1>2, <2>1 DEF RunInv, PlaceInv, Live
  <2>3. BufferInv(r)'
    <3>1. 1..Len(buffered[r]) = {} BY SMTT(20), <1>2
    <3>2. QED BY <2>1, <3>1 DEF BufferInv
  <2>4. CoverInv(r)'
    <3>1. \A o \in Offsets : o < committed[p] => <<p, o>> \in seen
      BY DEF Inv, CommitsOnlyProcessed
    <3>2. committed[p] <= End[p] BY <1>1 DEF TypeOK
    <3>3. CoverInv(r) /\ \A x : InBuffer(r, x)' <=> InBuffer(r, x)
      BY <1>1, <2>1 DEF RunInv, InBuffer
    <3>4. QED BY <2>1, <3>1, <3>2, <3>3 DEF CoverInv
  <2>5. AheadInv(r)'
    <3>1. committed[p] \in Nat BY <1>1 DEF TypeOK
    <3>2. QED BY SMTT(20), <1>1, <1>2, <2>1, <3>1 DEF RunInv, AheadInv
  <2>6. QED BY <2>2, <2>3, <2>4, <2>5 DEF RunInv
<1>7. QED BY <1>4, <1>5, <1>6 DEF Inv

LEMMA RevokeInv == ASSUME Inv, NEW r \in Runs, NEW p \in Partitions, Revoke(r, p) PROVE Inv'
<1> USE DEF history
<1>1. TypeOK BY DEF Inv, CommitsOnlyProcessed
<1>2. /\ buffered[r] = <<>> /\ Live(r) /\ {p} \in SUBSET assigned[r]
      /\ committed' = Committed(r, {p}) /\ owner' = [owner EXCEPT ![p] = None]
      /\ assigned' = [assigned EXCEPT ![r] = @ \ {p}]
  BY DEF Revoke, Polling, Live
<1>3. /\ committed' \in [Partitions -> Nat]
      /\ \A x \in Partitions :
           /\ committed'[x] <= End[x] /\ \A o \in Offsets : o < committed'[x] => <<x, o>> \in seen
           /\ x # p => committed'[x] = committed[x]
  BY <1>2, CommitFacts
<1>4. TypeOK'
  <2>1. /\ owner' \in [Partitions -> Runs \cup {None}] /\ assigned' \in [Runs -> SUBSET Partitions]
        /\ lapses' \in 0..MaxLapses
    BY SMTT(20), <1>1, <1>2, BoundsAreNaturals DEF TypeOK, Revoke, Lapse
  <2>2. QED BY Zenon, <1>1, <1>3, <2>1 DEF TypeOK, Revoke
<1>5. CommitsOnlyProcessed' BY Zenon, <1>3, <1>4 DEF CommitsOnlyProcessed, Revoke
<1>6. ASSUME NEW q \in Runs PROVE RunInv(q)'
  <2>1. Untouched(q) BY SMTT(20), <1>1, <1>2 DEF TypeOK, Revoke, Untouched
  <2>2. GroupKept(q)
    <3>1. q # None BY NoneIsNothing
    <3>2. QED BY Zenon, <1>1, <1>2, <1>3, <3>1 DEF TypeOK, Revoke, GroupKept
  <2>3. QED BY <2>1, <2>2, OthersKeep
<1>7. QED BY <1>5, <1>6 DEF Inv

LEMMA EvictInv == ASSUME Inv, NEW r \in Runs, Evict(r) PROVE Inv'
<1> USE DEF consumer, history
<1>1. TypeOK BY DEF Inv, CommitsOnlyProcessed
<1>2. TypeOK'
  <2>1. owner' \in [Partitions -> Runs \cup {None}] /\ lapses' \in 0..MaxLapses
    BY SMTT(20), <1>1, BoundsAreNaturals DEF TypeOK, Evict, Lapse
  <2>2. QED BY <1>1, <2>1 DEF TypeOK, Evict
<1>3. CommitsOnlyProcessed' BY <1>2 DEF Inv, CommitsOnlyProcessed, Evict
<1>4. ASSUME NEW q \in Runs PROVE RunInv(q)'
  <2>1. q # None BY NoneIsNothing
  <2>2. QED BY <2>1, OthersKeep DEF Evict, Untouched, GroupKept
<1>5. QED BY <1>3, <1>4 DEF Inv

LEMMA LoseInv == ASSUME Inv, NEW r \in Runs, Lose(r) PROVE Inv'
<1> USE DEF group, history
<1>1. TypeOK BY DEF Inv, CommitsOnlyProcessed
<1>2. TypeOK'
  <2>1. assigned' \in [Runs -> SUBSET Partitions] BY <1>1 DEF TypeOK, Lose
  <2>2. QED BY <1>1, <2>1 DEF TypeOK, Lose
<1>3. CommitsOnlyProcessed' BY <1>2 DEF Inv, CommitsOnlyProcessed, Lose
<1>4. ASSUME NEW q \in Runs PROVE RunInv(q)'
  BY <1>1, OthersKeep DEF TypeOK, Lose, Untouched, GroupKept
<1>5. QED BY <1>3, <1>4 DEF Inv

\* The seeks of close put every position that the buffer has passed back to the
\* first record of it, before which all is processed.
LEMMA SeekBackInv == ASSUME Inv, NEW r \in Runs, SeekBack(r) PROVE Inv'
<1> USE DEF group, history, Goto
<1>1. TypeOK /\ RunInv(r) BY DEF Inv, CommitsOnlyProcessed
<1> DEFINE s == buffered[r]
           back == Unconsumed(s)
<1>2. /\ position' = [position EXCEPT ![r] =
             [p \in Partitions |-> IF p \in DOMAIN back \cap assigned[r] THEN back[p] ELSE @[p]]]
      /\ pc[r] = "close"
  BY DEF SeekBack
<1>3. s \in Seq(Records) /\ Len(s) \in Nat /\ \A i \in 1..Len(s) : s[i] \in Records
  BY SMTT(20), <1>1 DEF TypeOK
<1>4. /\ DOMAIN back = {s[i][1] : i \in 1..Len(s)}
      /\ \A p \in DOMAIN back :
           \E i \in 1..Len(s) : /\ s[i][1] = p /\ \A j \in 1..(i - 1) : s[j][1] # p
                                /\ back[p] = s[i][2]
  <2>1. FirstOffsets(s, back) BY <1>3, UnconsumedFacts
  <2> HIDE DEF s, back
  <2>2. QED BY <2>1 DEF FirstOffsets
<1> HIDE DEF back
<1>5. \A p \in DOMAIN back : back[p] \in Nat /\ back[p] < End[p] BY Zenon, <1>3, <1>4, RecordFacts
<1>6. TypeOK'
  <2>1. position' \in [Runs -> [Partitions -> Nat]] BY <1>1, <1>2, <1>5 DEF TypeOK
  <2>2. QED BY <1>1, <2>1 DEF TypeOK, SeekBack
<1>7. CommitsOnlyProcessed' BY <1>6 DEF Inv, CommitsOnlyProcessed, SeekBack
<1>8. ASSUME NEW q \in Runs, q # r PROVE RunInv(q)'
  BY <1>1, <1>2, <1>8, OthersKeep DEF TypeOK, SeekBack, Untouched, GroupKept
<1>9. RunInv(r)'
  <2>1. /\ pc'[r] = "leave" /\ UNCHANGED <<plan, assigned, buffered, owner, committed, seen>>
        /\ \A p \in assigned[r] :
             position'[r][p] = IF p \in DOMAIN back THEN back[p] ELSE position[r][p]
        /\ assigned[r] \subseteq Partitions
    BY <1>1, <1>2 DEF TypeOK, SeekBack
  <2>2. PlaceInv(r)' BY <1>1, <1>2, <2>1 DEF RunInv, PlaceInv, Live
  <2>3. BufferInv(r)' BY <1>1, <2>1 DEF RunInv, BufferInv
  <2>4. CoverInv(r)'
    <3>1. ASSUME plan[r] # None, plan[r].source = "group", NEW p \in assigned[r]
          PROVE  position'[r][p] <= End[p]
      <4>1. CASE p \in DOMAIN back
        <5>1. End[p] \in Nat BY <2>1, BoundsAreNaturals
        <5>2. QED BY SMTT(20), <1>5, <2>1, <4>1, <5>1
      <4>2. CASE p \notin DOMAIN back BY <1>1, <2>1, <3>1, <4>2 DEF RunInv, CoverInv
      <4>3. QED BY <4>1, <4>2
    <3>2. ASSUME plan[r] # None, plan[r].source = "group", plan[r].commits,
                 NEW p \in assigned[r], NEW o \in Offsets, o < position'[r][p]
          PROVE  <<p, o>> \in seen
      <4>1. o < position[r][p] => <<p, o>> \in seen \/ InBuffer(r, <<p, o>>)
        BY <1>1, <3>2 DEF RunInv, CoverInv
      <4>2. CASE p \notin DOMAIN back
        <5>1. ~InBuffer(r, <<p, o>>) BY SMTT(20), <1>4, <4>2 DEF InBuffer
        <5>2. QED BY <2>1, <3>2, <4>1, <4>2, <5>1
      <4>3. CASE p \in DOMAIN back
        <5>1. PICK i \in 1..Len(s) : /\ s[i][1] = p /\ \A j \in 1..(i - 1) : s[j][1] # p
                                     /\ back[p] = s[i][2]
          BY <1>4, <4>3
        <5>2. o \in Nat /\ s[i][2] \in Nat /\ position[r][p] \in Nat /\ o < s[i][2]
          <6>1. o \in Nat /\ s[i][2] \in Nat BY <1>3, RecordFacts
          <6>2. position[r][p] \in Nat BY SMTT(20), <1>1, <2>1 DEF TypeOK
          <6>3. o < s[i][2] BY <2>1, <3>2, <4>3, <5>1
          <6>4. QED BY <6>1, <6>2, <6>3
        <5>3. s[i][2] < position[r][p] BY <1>1, <1>2, <3>2, <5>1 DEF RunInv, BufferInv
        <5>4. ~InBuffer(r, <<p, o>>)
          <6>1. ASSUME NEW j \in 1..Len(s), s[j] = <<p, o>> PROVE FALSE
            <7>1. s[j][1] = p /\ s[j][2] = o BY SMTT(20), <6>1
            <7>2. ~(j < i) BY SMTT(20), <1>3, <5>1, <7>1
            <7>3. j # i BY SMTT(20), <5>1, <5>2, <7>1
            <7>4. i < j BY SMTT(20), <1>3, <7>2, <7>3
            <7>5. s[i][2] < o BY <1>1, <5>1, <7>1, <7>4 DEF RunInv, BufferInv
            <7>6. QED BY SMTT(20), <5>2, <7>5
          <6>2. QED BY <6>1 DEF InBuffer
        <5>5. QED BY SMTT(20), <4>1, <5>2, <5>3, <5>4
      <4>4. QED BY <4>2, <4>3
    <3>3. QED BY <2>1, <3>1, <3>2 DEF CoverInv
  <2>5. AheadInv(r)'
    <3>1. ASSUME plan[r] # None, plan[r].commits, NEW p \in assigned[r], owner[p] = r
          PROVE  committed[p] <= position'[r][p]
      <4>1. AheadInv(r) BY <1>1 DEF RunInv
      <4>2. CASE p \in DOMAIN back
        <5>1. PICK i \in 1..Len(s) : s[i][1] = p /\ back[p] = s[i][2] BY Zenon, <1>4, <4>2
        <5>2. committed[p] <= s[i][2] BY <3>1, <4>1, <5>1 DEF AheadInv
        <5>3. QED BY <2>1, <4>2, <5>1, <5>2
      <4>3. CASE p \notin DOMAIN back BY <2>1, <3>1, <4>1, <4>3 DEF AheadInv
      <4>4. QED BY <4>2, <4>3
    <3>2. QED BY <1>1, <2>1, <3>1 DEF RunInv, AheadInv
  <2>6. QED BY <2>2, <2>3, <2>4, <2>5 DEF RunInv
<1>10. QED BY <1>7, <1>8, <1>9 DEF Inv

\* A run that is gone has nothing to keep.
LEMMA GoneInv ==
    ASSUME Inv, NEW r \in Runs, NEW l \in {"ended", "killed"}, Gone(r, l), UNCHANGED history
    PROVE  /\ pc' \in [Runs -> {"new", "open", "process", "write", "close", "leave", "ended", "killed"}]
           /\ plan' \in [Runs -> PlanType \cup {None}]
           /\ cancel' \in [Runs -> BOOLEAN]
           /\ assigned' \in [Runs -> SUBSET Partitions]
           /\ position' \in [Runs -> [Partitions -> Nat]]
           /\ buffered' \in [Runs -> Seq(Records)]
           /\ current' \in [Runs -> Records \cup {None}]
           /\ count' \in [Runs -> Nat]
           /\ \A q \in Runs : plan'[q] # None /\ plan'[q].max >= 0 => count'[q] <= plan'[q].max
           /\ \A q \in Runs : q # r => Untouched(q)
           /\ RunInv(r)'
<1> USE DEF Gone, Goto
<1>1. TypeOK BY DEF Inv, CommitsOnlyProcessed
<1>2. \A q \in Runs : q # r => Untouched(q) BY <1>1 DEF TypeOK, Untouched
<1>3. pc'[r] = l /\ plan'[r] = None /\ assigned'[r] = {} /\ buffered'[r] = <<>> BY <1>1 DEF TypeOK
<1>4. RunInv(r)' BY SMTT(20), <1>3 DEF RunInv, PlaceInv, BufferInv, CoverInv, AheadInv, Live
<1>5. \A q \in Runs : plan'[q] # None /\ plan'[q].max >= 0 => count'[q] <= plan'[q].max
  BY <1>1, <1>2, <1>3 DEF TypeOK, Untouched
<1>6. cancel' \in [Runs -> BOOLEAN] BY <1>1 DEF TypeOK
<1>7. plan' \in [Runs -> PlanType \cup {None}] BY <1>1 DEF TypeOK
<1>8. QED BY SMTT(20), <1>1, <1>2, <1>4, <1>5, <1>6, <1>7 DEF TypeOK

LEMMA LeaveInv == ASSUME Inv, NEW r \in Runs, Leave(r) PROVE Inv'
<1>1. TypeOK BY DEF Inv, CommitsOnlyProcessed
<1>2. /\ Live(r) /\ pc[r] = "leave" /\ committed' = Committed(r, assigned[r])
      /\ Gone(r, "ended") /\ UNCHANGED <<ending, history, lapses>> /\ seen' = seen
  BY DEF Leave, Live, history
<1>3. /\ committed' \in [Partitions -> Nat]
      /\ \A p \in Partitions :
           /\ committed'[p] <= End[p] /\ \A o \in Offsets : o < committed'[p] => <<p, o>> \in seen
           /\ owner[p] # r => committed'[p] = committed[p]
  BY <1>2, CommitFacts
<1>4. owner' \in [Partitions -> Runs \cup {None}] BY <1>1 DEF TypeOK, Leave
<1>5. TypeOK' BY <1>1, <1>2, <1>3, <1>4, GoneInv DEF TypeOK, history
<1>6. CommitsOnlyProcessed' BY <1>2, <1>3, <1>5 DEF CommitsOnlyProcessed
<1>7. ASSUME NEW q \in Runs, q # r PROVE RunInv(q)'
  <2>1. Untouched(q) BY <1>2, <1>7, GoneInv
  <2>2. GroupKept(q)
    <3>1. q # None BY NoneIsNothing
    <3>2. QED BY <1>2, <1>3, <1>7, <3>1 DEF GroupKept, Leave
  <2>3. QED BY <2>1, <2>2, OthersKeep
<1>8. RunInv(r)' BY <1>2, GoneInv
<1>9. QED BY <1>6, <1>7, <1>8 DEF Inv

LEMMA LostInv == ASSUME Inv, NEW r \in Runs, LeaveFails(r) \/ Kill(r) PROVE Inv'
<1>1. TypeOK BY DEF Inv, CommitsOnlyProcessed
<1>2. /\ \E l \in {"ended", "killed"} : Gone(r, l)
      /\ Lapse /\ UNCHANGED history /\ UNCHANGED <<owner, committed, seen, again, missed>>
      /\ ending' = ending \/ ending' = [ending EXCEPT ![r] = "none"]
  BY DEF LeaveFails, Kill, group, history
<1>3. PICK l \in {"ended", "killed"} : Gone(r, l) BY <1>2
<1>4. TypeOK'
  <2>1. lapses' \in 0..MaxLapses BY SMTT(20), <1>1, <1>2, BoundsAreNaturals DEF TypeOK, Lapse
  <2>2. ending' \in [Runs -> {"none", "usage", "failed", "cancelled", "done"}]
    BY Zenon, <1>1, <1>2 DEF TypeOK
  <2>3. QED BY SMTT(20), <1>1, <1>2, <1>3, <2>1, <2>2, GoneInv DEF TypeOK
<1>5. CommitsOnlyProcessed' BY <1>2, <1>4 DEF Inv, CommitsOnlyProcessed
<1>6. ASSUME NEW q \in Runs, q # r PROVE RunInv(q)'
  <2>1. Untouched(q) BY <1>2, <1>3, <1>6, GoneInv
  <2>2. GroupKept(q) BY <1>2 DEF GroupKept
  <2>3. QED BY <2>1, <2>2, OthersKeep
<1>7. RunInv(r)' BY <1>2, <1>3, GoneInv
<1>8. QED BY <1>5, <1>6, <1>7 DEF Inv

-----------------------------------------------------------------------------
(* The theorems                                                            *)

LEMMA NextInv == Inv /\ [Next]_vars => Inv'
<1> SUFFICES ASSUME Inv, [Next]_vars PROVE Inv' OBVIOUS
<1>1. ASSUME NEW r \in Runs, Step(r) PROVE Inv'
  BY <1>1, StartInv, OpenInv, OpenFailsInv, StopInv, PopInv, WriteInv, PollInv,
     SeekBackInv, LeaveInv, LostInv
  DEF Step
<1>2. ASSUME NEW r \in Runs,
             Interrupt(r) \/ AutoCommit(r) \/ Evict(r) \/ Lose(r) \/ Kill(r)
      PROVE  Inv'
  BY <1>2, InterruptInv, AutoCommitInv, EvictInv, LoseInv, LostInv
<1>3. ASSUME NEW r \in Runs, NEW p \in Partitions, Assign(r, p) \/ Revoke(r, p) PROVE Inv'
  BY <1>3, AssignInv, RevokeInv
<1>4. CASE UNCHANGED vars
  <2>1. TypeOK' BY <1>4 DEF Inv, CommitsOnlyProcessed, TypeOK, vars
  <2>2. CommitsOnlyProcessed' BY <1>4, <2>1 DEF Inv, CommitsOnlyProcessed, vars
  <2>3. ASSUME NEW q \in Runs PROVE RunInv(q)'
    BY <1>4, OthersKeep DEF vars, Untouched, GroupKept
  <2>4. QED BY <2>2, <2>3 DEF Inv
<1>5. QED BY <1>1, <1>2, <1>3, <1>4 DEF Next

\* console-consumer: the offset of the group never passes a record that no
\* committing run has processed, for any number of runs that share it, any
\* batches, rebalances, evictions, kills and ways for a run to end.
THEOREM Processed == Spec => []CommitsOnlyProcessed
<1>1. Inv => CommitsOnlyProcessed BY DEF Inv
<1>2. QED BY InitInv, NextInv, <1>1, PTL DEF Spec

LEMMA StepForward ==
    ASSUME Inv, [Next]_vars PROVE [\A p \in Partitions : committed'[p] >= committed[p]]_vars
<1>1. \A p \in Partitions : committed[p] \in Nat BY DEF Inv, CommitsOnlyProcessed, TypeOK
<1>2. CASE committed' = committed BY SMTT(20), <1>1, <1>2
<1>3. ASSUME NEW r \in Runs, NEW ps \in SUBSET assigned[r], Live(r),
             buffered[r] = <<>> \/ pc[r] = "leave", committed' = Committed(r, ps)
      PROVE  \A p \in Partitions : committed'[p] >= committed[p]
  BY <1>3, CommitFacts
<1>4. ASSUME NEW r \in Runs, AutoCommit(r) \/ Leave(r)
      PROVE  \A p \in Partitions : committed'[p] >= committed[p]
  BY <1>3, <1>4 DEF AutoCommit, Polling, Leave, Live
<1>5. ASSUME NEW r \in Runs, NEW p \in Partitions, Revoke(r, p)
      PROVE  \A x \in Partitions : committed'[x] >= committed[x]
  <2>1. {p} \in SUBSET assigned[r] BY <1>5 DEF Revoke
  <2>2. QED BY Zenon, <1>3, <1>5, <2>1 DEF Revoke, Polling, Live
<1>6. ASSUME NEW r \in Runs,
             (Step(r) /\ ~Leave(r)) \/ Interrupt(r) \/ Evict(r) \/ Lose(r) \/ Kill(r)
      PROVE  committed' = committed
  BY <1>6 DEF Step, Start, Open, OpenFails, Bounded, Pop, Write, Poll, Stop, SeekBack,
              LeaveFails, Interrupt, Evict, Lose, Kill, group
<1>7. ASSUME NEW r \in Runs, NEW p \in Partitions, Assign(r, p) PROVE committed' = committed
  BY <1>7 DEF Assign
<1>8. CASE UNCHANGED vars BY <1>8 DEF vars
<1>9. QED BY <1>2, <1>4, <1>5, <1>6, <1>7, <1>8 DEF Next

\* console-consumer: the offset of the group never moves back, not by the seeks
\* of close and not by the commit of a run that was evicted and holds old
\* positions.
THEOREM Forward == Spec => CommitsMoveForward
<1>1. Inv /\ [Next]_vars => [\A p \in Partitions : committed'[p] >= committed[p]]_vars
  BY StepForward
<1>2. QED BY InitInv, NextInv, <1>1, PTL DEF Spec, CommitsMoveForward

-----------------------------------------------------------------------------
(* Nothing is processed twice before a lapse                               *)

Commits(r) == plan[r] # None /\ plan[r].commits

\* No committing run has processed what p holds from an offset on.
Unread(p, from) == \A o \in Offsets : from <= o => <<p, o>> \notin seen

\* The coordinator and the members agree on who has a partition.
HeldInv ==
    \A r \in Runs, p \in Partitions :
      owner[p] = r <=> plan[r] # None /\ plan[r].source = "group" /\ p \in assigned[r]

\* What lies behind the offset of the group is unread, unless a committing run
\* has the partition.
FreeInv(p) == (\A r \in Runs : owner[p] = r => ~Commits(r)) => Unread(p, committed[p])

\* So is what a committing run has in its buffer, which has no holes up to the
\* position, and what lies behind the position.
FreshInv(r) ==
    Commits(r) =>
      /\ \A p \in assigned[r] : Unread(p, position[r][p])
      /\ \A i \in 1..Len(buffered[r]) :
           /\ buffered[r][i][1] \in assigned[r] /\ buffered[r][i] \notin seen
           /\ pc[r] # "leave" =>
                \A o \in Offsets :
                  buffered[r][i][2] <= o /\ o < position[r][buffered[r][i][1]] =>
                    InBuffer(r, <<buffered[r][i][1], o>>)

UnlapsedInv == HeldInv /\ (\A p \in Partitions : FreeInv(p)) /\ (\A r \in Runs : FreshInv(r))

OnceInv == again = {} /\ (lapses = 0 => UnlapsedInv)

LEMMA InitOnce == Init => OnceInv
<1> SUFFICES ASSUME Init PROVE OnceInv OBVIOUS
<1>1. /\ \A r \in Runs : plan[r] = None /\ r # None
      /\ \A p \in Partitions : owner[p] = None
      /\ seen = {} /\ again = {}
  BY NoneIsNothing DEF Init
<1>2. QED BY <1>1 DEF OnceInv, UnlapsedInv, HeldInv, FreeInv, FreshInv, Commits, Unread

\* A step that processes nothing leaves the other runs as they are.
Same(q) ==
    /\ plan'[q] = plan[q] /\ assigned'[q] = assigned[q] /\ position'[q] = position[q]
    /\ buffered'[q] = buffered[q] /\ pc'[q] = pc[q]

LEMMA OthersFresh ==
    ASSUME NEW q \in Runs, FreshInv(q), Same(q), seen' = seen PROVE FreshInv(q)'
<1>1. \A x : InBuffer(q, x)' <=> InBuffer(q, x) BY DEF InBuffer, Same
<1>2. QED BY <1>1 DEF FreshInv, Commits, Unread, Same

\* Neither does it touch a partition whose owner and offset it leaves alone.
LEMMA FreeKept ==
    ASSUME NEW p \in Partitions, FreeInv(p), seen' = seen, owner'[p] = owner[p],
           committed'[p] = committed[p],
           \A q \in Runs : owner[p] = q => Commits(q)' = Commits(q)
    PROVE  FreeInv(p)'
  BY DEF FreeInv, Unread

\* A step that does not touch what the members and the group have.
LEMMA QuietOnce ==
    ASSUME UnlapsedInv, UNCHANGED <<plan, assigned, position, buffered, owner, committed, seen>>,
           \A q \in Runs : pc'[q] # "leave" => pc[q] # "leave"
    PROVE  UnlapsedInv'
<1>1. HeldInv' BY DEF UnlapsedInv, HeldInv
<1>2. ASSUME NEW p \in Partitions PROVE FreeInv(p)'
  BY DEF UnlapsedInv, FreeInv, Commits, Unread
<1>3. ASSUME NEW q \in Runs PROVE FreshInv(q)'
  <2>1. \A x : InBuffer(q, x)' <=> InBuffer(q, x) BY DEF InBuffer
  <2>2. FreshInv(q) /\ (pc'[q] # "leave" => pc[q] # "leave") BY DEF UnlapsedInv
  <2>3. QED BY <2>1, <2>2 DEF FreshInv, Commits, Unread
<1>4. QED BY <1>1, <1>2, <1>3 DEF UnlapsedInv

\* A run that starts or opens, or fails to, has no partition of the group.
LEMMA StartOnce ==
    ASSUME Inv, UnlapsedInv, NEW r \in Runs, Start(r) \/ Open(r) \/ OpenFails(r) PROVE UnlapsedInv'
<1> USE DEF consumer, group, history, ExitWith, Goto
<1>1. TypeOK /\ PlaceInv(r) /\ pc[r] \in {"new", "open"}
  BY DEF Inv, CommitsOnlyProcessed, RunInv, Start, Open, OpenFails
<1>2. assigned[r] = {} /\ buffered[r] = <<>> BY <1>1 DEF PlaceInv
<1>3. /\ UNCHANGED <<buffered, owner, committed, seen>>
      /\ \A q \in Runs : q # r => Same(q)
  <2>1. CASE Start(r) BY <1>1, <2>1 DEF TypeOK, Same, Start
  <2>2. CASE Open(r) BY <1>1, <2>2 DEF TypeOK, Same, Open
  <2>3. CASE OpenFails(r) BY <1>1, <2>3 DEF TypeOK, Same, OpenFails
  <2>4. QED BY <2>1, <2>2, <2>3
<1>4. \A p \in Partitions : owner[p] # r BY <1>2 DEF UnlapsedInv, HeldInv
<1>5. plan'[r] # None /\ plan'[r].source = "group" => assigned'[r] = {}
  <2>1. CASE Start(r) BY <1>2, <2>1 DEF Start
  <2>2. CASE OpenFails(r) BY <1>2, <2>2 DEF OpenFails
  <2>3. CASE Open(r)
    <3>1. plan' = plan /\ (plan[r].source = "group" => assigned' = [assigned EXCEPT ![r] = {}])
      BY Zenon, <2>3 DEF Open
    <3>2. QED BY <1>1, <3>1 DEF TypeOK
  <2>4. QED BY <2>1, <2>2, <2>3
<1>6. plan'[r] # None => (plan'[r].commits => plan'[r].source = "group")
  <2>1. Inv' BY StartInv, OpenInv, OpenFailsInv
  <2>2. PlaceInv(r)' BY <2>1 DEF Inv, RunInv
  <2>3. QED BY <2>2 DEF PlaceInv
<1>7. HeldInv' BY SMTT(20), <1>3, <1>4, <1>5 DEF UnlapsedInv, HeldInv, Same
<1>8. ASSUME NEW p \in Partitions PROVE FreeInv(p)'
  <2>1. \A q \in Runs : owner[p] = q => Commits(q)' = Commits(q) BY <1>3, <1>4 DEF Commits, Same
  <2>2. QED BY <1>3, <2>1, FreeKept DEF UnlapsedInv
<1>9. ASSUME NEW q \in Runs, q # r PROVE FreshInv(q)'
  BY <1>3, <1>9, OthersFresh DEF UnlapsedInv
<1>10. FreshInv(r)'
  <2>1. 1..Len(buffered'[r]) = {} BY SMTT(20), <1>2, <1>3
  <2>2. QED BY <1>5, <1>6, <2>1 DEF FreshInv, Commits
<1>11. QED BY <1>7, <1>8, <1>9, <1>10 DEF UnlapsedInv

\* What is polled lies behind the position, with all up to the new one.
LEMMA PollOnce == ASSUME Inv, UnlapsedInv, NEW r \in Runs, Poll(r) PROVE UnlapsedInv'
<1> USE DEF group, history
<1>1. TypeOK /\ FreshInv(r) BY DEF Inv, CommitsOnlyProcessed, UnlapsedInv
<1>2. PICK upto \in [assigned[r] -> {o + 1 : o \in Offsets} \cup {0}] :
        /\ \A p \in assigned[r] : upto[p] \in position[r][p]..End[p]
        /\ buffered' \in {[buffered EXCEPT ![r] = s] : s \in Batches(Between(position[r], upto))}
        /\ position' = [position EXCEPT ![r] =
               [p \in Partitions |-> IF p \in assigned[r] THEN upto[p] ELSE @[p]]]
  BY Zenon DEF Poll
<1> DEFINE records == Between(position[r], upto)
<1>3. PICK s \in Batches(records) : buffered' = [buffered EXCEPT ![r] = s] BY <1>2
<1>4. /\ assigned[r] \subseteq Partitions /\ position[r] \in [Partitions -> Nat]
      /\ \A p \in assigned[r] :
           /\ upto[p] \in Nat /\ position[r][p] <= upto[p] /\ upto[p] <= End[p] /\ End[p] \in Nat
  BY SMTT(20), <1>1, <1>2, BoundsAreNaturals DEF TypeOK
<1>5. /\ \A p \in assigned[r], o \in Offsets :
           position[r][p] <= o /\ o < upto[p] => <<p, o>> \in records
      /\ \A x \in records : /\ x[1] \in assigned[r] /\ x = <<x[1], x[2]>> /\ x[2] \in Offsets
                            /\ position[r][x[1]] <= x[2] /\ x[2] < upto[x[1]]
  BY SMTT(20), <1>2 DEF Between
<1> HIDE DEF records
<1>6. records \in SUBSET Records
  <2>1. ASSUME NEW x \in records PROVE x \in Records
    <3>1. x[2] \in Nat /\ x[1] \in Partitions /\ x[2] < End[x[1]] BY SMTT(20), <1>4, <1>5, RecordFacts
    <3>2. QED BY <1>5, <3>1, RecordFacts
  <2>2. QED BY <2>1
<1>7. /\ s \in Seq(Records) /\ \A i \in 1..Len(s) : s[i] \in records
      /\ \A x \in records : \E i \in 1..Len(s) : s[i] = x
  BY <1>3, <1>6, BatchFacts
<1>8. /\ buffered'[r] = s /\ \A p \in assigned[r] : position'[r][p] = upto[p]
      /\ UNCHANGED <<pc, plan, assigned, owner, committed, seen>>
      /\ \A q \in Runs : q # r => Same(q)
  BY <1>1, <1>2, <1>3, <1>4 DEF TypeOK, Poll, Same
<1>9. HeldInv' BY <1>8 DEF UnlapsedInv, HeldInv
<1>10. ASSUME NEW p \in Partitions PROVE FreeInv(p)' BY <1>8, FreeKept DEF UnlapsedInv, Commits
<1>11. ASSUME NEW q \in Runs, q # r PROVE FreshInv(q)'
  BY <1>8, <1>11, OthersFresh DEF UnlapsedInv
<1>12. FreshInv(r)'
  <2>1. SUFFICES ASSUME Commits(r)
                 PROVE  /\ \A p \in assigned[r] : Unread(p, upto[p])
                        /\ \A i \in 1..Len(s) :
                             /\ s[i][1] \in assigned[r] /\ s[i] \notin seen
                             /\ \A o \in Offsets : s[i][2] <= o /\ o < upto[s[i][1]] =>
                                  InBuffer(r, <<s[i][1], o>>)'
    BY <1>8 DEF FreshInv, Commits, Unread
  <2>2. ASSUME NEW p \in assigned[r], NEW o \in Offsets, position[r][p] <= o
        PROVE  <<p, o>> \notin seen
    BY <1>1, <2>1, <2>2 DEF FreshInv, Unread
  <2>3. Offsets \subseteq Nat BY RecordFacts
  <2>4. ASSUME NEW p \in assigned[r] PROVE Unread(p, upto[p])
    <3>1. ASSUME NEW o \in Offsets, upto[p] <= o PROVE position[r][p] <= o BY SMTT(20), <1>4, <2>3, <3>1
    <3>2. QED BY <2>2, <3>1 DEF Unread
  <2>5. ASSUME NEW i \in 1..Len(s)
        PROVE  /\ s[i][1] \in assigned[r] /\ s[i] \notin seen
               /\ \A o \in Offsets : s[i][2] <= o /\ o < upto[s[i][1]] =>
                    InBuffer(r, <<s[i][1], o>>)'
    <3>1. /\ s[i][1] \in assigned[r] /\ s[i] = <<s[i][1], s[i][2]>> /\ s[i][2] \in Offsets
          /\ position[r][s[i][1]] <= s[i][2]
      BY <1>5, <1>7
    <3>2. s[i] \notin seen BY Zenon, <2>2, <3>1
    <3>3. ASSUME NEW o \in Offsets, s[i][2] <= o, o < upto[s[i][1]]
          PROVE  InBuffer(r, <<s[i][1], o>>)'
      <4>1. position[r][s[i][1]] <= o
        <5>1. s[i][2] \in Nat /\ o \in Nat /\ position[r][s[i][1]] \in Nat BY Zenon, <1>4, <2>3, <3>1
        <5>2. QED BY SMTT(20), <3>1, <3>3, <5>1
      <4>2. <<s[i][1], o>> \in records BY <1>5, <3>1, <3>3, <4>1
      <4>3. QED BY <1>7, <1>8, <4>2 DEF InBuffer
    <3>4. QED BY <3>1, <3>2, <3>3
  <2>6. QED BY <2>4, <2>5
<1>13. QED BY <1>9, <1>10, <1>11, <1>12 DEF UnlapsedInv

\* The record that is taken off the buffer was not processed before.
LEMMA PopOnce ==
    ASSUME Inv, UnlapsedInv, NEW r \in Runs, Pop(r)
    PROVE  UnlapsedInv' /\ (plan[r].commits => Head(buffered[r]) \notin seen)
<1> USE DEF consumer, group, Goto
<1>1. TypeOK /\ RunInv(r) /\ FreshInv(r) BY DEF Inv, CommitsOnlyProcessed, UnlapsedInv
<1>2. plan[r] # None BY <1>1 DEF RunInv, PlaceInv, Live, Pop
<1> DEFINE s == buffered[r]
           record == Head(s)
<1>0. PICK t : t = Tail(s) BY Zenon
<1>3. /\ s \in Seq(Records) /\ s # <<>> /\ record = s[1] /\ record \in Records /\ 1 \in 1..Len(s)
      /\ t \in Seq(Records) /\ Len(t) = Len(s) - 1 /\ Len(s) \in Nat
      /\ \A i \in 1..Len(t) : t[i] = s[i + 1] /\ i + 1 \in 1..Len(s) /\ 1 < i + 1
  BY SMTT(20), <1>0, <1>1 DEF TypeOK, Pop
<1>4. /\ buffered' = [buffered EXCEPT ![r] = t]
      /\ seen' = (IF plan[r].commits THEN seen \cup {record} ELSE seen)
      /\ UNCHANGED <<plan, assigned, position, owner, committed>> /\ pc[r] = "process"
  BY <1>0 DEF Pop
<1> HIDE DEF record
<1>5. plan[r].commits => record \notin seen /\ record[1] \in assigned[r]
  BY <1>1, <1>2, <1>3 DEF FreshInv, Commits
<1>6. HeldInv' BY <1>4 DEF UnlapsedInv, HeldInv
<1>7. /\ buffered'[r] = t /\ pc'[r] = "write"
      /\ \A q \in Runs : q # r => buffered'[q] = buffered[q] /\ pc'[q] = pc[q]
  BY <1>1, <1>4 DEF TypeOK, Pop
<1>8. record[1] \in Partitions /\ record[2] \in Nat /\ record = <<record[1], record[2]>>
  BY <1>3, RecordFacts
<1>9. CASE ~plan[r].commits
  <2>1. seen' = seen BY <1>4, <1>9
  <2>2. ASSUME NEW p \in Partitions PROVE FreeInv(p)'
    BY <1>4, <2>1, FreeKept DEF UnlapsedInv, Commits
  <2>3. ASSUME NEW q \in Runs, q # r PROVE FreshInv(q)'
    BY <1>4, <1>7, <2>1, <2>3, OthersFresh DEF UnlapsedInv, Same
  <2>4. FreshInv(r)' BY <1>4, <1>9 DEF FreshInv, Commits
  <2>5. QED BY <1>6, <1>9, <2>2, <2>3, <2>4 DEF UnlapsedInv
<1>10. CASE plan[r].commits
  <2>1. /\ seen' = seen \cup {record} /\ record \notin seen /\ record[1] \in assigned[r]
        /\ plan[r].source = "group"
    BY <1>1, <1>2, <1>4, <1>5, <1>10 DEF RunInv, PlaceInv
  <2>2. owner[record[1]] = r BY <1>2, <1>8, <2>1 DEF UnlapsedInv, HeldInv
  <2>3. ASSUME NEW p \in Partitions PROVE FreeInv(p)'
    <3>1. CASE p = record[1]
      <4>1. Commits(r)' BY <1>2, <1>4, <1>10 DEF Commits
      <4>2. owner'[p] = r BY <1>4, <2>2, <3>1
      <4>3. QED BY <4>1, <4>2 DEF FreeInv
    <3>2. CASE p # record[1]
      <4>1. \A o : <<p, o>> # record BY SMTT(20), <1>8, <3>2
      <4>2. FreeInv(p) BY DEF UnlapsedInv
      <4>3. QED BY <1>4, <2>1, <4>1, <4>2 DEF FreeInv, Commits, Unread
    <3>3. QED BY <3>1, <3>2
  <2>4. ASSUME NEW q \in Runs, q # r, Commits(q)
        PROVE  /\ record[1] \notin assigned[q]
               /\ \A p \in assigned[q], o \in Offsets : <<p, o>> # record
    <3>1. plan[q] # None /\ plan[q].source = "group"
      BY <2>4 DEF Inv, RunInv, PlaceInv, Commits
    <3>2. record[1] \notin assigned[q] BY <1>8, <2>2, <2>4, <3>1 DEF UnlapsedInv, HeldInv
    <3>3. QED BY SMTT(20), <1>8, <3>2
  <2>5. ASSUME NEW q \in Runs, q # r PROVE FreshInv(q)'
    <3>1. /\ FreshInv(q) /\ plan'[q] = plan[q] /\ assigned'[q] = assigned[q] /\ pc'[q] = pc[q]
          /\ position'[q] = position[q] /\ buffered'[q] = buffered[q]
      BY <1>4, <1>7, <2>5 DEF UnlapsedInv
    <3>2. \A x : InBuffer(q, x)' <=> InBuffer(q, x) BY <3>1 DEF InBuffer
    <3>3. SUFFICES ASSUME Commits(q)
                   PROVE  /\ \A p \in assigned[q] : Unread(p, position[q][p])'
                          /\ \A i \in 1..Len(buffered[q]) : buffered[q][i] \notin seen'
      BY <3>1, <3>2 DEF FreshInv, Commits, Unread
    <3>4. \A p \in assigned[q] : Unread(p, position[q][p])'
      BY <2>1, <2>4, <2>5, <3>1, <3>3 DEF FreshInv, Unread
    <3>5. ASSUME NEW i \in 1..Len(buffered[q]) PROVE buffered[q][i] \notin seen'
      <4>1. buffered[q][i] \notin seen /\ buffered[q][i][1] \in assigned[q]
        BY <3>1, <3>3 DEF FreshInv
      <4>2. buffered[q][i] # record BY <2>4, <2>5, <3>3, <4>1
      <4>3. QED BY <2>1, <4>1, <4>2
    <3>6. QED BY <3>4, <3>5
  <2>6. FreshInv(r)'
    <3>1. BufferInv(r) /\ Commits(r) BY <1>1, <1>2, <1>10 DEF RunInv, Commits
    <3>2. ASSUME NEW p \in assigned[r] PROVE Unread(p, position[r][p])'
      <4>1. Unread(p, position[r][p]) BY <1>1, <3>1 DEF FreshInv
      <4>2. ASSUME NEW o \in Offsets, position[r][p] <= o PROVE <<p, o>> # record
        <5>1. CASE p = record[1]
          <6>1. record[2] < position[r][p] BY <1>3, <1>4, <3>1, <5>1 DEF BufferInv
          <6>2. o \in Nat /\ position[r][p] \in Nat BY SMTT(20), <1>1, RecordFacts DEF TypeOK
          <6>3. record[2] # o BY SMTT(20), <1>8, <4>2, <6>1, <6>2
          <6>4. QED BY SMTT(20), <1>8, <6>3
        <5>2. CASE p # record[1] BY SMTT(20), <1>8, <5>2
        <5>3. QED BY <5>1, <5>2
      <4>3. QED BY <1>4, <2>1, <4>1, <4>2 DEF Unread
    <3>3. ASSUME NEW i \in 1..Len(t)
          PROVE  /\ t[i][1] \in assigned[r] /\ t[i] \notin seen'
                 /\ \A o \in Offsets : t[i][2] <= o /\ o < position[r][t[i][1]] =>
                      InBuffer(r, <<t[i][1], o>>)'
      <4>1. t[i] = s[i + 1] /\ i + 1 \in 1..Len(s) /\ 1 < i + 1 /\ t[i] \in Records BY SMTT(20), <1>3
      <4>2. t[i][1] \in assigned[r] /\ t[i] \notin seen BY <1>1, <3>1, <4>1 DEF FreshInv
      <4>3. record[1] = t[i][1] => record[2] < t[i][2] BY <1>3, <3>1, <4>1 DEF BufferInv
      <4>4. t[i][2] \in Nat BY <4>1, RecordFacts
      <4>5. t[i] # record BY SMTT(20), <1>8, <4>3, <4>4
      <4>6. ASSUME NEW o \in Offsets, t[i][2] <= o, o < position[r][t[i][1]]
            PROVE  InBuffer(r, <<t[i][1], o>>)'
        <5>1. InBuffer(r, <<t[i][1], o>>)
          BY <1>1, <1>4, <3>1, <4>1, <4>6 DEF FreshInv
        <5>2. PICK j \in 1..Len(s) : s[j] = <<t[i][1], o>> BY <5>1 DEF InBuffer
        <5>3. j # 1
          <6>1. o \in Nat BY RecordFacts
          <6>2. <<t[i][1], o>> # record BY SMTT(20), <1>8, <4>3, <4>4, <4>6, <6>1
          <6>3. QED BY <1>3, <5>2, <6>2
        <5>4. \E h \in 1..Len(t) : h + 1 = j
          <6>1. Len(s) \in Nat /\ Len(t) = Len(s) - 1 BY <1>3
          <6>2. j - 1 \in 1..Len(t) /\ (j - 1) + 1 = j BY SMTT(20), <5>2, <5>3, <6>1
          <6>3. QED BY <6>2
        <5>5. \E h \in 1..Len(t) : t[h] = <<t[i][1], o>> BY Zenon, <1>3, <5>2, <5>4
        <5>6. QED BY <1>7, <5>5 DEF InBuffer
      <4>7. QED BY <2>1, <4>2, <4>5, <4>6
    <3>4. /\ \A p \in assigned'[r] : Unread(p, position[r][p])'
          /\ \A i \in 1..Len(t) :
               /\ t[i][1] \in assigned'[r] /\ t[i] \notin seen'
               /\ \A o \in Offsets : t[i][2] <= o /\ o < position'[r][t[i][1]] =>
                    InBuffer(r, <<t[i][1], o>>)'
      BY <1>4, <3>2, <3>3
    <3>5. buffered'[r] = t BY <1>7
    <3> HIDE DEF s
    <3>6. QED BY <3>4, <3>5 DEF FreshInv
  <2>7. QED BY <1>6, <2>1, <2>3, <2>5, <2>6 DEF UnlapsedInv, record
<1>11. QED BY <1>9, <1>10

\* A commit touches the partitions of a committing run only.
LEMMA AutoCommitOnce == ASSUME Inv, UnlapsedInv, NEW r \in Runs, AutoCommit(r) PROVE UnlapsedInv'
<1> USE DEF consumer, history
<1>1. /\ UNCHANGED <<pc, plan, assigned, position, buffered, owner, seen>>
      /\ committed' = Committed(r, assigned[r])
  BY DEF AutoCommit
<1>2. plan[r] # None BY DEF AutoCommit, Polling, Inv, RunInv, PlaceInv, Live
<1>3. HeldInv' BY <1>1 DEF UnlapsedInv, HeldInv
<1>4. ASSUME NEW p \in Partitions PROVE FreeInv(p)'
  <2>1. CASE plan[r].commits /\ owner[p] = r
    BY <1>1, <1>2, <2>1 DEF FreeInv, Commits
  <2>2. CASE ~(plan[r].commits /\ owner[p] = r)
    <3>1. committed'[p] = committed[p] BY <1>1, <2>2 DEF Committed
    <3>2. QED BY <1>1, <3>1, FreeKept DEF UnlapsedInv, Commits
  <2>3. QED BY <2>1, <2>2
<1>5. ASSUME NEW q \in Runs PROVE FreshInv(q)' BY <1>1, OthersFresh DEF UnlapsedInv, Same
<1>6. QED BY <1>3, <1>4, <1>5 DEF UnlapsedInv

\* A run reads on from the offset of the group, behind which all is unread.
LEMMA AssignOnce ==
    ASSUME Inv, UnlapsedInv, NEW r \in Runs, NEW p \in Partitions, Assign(r, p) PROVE UnlapsedInv'
<1> USE DEF history
<1>1. TypeOK /\ PlaceInv(r) BY DEF Inv, CommitsOnlyProcessed, RunInv
<1>2. /\ plan[r] # None /\ plan[r].source = "group" /\ owner[p] = None /\ buffered[r] = <<>>
      /\ p \notin assigned[r] /\ r # None
  BY <1>1, NoneIsNothing DEF Assign, Polling, PlaceInv, Live
<1>3. /\ UNCHANGED <<pc, plan, buffered, committed, seen>>
      /\ owner'[p] = r /\ \A x \in Partitions : x # p => owner'[x] = owner[x]
      /\ assigned'[r] = assigned[r] \cup {p} /\ position'[r][p] = committed[p]
      /\ \A x \in Partitions : x # p => position'[r][x] = position[r][x]
      /\ \A q \in Runs : q # r => Same(q)
      /\ assigned[r] \subseteq Partitions
  BY <1>1 DEF TypeOK, Assign, Same
<1>4. HeldInv'
  <2>1. ASSUME NEW q \in Runs, NEW x \in Partitions
        PROVE  owner'[x] = q <=> plan'[q] # None /\ plan'[q].source = "group" /\ x \in assigned'[q]
    <3>1. owner[x] = q <=> plan[q] # None /\ plan[q].source = "group" /\ x \in assigned[q]
      BY DEF UnlapsedInv, HeldInv
    <3>2. CASE q = r BY <1>2, <1>3, <3>1, <3>2
    <3>3. CASE q # r
      <4>1. q # None /\ plan'[q] = plan[q] /\ assigned'[q] = assigned[q]
        BY <1>3, <3>3, NoneIsNothing DEF Same
      <4>2. QED BY <1>2, <1>3, <3>1, <3>3, <4>1
    <3>4. QED BY <3>2, <3>3
  <2>2. QED BY <2>1 DEF HeldInv
<1>5. Unread(p, committed[p])
  <2>1. FreeInv(p) /\ \A q \in Runs : owner[p] # q BY <1>2, NoneIsNothing DEF UnlapsedInv
  <2>2. QED BY <2>1 DEF FreeInv
<1>6. ASSUME NEW x \in Partitions PROVE FreeInv(x)'
  <2>1. CASE x = p BY <1>3, <1>5, <2>1 DEF FreeInv, Unread
  <2>2. CASE x # p BY <1>3, <2>2, FreeKept DEF UnlapsedInv, Commits
  <2>3. QED BY <2>1, <2>2
<1>7. ASSUME NEW q \in Runs, q # r PROVE FreshInv(q)'
  BY <1>3, <1>7, OthersFresh DEF UnlapsedInv
<1>8. FreshInv(r)'
  <2>1. 1..Len(buffered'[r]) = {} BY SMTT(20), <1>2, <1>3
  <2>2. ASSUME Commits(r), NEW x \in assigned'[r] PROVE Unread(x, position[r][x])'
    <3>1. CASE x = p BY <1>3, <1>5, <3>1 DEF Unread
    <3>2. CASE x # p
      <4>1. x \in assigned[r] /\ position'[r][x] = position[r][x] BY <1>3, <2>2, <3>2
      <4>2. FreshInv(r) BY DEF UnlapsedInv
      <4>3. QED BY <1>3, <2>2, <4>1, <4>2 DEF FreshInv, Unread
    <3>3. QED BY <3>1, <3>2
  <2>3. QED BY <1>3, <2>1, <2>2 DEF FreshInv, Commits
<1>9. QED BY <1>4, <1>6, <1>7, <1>8 DEF UnlapsedInv

\* What a committing run gives up, it has committed, with nothing buffered.
LEMMA RevokeOnce ==
    ASSUME Inv, UnlapsedInv, NEW r \in Runs, NEW p \in Partitions, Revoke(r, p), plan[r].commits
    PROVE  UnlapsedInv'
<1> USE DEF history
<1>1. TypeOK /\ PlaceInv(r) BY DEF Inv, CommitsOnlyProcessed, RunInv
<1>2. Commits(r) /\ buffered[r] = <<>> /\ owner[p] = r /\ p \in assigned[r] /\ r # None
  BY <1>1, NoneIsNothing DEF Revoke, Polling, PlaceInv, Live, Commits
<1>3. /\ UNCHANGED <<pc, plan, position, buffered, seen>>
      /\ owner'[p] = None /\ \A x \in Partitions : x # p => owner'[x] = owner[x]
      /\ assigned'[r] = assigned[r] \ {p}
      /\ \A q \in Runs : q # r => Same(q)
      /\ committed' = Committed(r, {p})
  BY <1>1 DEF TypeOK, Revoke, Same
<1>4. /\ committed'[p] = position[r][p]
      /\ \A x \in Partitions : x # p => committed'[x] = committed[x]
  BY <1>2, <1>3 DEF Committed, Commits
<1>5. HeldInv'
  <2>1. ASSUME NEW q \in Runs, NEW x \in Partitions
        PROVE  owner'[x] = q <=> plan'[q] # None /\ plan'[q].source = "group" /\ x \in assigned'[q]
    <3>1. owner[x] = q <=> plan[q] # None /\ plan[q].source = "group" /\ x \in assigned[q]
      BY DEF UnlapsedInv, HeldInv
    <3>2. q # None BY NoneIsNothing
    <3>3. CASE q = r BY <1>2, <1>3, <3>1, <3>2, <3>3
    <3>4. CASE q # r
      <4>1. plan'[q] = plan[q] /\ assigned'[q] = assigned[q] BY <1>3, <3>4 DEF Same
      <4>2. QED BY <1>2, <1>3, <3>1, <3>2, <3>4, <4>1
    <3>5. QED BY <3>3, <3>4
  <2>2. QED BY <2>1 DEF HeldInv
<1>6. ASSUME NEW x \in Partitions PROVE FreeInv(x)'
  <2>1. CASE x = p
    <3>1. Unread(p, position[r][p]) BY <1>2 DEF UnlapsedInv, FreshInv
    <3>2. QED BY <1>3, <1>4, <2>1, <3>1 DEF FreeInv, Unread
  <2>2. CASE x # p BY <1>3, <1>4, <2>2, FreeKept DEF UnlapsedInv, Commits
  <2>3. QED BY <2>1, <2>2
<1>7. ASSUME NEW q \in Runs, q # r PROVE FreshInv(q)'
  BY <1>3, <1>7, OthersFresh DEF UnlapsedInv
<1>8. FreshInv(r)'
  <2>1. 1..Len(buffered'[r]) = {} BY SMTT(20), <1>2, <1>3
  <2>2. FreshInv(r) /\ assigned'[r] \subseteq assigned[r] BY <1>3 DEF UnlapsedInv
  <2>3. QED BY <1>2, <1>3, <2>1, <2>2 DEF FreshInv, Commits, Unread
<1>9. QED BY <1>5, <1>6, <1>7, <1>8 DEF UnlapsedInv

\* The seeks of close go back to the first record of the buffer, behind which
\* all is buffered or behind the position, and unread.
LEMMA SeekBackOnce == ASSUME Inv, UnlapsedInv, NEW r \in Runs, SeekBack(r) PROVE UnlapsedInv'
<1> USE DEF group, history, Goto
<1>1. TypeOK /\ FreshInv(r) BY DEF Inv, CommitsOnlyProcessed, UnlapsedInv
<1> DEFINE s == buffered[r]
           back == Unconsumed(s)
<1>2. /\ position' = [position EXCEPT ![r] =
             [p \in Partitions |-> IF p \in DOMAIN back \cap assigned[r] THEN back[p] ELSE @[p]]]
      /\ pc[r] = "close"
  BY DEF SeekBack
<1>3. \A p \in DOMAIN back : \E i \in 1..Len(s) : s[i][1] = p /\ back[p] = s[i][2]
  <2>1. s \in Seq(Records) BY <1>1 DEF TypeOK
  <2>2. FirstOffsets(s, back) BY <2>1, UnconsumedFacts
  <2> HIDE DEF s, back
  <2>3. QED BY <2>2 DEF FirstOffsets
<1> HIDE DEF back
<1>4. /\ pc'[r] = "leave" /\ UNCHANGED <<plan, assigned, buffered, owner, committed, seen>>
      /\ \A p \in assigned[r] :
           position'[r][p] = IF p \in DOMAIN back THEN back[p] ELSE position[r][p]
      /\ \A q \in Runs : q # r => Same(q)
  BY <1>1, <1>2 DEF TypeOK, SeekBack, Same
<1>5. HeldInv' BY <1>4 DEF UnlapsedInv, HeldInv
<1>6. ASSUME NEW p \in Partitions PROVE FreeInv(p)' BY <1>4, FreeKept DEF UnlapsedInv, Commits
<1>7. ASSUME NEW q \in Runs, q # r PROVE FreshInv(q)'
  BY <1>4, <1>7, OthersFresh DEF UnlapsedInv
<1>8. FreshInv(r)'
  <2>1. ASSUME Commits(r), NEW p \in assigned[r] PROVE Unread(p, position[r][p])'
    <3>1. Unread(p, position[r][p]) BY <1>1, <2>1 DEF FreshInv
    <3>2. CASE p \notin DOMAIN back BY <1>4, <3>1, <3>2 DEF Unread
    <3>3. CASE p \in DOMAIN back
      <4>1. PICK i \in 1..Len(s) : s[i][1] = p /\ back[p] = s[i][2] BY <1>3, <3>3
      <4>2. ASSUME NEW o \in Offsets, s[i][2] <= o PROVE <<p, o>> \notin seen
        <5>1. CASE o < position[r][p]
          <6>1. InBuffer(r, <<p, o>>) BY <1>1, <1>2, <2>1, <4>1, <4>2, <5>1 DEF FreshInv
          <6>2. QED BY <1>1, <2>1, <6>1 DEF FreshInv, InBuffer
        <5>2. CASE ~(o < position[r][p])
          <6>1. o \in Nat /\ position[r][p] \in Nat BY SMTT(20), <1>1, RecordFacts DEF TypeOK
          <6>2. QED BY SMTT(20), <3>1, <5>2, <6>1 DEF Unread
        <5>3. QED BY <5>1, <5>2
      <4>3. QED BY <1>4, <3>3, <4>1, <4>2 DEF Unread
    <3>4. QED BY <3>2, <3>3
  <2>2. QED BY <1>1, <1>4, <2>1 DEF FreshInv, Commits
<1>9. QED BY <1>5, <1>6, <1>7, <1>8 DEF UnlapsedInv

\* A run that leaves has committed what it gives up.
LEMMA LeaveOnce == ASSUME Inv, UnlapsedInv, NEW r \in Runs, Leave(r) PROVE UnlapsedInv'
<1> USE DEF history, Gone, Goto
<1>1. TypeOK /\ PlaceInv(r) BY DEF Inv, CommitsOnlyProcessed, RunInv
<1>2. plan[r] # None /\ r # None BY <1>1, NoneIsNothing DEF PlaceInv, Live, Leave
<1>3. /\ plan'[r] = None /\ seen' = seen /\ committed' = Committed(r, assigned[r])
      /\ \A p \in Partitions : owner'[p] = IF owner[p] = r THEN None ELSE owner[p]
      /\ \A q \in Runs : q # r => Same(q)
  BY <1>1 DEF TypeOK, Leave, Same
<1>4. HeldInv'
  <2>1. ASSUME NEW q \in Runs, NEW p \in Partitions
        PROVE  owner'[p] = q <=> plan'[q] # None /\ plan'[q].source = "group" /\ p \in assigned'[q]
    <3>1. owner[p] = q <=> plan[q] # None /\ plan[q].source = "group" /\ p \in assigned[q]
      BY DEF UnlapsedInv, HeldInv
    <3>2. q # None BY NoneIsNothing
    <3>3. CASE q = r BY <1>3, <3>2, <3>3
    <3>4. CASE q # r
      <4>1. plan'[q] = plan[q] /\ assigned'[q] = assigned[q] BY <1>3, <3>4 DEF Same
      <4>2. QED BY <1>3, <3>1, <3>2, <3>4, <4>1
    <3>5. QED BY <3>3, <3>4
  <2>2. QED BY <2>1 DEF HeldInv
<1>5. ASSUME NEW p \in Partitions PROVE FreeInv(p)'
  <2>1. CASE owner[p] # r
    <3>1. committed'[p] = committed[p] /\ owner'[p] = owner[p] BY <1>3, <2>1 DEF Committed
    <3>2. \A q \in Runs : owner[p] = q => Commits(q)' = Commits(q)
      BY <1>3, <2>1 DEF Same, Commits
    <3>3. QED BY <1>3, <3>1, <3>2, FreeKept DEF UnlapsedInv
  <2>2. CASE owner[p] = r /\ plan[r].commits
    <3>1. p \in assigned[r] BY <2>2 DEF UnlapsedInv, HeldInv
    <3>2. committed'[p] = position[r][p] BY <1>3, <2>2, <3>1 DEF Committed
    <3>3. Unread(p, position[r][p]) BY <1>2, <2>2, <3>1 DEF UnlapsedInv, FreshInv, Commits
    <3>4. QED BY <1>3, <3>2, <3>3 DEF FreeInv, Unread
  <2>3. CASE owner[p] = r /\ ~plan[r].commits
    <3>1. committed'[p] = committed[p] BY <1>3, <2>3 DEF Committed
    <3>2. Unread(p, committed[p]) BY <2>3 DEF UnlapsedInv, FreeInv, Commits
    <3>3. QED BY <1>3, <3>1, <3>2 DEF FreeInv, Unread
  <2>4. QED BY <2>1, <2>2, <2>3
<1>6. ASSUME NEW q \in Runs, q # r PROVE FreshInv(q)'
  BY <1>3, <1>6, OthersFresh DEF UnlapsedInv
<1>7. FreshInv(r)' BY <1>3 DEF FreshInv, Commits
<1>8. QED BY <1>4, <1>5, <1>6, <1>7 DEF UnlapsedInv

\* Before a lapse a consumer has nothing to lose.
LEMMA LoseOnce == ASSUME Inv, UnlapsedInv, NEW r \in Runs, Lose(r) PROVE FALSE
<1>1. TypeOK /\ plan[r] # None BY DEF Inv, CommitsOnlyProcessed, RunInv, PlaceInv, Lose
<1>2. {p \in assigned[r] : owner[p] = r} = assigned[r]
  <2>1. assigned[r] \subseteq Partitions BY <1>1 DEF TypeOK
  <2>2. QED BY SMTT(20), <1>1, <2>1 DEF UnlapsedInv, HeldInv, Lose
<1>3. [assigned EXCEPT ![r] = {p \in assigned[r] : owner[p] = r}] = assigned
  BY <1>1, <1>2 DEF TypeOK
<1>4. QED BY <1>3 DEF Lose

\* And only a run that lives has a partition.
LEMMA EvictOnce == ASSUME Inv, UnlapsedInv, NEW r \in Runs, Evict(r) PROVE Live(r)
<1>1. PICK p \in Partitions : owner[p] = r BY DEF Evict
<1>2. plan[r] # None BY <1>1 DEF UnlapsedInv, HeldInv
<1>3. QED BY <1>2 DEF Inv, RunInv, PlaceInv

LEMMA NextOnce == Inv /\ OnceInv /\ [Next]_vars => OnceInv'
<1> SUFFICES ASSUME Inv, OnceInv, [Next]_vars PROVE OnceInv' OBVIOUS
<1> USE DEF history
<1>1. lapses \in Nat /\ again = {}
  BY SMTT(20), BoundsAreNaturals DEF Inv, CommitsOnlyProcessed, TypeOK, OnceInv
<1>2. ASSUME NEW r \in Runs, Pop(r) PROVE OnceInv'
  <2>1. lapses' = lapses BY <1>2 DEF Pop
  <2>2. CASE lapses = 0
    <3>1. UnlapsedInv BY <2>2 DEF OnceInv
    <3>2. UnlapsedInv' /\ (plan[r].commits => Head(buffered[r]) \notin seen)
      BY <1>2, <3>1, PopOnce
    <3>3. again' = {} BY <1>1, <1>2, <3>2 DEF Pop
    <3>4. QED BY <3>2, <3>3 DEF OnceInv
  <2>3. CASE lapses # 0
    <3>1. again' = {} BY <1>1, <1>2, <2>3 DEF Pop
    <3>2. QED BY <2>1, <2>3, <3>1 DEF OnceInv
  <2>4. QED BY <2>2, <2>3
\* A lapse, and a step after one.
<1>3. ASSUME again' = again, Lapse PROVE OnceInv' BY SMTT(20), <1>1, <1>3 DEF OnceInv, Lapse
<1>4. ASSUME again' = again, lapses' = lapses, UnlapsedInv => UnlapsedInv' PROVE OnceInv'
  BY <1>1, <1>4 DEF OnceInv
<1>5. ASSUME NEW r \in Runs, Step(r), ~Pop(r) PROVE OnceInv'
  <2>1. CASE Start(r) \/ Open(r) \/ OpenFails(r)
    BY <1>4, <2>1, StartOnce DEF Start, Open, OpenFails
  <2>2. CASE Bounded(r) \/ Stop(r) \/ Write(r)
    <3>1. /\ UNCHANGED <<plan, assigned, position, buffered, owner, committed, seen, again, lapses>>
          /\ \E l \in {"process", "close"} : pc' = [pc EXCEPT ![r] = l]
          /\ pc[r] \in {"process", "write"}
      BY <2>2 DEF Bounded, Stop, Timeout, CancelSeen, PollFails, Polling, Write, EndWith, Goto,
                  consumer, group
    <3>2. \A q \in Runs : pc'[q] # "leave" => pc[q] # "leave"
      BY <3>1 DEF Inv, CommitsOnlyProcessed, TypeOK
    <3>3. QED BY <1>4, <3>1, <3>2, QuietOnce
  <2>3. CASE Poll(r) BY Zenon, <1>4, <2>3, PollOnce DEF Poll
  <2>4. CASE SeekBack(r) BY Zenon, <1>4, <2>4, SeekBackOnce DEF SeekBack
  <2>5. CASE Leave(r) BY <1>4, <2>5, LeaveOnce DEF Leave
  <2>6. CASE LeaveFails(r) BY <1>3, <2>6 DEF LeaveFails
  <2>7. QED BY <1>5, <2>1, <2>2, <2>3, <2>4, <2>5, <2>6 DEF Step
<1>6. ASSUME NEW r \in Runs, Interrupt(r) PROVE OnceInv'
  BY <1>4, <1>6, QuietOnce DEF Interrupt, consumer, group
<1>7. ASSUME NEW r \in Runs, AutoCommit(r) PROVE OnceInv'
  BY <1>4, <1>7, AutoCommitOnce DEF AutoCommit
<1>8. ASSUME NEW r \in Runs, Evict(r) PROVE OnceInv'
  <2>1. CASE Live(r) BY <1>3, <1>8, <2>1 DEF Evict
  <2>2. CASE ~Live(r)
    <3>1. ~UnlapsedInv BY <1>8, <2>2, EvictOnce
    <3>2. QED BY <1>4, <1>8, <2>2, <3>1 DEF Evict
  <2>3. QED BY <2>1, <2>2
<1>9. ASSUME NEW r \in Runs, Lose(r) PROVE OnceInv' BY <1>4, <1>9, LoseOnce DEF Lose
<1>10. ASSUME NEW r \in Runs, Kill(r) PROVE OnceInv' BY <1>3, <1>10 DEF Kill
<1>11. ASSUME NEW r \in Runs, NEW p \in Partitions, Assign(r, p) PROVE OnceInv'
  BY Zenon, <1>4, <1>11, AssignOnce DEF Assign
<1>12. ASSUME NEW r \in Runs, NEW p \in Partitions, Revoke(r, p) PROVE OnceInv'
  <2>1. CASE plan[r].commits BY Zenon, <1>4, <1>12, <2>1, RevokeOnce DEF Revoke
  <2>2. CASE ~plan[r].commits BY <1>3, <1>12, <2>2 DEF Revoke
  <2>3. QED BY <2>1, <2>2
<1>13. CASE UNCHANGED vars BY <1>4, <1>13, QuietOnce DEF vars
<1>14. QED BY <1>2, <1>5, <1>6, <1>7, <1>8, <1>9, <1>10, <1>11, <1>12, <1>13 DEF Next

\* console-consumer: before a run is killed, evicted or fails to close, no
\* record is processed twice by the committing runs of a group, for any number
\* of them, any batches and any rebalances: what unconsumed gives back is
\* exactly what was not processed.
THEOREM Once == Spec => []NoneTwice
<1>1. OnceInv => NoneTwice BY DEF OnceInv, NoneTwice
<1>2. QED BY InitInv, NextInv, InitOnce, NextOnce, <1>1, PTL DEF Spec
=============================================================================
