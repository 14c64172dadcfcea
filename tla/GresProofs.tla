----------------------------- MODULE GresProofs -----------------------------
(***************************************************************************)
(* For every number of operators, every set of command lines and every     *)
(* bound: a tenant in the registry has its access, the commands write its  *)
(* record as a register that counts its versions, and its ranges stay a    *)
(* layout whose plans fit and whose generations grow.                      *)
(***************************************************************************)
EXTENDS Gres, TLAPS, SequenceTheorems, WellFoundedInduction

\* The provers of a step that names none, and the seconds each has.
USE ZenonT(10), SMTT(20)

\* The shape of the records that the steps update.
RecordShape(r) ==
    /\ DOMAIN r = {"version", "password", "active", "ranges", "hashed"}
    /\ r.version \in Nat

RunShape(r) == DOMAIN r = {"pc", "request", "expected", "write", "plan"}

Shape ==
    /\ RecordShape(record)
    /\ run = [o \in Operators |-> run[o]]
    /\ \A o \in Operators : RunShape(run[o])

\* A create has a password from its start, and the version that it is going to
\* write is the next one of the one that it expects.
Creating(o) ==
    /\ run[o].request.kind = "create" /\ run[o].pc # "idle" =>
         run[o].request.password \in Passwords
    /\ run[o].pc \in {"config", "scram", "acls", "replace"} =>
         /\ run[o].request.kind = "create"
         /\ run[o].expected \in Nat
         /\ run[o].write.version = run[o].expected + 1
         /\ RecordShape(run[o].write)

\* What it has provisioned stays.
Provisioned(o) ==
    /\ run[o].pc \in {"scram", "acls", "replace"} => config
    /\ run[o].pc \in {"acls", "replace"} => HasCredential
    /\ run[o].pc = "replace" => HasAcls

IInv ==
    /\ Shape
    /\ \A o \in Operators : Creating(o) /\ Provisioned(o)
    /\ RecordHasAccess

\* No command runs at first, and there is no record.
LEMMA InitInv == Init => IInv
<1> SUFFICES ASSUME Init PROVE IInv
  OBVIOUS
<1>1. record = NoRecord /\ run = [o \in Operators |-> Idle]
  BY DEF Init
<1>2. \A o \in Operators : run[o] = Idle
  BY <1>1
<1>3. Shape
  BY <1>1, <1>2 DEF Shape, RecordShape, RunShape, Idle, NoRecord
<1>4. \A o \in Operators : Creating(o) /\ Provisioned(o)
  BY SMTT(20), <1>2 DEF Creating, Provisioned, Idle
<1>5. RecordHasAccess
  BY <1>1 DEF RecordHasAccess, NoRecord
<1>6. QED
  BY <1>3, <1>4, <1>5 DEF IInv

\* Only the state of operator o changes in run.
OnlyOf(o) ==
    /\ run' = [p \in Operators |-> run'[p]]
    /\ \A p \in Operators \ {o} : run'[p] = run[p]
    /\ RunShape(run'[o])

\* An operator's step that takes no access away keeps the invariant if it keeps
\* it for that operator and for the record.
LEMMA StepKeeps ==
    ASSUME IInv, NEW o \in Operators, OnlyOf(o), RecordShape(record'),
           config => config', HasCredential => HasCredential', HasAcls => HasAcls',
           Creating(o)', Provisioned(o)', RecordHasAccess'
    PROVE  IInv'
<1>1. Shape'
  BY DEF IInv, Shape, OnlyOf
<1>2. ASSUME NEW p \in Operators PROVE Creating(p)' /\ Provisioned(p)'
  <2>1. CASE p = o
    BY <2>1
  <2>2. CASE p # o
    <3>1. run'[p] = run[p] /\ Creating(p) /\ Provisioned(p)
      BY <2>2 DEF IInv, OnlyOf
    <3>2. Creating(p)'
      BY <3>1 DEF Creating
    <3>3. Provisioned(p)'
      BY <3>1 DEF Provisioned
    <3>4. QED
      BY <3>2, <3>3
  <2>3. QED
    BY <2>1, <2>2
<1>3. QED
  BY <1>1, <1>2 DEF IInv

\* A step that only changes the operator's own state.
LEMMA LocalStep ==
    ASSUME IInv, NEW o \in Operators, OnlyOf(o), OnlyRun, Creating(o)', Provisioned(o)'
    PROVE  IInv'
<1>1. RecordShape(record') /\ RecordHasAccess'
  BY DEF IInv, Shape, RecordShape, RecordHasAccess, OnlyRun, HasCredential, HasAcls
<1>2. QED
  BY <1>1, StepKeeps DEF OnlyRun, HasCredential, HasAcls

\* The end of a command is fine for the operator.
LEMMA EndKeeps ==
    ASSUME IInv, NEW o \in Operators, End(o)
    PROVE  OnlyOf(o) /\ Creating(o)' /\ Provisioned(o)'
<1>1. run' = [p \in Operators |-> run'[p]] /\ \A p \in Operators \ {o} : run'[p] = run[p]
  BY DEF End, IInv, Shape
<1>2. run'[o] = Idle
  BY DEF End, IInv, Shape
<1>3. QED
  BY SMTT(20), <1>1, <1>2 DEF OnlyOf, RunShape, Idle, Creating, Provisioned

\* A command that ends and changes nothing else.
LEMMA EndStep == ASSUME IInv, NEW o \in Operators, End(o), OnlyRun PROVE IInv'
  BY EndKeeps, LocalStep

\* The command line of a create gives a password or none.
LEMMA CreatePassword ==
    ASSUME NEW q \in Requests, q.kind = "create"
    PROVE  q.password \in Passwords \cup {NoPassword}
  BY GresConstants DEF CreateTenantArgs, TenantNameArgs, SplitRangeArgs, MoveRangeArgs

\* create_tenant up to the provisioning.
LEMMA ConnectKeeps ==
    ASSUME IInv, NEW o \in Operators, NEW q \in Requests, Connect(o, q) PROVE IInv'
<1>1. CASE ~ReadPassword(q)
  BY <1>1, EndStep DEF Connect
<1>2. CASE ReadPassword(q)
  <2>1. run' = [run EXCEPT ![o].pc = "connected", ![o].request = q] /\ OnlyRun
    BY <1>2 DEF Connect
  <2>2. OnlyOf(o) /\ run'[o].pc = "connected" /\ run'[o].request = q
    BY <2>1 DEF IInv, Shape, RunShape, OnlyOf
  <2>3. Creating(o)' /\ Provisioned(o)'
    BY <1>2, <2>2, CreatePassword DEF Creating, Provisioned, ReadPassword
  <2>4. QED
    BY <2>1, <2>2, <2>3, LocalStep
<1>3. QED
  BY <1>1, <1>2

\* The version to write is computed from the one that is read.
LEMMA CreateKeeps == ASSUME IInv, NEW o \in Operators, CreateTenant(o) PROVE IInv'
<1> DEFINE q == run[o].request
           write == BuildCreateTenantRecord(q, NextVersion(record.version))
<1>1. CASE End(o)
  BY <1>1, EndStep DEF CreateTenant
<1>2. CASE run' = [run EXCEPT ![o].pc = "config", ![o].expected = record.version, ![o].write = write]
  <2> HIDE DEF write
  <2>1. /\ OnlyOf(o) /\ run'[o].pc = "config" /\ run'[o].request = q
        /\ run'[o].expected = record.version /\ run'[o].write = write
    BY <1>2 DEF IInv, Shape, RunShape, OnlyOf
  <2>2. record.version \in Nat
    BY DEF IInv, Shape, RecordShape
  <2>3. write.version = record.version + 1 /\ RecordShape(write)
    BY SMTT(20), <2>2 DEF write, BuildCreateTenantRecord, NextVersion, RecordShape
  <2>4. q.kind = "create" /\ q.password \in Passwords
    BY DEF CreateTenant, At, IInv, Creating
  <2>5. Creating(o)' /\ Provisioned(o)'
    BY <2>1, <2>2, <2>3, <2>4 DEF Creating, Provisioned
  <2>6. QED
    BY <2>1, <2>5, LocalStep DEF CreateTenant
<1>3. QED
  BY <1>1, <1>2 DEF CreateTenant

\* An operator who goes on changes where they are.
LEMMA GotoFacts ==
    ASSUME IInv, NEW o \in Operators, NEW pc, Goto(o, pc)
    PROVE  /\ OnlyOf(o) /\ run'[o].pc = pc
           /\ run'[o].request = run[o].request /\ run'[o].expected = run[o].expected
           /\ run'[o].write = run[o].write
  BY DEF IInv, Shape, RunShape, Goto, OnlyOf

\* The version to write stays the next one.
LEMMA OnwardCreating ==
    ASSUME IInv, NEW o \in Operators, run[o].pc \in {"config", "scram", "acls", "replace"},
           NEW pc \in {"scram", "acls", "replace", "again"}, Goto(o, pc)
    PROVE  Creating(o)' /\ run'[o].pc = pc
<1>1. Creating(o)
  BY DEF IInv
<1>2. QED
  BY <1>1, GotoFacts DEF Creating

\* The three steps of the provisioning, done or lost.
LEMMA ConfigKeeps == ASSUME IInv, NEW o \in Operators, UpsertTenantConfig(o) PROVE IInv'
<1>1. RecordShape(record') /\ RecordHasAccess'
  BY DEF UpsertTenantConfig, IInv, Shape, RecordShape, RecordHasAccess, HasCredential, HasAcls
<1>2. CASE End(o)
  BY <1>1, <1>2, EndKeeps, StepKeeps DEF UpsertTenantConfig, HasCredential, HasAcls
<1>3. CASE Goto(o, "scram")
  <2>1. Creating(o)' /\ run'[o].pc = "scram"
    BY <1>3, OnwardCreating DEF UpsertTenantConfig, At
  <2>2. Provisioned(o)'
    BY <1>3, <2>1 DEF UpsertTenantConfig, At, IInv, Provisioned
  <2>3. QED
    BY <1>1, <1>3, <2>1, <2>2, GotoFacts, StepKeeps DEF UpsertTenantConfig, HasCredential, HasAcls
<1>4. QED
  BY <1>2, <1>3 DEF UpsertTenantConfig, DoneOrLost

LEMMA ScramKeeps == ASSUME IInv, NEW o \in Operators, ProvisionScram(o) PROVE IInv'
<1>1. HasCredential' /\ (HasAcls => HasAcls')
  BY GresConstants DEF ProvisionScram, At, IInv, Creating, HasCredential, HasAcls
<1>2. RecordShape(record') /\ RecordHasAccess'
  BY <1>1 DEF ProvisionScram, IInv, Shape, RecordShape, RecordHasAccess
<1>3. CASE End(o)
  BY <1>1, <1>2, <1>3, EndKeeps, StepKeeps DEF ProvisionScram
<1>4. CASE Goto(o, "acls")
  <2>1. Creating(o)' /\ run'[o].pc = "acls"
    BY <1>4, OnwardCreating DEF ProvisionScram, At
  <2>2. Provisioned(o)'
    BY <1>1, <1>4, <2>1 DEF ProvisionScram, At, IInv, Provisioned
  <2>3. QED
    BY <1>1, <1>2, <1>4, <2>1, <2>2, GotoFacts, StepKeeps DEF ProvisionScram
<1>5. QED
  BY <1>3, <1>4 DEF ProvisionScram, DoneOrLost

LEMMA AclsKeeps == ASSUME IInv, NEW o \in Operators, ProvisionAcls(o) PROVE IInv'
<1>1. RecordShape(record') /\ RecordHasAccess'
  BY DEF ProvisionAcls, IInv, Shape, RecordShape, RecordHasAccess, HasCredential, HasAcls
<1>2. CASE End(o)
  BY <1>1, <1>2, EndKeeps, StepKeeps DEF ProvisionAcls, HasCredential, HasAcls
<1>3. CASE Goto(o, "replace")
  <2>1. Creating(o)' /\ run'[o].pc = "replace"
    BY <1>3, OnwardCreating DEF ProvisionAcls, At
  <2>2. Provisioned(o)'
    BY <1>3, <2>1 DEF ProvisionAcls, At, IInv, Provisioned, HasCredential, HasAcls
  <2>3. QED
    BY <1>1, <1>3, <2>1, <2>2, GotoFacts, StepKeeps DEF ProvisionAcls, HasCredential, HasAcls
<1>4. QED
  BY <1>2, <1>3 DEF ProvisionAcls, DoneOrLost

\* The record is written when all is provisioned.
LEMMA ReplaceKeeps == ASSUME IInv, NEW o \in Operators, ReplaceIfVersion(o) PROVE IInv'
<1>1. Creating(o) /\ Provisioned(o) /\ run[o].pc = "replace"
  BY DEF IInv, ReplaceIfVersion, At
<1>2. RecordShape(record') /\ RecordHasAccess'
  <2>1. CASE record' = record
    BY <2>1 DEF ReplaceIfVersion, IInv, Shape, RecordShape, RecordHasAccess, HasCredential, HasAcls
  <2>2. CASE record' = run[o].write
    <3>1. RecordShape(record')
      BY <1>1, <2>2 DEF Creating, RecordShape
    <3>2. RecordHasAccess'
      BY <1>1 DEF ReplaceIfVersion, Provisioned, RecordHasAccess, HasCredential, HasAcls
    <3>3. QED
      BY <3>1, <3>2
  <2>3. QED
    BY <2>1, <2>2 DEF ReplaceIfVersion
<1>3. CASE End(o)
  BY <1>2, <1>3, EndKeeps, StepKeeps DEF ReplaceIfVersion, HasCredential, HasAcls
<1>4. CASE Goto(o, "again")
  <2>1. Creating(o)' /\ run'[o].pc = "again"
    BY <1>1, <1>4, OnwardCreating
  <2>2. Provisioned(o)'
    BY <2>1 DEF Provisioned
  <2>3. QED
    BY <1>2, <1>4, <2>1, <2>2, GotoFacts, StepKeeps DEF ReplaceIfVersion, HasCredential, HasAcls
<1>5. QED
  BY <1>3, <1>4 DEF ReplaceIfVersion, DoneOrLost

\* A state change writes the next version of a record that is there.
LEMMA ChangeKeeps == ASSUME IInv, NEW o \in Operators, ChangeTenantState(o) PROVE IInv'
<1>1. CASE record' = record
  <2>1. RecordShape(record') /\ RecordHasAccess'
    BY <1>1 DEF ChangeTenantState, IInv, Shape, RecordShape, RecordHasAccess, HasCredential, HasAcls
  <2>2. QED
    BY <2>1, EndKeeps, StepKeeps DEF ChangeTenantState, HasCredential, HasAcls
<1>2. CASE /\ record.version \notin {0, MaxVersion}
           /\ record' = [record EXCEPT !.active = run[o].request.kind = "resume", !.version = @ + 1]
  <2>1. RecordShape(record')
    BY SMTT(20), <1>2 DEF IInv, Shape, RecordShape
  <2>2. RecordHasAccess'
    BY <1>2 DEF ChangeTenantState, IInv, RecordHasAccess, HasCredential, HasAcls
  <2>3. QED
    BY <2>1, <2>2, EndKeeps, StepKeeps DEF ChangeTenantState, HasCredential, HasAcls
<1>3. QED
  BY <1>1, <1>2 DEF ChangeTenantState

LEMMA DeleteKeeps == ASSUME IInv, NEW o \in Operators, DeleteTenant(o) PROVE IInv'
<1>1. RecordShape(record') /\ RecordHasAccess'
  BY DEF DeleteTenant, NoRecord, RecordShape, RecordHasAccess
<1>2. QED
  BY <1>1, EndKeeps, StepKeeps DEF DeleteTenant, HasCredential, HasAcls

\* A plan changes the operator's own state only.
LEMMA PlanKeeps ==
    ASSUME IInv, NEW o \in Operators, NEW plan, run[o].pc = "connected", OnlyRun,
           run' = [run EXCEPT ![o].pc = "begin", ![o].plan = plan]
    PROVE  IInv'
<1>1. OnlyOf(o) /\ run'[o].pc = "begin" /\ run'[o].request = run[o].request
  BY DEF IInv, Shape, RunShape, OnlyOf
<1>2. Creating(o)
  BY DEF IInv
<1>3. Creating(o)' /\ Provisioned(o)'
  BY <1>1, <1>2 DEF Creating, Provisioned
<1>4. QED
  BY <1>1, <1>3, LocalStep

LEMMA SplitKeeps == ASSUME IInv, NEW o \in Operators, PlanSplit(o) PROVE IInv'
<1>1. CASE End(o)
  BY <1>1, EndStep DEF PlanSplit
<1>2. CASE \E i \in SourceRangeForKey(record.ranges, run[o].request.key) :
             run' = [run EXCEPT ![o].pc = "begin", ![o].plan =
                       Plan(record.ranges[i].id, SplitTarget(record.ranges, i, run[o].request))]
  BY <1>2, PlanKeeps DEF PlanSplit, At
<1>3. QED
  BY <1>1, <1>2 DEF PlanSplit

LEMMA MoveKeeps == ASSUME IInv, NEW o \in Operators, PlanMove(o) PROVE IInv'
<1> DEFINE q == run[o].request
           sources == {i \in 1..Len(record.ranges) : record.ranges[i].id = q.source}
<1>1. CASE End(o)
  BY <1>1, EndStep DEF PlanMove
<1>2. CASE \E i \in sources : run' = [run EXCEPT ![o].pc = "begin",
             ![o].plan = Plan(q.source, Replacement(record.ranges, i, q.replacement))]
  BY <1>2, PlanKeeps DEF PlanMove, At
<1>3. QED
  BY <1>1, <1>2 DEF PlanMove

LEMMA BeginKeeps == ASSUME IInv, NEW o \in Operators, BeginOperation(o) PROVE IInv'
<1>1. RecordShape(record') /\ RecordHasAccess' /\ End(o)
  BY DEF BeginOperation, IInv, Shape, RecordShape, RecordHasAccess, HasCredential, HasAcls
<1>2. QED
  BY <1>1, EndKeeps, StepKeeps DEF BeginOperation, HasCredential, HasAcls

\* The controller writes the next version too.
LEMMA CarryOutKeeps == ASSUME IInv, CarryOut PROVE IInv'
<1>1. RecordShape(record') /\ (record'.version # 0 => record.version # 0)
  <2>1. RecordShape(record)
    BY DEF IInv, Shape, RecordShape
  <2>2. CASE record' = record
    BY <2>1, <2>2
  <2>3. ASSUME NEW op \in operations, record.version \in {op.version} \ {0, MaxVersion},
               record' = [record EXCEPT !.ranges = op.target, !.version = record.version + 1]
        PROVE  RecordShape(record')
    BY SMTT(20), <2>1, <2>3 DEF RecordShape
  <2>4. QED
    BY <2>2, <2>3 DEF CarryOut
<1>2. RecordHasAccess' /\ Shape'
  BY <1>1 DEF IInv, Shape, RecordShape, CarryOut, RecordHasAccess, HasCredential, HasAcls
<1>3. \A o \in Operators : Creating(o)' /\ Provisioned(o)'
  BY DEF IInv, CarryOut, Creating, Provisioned, HasCredential, HasAcls
<1>4. QED
  BY <1>2, <1>3 DEF IInv

\* Every step keeps the invariant.
LEMMA NextInv == IInv /\ [Next]_vars => IInv'
<1> SUFFICES ASSUME IInv, [Next]_vars PROVE IInv'
  OBVIOUS
<1>1. CASE UNCHANGED vars
  BY <1>1 DEF vars, IInv, Shape, Creating, Provisioned, RecordHasAccess, HasCredential, HasAcls
<1>2. CASE CarryOut
  BY <1>2, CarryOutKeeps
<1>3. ASSUME NEW o \in Operators, Step(o) PROVE IInv'
  <2>1. CASE \E q \in Requests : Connect(o, q)
    BY <2>1, ConnectKeeps
  <2>2. CASE CallFails(o) \/ GetAgain(o) \/ DescribeTenant(o)
    BY <2>2, EndStep DEF CallFails, GetAgain, DescribeTenant
  <2>3. QED
    BY <1>3, <2>1, <2>2, CreateKeeps, ConfigKeeps, ScramKeeps, AclsKeeps, ReplaceKeeps,
       ChangeKeeps, DeleteKeeps, SplitKeeps, MoveKeeps, BeginKeeps DEF Step
<1>4. QED
  BY <1>1, <1>2, <1>3 DEF Next

\* A tenant in the registry has its config, its credential and its ACLs, for
\* any number of operators whose commands run into one another, fail or are
\* cancelled between any two requests of create_tenant, save for what a broker
\* has refused in an answer that the command does not look into.
THEOREM AccessHolds == Spec => []RecordHasAccess
<1>1. IInv => RecordHasAccess
  BY DEF IInv
<1>2. QED
  BY InitInv, NextInv, <1>1, PTL DEF Spec

\* A step writes the next version, deletes the record or leaves the version.
LEMMA StepCounts ==
    ASSUME IInv, [Next]_vars
    PROVE  record'.version \in {record.version, record.version + 1, 0}
<1>1. CASE UNCHANGED vars
  BY <1>1 DEF vars
<1>2. CASE CarryOut
  BY <1>2 DEF CarryOut, IInv, Shape, RecordShape
<1>3. ASSUME NEW o \in Operators, Step(o)
      PROVE  record'.version \in {record.version, record.version + 1, 0}
  <2>1. CASE ReplaceIfVersion(o)
    BY <2>1 DEF ReplaceIfVersion, At, IInv, Creating
  <2>2. CASE ChangeTenantState(o)
    BY <2>2 DEF ChangeTenantState, IInv, Shape, RecordShape
  <2>3. CASE DeleteTenant(o)
    BY <2>3 DEF DeleteTenant, NoRecord
  <2>4. CASE record' = record
    BY <2>4
  <2>5. QED
    BY <1>3, <2>1, <2>2, <2>3, <2>4
    DEF Step, Connect, CallFails, CreateTenant, UpsertTenantConfig, ProvisionScram, ProvisionAcls,
        GetAgain, DescribeTenant, PlanSplit, PlanMove, BeginOperation, OnlyRun
<1>4. QED
  BY <1>1, <1>2, <1>3 DEF Next

\* The commands and the controller together implement a register that counts
\* its versions: replace_if_version with the version that create_tenant read
\* never loses the write of another command under its own.
THEOREM Implements == Spec => CountsVersions
<1>1. Init => Register!Init
  BY SMTT(20) DEF Init, Register!Init, NoRecord
<1>2. IInv /\ [Next]_vars => [Register!Next]_(record.version)
  BY StepCounts DEF Register!Next, Register!Put, Register!Remove
<1>3. QED
  BY InitInv, NextInv, <1>1, <1>2, PTL DEF Spec, CountsVersions, Register!Spec

-----------------------------------------------------------------------------
(* Range layouts, for every number of ranges and keys                      *)

RangeType == [id : Nat, end : Nat, generation : Nat]

Good(ranges) == ranges \in Seq(RangeType) /\ ValidLayout(ranges)

\* A set of numbers has a least one.
LEMMA LeastBy ==
    ASSUME NEW R, IsWellFoundedOn(R, Nat), \A x, y \in Nat : y < x => <<y, x>> \in R,
           NEW T \in SUBSET Nat, T # {}
    PROVE  \E x \in T : \A y \in T : x <= y
<1>1. \E x \in T : \A y \in T : <<y, x>> \notin R
  BY WFMin, Zenon
<1>2. PICK x \in T : \A y \in T : <<y, x>> \notin R
  BY <1>1
<1>3. \A y \in T : ~(y < x)
  BY <1>2
<1>4. QED
  BY SMTT(20), <1>3

LEMMA Least ==
    ASSUME NEW T \in SUBSET Nat, T # {}
    PROVE  \E x \in T : \A y \in T : x <= y
<1>1. IsWellFoundedOn(OpToRel(<, Nat), Nat)
  BY NatLessThanWellFounded, Zenon
<1>2. \A x, y \in Nat : y < x => <<y, x>> \in OpToRel(<, Nat)
  BY DEF OpToRel
<1>3. QED
  BY <1>1, <1>2, LeastBy, Zenon

LEMMA RangeFacts ==
    ASSUME NEW s \in Seq(RangeType), NEW i \in 1..Len(s)
    PROVE  s[i].id \in Nat /\ s[i].end \in Nat /\ s[i].generation \in Nat
<1>1. s[i] \in RangeType
  BY SMTT(20)
<1>2. QED
  BY <1>1 DEF RangeType

\* A later range ends later: a least one that does not would follow one that
\* does.
LEMMA EndsIncrease ==
    ASSUME NEW s, Good(s), NEW i \in 1..Len(s), NEW j \in 1..Len(s), i < j
    PROVE  s[i].end < s[j].end
<1> DEFINE T == {k \in 1..Len(s) : i < k /\ ~(s[i].end < s[k].end)}
<1>1. s \in Seq(RangeType) /\ Len(s) \in Nat
  BY SMTT(20) DEF Good
<1>2. SUFFICES ASSUME T # {} PROVE FALSE
  OBVIOUS
<1>3. T \in SUBSET Nat
  BY SMTT(20), <1>1
<1>4. PICK k \in T : \A y \in T : k <= y
  BY <1>2, <1>3, Least
<1>5. k \in 1..Len(s) /\ i < k /\ ~(s[i].end < s[k].end) /\ k - 1 \in 1..Len(s) /\ k - 1 >= i
  BY SMTT(20), <1>1, <1>4
<1>6. s[i].end \in Nat /\ s[k].end \in Nat /\ s[k - 1].end \in Nat
  BY <1>1, <1>5, RangeFacts
<1>7. s[k - 1].end < s[k].end
  BY SMTT(20), <1>5 DEF Good, ValidLayout, StartOf
<1>8. k - 1 = i \/ s[i].end < s[k - 1].end
  <2>1. k - 1 \notin T
    BY SMTT(20), <1>4, <1>5
  <2>2. QED
    BY SMTT(20), <1>5, <2>1
<1>9. QED
  BY SMTT(20), <1>5, <1>6, <1>7, <1>8

LEMMA StartFacts ==
    ASSUME NEW s, Good(s), NEW i \in 1..Len(s)
    PROVE  /\ StartOf(s, i) \in Nat /\ s[i].end \in Nat /\ StartOf(s, i) < s[i].end
           /\ \A j \in 1..Len(s) : j < i => s[j].end <= StartOf(s, i)
<1>1. s \in Seq(RangeType) /\ StartOf(s, i) < s[i].end
  BY DEF Good, ValidLayout
<1>2. s[i].end \in Nat /\ (i # 1 => s[i - 1].end \in Nat)
  BY SMTT(20), <1>1, RangeFacts
<1>3. ASSUME NEW j \in 1..Len(s), j < i PROVE s[j].end <= StartOf(s, i)
  <2>1. i # 1 /\ i - 1 \in 1..Len(s) /\ StartOf(s, i) = s[i - 1].end
    BY SMTT(20), <1>3 DEF StartOf
  <2>2. CASE j = i - 1
    BY SMTT(20), <1>2, <2>1, <2>2
  <2>3. CASE j < i - 1
    <3>1. s[j].end < s[i - 1].end
      BY <2>1, <2>3, EndsIncrease
    <3>2. s[j].end \in Nat
      BY <1>1, RangeFacts
    <3>3. QED
      BY SMTT(20), <1>2, <2>1, <3>1, <3>2
  <2>4. QED
    BY SMTT(20), <1>3, <2>2, <2>3
<1>4. QED
  BY <1>1, <1>2, <1>3 DEF StartOf

\* Exactly one range of a layout holds a key.
LEMMA HolderFacts ==
    ASSUME NEW s, Good(s), s # <<>>, NEW key \in 0..MaxKey
    PROVE  /\ Holder(s, key) \in SourceRangeForKey(s, key)
           /\ \A i \in SourceRangeForKey(s, key) : i = Holder(s, key)
<1> DEFINE T == {i \in 1..Len(s) : key < s[i].end}
<1>1. s \in Seq(RangeType) /\ Len(s) \in Nat /\ Len(s) # 0 /\ key \in Nat
  BY SMTT(20), GresConstants DEF Good
<1>2. T # {}
  <2>1. s[Len(s)].end = MaxKey + 1
    BY DEF Good, ValidLayout, NoEnd
  <2>2. Len(s) \in T
    BY SMTT(20), <1>1, <2>1, GresConstants
  <2>3. QED
    BY <2>2
<1>3. PICK k \in T : \A y \in T : k <= y
  <2>1. T \in SUBSET Nat
    BY SMTT(20), <1>1
  <2>2. QED
    BY <1>2, <2>1, Least
<1>4. k \in SourceRangeForKey(s, key)
  <2>1. StartOf(s, k) <= key
    <3>1. CASE k = 1
      BY SMTT(20), <1>1, <3>1 DEF StartOf
    <3>2. CASE k # 1
      <4>1. k - 1 \in 1..Len(s) /\ k - 1 \notin T
        BY SMTT(20), <1>1, <1>3, <3>2
      <4>2. s[k - 1].end \in Nat
        BY <1>1, <4>1, RangeFacts
      <4>3. QED
        BY SMTT(20), <1>1, <3>2, <4>1, <4>2 DEF StartOf
    <3>3. QED
      BY <3>1, <3>2
  <2>2. QED
    BY <1>3, <2>1 DEF SourceRangeForKey
<1>5. ASSUME NEW i \in SourceRangeForKey(s, key), NEW j \in SourceRangeForKey(s, key), i < j
      PROVE  FALSE
  <2>1. i \in 1..Len(s) /\ j \in 1..Len(s) /\ key < s[i].end /\ StartOf(s, j) <= key
    BY DEF SourceRangeForKey
  <2>2. s[i].end <= StartOf(s, j) /\ StartOf(s, j) \in Nat /\ s[i].end \in Nat
    BY <1>5, <2>1, StartFacts
  <2>3. QED
    BY SMTT(20), <1>1, <2>1, <2>2
<1>6. Holder(s, key) \in SourceRangeForKey(s, key)
  BY <1>4 DEF Holder
<1>7. \A i \in SourceRangeForKey(s, key) : i \in Int
  BY SMTT(20), <1>1 DEF SourceRangeForKey
<1>8. QED
  BY SMTT(20), <1>5, <1>6, <1>7

\* parse_range_layout makes a layout.
LEMMA ParsedIsGood ==
    ASSUME NEW b \in Seq(0..MaxKey), LayoutParses(b)
    PROVE  Good(ParseRangeLayout(b))
<1> DEFINE s == ParseRangeLayout(b)
           end(i) == IF i < Len(b) THEN b[i + 1] ELSE NoEnd
<1>1. Len(b) \in Nat /\ \A i \in 1..Len(b) : b[i] \in 0..MaxKey
  <2> HIDE DEF s, end
  <2>1. ASSUME NEW K, NEW c \in Seq(K) PROVE Len(c) \in Nat /\ \A i \in 1..Len(c) : c[i] \in K
    BY SMTT(20)
  <2>2. QED
    BY <2>1, Zenon
<1>2. \A i \in 1..Len(b) : /\ end(i) \in Nat /\ i - 1 \in Nat
                           /\ b[i] < end(i)
                           /\ i = Len(b) => end(i) = NoEnd
  BY SMTT(20), <1>1, GresConstants DEF NoEnd, LayoutParses
<1>3. s = [i \in 1..Len(b) |-> [id |-> i - 1, end |-> end(i), generation |-> 0]]
  BY DEF ParseRangeLayout, Entry
<1> HIDE DEF s
<1>4. s \in Seq(RangeType) /\ Len(s) = Len(b)
  <2>1. s \in [1..Len(b) -> RangeType]
    <3> HIDE DEF end
    <3>1. QED
      BY <1>2, <1>3 DEF RangeType
  <2>2. QED
    BY SMTT(20), <1>1, <2>1
<1>5. \A i \in 1..Len(b) : s[i].id = i - 1 /\ s[i].end = end(i)
  BY <1>3
<1>6. \A i \in 1..Len(b) : StartOf(s, i) = b[i]
  <2>1. ASSUME NEW i \in 1..Len(b) PROVE StartOf(s, i) = b[i]
    <3>1. CASE i = 1
      BY SMTT(20), <1>1, <3>1 DEF StartOf, LayoutParses
    <3>2. CASE i # 1
      BY SMTT(20), <1>1, <1>5, <3>2 DEF StartOf
    <3>3. QED
      BY <3>1, <3>2
  <2>2. QED
    BY <2>1
<1> HIDE DEF end
<1>7. s # <<>> => s[Len(s)].end = NoEnd
  BY SMTT(20), <1>1, <1>2, <1>4, <1>5
<1>8. \A i \in 1..Len(s) : StartOf(s, i) < s[i].end
  BY <1>2, <1>4, <1>5, <1>6
<1>9. \A i, j \in 1..Len(s) : s[i].id = s[j].id => i = j
  BY SMTT(20), <1>1, <1>4, <1>5
<1>10. QED
  BY <1>4, <1>7, <1>8, <1>9 DEF Good, ValidLayout, s

\* A layout has a largest id: a least prefix that had none would follow one
\* that has.
LEMMA LargestId ==
    ASSUME NEW s \in Seq(RangeType), s # <<>>
    PROVE  \E i \in 1..Len(s) : \A j \in 1..Len(s) : s[j].id <= s[i].id
<1> DEFINE HasLargest(n) == \E i \in 1..n : \A j \in 1..n : s[j].id <= s[i].id
           T == {n \in 1..Len(s) : ~HasLargest(n)}
<1>1. Len(s) \in Nat /\ Len(s) # 0 /\ \A i \in 1..Len(s) : s[i].id \in Nat
  BY SMTT(20), RangeFacts
<1>2. SUFFICES ASSUME T # {} PROVE FALSE
  <2>1. SUFFICES HasLargest(Len(s))
    OBVIOUS
  <2> HIDE DEF HasLargest
  <2>2. Len(s) \in 1..Len(s)
    BY SMTT(20), <1>1
  <2>3. QED
    BY <2>2, Zenon
<1>3. PICK n \in T : \A y \in T : n <= y
  <2>1. T \in SUBSET Nat
    BY SMTT(20), <1>1
  <2>2. QED
    BY <1>2, <2>1, Least
<1>4. n \in 1..Len(s) /\ ~HasLargest(n)
  BY <1>3
<1>5. n # 1
  <2>1. SUFFICES ASSUME n = 1 PROVE HasLargest(n)
    BY <1>4
  <2>2. 1 \in 1..n /\ \A j \in 1..n : s[j].id <= s[1].id
    BY SMTT(20), <1>1, <1>4, <2>1
  <2>3. QED
    BY <2>1, <2>2
<1>6. HasLargest(n - 1)
  <2> HIDE DEF HasLargest
  <2>1. n - 1 \in 1..Len(s) /\ n - 1 \notin T
    BY SMTT(20), <1>1, <1>3, <1>4, <1>5
  <2>2. QED
    BY <2>1
<1>7. PICK i \in 1..(n - 1) : \A j \in 1..(n - 1) : s[j].id <= s[i].id
  BY <1>6
<1>8. i \in 1..n /\ n \in 1..n /\ s[i].id \in Nat /\ s[n].id \in Nat
      /\ \A j \in 1..n : j \in 1..(n - 1) \/ j = n
  <2>1. n \in 1..Len(s) /\ n \in Nat
    BY SMTT(20), <1>1, <1>4
  <2>2. i \in 1..n /\ i \in 1..Len(s) /\ n \in 1..n
    BY SMTT(20), <1>1, <2>1
  <2>3. \A j \in 1..n : j \in 1..(n - 1) \/ j = n
    BY SMTT(20), <2>1
  <2>4. QED
    BY <1>1, <2>1, <2>2, <2>3
<1>9. \A j \in 1..n : s[j].id \in Nat
  BY SMTT(20), <1>1, <1>4
<1>10. CASE s[n].id <= s[i].id
  <2>1. \A j \in 1..n : s[j].id <= s[i].id
    BY <1>7, <1>8, <1>10
  <2>2. QED
    BY <1>4, <1>8, <2>1
<1>11. CASE s[i].id <= s[n].id
  <2>1. ASSUME NEW j \in 1..n PROVE s[j].id <= s[n].id
    <3> HIDE DEF HasLargest, T
    <3>1. CASE j = n
      BY SMTT(20), <1>8, <3>1
    <3>2. CASE j \in 1..(n - 1)
      <4>1. s[j].id <= s[i].id /\ s[j].id \in Nat
        BY <1>7, <1>9, <3>2
      <4>2. QED
        BY SMTT(20), <1>8, <1>11, <4>1
    <3>3. QED
      BY <1>8, <3>1, <3>2
  <2>2. QED
    BY <1>4, <1>8, <2>1
<1>12. s[n].id <= s[i].id \/ s[i].id <= s[n].id
  <2> HIDE DEF HasLargest, T
  <2>1. QED
    BY SMTT(20), <1>8
<1>13. QED
  BY <1>10, <1>11, <1>12, Zenon

\* next_range_id is larger than every id, as long as it does not saturate.
LEMMA NextIdFacts ==
    ASSUME NEW s \in Seq(RangeType), s # <<>>
    PROVE  /\ NextRangeId(s) \in Nat
           /\ (\A i \in 1..Len(s) : s[i].id < MaxId - 1) =>
                NextRangeId(s) < MaxId /\ \A i \in 1..Len(s) : s[i].id < NextRangeId(s)
<1> DEFINE ids == {s[i].id : i \in 1..Len(s)}
           max == IF ids = {} THEN 0 ELSE CHOOSE x \in ids : \A y \in ids : y <= x
<1>1. \A i \in 1..Len(s) : s[i].id \in Nat
  BY RangeFacts
<1>2. PICK k \in 1..Len(s) : \A j \in 1..Len(s) : s[j].id <= s[k].id
  BY LargestId
<1>3. s[k].id \in ids /\ \A y \in ids : y <= s[k].id
  BY <1>2
<1>4. max \in ids /\ \A y \in ids : y <= max
  <2> HIDE DEF ids
  <2>1. QED
    BY <1>3
<1>5. NextRangeId(s) = IF max >= MaxId THEN MaxId ELSE max + 1
  BY Zenon DEF NextRangeId
<1> HIDE DEF max
<1>6. max \in Nat /\ \A i \in 1..Len(s) : s[i].id <= max
  BY <1>1, <1>4
<1>7. (\A i \in 1..Len(s) : s[i].id < MaxId - 1) => max < MaxId - 1
  BY <1>4
<1>8. QED
  BY SMTT(20), <1>1, <1>5, <1>6, <1>7, GresConstants

\* Layout t has l and r in the place of a range of s.
SplitAt(s, t, k, l, r) ==
    /\ t \in Seq(RangeType) /\ Len(t) = Len(s) + 1
    /\ \A i \in 1..(k - 1) : t[i] = s[i]
    /\ t[k] = l /\ t[k + 1] = r
    /\ \A i \in (k + 2)..(Len(s) + 1) : t[i] = s[i - 1]

\* The two halves are in the place of the range, and the rest is as it was.
LEMMA SplitLayoutFacts ==
    ASSUME NEW s \in Seq(RangeType), NEW k \in 1..Len(s), NEW l \in RangeType, NEW r \in RangeType
    PROVE  SplitAt(s, SplitLayout(s, k, l, r), k, l, r)
<1> DEFINE a == SubSeq(s, 1, k - 1)
           b == SubSeq(s, k + 1, Len(s))
           m == <<l, r>>
<1>1. Len(s) \in Nat /\ k \in Nat /\ k >= 1 /\ k <= Len(s)
  BY SMTT(20)
<1>2. a \in Seq(RangeType) /\ Len(a) = k - 1 /\ \A i \in 1..(k - 1) : a[i] = s[i]
  <2>1. \A i \in 1..(k - 1) : s[i] \in RangeType
    BY SMTT(20), <1>1
  <2>2. QED
    BY SMTT(20), <1>1, <2>1, SubSeqProperties
<1>3. b \in Seq(RangeType) /\ Len(b) = Len(s) - k /\ \A i \in 1..(Len(s) - k) : b[i] = s[k + i]
  <2>1. \A i \in (k + 1)..Len(s) : s[i] \in RangeType
    BY SMTT(20), <1>1
  <2>2. /\ SubSeq(s, k + 1, Len(s)) \in Seq(RangeType)
        /\ Len(SubSeq(s, k + 1, Len(s))) = IF k + 1 <= Len(s) THEN Len(s) - (k + 1) + 1 ELSE 0
        /\ \A i \in 1..(Len(s) - (k + 1) + 1) : SubSeq(s, k + 1, Len(s))[i] = s[k + 1 + i - 1]
    BY SMTT(20), <1>1, <2>1, SubSeqProperties
  <2>3. QED
    BY SMTT(20), <1>1, <2>2
<1>4. m \in Seq(RangeType) /\ Len(m) = 2 /\ m[1] = l /\ m[2] = r
  BY SMTT(20)
<1>5. SplitLayout(s, k, l, r) = (a \o m) \o b
  BY DEF SplitLayout
<1> HIDE DEF a, b, m
<1> DEFINE c == a \o m
<1>6. c \in Seq(RangeType) /\ Len(c) = k + 1 /\ c[k] = l /\ c[k + 1] = r
      /\ \A i \in 1..(k - 1) : c[i] = s[i]
  <2>1. /\ c \in Seq(RangeType) /\ Len(c) = Len(a) + Len(m)
        /\ \A i \in 1..(Len(a) + Len(m)) : c[i] = IF i <= Len(a) THEN a[i] ELSE m[i - Len(a)]
    BY <1>2, <1>4, ConcatProperties
  <2> HIDE DEF c
  <2>2. QED
    BY SMTT(20), <1>1, <1>2, <1>4, <2>1
<1> HIDE DEF c
<1> DEFINE t == c \o b
<1>7. t \in Seq(RangeType) /\ Len(t) = Len(s) + 1
  <2>1. t \in Seq(RangeType) /\ Len(t) = Len(c) + Len(b)
    BY <1>3, <1>6, ConcatProperties
  <2>2. QED
    BY SMTT(20), <1>1, <1>3, <1>6, <2>1
<1>8. \A i \in 1..(k + 1) : t[i] = c[i]
  BY SMTT(20), <1>1, <1>3, <1>6
<1>9. \A i \in (k + 2)..(Len(s) + 1) : t[i] = s[i - 1]
  <2>1. ASSUME NEW i \in (k + 2)..(Len(s) + 1) PROVE t[i] = s[i - 1]
    <3>1. i - (k + 1) \in 1..(Len(s) - k) /\ t[i] = b[i - (k + 1)]
      BY SMTT(20), <1>1, <1>3, <1>6, <2>1
    <3>2. k + (i - (k + 1)) = i - 1
      BY SMTT(20), <1>1, <2>1
    <3>3. QED
      BY <1>3, <3>1, <3>2
  <2>2. QED
    BY <2>1
<1> HIDE DEF t
<1>10. t[k] = l /\ t[k + 1] = r /\ \A i \in 1..(k - 1) : t[i] = s[i]
  BY SMTT(20), <1>1, <1>6, <1>8
<1>11. SplitLayout(s, k, l, r) = t
  BY <1>5 DEF c, t
<1>12. QED
  BY <1>7, <1>9, <1>10, <1>11 DEF SplitAt

\* The ids of the halves are numbers, and new ones if they are left to the
\* command and there are ids left.
LEMMA SplitIds ==
    ASSUME NEW s, Good(s), NEW k \in 1..Len(s), NEW q, SplitRangeArgs(q)
    PROVE  LET l == LeftRangeId(s, k, q)
               r == SuccessorRangeId(s, k, q)
           IN  /\ l \in Nat /\ r \in Nat
               /\ q.left < 0 /\ q.successor < 0 /\ (\A i \in 1..Len(s) : s[i].id < MaxId - 1) =>
                    l # r /\ \A i \in 1..Len(s) : i # k => s[i].id # l /\ s[i].id # r
<1> DEFINE next == NextRangeId(s)
           l == LeftRangeId(s, k, q)
           r == SuccessorRangeId(s, k, q)
           left == \A i \in 1..Len(s) : s[i].id < MaxId - 1
<1>1. s \in Seq(RangeType) /\ s # <<>> /\ q.left \in Int /\ q.successor \in Int
      /\ \A i \in 1..Len(s) : s[i].id \in Nat
  BY SMTT(20), RangeFacts DEF Good, SplitRangeArgs
<1>2. next \in Nat /\ (left => next < MaxId /\ \A i \in 1..Len(s) : s[i].id < next)
  BY <1>1, NextIdFacts
<1> HIDE DEF next
<1>3. l = IF q.left >= 0 THEN q.left ELSE IF s[k].id = 0 THEN 0 ELSE next
  BY DEF LeftRangeId, next
<1>4. l \in Nat
  BY SMTT(20), <1>1, <1>2, <1>3
<1> HIDE DEF l
<1> DEFINE past == IF l >= MaxId THEN MaxId ELSE l + 1
<1>5. r = IF q.successor >= 0 THEN q.successor ELSE IF next >= past THEN next ELSE past
  BY DEF SuccessorRangeId, Saturated, next, l
<1> HIDE DEF r
<1>6. past \in Nat /\ r \in Nat
  BY SMTT(20), <1>1, <1>2, <1>4, <1>5, GresConstants
<1>7. ASSUME q.left < 0, q.successor < 0, left
      PROVE  l # r /\ \A i \in 1..Len(s) : i # k => s[i].id # l /\ s[i].id # r
  <2>1. next < MaxId /\ \A i \in 1..Len(s) : s[i].id < next
    BY <1>2, <1>7
  <2>2. r \in {next, next + 1} /\ r # l /\ (l = next \/ (l = 0 /\ s[k].id = 0))
    BY SMTT(20), <1>1, <1>2, <1>3, <1>5, <1>7, <2>1, GresConstants
  <2>3. \A i \in 1..Len(s) : i # k => s[i].id # s[k].id
    BY DEF Good, ValidLayout
  <2>4. QED
    BY SMTT(20), <1>1, <1>2, <2>1, <2>2, <2>3
<1>8. QED
  BY <1>4, <1>6, <1>7 DEF l, r

\* Layout t has two halves where s has a range, on newer logs.
Halved(s, t, k, l, key, r) ==
    SplitAt(s, t, k, Entry(l, key, s[k].generation + 1), Entry(r, s[k].end, s[k].generation + 1))

LEMMA SplitHalves ==
    ASSUME NEW s, Good(s), NEW k \in 1..Len(s), NEW q, SplitRangeArgs(q)
    PROVE  Halved(s, SplitTarget(s, k, q), k, LeftRangeId(s, k, q), q.key, SuccessorRangeId(s, k, q))
<1> DEFINE l == LeftRangeId(s, k, q)
           r == SuccessorRangeId(s, k, q)
           left == Entry(l, q.key, s[k].generation + 1)
           right == Entry(r, s[k].end, s[k].generation + 1)
<1>1. l \in Nat /\ r \in Nat
  BY SplitIds
<1>2. s \in Seq(RangeType) /\ s[k].end \in Nat /\ s[k].generation \in Nat /\ q.key \in Nat
  BY SMTT(20), RangeFacts DEF Good, SplitRangeArgs
<1>3. SplitTarget(s, k, q) = SplitLayout(s, k, left, right)
  BY Zenon DEF SplitTarget
<1> HIDE DEF l, r
<1>4. left \in RangeType /\ right \in RangeType
  <2>1. \A id, end, generation \in Nat : Entry(id, end, generation + 1) \in RangeType
    BY SMTT(20) DEF Entry, RangeType
  <2>2. QED
    BY <1>1, <1>2, <2>1
<1>5. SplitAt(s, SplitLayout(s, k, left, right), k, left, right)
  <2> HIDE DEF left, right
  <2>1. QED
    BY <1>2, <1>4, SplitLayoutFacts
<1>6. QED
  BY <1>3, <1>5, Zenon DEF Halved, l, r

\* Where the ranges of the split layout start.
LEMMA HalvedStarts ==
    ASSUME NEW s, Good(s), NEW k \in 1..Len(s), NEW l, NEW r, NEW key, NEW t,
           Halved(s, t, k, l, key, r)
    PROVE  /\ \A i \in 1..k : StartOf(t, i) = StartOf(s, i)
           /\ StartOf(t, k + 1) = key
           /\ \A i \in (k + 2)..(Len(s) + 1) : StartOf(t, i) = StartOf(s, i - 1)
<1>1. Len(s) \in Nat /\ k \in Nat /\ k >= 1 /\ k <= Len(s)
  BY SMTT(20) DEF Good
<1>2. t[k].end = key /\ t[k + 1].end = s[k].end
  BY SMTT(20) DEF Halved, SplitAt, Entry
<1>3. \A i \in 1..k : StartOf(t, i) = StartOf(s, i)
  BY SMTT(20), <1>1 DEF Halved, SplitAt, StartOf
<1>4. StartOf(t, k + 1) = key
  BY SMTT(20), <1>1, <1>2 DEF StartOf
<1>5. ASSUME NEW i \in (k + 2)..(Len(s) + 1) PROVE StartOf(t, i) = StartOf(s, i - 1)
  <2>1. StartOf(t, i) = t[i - 1].end /\ StartOf(s, i - 1) = s[i - 1 - 1].end
    BY SMTT(20), <1>1 DEF StartOf
  <2>2. CASE i = k + 2
    <3>1. i - 1 = k + 1 /\ i - 1 - 1 = k
      BY SMTT(20), <1>1, <2>2
    <3>2. QED
      BY <1>2, <2>1, <3>1
  <2>3. CASE i # k + 2
    <3>1. i - 1 \in (k + 2)..(Len(s) + 1)
      BY SMTT(20), <1>1, <2>3
    <3>2. QED
      BY <2>1, <3>1 DEF Halved, SplitAt
  <2>4. QED
    BY <2>2, <2>3
<1>6. QED
  BY <1>3, <1>4, <1>5

\* A split inside of a range, with new ids, is a layout.
LEMMA HalvedFits ==
    ASSUME NEW s, Good(s), NEW k \in 1..Len(s), NEW l, NEW r, NEW key, NEW t,
           Halved(s, t, k, l, key, r),
           StartOf(s, k) < key, key < s[k].end,
           l # r, \A i \in 1..Len(s) : i # k => s[i].id # l /\ s[i].id # r
    PROVE  ValidLayout(t)
<1>1. Len(s) \in Nat /\ k \in Nat /\ k >= 1 /\ k <= Len(s) /\ Len(t) = Len(s) + 1
  BY SMTT(20) DEF Good, Halved, SplitAt
<1>2. /\ t[k].end = key /\ t[k + 1].end = s[k].end /\ t[k].id = l /\ t[k + 1].id = r
  BY SMTT(20) DEF Halved, SplitAt, Entry
<1>3. /\ \A i \in 1..(k - 1) : t[i] = s[i]
      /\ \A i \in (k + 2)..(Len(s) + 1) : t[i] = s[i - 1]
  BY DEF Halved, SplitAt
<1>4. /\ s[Len(s)].end = NoEnd
      /\ \A i \in 1..Len(s) : StartOf(s, i) < s[i].end
      /\ \A i, j \in 1..Len(s) : s[i].id = s[j].id => i = j
  BY SMTT(20), <1>1 DEF Good, ValidLayout
<1>5. t[Len(t)].end = NoEnd
  <2>1. CASE k = Len(s)
    BY <1>1, <1>2, <1>4, <2>1
  <2>2. CASE k # Len(s)
    <3>1. Len(t) \in (k + 2)..(Len(s) + 1) /\ Len(t) - 1 = Len(s)
      BY SMTT(20), <1>1, <2>2
    <3>2. QED
      BY <1>3, <1>4, <3>1
  <2>3. QED
    BY <2>1, <2>2
<1>6. ASSUME NEW i \in 1..Len(t) PROVE StartOf(t, i) < t[i].end
  <2>1. CASE i \in 1..(k - 1)
    BY SMTT(20), <1>1, <1>3, <1>4, <2>1, HalvedStarts
  <2>2. CASE i = k
    BY SMTT(20), <1>1, <1>2, <2>2, HalvedStarts
  <2>3. CASE i = k + 1
    BY SMTT(20), <1>1, <1>2, <2>3, HalvedStarts
  <2>4. CASE i \in (k + 2)..(Len(s) + 1)
    <3>1. i - 1 \in 1..Len(s)
      BY SMTT(20), <1>1, <2>4
    <3>2. QED
      BY SMTT(20), <1>3, <1>4, <2>4, <3>1, HalvedStarts
  <2>5. QED
    BY SMTT(20), <1>1, <2>1, <2>2, <2>3, <2>4
<1> DEFINE old(i) == IF i < k THEN i ELSE i - 1
<1>7. ASSUME NEW i \in 1..Len(t), i # k, i # k + 1
      PROVE  old(i) \in 1..Len(s) /\ old(i) # k /\ t[i] = s[old(i)]
  BY SMTT(20), <1>1, <1>3, <1>7
<1>8. ASSUME NEW i \in 1..Len(t), NEW j \in 1..Len(t), t[i].id = t[j].id PROVE i = j
  <2>1. CASE i \in {k, k + 1} /\ j \in {k, k + 1}
    BY SMTT(20), <1>2, <1>8, <2>1
  <2>2. CASE i \in {k, k + 1} /\ j \notin {k, k + 1}
    <3> HIDE DEF old
    <3>1. QED
      BY <1>2, <1>7, <1>8, <2>2
  <2>3. CASE i \notin {k, k + 1} /\ j \in {k, k + 1}
    <3> HIDE DEF old
    <3>1. QED
      BY <1>2, <1>7, <1>8, <2>3
  <2>4. CASE i \notin {k, k + 1} /\ j \notin {k, k + 1}
    <3>1. old(i) = old(j)
      <4> HIDE DEF old
      <4>1. QED
        BY <1>4, <1>7, <1>8, <2>4
    <3>2. QED
      BY SMTT(20), <1>1, <2>4, <3>1
  <2>5. QED
    BY <2>1, <2>2, <2>3, <2>4
<1>9. QED
  BY <1>5, <1>6, <1>8 DEF ValidLayout

\* Every key is on the same range in both layouts, or on a newer log in t.
Newer(s, t) ==
    \A key \in 0..MaxKey :
      LET old == s[Holder(s, key)]
          new == t[Holder(t, key)]
      IN  s # <<>> => old.generation < new.generation \/ old = new

\* A split moves the keys of one range to newer logs, and no other key.
LEMMA HalvedIsNewer ==
    ASSUME NEW s, Good(s), NEW k \in 1..Len(s), NEW l, NEW r, NEW at \in 0..MaxKey, NEW t,
           Halved(s, t, k, l, at, r), ValidLayout(t)
    PROVE  Newer(s, t)
<1>1. /\ Len(s) \in Nat /\ k \in Nat /\ k >= 1 /\ k <= Len(s) /\ Len(t) = Len(s) + 1 /\ Good(t)
      /\ t # <<>> /\ s # <<>>
  BY SMTT(20) DEF Good, Halved, SplitAt
<1>2. /\ t[k].end = at /\ t[k + 1].end = s[k].end
      /\ t[k].generation = s[k].generation + 1 /\ t[k + 1].generation = s[k].generation + 1
  BY SMTT(20) DEF Halved, SplitAt, Entry
<1>3. /\ \A i \in 1..(k - 1) : t[i] = s[i]
      /\ \A i \in (k + 2)..(Len(s) + 1) : t[i] = s[i - 1]
  BY DEF Halved, SplitAt
<1>4. ASSUME NEW key \in 0..MaxKey
      PROVE  LET old == s[Holder(s, key)]
                 new == t[Holder(t, key)]
             IN  old.generation < new.generation \/ old = new
  <2> DEFINE h == Holder(s, key)
             g == Holder(t, key)
  <2>1. h \in SourceRangeForKey(s, key) /\ \A i \in SourceRangeForKey(t, key) : i = g
    BY <1>1, HolderFacts
  <2> HIDE DEF h, g
  <2>2. h \in 1..Len(s) /\ StartOf(s, h) <= key /\ key < s[h].end
    BY <2>1 DEF SourceRangeForKey
  <2>3. SUFFICES ASSUME NEW i \in 1..Len(t), StartOf(t, i) <= key, key < t[i].end,
                        \/ i < k /\ i = h
                        \/ i \in {k, k + 1} /\ h = k
                        \/ i > k + 1 /\ i = h + 1
                 PROVE  s[h].generation < t[i].generation \/ s[h] = t[i]
    <3>1. \E i \in 1..Len(t) : /\ StartOf(t, i) <= key /\ key < t[i].end
                               /\ \/ i < k /\ i = h
                                  \/ i \in {k, k + 1} /\ h = k
                                  \/ i > k + 1 /\ i = h + 1
      <4>1. CASE h < k
        <5>1. h \in 1..Len(t) /\ h \in 1..k /\ h \in 1..(k - 1)
          BY SMTT(20), <1>1, <2>2, <4>1
        <5>2. StartOf(t, h) = StartOf(s, h) /\ t[h] = s[h]
          BY SMTT(20), <1>3, <5>1, HalvedStarts
        <5>3. QED
          BY <2>2, <4>1, <5>1, <5>2
      <4>2. CASE h > k
        <5>1. h + 1 \in (k + 2)..(Len(s) + 1)
          BY SMTT(20), <1>1, <2>2, <4>2
        <5>2. StartOf(t, h + 1) = StartOf(s, h) /\ t[h + 1] = s[h]
          <6>1. \A i \in (k + 2)..(Len(s) + 1) : StartOf(t, i) = StartOf(s, i - 1)
            BY SMTT(20), HalvedStarts
          <6> DEFINE n == h + 1
          <6>2. n \in (k + 2)..(Len(s) + 1) /\ n - 1 = h
            BY SMTT(20), <1>1, <2>2, <4>2
          <6> HIDE DEF n
          <6>3. StartOf(t, n) = StartOf(s, n - 1) /\ t[n] = s[n - 1]
            BY <1>3, <6>1, <6>2
          <6>4. QED
            BY <6>2, <6>3 DEF n
        <5>3. QED
          BY SMTT(20), <1>1, <2>2, <4>2, <5>1, <5>2
      <4>3. CASE h = k /\ key < at
        <5>1. StartOf(t, k) = StartOf(s, k)
          BY SMTT(20), <1>1, HalvedStarts
        <5>2. QED
          BY SMTT(20), <1>1, <1>2, <2>2, <4>3, <5>1
      <4>4. CASE h = k /\ ~(key < at)
        <5>1. StartOf(t, k + 1) = at
          BY SMTT(20), <1>1, HalvedStarts
        <5>2. at <= key
          BY SMTT(20), <4>4, GresConstants
        <5>3. QED
          BY SMTT(20), <1>1, <1>2, <2>2, <4>4, <5>1, <5>2
      <4>5. QED
        BY SMTT(20), <1>1, <2>2, <4>1, <4>2, <4>3, <4>4
    <3>2. PICK i \in 1..Len(t) : /\ StartOf(t, i) <= key /\ key < t[i].end
                                 /\ \/ i < k /\ i = h
                                    \/ i \in {k, k + 1} /\ h = k
                                    \/ i > k + 1 /\ i = h + 1
      BY <3>1
    <3>3. i = g
      BY <2>1, <3>2 DEF SourceRangeForKey
    <3>4. QED
      BY <2>3, <3>2, <3>3 DEF h, g
  <2>4. CASE i \in {k, k + 1} /\ h = k
    <3>1. s[k].generation \in Nat
      BY RangeFacts DEF Good
    <3>2. QED
      BY SMTT(20), <1>2, <2>4, <3>1
  <2>5. CASE i < k /\ i = h
    BY SMTT(20), <1>1, <1>3, <2>2, <2>5
  <2>6. CASE i > k + 1 /\ i = h + 1
    BY SMTT(20), <1>1, <1>3, <2>2, <2>6
  <2>7. QED
    BY <2>3, <2>4, <2>5, <2>6
<1>5. QED
  BY <1>4 DEF Newer

\* A move puts one range on a newer log, with an id that no other range has.
LEMMA MoveFits ==
    ASSUME NEW s, Good(s), NEW k \in 1..Len(s), NEW id \in Nat,
           \A i \in 1..Len(s) : s[i].id # id
    PROVE  Good(Replacement(s, k, id)) /\ Newer(s, Replacement(s, k, id))
<1> DEFINE new == Entry(id, s[k].end, s[k].generation + 1)
           t == Replacement(s, k, id)
<1>1. s \in Seq(RangeType) /\ ValidLayout(s) /\ Len(s) \in Nat
  BY SMTT(20) DEF Good
<1>2. s[k].end \in Nat /\ s[k].generation \in Nat
  BY <1>1, RangeFacts
<1>3. new \in RangeType
  BY SMTT(20), <1>2 DEF Entry, RangeType
<1>4. new.end = s[k].end /\ new.generation = s[k].generation + 1 /\ new.id = id
  BY DEF Entry
<1>5. t = [s EXCEPT ![k] = new]
  BY DEF Replacement
<1> HIDE DEF new, t
<1>6. t \in Seq(RangeType) /\ Len(t) = Len(s)
  BY SMTT(20), <1>1, <1>3, <1>5
<1>7. t[k] = new /\ \A i \in 1..Len(s) : i # k => t[i] = s[i]
  BY SMTT(20), <1>1, <1>5
<1>8. \A i \in 1..Len(s) : t[i].end = s[i].end
  BY <1>4, <1>7
<1>9. \A i \in 1..Len(s) : StartOf(t, i) = StartOf(s, i)
  BY SMTT(20), <1>1, <1>8 DEF StartOf
<1>10. ValidLayout(t)
  <2>1. t # <<>> => t[Len(t)].end = NoEnd
    <3>1. t # <<>> => s # <<>> /\ Len(s) \in 1..Len(s)
      BY SMTT(20), <1>1, <1>6
    <3>2. QED
      BY <1>1, <1>6, <1>8, <3>1 DEF ValidLayout
  <2>2. \A i \in 1..Len(t) : StartOf(t, i) < t[i].end
    BY <1>1, <1>6, <1>8, <1>9 DEF ValidLayout
  <2>3. \A i, j \in 1..Len(t) : t[i].id = t[j].id => i = j
    BY <1>1, <1>4, <1>6, <1>7 DEF ValidLayout
  <2>4. QED
    BY <2>1, <2>2, <2>3 DEF ValidLayout
<1>11. \A key \in 0..MaxKey : SourceRangeForKey(t, key) = SourceRangeForKey(s, key)
  BY <1>6, <1>8, <1>9 DEF SourceRangeForKey
<1>12. ASSUME NEW key \in 0..MaxKey, s # <<>>
       PROVE  \/ s[Holder(s, key)].generation < t[Holder(t, key)].generation
              \/ s[Holder(s, key)] = t[Holder(t, key)]
  <2> DEFINE h == Holder(s, key)
  <2>1. h \in 1..Len(s)
    BY <1>12, HolderFacts DEF SourceRangeForKey
  <2>2. Holder(t, key) = h
    BY <1>11 DEF Holder
  <2> HIDE DEF h
  <2>3. s[h].generation < t[h].generation \/ s[h] = t[h]
    BY SMTT(20), <1>2, <1>4, <1>7, <2>1
  <2>4. QED
    BY <2>2, <2>3 DEF h
<1>13. QED
  BY <1>6, <1>10, <1>12 DEF Good, Newer, t

-----------------------------------------------------------------------------
(* The invariant of the layouts                                            *)

Asked(o) == run[o].pc # "idle" => run[o].request \in Requests

\* A create is going to write a layout, on a version that there is.
Writing(o) ==
    run[o].pc \in {"config", "scram", "acls", "replace"} =>
      run[o].write.version <= MaxVersion /\ Good(run[o].write.ranges)

\* A plan is made of the layout that was read, as the command line says.
Planned(q, plan) ==
    \/ /\ q.kind = "split"
       /\ \E i \in SourceRangeForKey(plan.current, q.key) :
            plan.target = SplitTarget(plan.current, i, q)
    \/ /\ q.kind = "move"
       /\ \A i \in 1..Len(plan.current) : plan.current[i].id # q.replacement
       /\ \E i \in 1..Len(plan.current) :
            plan.target = Replacement(plan.current, i, q.replacement)

Planning(o) ==
    run[o].pc = "begin" => Good(run[o].plan.current) /\ Planned(run[o].request, run[o].plan)

LayoutInv ==
    /\ TypeOK /\ Good(record.ranges)
    /\ \A o \in Operators : Asked(o) /\ Writing(o) /\ Planning(o)
    /\ \A op \in operations : Good(op.target) /\ Newer(op.current, op.target)

\* No tenant, no plan and no operation at first.
LEMMA InitLayout == Init => LayoutInv
<1> SUFFICES ASSUME Init PROVE LayoutInv
  OBVIOUS
<1>1. record = NoRecord /\ operations = {} /\ \A o \in Operators : run[o] = Idle
  BY DEF Init
<1>2. record.ranges = <<>> /\ record.version = 0
  BY <1>1 DEF NoRecord
<1>3. Good(record.ranges)
  <2>1. record.ranges \in Seq(RangeType) /\ Len(record.ranges) = 0
    BY SMTT(20), <1>2
  <2>2. QED
    BY SMTT(20), <1>2, <2>1 DEF Good, ValidLayout
<1>4. TypeOK
  <2>1. record.version \in 0..MaxVersion
    BY SMTT(20), <1>2, GresConstants
  <2>2. /\ config \in BOOLEAN /\ acls \in BOOLEAN /\ credential \in Passwords \cup {NoPassword}
        /\ refused \subseteq {"scram", "acls"}
    BY DEF Init
  <2>3. QED
    BY <1>3, <2>1, <2>2 DEF TypeOK, Good
<1>5. \A o \in Operators : Asked(o) /\ Writing(o) /\ Planning(o)
  BY SMTT(20), <1>1 DEF Asked, Writing, Planning, Idle
<1>6. QED
  BY <1>1, <1>3, <1>4, <1>5 DEF LayoutInv

\* An operator's step keeps the invariant if it keeps it for that operator, for
\* the record and for the operations.
LEMMA LayoutStep ==
    ASSUME LayoutInv, NEW o \in Operators, OnlyOf(o), Asked(o)', Writing(o)', Planning(o)',
           TypeOK', Good(record'.ranges),
           \A op \in operations' : Good(op.target) /\ Newer(op.current, op.target)
    PROVE  LayoutInv'
<1>1. ASSUME NEW p \in Operators PROVE Asked(p)' /\ Writing(p)' /\ Planning(p)'
  <2>1. CASE p = o
    BY <2>1
  <2>2. CASE p # o
    <3>1. run'[p] = run[p] /\ Asked(p) /\ Writing(p) /\ Planning(p)
      BY <2>2 DEF LayoutInv, OnlyOf
    <3>2. Asked(p)' /\ Writing(p)'
      BY <3>1 DEF Asked, Writing
    <3>3. Planning(p)'
      BY <3>1 DEF Planning
    <3>4. QED
      BY <3>2, <3>3
  <2>3. QED
    BY <2>1, <2>2
<1>2. QED
  BY <1>1 DEF LayoutInv

\* The end of a command is fine for the operator.
LEMMA EndAsks ==
    ASSUME IInv, NEW o \in Operators, End(o)
    PROVE  OnlyOf(o) /\ Asked(o)' /\ Writing(o)' /\ Planning(o)'
<1>1. run'[o] = Idle
  BY DEF End, IInv, Shape
<1>2. QED
  BY SMTT(20), <1>1, EndKeeps DEF Asked, Writing, Planning, Idle

\* So is a step from one request of a create to the next.
LEMMA GotoAsks ==
    ASSUME IInv, LayoutInv, NEW o \in Operators,
           run[o].pc \in {"config", "scram", "acls", "replace"},
           NEW pc \in {"scram", "acls", "replace", "again"}, Goto(o, pc)
    PROVE  OnlyOf(o) /\ Asked(o)' /\ Writing(o)' /\ Planning(o)'
<1>1. Asked(o) /\ Writing(o)
  BY DEF LayoutInv
<1>2. QED
  BY <1>1, GotoFacts DEF Asked, Writing, Planning

LEMMA DoneOrLostAsks ==
    ASSUME IInv, LayoutInv, NEW o \in Operators,
           run[o].pc \in {"config", "scram", "acls", "replace"},
           NEW pc \in {"scram", "acls", "replace", "again"}, DoneOrLost(o, pc)
    PROVE  OnlyOf(o) /\ Asked(o)' /\ Writing(o)' /\ Planning(o)'
  BY EndAsks, GotoAsks DEF DoneOrLost

\* A step that only changes the operator's own state.
LEMMA LocalLayout ==
    ASSUME LayoutInv, NEW o \in Operators, OnlyOf(o), OnlyRun,
           Asked(o)', Writing(o)', Planning(o)'
    PROVE  LayoutInv'
<1>1. TypeOK' /\ Good(record'.ranges)
  BY DEF LayoutInv, TypeOK, OnlyRun
<1>2. QED
  BY <1>1, LayoutStep DEF LayoutInv, OnlyRun

LEMMA EndLayout == ASSUME IInv, LayoutInv, NEW o \in Operators, End(o), OnlyRun PROVE LayoutInv'
  BY EndAsks, LocalLayout

LEMMA ConnectLayout ==
    ASSUME IInv, LayoutInv, NEW o \in Operators, NEW q \in Requests, Connect(o, q) PROVE LayoutInv'
<1>1. CASE ~ReadPassword(q)
  BY <1>1, EndLayout DEF Connect
<1>2. CASE ReadPassword(q)
  <2>1. run' = [run EXCEPT ![o].pc = "connected", ![o].request = q] /\ OnlyRun
    BY <1>2 DEF Connect
  <2>2. OnlyOf(o) /\ run'[o].pc = "connected" /\ run'[o].request = q
    BY <2>1 DEF IInv, Shape, RunShape, OnlyOf
  <2>3. Asked(o)' /\ Writing(o)' /\ Planning(o)'
    BY <2>2 DEF Asked, Writing, Planning
  <2>4. QED
    BY <2>1, <2>2, <2>3, LocalLayout
<1>3. QED
  BY <1>1, <1>2

\* What the command line of each kind holds.
LEMMA RequestFacts ==
    ASSUME LayoutInv, NEW o \in Operators, run[o].pc # "idle"
    PROVE  LET q == run[o].request
           IN  /\ q \in Requests
               /\ q.kind = "create" => q.ranges \in Seq(0..MaxKey)
               /\ q.kind = "split" => SplitRangeArgs(q)
               /\ q.kind = "move" => q.replacement \in Nat
<1>1. run[o].request \in Requests
  BY DEF LayoutInv, Asked
<1>2. QED
  BY <1>1, GresConstants DEF CreateTenantArgs, TenantNameArgs, SplitRangeArgs, MoveRangeArgs

\* A create takes a layout that parses.
LEMMA CreateLayout == ASSUME IInv, LayoutInv, NEW o \in Operators, CreateTenant(o) PROVE LayoutInv'
<1> DEFINE q == run[o].request
           write == BuildCreateTenantRecord(q, NextVersion(record.version))
<1>1. CASE End(o)
  BY <1>1, EndLayout DEF CreateTenant
<1>2. CASE /\ ~(record.version = MaxVersion \/ ~LayoutParses(q.ranges))
           /\ run' = [run EXCEPT ![o].pc = "config", ![o].expected = record.version, ![o].write = write]
  <2>1. write.version = record.version + 1 /\ write.ranges = ParseRangeLayout(q.ranges)
    BY DEF BuildCreateTenantRecord, NextVersion
  <2> HIDE DEF write
  <2>2. OnlyOf(o) /\ run'[o].pc = "config" /\ run'[o].request = q /\ run'[o].write = write
    BY <1>2 DEF IInv, Shape, RunShape, OnlyOf
  <2>3. q \in Requests /\ q.ranges \in Seq(0..MaxKey)
    BY RequestFacts DEF CreateTenant, At
  <2>4. Good(write.ranges)
    BY <1>2, <2>1, <2>3, ParsedIsGood
  <2>5. write.version <= MaxVersion
    BY SMTT(20), <1>2, <2>1, GresConstants DEF LayoutInv, TypeOK
  <2>6. Asked(o)' /\ Writing(o)' /\ Planning(o)'
    BY <2>2, <2>3, <2>4, <2>5 DEF Asked, Writing, Planning
  <2>7. QED
    BY <2>2, <2>6, LocalLayout DEF CreateTenant
<1>3. QED
  BY <1>1, <1>2 DEF CreateTenant

\* The provisioning changes neither the record nor an operation.
LEMMA ProvisionLayout ==
    ASSUME IInv, LayoutInv, NEW o \in Operators,
           UpsertTenantConfig(o) \/ ProvisionScram(o) \/ ProvisionAcls(o)
    PROVE  LayoutInv'
<1>1. record' = record /\ operations' = operations
  BY DEF UpsertTenantConfig, ProvisionScram, ProvisionAcls
<1>2. OnlyOf(o) /\ Asked(o)' /\ Writing(o)' /\ Planning(o)'
  BY DoneOrLostAsks DEF UpsertTenantConfig, ProvisionScram, ProvisionAcls, At
<1>3. TypeOK'
  <2>1. config' \in BOOLEAN /\ acls' \in BOOLEAN /\ refused' \subseteq {"scram", "acls"}
    BY DEF UpsertTenantConfig, ProvisionScram, ProvisionAcls, LayoutInv, TypeOK
  <2>2. credential' \in Passwords \cup {NoPassword}
    BY DEF UpsertTenantConfig, ProvisionScram, ProvisionAcls, At, LayoutInv, TypeOK, IInv, Creating
  <2>3. QED
    BY <1>1, <2>1, <2>2 DEF LayoutInv, TypeOK
<1>4. QED
  BY <1>1, <1>2, <1>3, LayoutStep DEF LayoutInv

\* The layout that a create writes is one.
LEMMA ReplaceLayout ==
    ASSUME IInv, LayoutInv, NEW o \in Operators, ReplaceIfVersion(o) PROVE LayoutInv'
<1>1. run[o].pc = "replace" /\ operations' = operations
  BY DEF ReplaceIfVersion, At
<1>2. OnlyOf(o) /\ Asked(o)' /\ Writing(o)' /\ Planning(o)'
  BY <1>1, EndAsks, DoneOrLostAsks DEF ReplaceIfVersion
<1>3. Good(record'.ranges) /\ record'.version \in 0..MaxVersion
  <2>1. CASE record' = record
    BY <2>1 DEF LayoutInv, TypeOK
  <2>2. CASE record' = run[o].write
    <3>1. Good(run[o].write.ranges) /\ run[o].write.version <= MaxVersion
      BY <1>1 DEF LayoutInv, Writing
    <3>2. run[o].write.version \in Nat
      BY <1>1 DEF IInv, Creating, RecordShape
    <3>3. QED
      BY SMTT(20), <2>2, <3>1, <3>2, GresConstants
  <2>3. QED
    BY <2>1, <2>2 DEF ReplaceIfVersion
<1>4. TypeOK'
  BY <1>3 DEF ReplaceIfVersion, LayoutInv, TypeOK, Good
<1>5. QED
  BY <1>1, <1>2, <1>3, <1>4, LayoutStep DEF LayoutInv

LEMMA ChangeLayout ==
    ASSUME IInv, LayoutInv, NEW o \in Operators, ChangeTenantState(o) PROVE LayoutInv'
<1>1. Good(record'.ranges) /\ record'.version \in 0..MaxVersion
  <2>1. CASE record' = record
    BY <2>1 DEF LayoutInv, TypeOK
  <2>2. CASE /\ record.version \notin {0, MaxVersion}
             /\ record' = [record EXCEPT !.active = run[o].request.kind = "resume", !.version = @ + 1]
    <3>1. record'.ranges = record.ranges /\ record'.version = record.version + 1
      BY <2>2 DEF IInv, Shape, RecordShape
    <3>2. QED
      BY SMTT(20), <2>2, <3>1, GresConstants DEF LayoutInv, TypeOK
  <2>3. QED
    BY <2>1, <2>2 DEF ChangeTenantState
<1>2. TypeOK'
  BY <1>1 DEF ChangeTenantState, LayoutInv, TypeOK, Good
<1>3. End(o) /\ operations' = operations
  BY DEF ChangeTenantState
<1>4. QED
  BY <1>1, <1>2, <1>3, EndAsks, LayoutStep DEF LayoutInv

LEMMA DeleteLayout == ASSUME IInv, LayoutInv, NEW o \in Operators, DeleteTenant(o) PROVE LayoutInv'
<1>1. record'.ranges = <<>> /\ record'.version = 0
  BY DEF DeleteTenant, NoRecord
<1>2. Good(record'.ranges)
  <2>1. record'.ranges \in Seq(RangeType) /\ Len(record'.ranges) = 0
    BY SMTT(20), <1>1
  <2>2. QED
    BY SMTT(20), <1>1, <2>1 DEF Good, ValidLayout
<1>3. TypeOK'
  BY SMTT(20), <1>1, <1>2, GresConstants DEF DeleteTenant, LayoutInv, TypeOK, Good
<1>4. End(o) /\ operations' = operations
  BY DEF DeleteTenant
<1>5. QED
  BY <1>2, <1>3, <1>4, EndAsks, LayoutStep DEF LayoutInv

\* A command that plans from the layout that it has read.
LEMMA PlanLayout ==
    ASSUME IInv, LayoutInv, NEW o \in Operators, run[o].pc = "connected", OnlyRun, NEW plan,
           plan.current = record.ranges, Planned(run[o].request, plan),
           run' = [run EXCEPT ![o].pc = "begin", ![o].plan = plan]
    PROVE  LayoutInv'
<1>1. OnlyOf(o) /\ run'[o].pc = "begin" /\ run'[o].request = run[o].request /\ run'[o].plan = plan
  BY DEF IInv, Shape, RunShape, OnlyOf
<1>2. Asked(o) /\ Good(record.ranges)
  BY DEF LayoutInv
<1>3. Asked(o)' /\ Writing(o)'
  BY <1>1, <1>2 DEF Asked, Writing
<1>4. Planning(o)'
  BY <1>1, <1>2 DEF Planning
<1>5. QED
  BY <1>1, <1>3, <1>4, LocalLayout

LEMMA SplitLayoutInv == ASSUME IInv, LayoutInv, NEW o \in Operators, PlanSplit(o) PROVE LayoutInv'
<1> DEFINE q == run[o].request
           plan(i) == Plan(record.ranges[i].id, SplitTarget(record.ranges, i, q))
<1>1. CASE End(o)
  BY <1>1, EndLayout DEF PlanSplit
<1>2. ASSUME NEW i \in SourceRangeForKey(record.ranges, q.key),
             run' = [run EXCEPT ![o].pc = "begin", ![o].plan = plan(i)]
      PROVE  LayoutInv'
  <2>1. plan(i).current = record.ranges /\ plan(i).target = SplitTarget(record.ranges, i, q)
    BY DEF Plan
  <2> HIDE DEF plan
  <2>2. Planned(q, plan(i)) /\ run[o].pc = "connected" /\ OnlyRun
    BY <2>1 DEF Planned, PlanSplit, At
  <2>3. QED
    BY <1>2, <2>1, <2>2, PlanLayout
<1>3. QED
  BY <1>1, <1>2 DEF PlanSplit

LEMMA MoveLayoutInv == ASSUME IInv, LayoutInv, NEW o \in Operators, PlanMove(o) PROVE LayoutInv'
<1> DEFINE q == run[o].request
           ranges == record.ranges
           plan(i) == Plan(q.source, Replacement(ranges, i, q.replacement))
<1>1. CASE End(o)
  BY <1>1, EndLayout DEF PlanMove
<1>2. ASSUME NEW i \in 1..Len(ranges), \A j \in 1..Len(ranges) : ranges[j].id # q.replacement,
             run' = [run EXCEPT ![o].pc = "begin", ![o].plan = plan(i)]
      PROVE  LayoutInv'
  <2>1. plan(i).current = ranges /\ plan(i).target = Replacement(ranges, i, q.replacement)
    BY DEF Plan
  <2> HIDE DEF plan
  <2>2. Planned(q, plan(i)) /\ run[o].pc = "connected" /\ OnlyRun
    BY <1>2, <2>1 DEF Planned, PlanMove, At
  <2>3. QED
    BY <1>2, <2>1, <2>2, PlanLayout
<1>3. QED
  BY <1>1, <1>2 DEF PlanMove

\* What the registry keeps of a plan is a layout that moves keys to newer logs.
LEMMA PlannedIsNewer ==
    ASSUME NEW q, NEW plan, Good(plan.current), Planned(q, plan), ValidLayout(plan.target),
           q.kind = "split" => SplitRangeArgs(q), q.kind = "move" => q.replacement \in Nat
    PROVE  Good(plan.target) /\ Newer(plan.current, plan.target)
<1> DEFINE s == plan.current
           t == plan.target
<1>1. ASSUME q.kind = "split", NEW i \in SourceRangeForKey(s, q.key), t = SplitTarget(s, i, q)
      PROVE  Good(t) /\ Newer(s, t)
  <2>1. i \in 1..Len(s)
    BY DEF SourceRangeForKey
  <2>2. Halved(s, t, i, LeftRangeId(s, i, q), q.key, SuccessorRangeId(s, i, q))
    BY <1>1, <2>1, SplitHalves
  <2>3. q.key \in 0..MaxKey
    BY <1>1 DEF SplitRangeArgs
  <2>4. Newer(s, t)
    BY <2>1, <2>2, <2>3, HalvedIsNewer
  <2>5. QED
    BY <2>2, <2>4 DEF Good, Halved, SplitAt
<1>2. ASSUME q.kind = "move", \A j \in 1..Len(s) : s[j].id # q.replacement,
             NEW i \in 1..Len(s), t = Replacement(s, i, q.replacement)
      PROVE  Good(t) /\ Newer(s, t)
  BY <1>2, MoveFits
<1>3. QED
  BY <1>1, <1>2 DEF Planned

LEMMA BeginLayout == ASSUME IInv, LayoutInv, NEW o \in Operators, BeginOperation(o) PROVE LayoutInv'
<1> DEFINE q == run[o].request
           plan == run[o].plan
<1>1. run[o].pc = "begin" /\ End(o) /\ record' = record
      /\ UNCHANGED <<config, credential, acls, refused>>
  BY DEF BeginOperation, At
<1>2. TypeOK' /\ Good(record'.ranges)
  BY <1>1 DEF LayoutInv, TypeOK
<1>3. ASSUME ValidLayout(plan.target) PROVE Good(plan.target) /\ Newer(plan.current, plan.target)
  <2>1. Good(plan.current) /\ Planned(q, plan)
    BY <1>1 DEF LayoutInv, Planning
  <2>2. (q.kind = "split" => SplitRangeArgs(q)) /\ (q.kind = "move" => q.replacement \in Nat)
    BY <1>1, RequestFacts
  <2>3. QED
    BY <1>3, <2>1, <2>2, PlannedIsNewer
<1>4. \A op \in operations' : Good(op.target) /\ Newer(op.current, op.target)
  BY <1>3 DEF BeginOperation, LayoutInv
<1>5. QED
  BY <1>1, <1>2, <1>4, EndAsks, LayoutStep

\* The controller writes the layout of an operation.
LEMMA CarryOutLayout == ASSUME IInv, LayoutInv, CarryOut PROVE LayoutInv'
<1>1. PICK op \in operations :
        /\ operations' = operations \ {op}
        /\ record' = IF record.version \in {op.version} \ {0, MaxVersion}
                     THEN [record EXCEPT !.ranges = op.target, !.version = @ + 1]
                     ELSE record
  BY DEF CarryOut
<1>2. Good(record'.ranges) /\ record'.version \in 0..MaxVersion
  <2>1. CASE record' = record
    BY <2>1 DEF LayoutInv, TypeOK
  <2>2. CASE /\ record.version \notin {0, MaxVersion}
             /\ record' = [record EXCEPT !.ranges = op.target, !.version = @ + 1]
    <3>1. record'.ranges = op.target /\ record'.version = record.version + 1
      BY <2>2 DEF IInv, Shape, RecordShape
    <3>2. Good(op.target)
      BY DEF LayoutInv
    <3>3. QED
      BY SMTT(20), <2>2, <3>1, <3>2, GresConstants DEF LayoutInv, TypeOK
  <2>3. QED
    BY <1>1, <2>1, <2>2
<1>3. TypeOK'
  BY <1>2 DEF CarryOut, LayoutInv, TypeOK, Good
<1>4. \A o \in Operators : Asked(o)' /\ Writing(o)' /\ Planning(o)'
  <2>1. run' = run
    BY DEF CarryOut
  <2>2. \A o \in Operators : Asked(o) /\ Writing(o) /\ Planning(o)
    BY DEF LayoutInv
  <2>3. QED
    BY <2>1, <2>2 DEF Asked, Writing, Planning
<1>5. QED
  BY <1>1, <1>2, <1>3, <1>4 DEF LayoutInv

LEMMA NextLayout == IInv /\ LayoutInv /\ [Next]_vars => LayoutInv'
<1> SUFFICES ASSUME IInv, LayoutInv, [Next]_vars PROVE LayoutInv'
  OBVIOUS
<1>1. CASE UNCHANGED vars
  <2>1. TypeOK' /\ Good(record'.ranges) /\ operations' = operations
    BY <1>1 DEF vars, LayoutInv, TypeOK
  <2>2. \A o \in Operators : Asked(o)' /\ Writing(o)' /\ Planning(o)'
    BY <1>1 DEF vars, LayoutInv, Asked, Writing, Planning
  <2>3. QED
    BY <2>1, <2>2 DEF LayoutInv
<1>2. CASE CarryOut
  BY <1>2, CarryOutLayout
<1>3. ASSUME NEW o \in Operators, Step(o) PROVE LayoutInv'
  <2>1. CASE \E q \in Requests : Connect(o, q)
    BY <2>1, ConnectLayout
  <2>2. CASE CallFails(o) \/ GetAgain(o) \/ DescribeTenant(o)
    BY <2>2, EndLayout DEF CallFails, GetAgain, DescribeTenant
  <2>3. CASE UpsertTenantConfig(o) \/ ProvisionScram(o) \/ ProvisionAcls(o)
    BY <2>3, ProvisionLayout
  <2>4. QED
    BY <1>3, <2>1, <2>2, <2>3, CreateLayout, ReplaceLayout, ChangeLayout, DeleteLayout,
       SplitLayoutInv, MoveLayoutInv, BeginLayout DEF Step
<1>4. QED
  BY <1>1, <1>2, <1>3 DEF Next

\* For every number of operators, keys, ids and versions, and every set of
\* command lines: the registry always has a layout that partitions the key
\* space, with distinct ids, on a version that there is.
THEOREM LayoutsHold == Spec => []TypeOK
<1>1. LayoutInv => TypeOK
  BY DEF LayoutInv
<1>2. QED
  BY InitInv, InitLayout, NextInv, NextLayout, <1>1, PTL DEF Spec

\* The plan of a split whose ids next_range_id chooses is a layout, unless it
\* splits at the start of a range or runs out of ids; so is that of a move.
LEMMA InvPlansFit == LayoutInv => PlansFit
<1> SUFFICES ASSUME LayoutInv, NEW o \in Operators, run[o].pc = "begin"
             PROVE  LET q == run[o].request
                        ranges == run[o].plan.current
                    IN  \/ q.kind = "split" /\ (q.left >= 0 \/ q.successor >= 0)
                        \/ q.kind = "split" /\ \E i \in 1..Len(ranges) : ranges[i].id >= MaxId - 1
                        \/ q.kind = "split" /\ \E i \in 1..Len(ranges) : StartOf(ranges, i) = q.key
                        \/ ValidLayout(run[o].plan.target)
  BY DEF PlansFit
<1> DEFINE q == run[o].request
           s == run[o].plan.current
           t == run[o].plan.target
<1>1. Good(s) /\ Planned(q, run[o].plan)
  BY DEF LayoutInv, Planning
<1>2. (q.kind = "split" => SplitRangeArgs(q)) /\ (q.kind = "move" => q.replacement \in Nat)
  BY RequestFacts
<1>3. ASSUME q.kind = "move", \A j \in 1..Len(s) : s[j].id # q.replacement,
             NEW i \in 1..Len(s), t = Replacement(s, i, q.replacement)
      PROVE  ValidLayout(t)
  BY <1>1, <1>2, <1>3, MoveFits DEF Good
<1>4. ASSUME q.kind = "split", NEW i \in SourceRangeForKey(s, q.key), t = SplitTarget(s, i, q),
             q.left < 0, q.successor < 0,
             \A j \in 1..Len(s) : s[j].id < MaxId - 1,
             \A j \in 1..Len(s) : StartOf(s, j) # q.key
      PROVE  ValidLayout(t)
  <2> DEFINE l == LeftRangeId(s, i, q)
             r == SuccessorRangeId(s, i, q)
  <2>1. i \in 1..Len(s) /\ StartOf(s, i) <= q.key /\ q.key < s[i].end
    BY DEF SourceRangeForKey
  <2>2. Halved(s, t, i, l, q.key, r)
    BY <1>1, <1>2, <1>4, <2>1, SplitHalves
  <2>3. l # r /\ \A j \in 1..Len(s) : j # i => s[j].id # l /\ s[j].id # r
    BY <1>1, <1>2, <1>4, <2>1, SplitIds
  <2>4. StartOf(s, i) < q.key
    <3>1. q.key \in Nat /\ StartOf(s, i) \in Nat
      BY SMTT(20), <1>1, <1>2, <1>4, <2>1, StartFacts, GresConstants DEF SplitRangeArgs
    <3>2. QED
      BY SMTT(20), <1>4, <2>1, <3>1
  <2> HIDE DEF l, r
  <2>5. QED
    BY SMTT(20), <1>1, <2>1, <2>2, <2>3, <2>4, HalvedFits
<1>5. CASE q.kind = "move"
  BY <1>1, <1>3, <1>5 DEF Planned
<1>6. CASE q.kind = "split"
  <2>1. q.left \in Int /\ q.successor \in Int /\ MaxId \in Int
    BY SMTT(20), <1>2, <1>6, GresConstants DEF SplitRangeArgs
  <2>2. \A j \in 1..Len(s) : s[j].id \in Nat
    BY <1>1, RangeFacts DEF Good
  <2>3. PICK i \in SourceRangeForKey(s, q.key) : t = SplitTarget(s, i, q)
    BY <1>1, <1>6 DEF Planned
  <2>4. SUFFICES ASSUME ~(q.left >= 0 \/ q.successor >= 0),
                        ~\E j \in 1..Len(s) : s[j].id >= MaxId - 1,
                        ~\E j \in 1..Len(s) : StartOf(s, j) = q.key
                 PROVE  ValidLayout(t)
    BY <1>6
  <2>5. q.left < 0 /\ q.successor < 0 /\ \A j \in 1..Len(s) : s[j].id < MaxId - 1
    BY SMTT(20), <2>1, <2>2, <2>4
  <2>6. QED
    BY <1>4, <1>6, <2>3, <2>4, <2>5
<1>7. QED
  BY <1>1, <1>5, <1>6 DEF Planned

\* For every instance: a split that leaves the ids to the command, and a move,
\* plan a layout that the registry takes, whatever other commands and the
\* controller have done to the layout before it was read.
THEOREM PlansAlwaysFit == Spec => []PlansFit
  BY InitInv, InitLayout, NextInv, NextLayout, InvPlansFit, PTL DEF Spec

\* For every instance: no operation that the registry keeps moves a key back to
\* an older log.
THEOREM GenerationsAlwaysGrow == Spec => []GenerationsGrow
<1>1. LayoutInv => GenerationsGrow
  BY Zenon DEF LayoutInv, GenerationsGrow, Newer
<1>2. QED
  BY InitInv, InitLayout, NextInv, NextLayout, <1>1, PTL DEF Spec
=============================================================================
