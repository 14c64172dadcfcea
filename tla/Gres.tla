-------------------------------- MODULE Gres --------------------------------
(***************************************************************************)
(* krabka gres: operators who create, suspend, resume, delete, split and   *)
(* move one tenant at the same time, each with a command of their own, and *)
(* the controller that carries the splits and moves out.                   *)
(*                                                                         *)
(* The registry is external: get, a replace that is conditional on the     *)
(* version, and the record of an operation.  A key is a number, and so is  *)
(* a range id; an absent end key is NoEnd.                                 *)
(***************************************************************************)
EXTENDS Integers, Sequences, FiniteSets

CONSTANTS Operators,
          Passwords,
          NoPassword,
          Requests,     \* the command lines
          MaxVersion,   \* the largest record version
          MaxKey,       \* bound: the keys
          MaxId,        \* the largest range id
          MaxOperations \* bound: operations that wait for the controller

\* The command lines.  A range id that is not given is negative.  The
\* generations of the successors are not given.
CreateTenantArgs(q) ==
    /\ q.kind = "create" /\ q.password \in Passwords \cup {NoPassword}
    /\ q.ranges \in Seq(0..MaxKey) /\ q.hashed \in BOOLEAN

TenantNameArgs(q) == q.kind \in {"suspend", "resume", "delete", "describe"}

SplitRangeArgs(q) ==
    /\ q.kind = "split" /\ q.key \in 0..MaxKey /\ q.bucket \in BOOLEAN
    /\ q.left \in Int /\ q.successor \in Int

MoveRangeArgs(q) == q.kind = "move" /\ q.source \in Nat /\ q.replacement \in Nat

ASSUME GresConstants ==
    /\ MaxVersion \in Nat \ {0} /\ MaxKey \in Nat /\ MaxId \in Nat
    /\ NoPassword \notin Passwords
    /\ \A q \in Requests :
         CreateTenantArgs(q) \/ TenantNameArgs(q) \/ SplitRangeArgs(q) \/ MoveRangeArgs(q)

VARIABLES record,      \* the tenant's record; version 0 when there is none
          config,      \* whether the tenant's config topic has its entry
          credential,  \* the SCRAM password of the tenant's Kafka user
          acls,        \* whether that user has its ACLs
          refused,     \* what the brokers have refused to provision in an answer
                       \* that the command did not look into (history)
          operations,  \* the splits and moves that were begun
          run          \* for each operator, the command that they run

vars == <<record, config, credential, acls, refused, operations, run>>

NoEnd == MaxKey + 1

NoRecord == [version |-> 0, password |-> NoPassword, active |-> FALSE, ranges |-> <<>>,
             hashed |-> FALSE]

NoPlan == [version |-> 0, source |-> 0, current |-> <<>>, target |-> <<>>]

Idle == [pc |-> "idle", request |-> [kind |-> "none"], expected |-> 0, write |-> NoRecord,
         plan |-> NoPlan]

-----------------------------------------------------------------------------
(* Range layouts                                                           *)

Entry(id, end, generation) == [id |-> id, end |-> end, generation |-> generation]

\* parse_range_layout: the boundaries start at 0 and increase.
LayoutParses(boundaries) ==
    boundaries # <<>> => /\ boundaries[1] = 0
                         /\ \A i \in 1..(Len(boundaries) - 1) : boundaries[i] < boundaries[i + 1]

\* (fault) a range ends where it starts.
ParseRangeLayoutShort(boundaries) ==
    [i \in 1..Len(boundaries) |->
       Entry(i - 1, IF i < Len(boundaries) THEN boundaries[i] ELSE NoEnd, 0)]

ParseRangeLayout(boundaries) ==
    [i \in 1..Len(boundaries) |->
       Entry(i - 1, IF i < Len(boundaries) THEN boundaries[i + 1] ELSE NoEnd, 0)]

StartOf(ranges, i) == IF i = 1 THEN 0 ELSE ranges[i - 1].end

\* source_range_for_key: the places of the range that holds a key.
SourceRangeForKey(ranges, key) ==
    {i \in 1..Len(ranges) : StartOf(ranges, i) <= key /\ key < ranges[i].end}

\* next_range_id, which saturates.
NextRangeId(ranges) ==
    LET ids == {ranges[i].id : i \in 1..Len(ranges)}
        max == IF ids = {} THEN 0 ELSE CHOOSE x \in ids : \A y \in ids : y <= x
    IN  IF max >= MaxId THEN MaxId ELSE max + 1

Saturated(id) == IF id >= MaxId THEN MaxId ELSE id + 1

\* The ids of the two halves, where the command line does not give them.
LeftRangeId(ranges, i, q) ==
    IF q.left >= 0 THEN q.left ELSE IF ranges[i].id = 0 THEN 0 ELSE NextRangeId(ranges)

\* (fault) the first free id, also where the left half has it.
SuccessorRangeIdFree(ranges, i, q) ==
    IF q.successor >= 0 THEN q.successor ELSE NextRangeId(ranges)

SuccessorRangeId(ranges, i, q) ==
    LET free == NextRangeId(ranges)
        past == Saturated(LeftRangeId(ranges, i, q))
    IN  IF q.successor >= 0 THEN q.successor ELSE IF free >= past THEN free ELSE past

\* External: split_range_layout puts the halves in the place of the range.
SplitLayout(ranges, i, left, right) ==
    SubSeq(ranges, 1, i - 1) \o <<left, right>> \o SubSeq(ranges, i + 1, Len(ranges))

\* (fault) the halves keep the generation of the range.
SplitTargetSameLog(ranges, i, q) ==
    LET generation == ranges[i].generation
    IN  SplitLayout(ranges, i, Entry(LeftRangeId(ranges, i, q), q.key, generation),
                    Entry(SuccessorRangeId(ranges, i, q), ranges[i].end, generation))

SplitTarget(ranges, i, q) ==
    LET generation == ranges[i].generation + 1
    IN  SplitLayout(ranges, i, Entry(LeftRangeId(ranges, i, q), q.key, generation),
                    Entry(SuccessorRangeId(ranges, i, q), ranges[i].end, generation))

\* split_boundary: a bucket is given if and only if the table is hash-sharded.
SplitBoundary(r, q) == r.hashed = q.bucket

\* External: the registry takes a layout whose ids are distinct and whose ends
\* increase to the end of the key space.
ValidLayout(ranges) ==
    /\ ranges # <<>> => ranges[Len(ranges)].end = NoEnd
    /\ \A i \in 1..Len(ranges) : StartOf(ranges, i) < ranges[i].end
    /\ \A i, j \in 1..Len(ranges) : ranges[i].id = ranges[j].id => i = j

-----------------------------------------------------------------------------
(* The commands                                                            *)

At(o, kinds, pc) == run[o].pc = pc /\ run[o].request.kind \in kinds

Goto(o, pc) == run' = [run EXCEPT ![o].pc = pc]

\* The command ends, with an error or not, and its operator may run another.
End(o) == run' = [run EXCEPT ![o] = Idle]

OnlyRun == UNCHANGED <<record, config, credential, acls, refused, operations>>

\* A call that changes something may fail, and then it may have been done.
DoneOrLost(o, pc) == Goto(o, pc) \/ End(o)

\* read_password: a create that finds none fails.
ReadPassword(q) == q.kind = "create" => q.password # NoPassword

\* The connect and ensure_topic.
Connect(o, q) ==
    /\ run[o].pc = "idle"
    /\ IF ~ReadPassword(q) THEN End(o)
       ELSE run' = [run EXCEPT ![o].pc = "connected", ![o].request = q]
    /\ OnlyRun

\* A call that was not carried out fails, or Ctrl-C comes.
CallFails(o) ==
    /\ run[o].pc # "idle"
    /\ End(o)
    /\ OnlyRun

-----------------------------------------------------------------------------
(* create                                                                  *)

\* next_record_version, which does not wrap.
NextVersion(current) == current + 1

BuildCreateTenantRecord(q, version) ==
    [version |-> version, password |-> q.password, active |-> TRUE,
     ranges |-> ParseRangeLayout(q.ranges), hashed |-> q.hashed]

CreateTenant(o) ==
    /\ At(o, {"create"}, "connected")
    /\ LET q == run[o].request
           write == BuildCreateTenantRecord(q, NextVersion(record.version))
       IN  IF record.version = MaxVersion \/ ~LayoutParses(q.ranges) THEN End(o)
           ELSE run' = [run EXCEPT ![o].pc = "config", ![o].expected = record.version,
                          ![o].write = write]
    /\ OnlyRun

UpsertTenantConfig(o) ==
    /\ At(o, {"create"}, "config")
    /\ DoneOrLost(o, "scram")
    /\ config' = TRUE
    /\ UNCHANGED <<record, credential, acls, refused, operations>>

\* provision_tenant_kafka_access.  Of an answer only the error of the call is
\* looked at: an item that the answer refuses does not stop the command.
ProvisionScram(o) ==
    /\ At(o, {"create"}, "scram")
    /\ DoneOrLost(o, "acls")
    /\ \/ credential' = run[o].request.password /\ refused' = refused
       \/ credential' = credential /\ refused' = refused \cup {"scram"}
    /\ UNCHANGED <<record, config, acls, operations>>

\* (fault) an ACL that could not be created does not stop the command.
ProvisionAclsAnyhow(o) ==
    /\ At(o, {"create"}, "acls")
    /\ Goto(o, "replace")
    /\ acls' \in {acls, TRUE}
    /\ UNCHANGED <<record, config, credential, refused, operations>>

ProvisionAcls(o) ==
    /\ At(o, {"create"}, "acls")
    /\ DoneOrLost(o, "replace")
    /\ \/ acls' = TRUE /\ refused' = refused
       \/ acls' = acls /\ refused' = refused \cup {"acls"}
    /\ UNCHANGED <<record, config, credential, operations>>

\* (fault) the record is written over whatever is there.
ReplaceAnyVersion(o) ==
    /\ At(o, {"create"}, "replace")
    /\ record' = run[o].write
    /\ DoneOrLost(o, "again")
    /\ UNCHANGED <<config, credential, acls, refused, operations>>

\* The record goes last, and only over the version that was read.
ReplaceIfVersion(o) ==
    /\ At(o, {"create"}, "replace")
    /\ IF record.version = run[o].expected
       THEN record' = run[o].write /\ DoneOrLost(o, "again")
       ELSE record' = record /\ End(o)
    /\ UNCHANGED <<config, credential, acls, refused, operations>>

\* The record is read back, and may have disappeared.
GetAgain(o) ==
    /\ At(o, {"create"}, "again")
    /\ End(o)
    /\ OnlyRun

-----------------------------------------------------------------------------
(* suspend, resume, delete, describe                                       *)

\* change_tenant_state.  External: mark_suspended and mark_active write the
\* next version.
ChangeTenantState(o) ==
    /\ At(o, {"suspend", "resume"}, "connected")
    /\ IF record.version \in {0, MaxVersion} THEN record' = record /\ End(o)
       ELSE /\ record' = [record EXCEPT !.active = run[o].request.kind = "resume",
                                        !.version = @ + 1]
            /\ End(o)
    /\ UNCHANGED <<config, credential, acls, refused, operations>>

\* The access and the config of the tenant stay.
DeleteTenant(o) ==
    /\ At(o, {"delete"}, "connected")
    /\ record' = NoRecord
    /\ End(o)
    /\ UNCHANGED <<config, credential, acls, refused, operations>>

DescribeTenant(o) ==
    /\ At(o, {"describe"}, "connected")
    /\ End(o)
    /\ OnlyRun

-----------------------------------------------------------------------------
(* split and move                                                          *)

Plan(source, target) ==
    [version |-> record.version, source |-> source, current |-> record.ranges, target |-> target]

PlanSplit(o) ==
    /\ At(o, {"split"}, "connected")
    /\ LET q == run[o].request
           sources == SourceRangeForKey(record.ranges, q.key)
       IN  IF record.version = 0 \/ ~SplitBoundary(record, q) \/ sources = {} THEN End(o)
           ELSE \E i \in sources :
                  run' = [run EXCEPT ![o].pc = "begin",
                    ![o].plan = Plan(record.ranges[i].id, SplitTarget(record.ranges, i, q))]
    /\ OnlyRun

\* build_move_operation: the replacement takes the place of its source.
Replacement(ranges, i, id) ==
    [ranges EXCEPT ![i] = Entry(id, ranges[i].end, ranges[i].generation + 1)]

PlanMove(o) ==
    /\ At(o, {"move"}, "connected")
    /\ LET q == run[o].request
           ranges == record.ranges
           sources == {i \in 1..Len(ranges) : ranges[i].id = q.source}
       IN  IF \/ record.version = 0 \/ sources = {}
              \/ \E i \in 1..Len(ranges) : ranges[i].id = q.replacement
           THEN End(o)
           ELSE \E i \in sources :
                  run' = [run EXCEPT ![o].pc = "begin",
                    ![o].plan = Plan(q.source, Replacement(ranges, i, q.replacement))]
    /\ OnlyRun

\* External: begin_split_operation keeps an operation whose layout is valid.
BeginOperation(o) ==
    /\ At(o, {"split", "move"}, "begin")
    /\ Cardinality(operations) < MaxOperations
    /\ IF ValidLayout(run[o].plan.target)
       THEN operations' = operations \cup {run[o].plan} /\ End(o)
       ELSE operations' = operations /\ End(o)
    /\ UNCHANGED <<record, config, credential, acls, refused>>

\* External: the controller carries out what was planned on this version, and
\* drops what was planned on another.
CarryOut ==
    /\ \E op \in operations :
         /\ operations' = operations \ {op}
         /\ record' = IF record.version \in {op.version} \ {0, MaxVersion}
                      THEN [record EXCEPT !.ranges = op.target, !.version = @ + 1]
                      ELSE record
    /\ UNCHANGED <<config, credential, acls, refused, run>>

-----------------------------------------------------------------------------

Init ==
    /\ record = NoRecord
    /\ config = FALSE /\ credential = NoPassword /\ acls = FALSE
    /\ refused = {} /\ operations = {}
    /\ run = [o \in Operators |-> Idle]

Step(o) ==
    \/ \E q \in Requests : Connect(o, q)
    \/ CallFails(o)
    \/ CreateTenant(o) \/ UpsertTenantConfig(o) \/ ProvisionScram(o) \/ ProvisionAcls(o)
    \/ ReplaceIfVersion(o) \/ GetAgain(o)
    \/ ChangeTenantState(o) \/ DeleteTenant(o) \/ DescribeTenant(o)
    \/ PlanSplit(o) \/ PlanMove(o) \/ BeginOperation(o)

Next == CarryOut \/ \E o \in Operators : Step(o)

Spec == Init /\ [][Next]_vars

-----------------------------------------------------------------------------

\* The types of the state, and: a layout in the registry partitions the key
\* space into ranges with ids of their own.
TypeOK ==
    /\ record.version \in 0..MaxVersion
    /\ config \in BOOLEAN /\ acls \in BOOLEAN
    /\ credential \in Passwords \cup {NoPassword} /\ refused \subseteq {"scram", "acls"}
    /\ ValidLayout(record.ranges)

HasCredential == credential # NoPassword \/ "scram" \in refused

HasAcls == acls \/ "acls" \in refused

\* create_tenant provisions before it writes the record: a tenant that the
\* registry has can sign in to Kafka and reach its topics, whatever commands
\* failed, were cancelled or ran into one another, save for what a broker has
\* refused in an answer that provision_tenant_kafka_access does not look into.
RecordHasAccess ==
    record.version # 0 => config /\ HasCredential /\ HasAcls

\* The commands write the record as one register that counts its versions: a
\* create that raced another command never writes over a record that it has
\* not read.
Register == INSTANCE VersionedRegister WITH version <- record.version

CountsVersions == Register!Spec

\* A split that leaves the choice of ids to the command, at a key inside of a
\* range, has a plan that the registry takes as long as there are ids left; so
\* does a move.
PlansFit ==
    \A o \in Operators :
      LET q == run[o].request
          ranges == run[o].plan.current
      IN  run[o].pc = "begin" =>
            \/ q.kind = "split" /\ (q.left >= 0 \/ q.successor >= 0)
            \/ q.kind = "split" /\ \E i \in 1..Len(ranges) : ranges[i].id >= MaxId - 1
            \/ q.kind = "split" /\ \E i \in 1..Len(ranges) : StartOf(ranges, i) = q.key
            \/ ValidLayout(run[o].plan.target)

\* What is carried out moves every key that it moves to a newer generation, so
\* that no range serves a key from a log that is older than the one before.
Holder(ranges, key) == CHOOSE i \in SourceRangeForKey(ranges, key) : TRUE

GenerationsGrow ==
    \A op \in operations : \A key \in 0..MaxKey :
      LET old == op.current[Holder(op.current, key)]
          new == op.target[Holder(op.target, key)]
      IN  op.current # <<>> => old.generation < new.generation \/ old = new
=============================================================================
