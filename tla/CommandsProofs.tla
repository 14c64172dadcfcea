---------------------------- MODULE CommandsProofs --------------------------
(***************************************************************************)
(* For every command line, every cluster and any number of changes by      *)
(* others: the guardrails of safety.rs hold (a dry run changes nothing,    *)
(* and a command that asks changes only what it was agreed to), a row that *)
(* says done was done, and exit code 0 means that all of it was; a report  *)
(* leaves out nothing that held throughout, and says nothing that was      *)
(* false throughout.                                                       *)
(***************************************************************************)
EXTENDS Commands, WellFoundedInduction, TLAPS

\* The provers of a step that names none, and the seconds each has.
USE ZenonT(30), SMTT(20)

\* The commands that ask before they connect.
AskFirst == {"aclsRemove", "forceTerminate", "removeController"}

\* The places that a command passes before it is agreed to.
BeforePrompt ==
    {"start", "prompt"}
      \cup (IF line.kind \in AskFirst THEN {} ELSE {"connect", "connected", "described"})

\* What the prompt of a command shows.
Impact ==
    CASE line.kind = "delete" -> cmd.seen
      [] line.kind = "aclsRemove" -> RemovalImpact
      [] line.kind = "forceTerminate" -> {line.target[2]}
      [] line.kind = "deleteRecords" -> Asked
      [] line.kind = "logDirsAlter" -> Range(line.replicaMoves)
      [] OTHER -> {line.target}

\* The places from which a command changes the cluster without another look
\* at --dry-run.
Committed == {"prompt", "delete", "create", "abort", "records", "move", "request"}

Shape == line \in Lines /\ DOMAIN cmd = DOMAIN Fresh

DryInv ==
    line.dry =>
      /\ effects = {}
      /\ cmd.pc \notin Committed
      /\ line.kind = "alter" => cmd.pc \in {"start", "ended"}

ConsentInv ==
    line.kind \in Asking /\ ~line.dry =>
      /\ effects \subseteq cmd.agreed
      /\ cmd.pc \in BeforePrompt => effects = {}
      /\ cmd.pc \notin BeforePrompt \cup {"ended"} => cmd.agreed = Impact

\* The filters of acls --remove that are still to be sent are those that were
\* shown, and no binding is outside of what they can match.
RemovalInv ==
    line.kind = "aclsRemove" =>
      /\ cluster \subseteq Bindings
      /\ cmd.pc \notin {"start", "ended"} =>
           /\ DOMAIN cmd.seen = {"todo", "done", "at", "absent"}
           /\ cmd.seen.todo \subseteq DOMAIN ResourceAcls

Inv == Shape /\ DryInv /\ ConsentInv /\ RemovalInv

\* configs and leader-election have no --dry-run.
LEMMA NoDryRun ==
    ASSUME line \in Lines, line.kind \in {"configsAlter", "leaderElection"}
    PROVE  ~line.dry
BY LinesAreParsed
   DEF TopicsArgs, DescribeArgs, AclsArgs, ConfigsArgs, TransactionsArgs, DeleteRecordsArgs,
       LogDirsArgs, LeaderElectionArgs, GetOffsetsArgs, ClusterArgs, MetadataQuorumArgs,
       DelegationTokensArgs, FeaturesArgs, TopicActions, AclActions, ConfigActions,
       TransactionActions, FeatureActions

\* What acls makes of its command line does not change.
LEMMA RemovalImpactStays ==
    ASSUME UNCHANGED line
    PROVE  ResourceAcls' = ResourceAcls /\ RemovalImpact' = RemovalImpact
<1>1. ResourceAcls' = ResourceAcls
  BY SMTT(20) DEF ResourceAcls, ResourceFilters, ByProducer, ByConsumer, Entries, Hosts, Role, Given
<1> QED
  BY <1>1 DEF RemovalImpact

\* At the start nothing has happened.
LEMMA InitInv == Init => Inv
<1> SUFFICES ASSUME Init PROVE Inv
  OBVIOUS
<1>1. Shape /\ DryInv /\ ConsentInv
  BY DEF Init, CommandInit, Fresh, Shape, DryInv, ConsentInv, Committed, BeforePrompt
<1>2. RemovalInv
  BY DEF Init, CommandInit, Fresh, RemovalInv, InitialCluster, Of, TopicActions, AclActions,
         ConfigActions, TransactionActions, ReplicaActions, ClusterActions,
         UnitActions, FeatureActions, ClusterReads, AclsInit
<1> QED
  BY <1>1, <1>2 DEF Inv

\* A command that ends leaves what it has done as it is.
LEMMA EndingInv ==
    ASSUME Inv, UNCHANGED <<line, moves>>, OnlyLocal,
           NEW exit, NEW rows, cmd' = Ended(exit, rows)
    PROVE  Inv'
BY DEF Inv, Shape, DryInv, ConsentInv, RemovalInv, OnlyLocal, Ended, Fresh, Committed,
       BeforePrompt, Asking, AskFirst

LEMMA FailInv ==
    ASSUME Inv, UNCHANGED <<line, moves>>, Fail \/ Usage
    PROVE  Inv'
BY EndingInv DEF Fail, Usage

LEMMA ReportInv ==
    ASSUME Inv, UNCHANGED <<line, moves>>, NEW rows, NEW failed, Report(rows, failed)
    PROVE  Inv'
BY EndingInv DEF Report

\* A command that does not ask may do anything but change the cluster in a dry
\* run, or come to a place from where it would.
LEMMA UnaskedInv ==
    ASSUME Inv, UNCHANGED line, line.kind \notin Asking, DOMAIN cmd' = DOMAIN cmd,
           line.dry => /\ effects' = effects
                       /\ cmd'.pc \notin Committed
                       /\ line.kind = "alter" => cmd'.pc \in {"start", "ended"}
    PROVE  Inv'
BY DEF Inv, Shape, DryInv, ConsentInv, RemovalInv, Asking

\* A step of a command that asks, before its prompt or after it.
LEMMA AskingInv ==
    ASSUME Inv, UNCHANGED <<line, moves>>, line.kind \in Asking \ {"aclsRemove"},
           OnlyLocal, DOMAIN cmd' = DOMAIN cmd, cmd'.agreed = cmd.agreed,
           line.dry => cmd'.pc \notin Committed,
           ~line.dry =>
             \/ cmd.pc \in BeforePrompt /\ cmd'.pc \in BeforePrompt
             \/ /\ cmd.pc \notin BeforePrompt \cup {"ended"} /\ cmd'.pc \notin BeforePrompt
                /\ cmd'.seen = cmd.seen
    PROVE  Inv'
BY DEF Inv, Shape, DryInv, ConsentInv, RemovalInv, Asking, Asks, OnlyLocal, BeforePrompt, Impact,
       RemovalImpact, Asked

\* The prompt.
LEMMA ConfirmInv ==
    ASSUME Inv, UNCHANGED <<line, moves>>, line.kind \in Asking, cmd.pc = "prompt",
           NEW pc, pc \notin BeforePrompt \cup {"start", "ended"}, Confirm(Impact, pc)
    PROVE  Inv'
<1>1. CASE cmd' = [cmd EXCEPT !.pc = pc, !.agreed = Impact] /\ OnlyLocal
  <2>1. ~line.dry
    BY DEF Inv, DryInv, Committed
  <2>2. /\ DOMAIN cmd' = DOMAIN cmd /\ cmd'.pc = pc /\ cmd'.agreed = Impact
        /\ cmd'.seen = cmd.seen /\ Impact' = Impact
    BY <1>1, RemovalImpactStays DEF Inv, Shape, Fresh, Impact, Asked
  <2> QED
    BY <1>1, <2>1, <2>2, RemovalImpactStays
    DEF Inv, Shape, DryInv, ConsentInv, RemovalInv, OnlyLocal, BeforePrompt
<1>2. CASE Usage \/ (cmd' = Ended("cancelled", {}) /\ OnlyLocal)
  BY <1>2, FailInv, EndingInv
<1> QED
  BY <1>1, <1>2 DEF Confirm

\* A mutating request of a command that asks: what it asks for is of what the
\* prompt has shown.
LEMMA SentInv ==
    ASSUME Inv, UNCHANGED <<line, moves>>, line.kind \in Asking \ {"aclsRemove"}, ~line.dry,
           cmd.pc \notin BeforePrompt \cup {"ended"},
           NEW asked, NEW reply, DOMAIN reply \subseteq Impact,
           NEW pc, pc \notin BeforePrompt, Sent(asked, reply, pc)
    PROVE  Inv'
<1>1. /\ DOMAIN cmd' = DOMAIN cmd /\ cmd'.agreed = cmd.agreed /\ cmd'.seen = cmd.seen
      /\ cmd'.pc \in {pc, "lost"} /\ effects' \subseteq effects \cup DOMAIN reply
  BY DEF Inv, Shape, Fresh, Sent
<1>2. Impact' = Impact /\ cmd'.pc \notin BeforePrompt /\ UNCHANGED BeforePrompt
  BY <1>1 DEF Impact, Asked, BeforePrompt
<1> QED
  BY <1>1, <1>2 DEF Inv, Shape, DryInv, ConsentInv, RemovalInv

\* Connect and the reads before the prompt.
LEMMA CallInv ==
    ASSUME Inv, UNCHANGED <<line, moves>>, line.kind # "aclsRemove",
           NEW pc, NEW seen, Call(pc, seen), pc \notin Committed,
           line.dry => line.kind # "alter",
           line.kind \in Asking /\ ~line.dry =>
             \/ cmd.pc \in BeforePrompt /\ pc \in BeforePrompt
             \/ /\ cmd.pc \notin BeforePrompt \cup {"ended"} /\ pc \notin BeforePrompt
                /\ seen = cmd.seen
    PROVE  Inv'
<1>1. CASE Fail
  BY <1>1, FailInv
<1>2. CASE cmd' = [cmd EXCEPT !.pc = pc, !.seen = seen] /\ OnlyLocal
  <2>1. /\ DOMAIN cmd' = DOMAIN cmd /\ cmd'.agreed = cmd.agreed
        /\ cmd'.pc = pc /\ cmd'.seen = seen
    BY <1>2 DEF Inv, Shape, Fresh
  <2> QED
    BY <1>2, <2>1, UnaskedInv, AskingInv DEF OnlyLocal
<1> QED
  BY <1>1, <1>2 DEF Call

LEMMA TopicsKeepInv ==
    ASSUME Inv, TopicsNext, UNCHANGED <<line, moves>>
    PROVE  Inv'
<1> USE DEF At, TopicActions
<1>0. DOMAIN cmd = DOMAIN Fresh
  BY DEF Inv, Shape
<1>1. CASE TopicsStart
  <2>1. CASE Fail
    BY <2>1, FailInv
  <2>2. CASE PlanHolds /\ Goto("connect")
    <3>1. line.dry => line.kind # "alter"
      BY SMTT(20), <2>2 DEF PlanHolds, CheckArgs, Flags, Takes
    <3> QED
      BY <1>0, <1>1, <2>2, <3>1, UnaskedInv, AskingInv
      DEF TopicsStart, Goto, OnlyLocal, Fresh, Asking, Asks, BeforePrompt, AskFirst, Committed
  <2> QED
    BY <1>1, <2>1, <2>2 DEF TopicsStart
<1>2. CASE Connect(TopicActions)
  <2>1. line.dry => line.kind # "alter"
    BY <1>2 DEF Inv, DryInv, Connect
  <2> QED
    BY <1>2, <2>1, CallInv DEF Connect, Asking, Asks, BeforePrompt, AskFirst, Committed
<1>3. CASE ListTopics
  <2>1. CASE Fail \/ \E rows, failed : Report(rows, failed)
    BY <2>1, FailInv, ReportInv
  <2>2. CASE /\ ~line.dry /\ OnlyLocal /\ line.kind # "list"
             /\ cmd' = [cmd EXCEPT !.seen = Resolve(Existing),
                          !.pc = IF line.kind = "delete" THEN "prompt" ELSE "describe"]
    BY <1>0, <1>3, <2>2, UnaskedInv, AskingInv
    DEF ListTopics, OnlyLocal, Fresh, Asking, Asks, BeforePrompt, AskFirst, Committed
  <2> QED
    BY Zenon, <1>3, <2>1, <2>2 DEF ListTopics
<1>4. CASE CreateDryRun \/ CreateAnswered \/ TopicsAnswered
  <2>1. Fail \/ \E rows, failed : Report(rows, failed)
    BY Zenon, <1>4 DEF CreateDryRun, CreateAnswered, TopicsAnswered, Created
  <2> QED
    BY <2>1, FailInv, ReportInv
<1>5. CASE CreateTopics
  BY <1>0, <1>5, UnaskedInv DEF CreateTopics, Sent, Fresh, Asking, Asks
<1>6. CASE AlterDescribe
  <2>1. CASE Report({}, TRUE)
    BY Zenon, <2>1, ReportInv
  <2>2. CASE OnlyLocal /\ cmd' = [cmd EXCEPT !.pc = "grow", !.seen = [n \in cmd.seen |-> cluster[n]]]
    BY <1>0, <1>6, <2>2, UnaskedInv DEF AlterDescribe, Fresh, Asking, Asks, Inv, DryInv
  <2> QED
    BY Zenon, <1>6, <2>1, <2>2 DEF AlterDescribe
<1>7. CASE CreatePartitions
  BY <1>0, <1>7, UnaskedInv DEF CreatePartitions, Sent, Fresh, Asking, Asks, Inv, DryInv
<1>8. CASE ConfirmDelete
  <2>1. Impact = cmd.seen
    BY <1>8 DEF ConfirmDelete, Impact
  <2> QED
    BY <1>8, <2>1, ConfirmInv DEF ConfirmDelete, Asking, BeforePrompt, AskFirst
<1>9. CASE DeleteTopics
  <2>1. PICK reply \in [cmd.seen -> {"ok", "refused"}] : Sent(cmd.seen, reply, "deleted")
    BY <1>9 DEF DeleteTopics
  <2>2. DOMAIN reply \subseteq Impact
    BY <1>9, <2>1 DEF DeleteTopics, Impact
  <2> QED
    BY <1>9, <2>1, <2>2, SentInv
    DEF DeleteTopics, Asking, BeforePrompt, AskFirst, Inv, DryInv, Committed
<1> QED
  BY <1>1, <1>2, <1>3, <1>4, <1>5, <1>6, <1>7, <1>8, <1>9 DEF TopicsNext

\* The commands of TopicDescribe and Configs ask nothing and have no dry run.
LEMMA DescribeKeepsInv ==
    ASSUME Inv, DescribeNext, UNCHANGED <<line, moves>>
    PROVE  Inv'
<1>1. line.kind = "describe" /\ effects' = effects
  BY Zenon DEF DescribeNext, DescribeStart, Connect, DescribeListing, DescribeTopics,
         DescribeTopicConfigs, DescribeLive, ListReassignments, At, Goto, Call, Fail, Report,
         OnlyLocal
<1>2. /\ DOMAIN cmd' = DOMAIN cmd
      /\ cmd'.pc \in {"connect", "connected", "descriptions", "configs", "brokers",
                      "reassignments", "ended"}
  <2>1. DOMAIN cmd = DOMAIN Fresh
    BY DEF Inv, Shape
  <2>2. CASE DescribeStart \/ Connect({"describe"}) \/ DescribeListing
    BY Zenon, <2>1, <2>2 DEF DescribeStart, Connect, DescribeListing, Goto, Call, Fail, Report, Ended,
                      Fresh
  <2>3. CASE DescribeTopics \/ DescribeTopicConfigs \/ DescribeLive
    BY Zenon, <2>1, <2>3 DEF DescribeTopics, DescribeTopicConfigs, DescribeLive, Call, Fail, Report,
                      Ended, Fresh
  <2>4. CASE ListReassignments
    BY ZenonT(60), <2>1, <2>4 DEF ListReassignments, Fail, Report, Ended, Fresh
  <2> QED
    BY <2>2, <2>3, <2>4 DEF DescribeNext
<1>3. cmd'.pc \notin Committed
  BY <1>2 DEF Committed
<1> QED
  BY <1>1, <1>2, <1>3, UnaskedInv DEF Asking, Asks

LEMMA ConfigsKeepInv ==
    ASSUME Inv, ConfigsNext, UNCHANGED <<line, moves>>
    PROVE  Inv'
<1>1. line.kind \in ConfigActions
  BY Zenon DEF ConfigsNext, ConfigsStart, Connect, AlterReads, NothingToAlter, AlterConfigs,
         AlterAnswered, DescribeList, DescribeEach, DescribeQuotas, DescribeScram, At,
         ConfigActions
<1>2. DOMAIN cmd' = DOMAIN cmd
  BY Zenon DEF ConfigsNext, ConfigsStart, Connect, AlterReads, NothingToAlter, AlterConfigs,
         AlterAnswered, DescribeList, DescribeEach, DescribeQuotas, DescribeScram, Sent, Goto,
         Call, Fail, Report, Ended, Inv, Shape, Fresh
<1>3. CASE line.kind = "configsAlter"
  BY <1>2, <1>3, NoDryRun, UnaskedInv DEF Inv, Shape, Asking, Asks
<1>4. CASE line.kind = "configsDescribe"
  <2>1. effects' = effects /\ cmd'.pc \notin Committed
    BY ZenonT(60), <1>4
    DEF ConfigsNext, ConfigsStart, Connect, AlterReads, NothingToAlter, AlterConfigs,
        AlterAnswered, DescribeList, DescribeEach, DescribeQuotas, DescribeScram, At, Goto,
        Call, Fail, Report, Ended, OnlyLocal, Inv, Shape, Fresh, Committed
  <2> QED
    BY <1>2, <1>4, <2>1, UnaskedInv DEF Asking, Asks
<1> QED
  BY <1>1, <1>3, <1>4 DEF ConfigActions

LEMMA AclsKeepInv ==
    ASSUME Inv, AclsNext, UNCHANGED <<line, moves>>
    PROVE  Inv'
<1> USE DEF At, AclActions
<1>0. DOMAIN cmd = DOMAIN Fresh
  BY DEF Inv, Shape
<1>1. CASE line.kind # "aclsRemove"
  <2>1. line.kind \notin Asking /\ line.kind # "alter"
    BY Zenon, <1>1 DEF AclsNext, AclsStart, ConfirmRemoval, Connect, AclsFinish, AddStep, CreateAcls,
                AddAnswered, RemoveDryRun, DeleteAcls, RemoveAnswered, ListStep, Asking, Asks
  <2>2. ASSUME NEW rows, Stop(rows)
        PROVE  Inv'
    BY ZenonT(60), <2>2, FailInv, ReportInv DEF Stop
  <2>3. ASSUME NEW r, NEW rows, StepDone(r, rows)
        PROVE  Inv'
    BY <1>0, <2>1, <2>3, UnaskedInv DEF StepDone, OnlyLocal, Fresh, Committed
  <2>4. CASE AclsStart
    <3>1. CASE Usage
      BY <3>1, FailInv
    <3>2. CASE ~Usage
      <4>1. PICK seen : OnlyLocal /\ cmd' = [cmd EXCEPT !.pc = "connect", !.seen = seen]
        BY Zenon, <1>1, <2>4, <3>2 DEF AclsStart
      <4> QED
        BY <1>0, <2>1, <4>1, UnaskedInv DEF OnlyLocal, Fresh, Committed
    <3> QED
      BY <3>1, <3>2
  <2>5. CASE Connect(AclActions)
    BY <1>1, <2>1, <2>5, CallInv DEF Connect, Committed
  <2>6. CASE AclsFinish \/ AddAnswered
    BY Zenon, <2>2, <2>3, <2>6, ReportInv DEF AclsFinish, AddAnswered
  <2>7. CASE AddStep
    <3>1. ASSUME NEW r, NEW absent, ~line.dry, OnlyLocal,
                 cmd' = [cmd EXCEPT !.pc = "create", !.seen.absent = absent, !.seen.at = r]
          PROVE  Inv'
      BY <1>0, <2>1, <3>1, UnaskedInv DEF Fresh
    <3> QED
      BY Zenon, <2>2, <2>3, <2>7, <3>1 DEF AddStep
  <2>8. CASE CreateAcls
    BY <1>0, <2>1, <2>8, UnaskedInv DEF CreateAcls, Sent, Fresh, Inv, DryInv, Committed
  <2>9. CASE ListStep
    BY Zenon, <2>3, <2>9, FailInv, ReportInv DEF ListStep
  <2> QED
    BY ZenonT(60), <1>1, <2>4, <2>5, <2>6, <2>7, <2>8, <2>9
    DEF AclsNext, ConfirmRemoval, RemoveDryRun, DeleteAcls, RemoveAnswered
<1>2. CASE line.kind = "aclsRemove"
  <2> USE <1>2
  <2>0. BeforePrompt = {"start", "prompt"} /\ BeforePrompt' = {"start", "prompt"}
    BY DEF BeforePrompt, AskFirst
  <2>1. Impact = RemovalImpact /\ Impact' = Impact /\ ResourceAcls' = ResourceAcls
    BY RemovalImpactStays DEF Impact
  <2>2. CASE AclsStart
    <3>1. CASE Usage
      BY <3>1, FailInv
    <3>2. CASE ~Usage
      <4>2. /\ cmd.pc = "start" /\ OnlyLocal
            /\ cmd' = [cmd EXCEPT
                 !.pc = IF line.dry THEN "connect" ELSE "prompt",
                 !.seen = [todo |-> DOMAIN ResourceAcls, done |-> {}, at |-> TheCluster,
                           absent |-> {}]]
        BY Zenon, <2>2, <3>2 DEF AclsStart
      <4>1. /\ DOMAIN cmd' = DOMAIN cmd /\ cmd'.agreed = cmd.agreed
            /\ cmd'.pc = IF line.dry THEN "connect" ELSE "prompt"
            /\ DOMAIN cmd'.seen = {"todo", "done", "at", "absent"}
            /\ cmd'.seen.todo = DOMAIN ResourceAcls
            /\ effects' = effects /\ cluster' = cluster /\ cmd.pc = "start"
        BY <1>0, <4>2 DEF OnlyLocal, Fresh
      <4> QED
        BY <2>0, <2>1, <4>1
        DEF Inv, Shape, DryInv, ConsentInv, RemovalInv, Asking, Committed
    <3> QED
      BY <3>1, <3>2
  <2>3. CASE ConfirmRemoval
    BY <2>0, <2>1, <2>3, ConfirmInv DEF ConfirmRemoval, Asking
  <2>4. ASSUME OnlyLocal, DOMAIN cmd' = DOMAIN cmd, cmd'.agreed = cmd.agreed,
               cmd.pc \in {"connect", "connected", "removed", "lost"}, cmd'.pc = "connected",
               DOMAIN cmd'.seen = DOMAIN cmd.seen, cmd'.seen.todo \subseteq cmd.seen.todo
        PROVE  Inv'
    BY <2>0, <2>1, <2>4
    DEF OnlyLocal, Inv, Shape, DryInv, ConsentInv, RemovalInv, Asking, Committed
  <2>5. CASE Connect(AclActions)
    BY Zenon, <1>0, <2>4, <2>5, FailInv DEF Connect, Call, Fresh
  <2>6. CASE AclsFinish
    BY Zenon, <2>6, ReportInv DEF AclsFinish
  <2>7. ASSUME NEW rows, Stop(rows)
        PROVE  Inv'
    BY Zenon, <2>7, FailInv, ReportInv DEF Stop
  <2>8. ASSUME cmd.pc \in {"connected", "removed"}, NEW r, NEW rows, StepDone(r, rows)
        PROVE  Inv'
    <3>1. DOMAIN cmd.seen = {"todo", "done", "at", "absent"}
      BY <2>8 DEF Inv, RemovalInv
    <3> QED
      BY Zenon, <1>0, <2>4, <2>8, <3>1 DEF StepDone, Fresh
  <2>9. CASE RemoveDryRun
    BY ZenonT(60), <2>7, <2>8, <2>9 DEF RemoveDryRun
  <2>10. CASE RemoveAnswered
    BY <2>7, <2>8, <2>10 DEF RemoveAnswered
  <2>11. CASE DeleteAcls
    <3> DEFINE Filters(r) == IF ResourceAcls[r] = {} THEN {{}} ELSE {{e} : e \in ResourceAcls[r]}
               Removed(r, carried) == {b \in cluster : \E es \in carried : Selects(r, es, b)}
               Removes(r, carried) ==
                 /\ cluster' = cluster \ Removed(r, carried)
                 /\ effects' = effects \cup Removed(r, carried)
                 /\ \E pc \in {"removed", "lost"} :
                      cmd' = [cmd EXCEPT !.pc = pc, !.asked = Removed(r, carried), !.seen.at = r,
                                !.reply = [all |-> carried = Filters(r)]]
    <3>1. PICK r \in cmd.seen.todo : \E carried \in SUBSET Filters(r) : Removes(r, carried)
      BY Zenon, <2>11 DEF DeleteAcls
    <3>7. PICK carried \in SUBSET Filters(r) : Removes(r, carried)
      BY Zenon, <3>1
    <3>2. /\ ~line.dry /\ cmd.agreed = RemovalImpact /\ effects \subseteq cmd.agreed
          /\ cluster \subseteq Bindings /\ r \in DOMAIN ResourceAcls
          /\ DOMAIN cmd.seen = {"todo", "done", "at", "absent"}
      BY <2>0, <2>1, <2>11, <3>1 DEF DeleteAcls, Inv, ConsentInv, RemovalInv, Asking
    <3>3. Removed(r, carried) \subseteq RemovalImpact
      BY SMTT(20), <3>7, <3>2 DEF RemovalImpact, Selects
    <3>4. /\ DOMAIN cmd' = DOMAIN cmd /\ cmd'.agreed = cmd.agreed
          /\ cmd'.pc \in {"removed", "lost"}
          /\ DOMAIN cmd'.seen = DOMAIN cmd.seen /\ cmd'.seen.todo = cmd.seen.todo
      BY SMTT(20), <1>0, <3>7, <3>2 DEF Fresh
    <3>5. cluster' \subseteq Bindings /\ effects' \subseteq cmd'.agreed
      BY <3>7, <3>2, <3>3, <3>4
    <3>6. cmd.pc \notin {"start", "ended"} /\ cmd'.agreed = Impact'
      BY <2>1, <2>11, <3>2, <3>4 DEF DeleteAcls
    <3> QED
      BY <2>0, <2>1, <3>2, <3>4, <3>5, <3>6 DEF Inv, Shape, DryInv, ConsentInv, RemovalInv
  <2> QED
    BY <2>2, <2>3, <2>5, <2>6, <2>9, <2>10, <2>11
    DEF AclsNext, AddStep, CreateAcls, AddAnswered, ListStep
<1> QED
  BY <1>1, <1>2

LEMMA TransactionsKeepInv ==
    ASSUME Inv, TransactionsNext, UNCHANGED <<line, moves>>
    PROVE  Inv'
<1> USE DEF At, TransactionActions
<1>0. DOMAIN cmd = DOMAIN Fresh
  BY DEF Inv, Shape
<1>1. CASE TransactionsStart
  <2>1. CASE Fail
    BY <2>1, FailInv
  <2>2. CASE Goto(IF line.kind = "forceTerminate" /\ ~line.dry THEN "prompt" ELSE "connect")
    BY <1>0, <1>1, <2>2, UnaskedInv, AskingInv
    DEF TransactionsStart, Goto, OnlyLocal, Fresh, Asking, Asks, BeforePrompt, AskFirst, Committed
  <2> QED
    BY <1>1, <2>1, <2>2 DEF TransactionsStart
<1>2. CASE Connect(TransactionActions)
  BY <1>2, CallInv DEF Connect, Asking, Asks, BeforePrompt, AskFirst, Committed
<1>3. CASE line.kind \in {"transactionsList", "transactionsDescribe", "describeProducers",
                          "findHanging"}
  <2>0. line.kind \notin Asking /\ line.kind # "alter" /\ line.kind # "aclsRemove"
    BY <1>3 DEF Asking, Asks
  <2>1. CASE ListBegin
    BY <2>0, <2>1, CallInv DEF ListBegin, Committed
  <2>2. CASE ListOnBroker \/ SearchPartitions
    <3>1. ASSUME OnlyLocal, DOMAIN cmd' = DOMAIN cmd, cmd'.pc \in {"list", "search"}
          PROVE  Inv'
      BY <2>0, <3>1, UnaskedInv DEF OnlyLocal, Committed
    <3>2. CASE ListOnBroker
      BY Zenon, <1>0, <3>1, <3>2 DEF ListOnBroker, Fresh
    <3>3. CASE SearchPartitions
      BY Zenon, <1>0, <2>0, <3>1, <3>3, CallInv DEF SearchPartitions, Fresh, Committed
    <3> QED
      BY <2>2, <3>2, <3>3
  <2>3. CASE ListDone \/ ProducersReported \/ HangingReported
    BY Zenon, <2>3, FailInv, ReportInv DEF ListDone, ProducersReported, HangingReported
  <2>4. CASE DescribeIds
    <3>1. ASSUME NEW row, OnlyLocal, cmd.pc = "connected",
                 cmd' = [cmd EXCEPT !.rows = @ \cup {row}]
          PROVE  Inv'
      BY <1>0, <2>0, <3>1, UnaskedInv DEF OnlyLocal, Fresh, Committed
    <3> QED
      BY ZenonT(60), <2>4, <3>1, FailInv, ReportInv DEF DescribeIds
  <2>5. CASE OpenCandidates \/ DescribeTransaction
    <3>1. ASSUME NEW seen, Call("search", seen) \/ Call("describe", seen)
          PROVE  Inv'
      BY <2>0, <3>1, CallInv DEF Committed
    <3> QED
      BY Zenon, <2>5, <3>1 DEF OpenCandidates, DescribeTransaction
  <2>6. CASE ListByProducers
    <3>1. ASSUME NEW seen, Call("describe", seen)
          PROVE  Inv'
      BY <2>0, <3>1, CallInv DEF Committed
    <3> QED
      BY Zenon, <2>6, <3>1, ReportInv DEF ListByProducers
  <2> QED
    BY Zenon, <1>1, <1>2, <1>3, <2>1, <2>2, <2>3, <2>4, <2>5, <2>6
    DEF TransactionsNext, AbortSpec, ConfirmAbort, AbortTransaction, ConfirmTermination,
        TerminateDryRun, ForceTerminate, TransactionAnswered
<1>4. CASE AbortSpec
  <2>1. CASE Fail \/ Report({Row(line.target, TRUE)}, FALSE)
    BY Zenon, <2>1, FailInv, ReportInv
  <2>2. CASE ~line.dry /\ Goto("prompt")
    BY <1>0, <1>4, <2>2, AskingInv
    DEF AbortSpec, Goto, Fresh, Asking, BeforePrompt, AskFirst
  <2> QED
    BY Zenon, <1>4, <2>1, <2>2 DEF AbortSpec
<1>5. CASE ConfirmAbort \/ ConfirmTermination
  <2>1. Impact = IF line.kind = "abort" THEN {line.target} ELSE {line.target[2]}
    BY <1>5 DEF ConfirmAbort, ConfirmTermination, Impact
  <2> QED
    BY <1>5, <2>1, ConfirmInv
    DEF ConfirmAbort, ConfirmTermination, Asking, BeforePrompt, AskFirst
<1>6. CASE AbortTransaction
  <2>1. PICK answer \in {"ok", "refused"} :
          Sent({line.target}, [x \in {line.target} |-> answer], "aborted")
    BY <1>6 DEF AbortTransaction
  <2>2. Impact = {line.target}
    BY <1>6 DEF AbortTransaction, Impact
  <2> QED
    BY <1>6, <2>1, <2>2, SentInv
    DEF AbortTransaction, Asking, BeforePrompt, AskFirst, Inv, DryInv, Committed
<1>7. CASE ForceTerminate
  <2>1. PICK answer \in {"ok", "refused"} :
          Sent({line.target[2]}, [x \in {line.target[2]} |-> answer], "aborted")
    BY <1>7 DEF ForceTerminate
  <2>2. Impact = {line.target[2]}
    BY <1>7 DEF ForceTerminate, Impact
  <2> QED
    BY <1>7, <2>1, <2>2, SentInv DEF ForceTerminate, Asking, BeforePrompt, AskFirst
<1>8. CASE TerminateDryRun \/ TransactionAnswered
  BY Zenon, <1>8, FailInv, ReportInv DEF TerminateDryRun, TransactionAnswered
<1> QED
  BY Zenon, <1>1, <1>2, <1>3, <1>4, <1>5, <1>6, <1>7, <1>8
  DEF TransactionsNext, ListBegin, ListOnBroker, ListDone, DescribeIds, SearchPartitions,
      OpenCandidates, ProducersReported, ListByProducers, DescribeTransaction, HangingReported

LEMMA ReplicasKeepInv ==
    ASSUME Inv, ReplicasNext, UNCHANGED <<line, moves>>
    PROVE  Inv'
<1> USE DEF At, ReplicaActions
<1>0. DOMAIN cmd = DOMAIN Fresh
  BY DEF Inv, Shape
<1>1. CASE ReplicasStart
  <2>1. CASE Fail
    BY <2>1, FailInv
  <2>2. CASE Goto("connect")
    BY <1>0, <1>1, <2>2, UnaskedInv, AskingInv
    DEF ReplicasStart, Goto, OnlyLocal, Fresh, Asking, Asks, BeforePrompt, AskFirst, Committed
  <2> QED
    BY <1>1, <2>1, <2>2 DEF ReplicasStart
<1>2. CASE Connect(ReplicaActions)
  BY <1>2, CallInv DEF Connect, Asking, Asks, BeforePrompt, AskFirst, Committed
<1>3. CASE PlannedRecords \/ RecordsDeleted \/ LogDirsDryRun \/ MovesAnswered \/ DescribeLogDirs
             \/ ElectionAnswered \/ OffsetsResult
  <2>1. Fail \/ \E rows, failed : Report(rows, failed)
    BY Zenon, <1>3 DEF PlannedRecords, RecordsDeleted, LogDirsDryRun, MovesAnswered, Moved,
                DescribeLogDirs, ElectionAnswered, OffsetsResult
  <2> QED
    BY <2>1, FailInv, ReportInv
<1>4. CASE BeforeDelete \/ BeforeMove
  BY <1>0, <1>4, AskingInv
  DEF BeforeDelete, BeforeMove, Goto, Fresh, Asking, BeforePrompt, AskFirst
<1>5. CASE ConfirmRecords
  <2>1. Impact = Asked
    BY <1>5 DEF ConfirmRecords, Impact
  <2> QED
    BY <1>5, <2>1, ConfirmInv DEF ConfirmRecords, Asking, BeforePrompt, AskFirst
<1>6. CASE DeleteRecords
  <2>1. PICK reply \in [Asked -> {"ok", "refused", "missing"}] : Sent(Asked, reply, "answered")
    BY <1>6 DEF DeleteRecords
  <2>2. DOMAIN reply \subseteq Impact
    BY <1>6, <2>1 DEF DeleteRecords, Impact
  <2> QED
    BY <1>6, <2>1, <2>2, SentInv
    DEF DeleteRecords, Asking, BeforePrompt, AskFirst, Inv, DryInv, Committed
<1>7. CASE DescribeCurrent
  BY <1>7, CallInv, FailInv DEF DescribeCurrent, Asking, BeforePrompt, AskFirst, Committed
<1>8. CASE ConfirmMoves
  <2>1. Impact = Range(line.replicaMoves)
    BY <1>8 DEF ConfirmMoves, Impact
  <2> QED
    BY <1>8, <2>1, ConfirmInv DEF ConfirmMoves, Asking, BeforePrompt, AskFirst
<1>9. CASE AlterReplicaLogDirs
  <2>1. PICK reply \in [Assignments -> {"ok", "refused"}] :
          Sent(Range(line.replicaMoves), reply, "moved")
    BY <1>9 DEF AlterReplicaLogDirs
  <2>2. Assignments \subseteq Impact
    BY <1>9 DEF AlterReplicaLogDirs, Impact, Assignments
  <2>3. DOMAIN reply \subseteq Impact
    BY <2>1, <2>2
  <2> QED
    BY <1>9, <2>1, <2>3, SentInv
    DEF AlterReplicaLogDirs, Asking, BeforePrompt, AskFirst, Inv, DryInv, Committed
<1>10. CASE ElectLeaders
  <2>1. PICK asked, reply : Sent(asked, reply, "elected")
    BY <1>10 DEF ElectLeaders
  <2> QED
    BY <1>0, <1>10, <2>1, NoDryRun, UnaskedInv
    DEF ElectLeaders, Sent, Fresh, Asking, Asks, Inv, Shape
<1>11. CASE ListPartitions \/ SelectPartitions
  <2>1. ASSUME NEW seen, Call("selected", seen) \/ Call("offsets", seen),
               line.kind = "getOffsets"
        PROVE  Inv'
    BY <2>1, CallInv DEF Asking, Asks, Committed
  <2> QED
    BY <1>11, <2>1, FailInv DEF ListPartitions, SelectPartitions
<1> QED
  BY <1>1, <1>2, <1>3, <1>4, <1>5, <1>6, <1>7, <1>8, <1>9, <1>10, <1>11 DEF ReplicasNext

LEMMA ClusterOpsKeepInv ==
    ASSUME Inv, ClusterOpsNext, UNCHANGED <<line, moves>>
    PROVE  Inv'
<1> USE DEF At, ClusterActions, UnitActions, FeatureActions, ClusterReads
<1>0. DOMAIN cmd = DOMAIN Fresh
  BY DEF Inv, Shape
<1>1. CASE UnitStart
  <2>1. CASE Fail \/ Report({Row(line.target, TRUE)}, FALSE)
    BY Zenon, <2>1, FailInv, ReportInv
  <2>2. CASE /\ line.dry => line.kind # "removeController"
             /\ Goto(IF line.kind \in AsksFirst THEN "prompt" ELSE "connect")
    BY <1>0, <1>1, <2>2, UnaskedInv, AskingInv
    DEF UnitStart, Goto, OnlyLocal, Fresh, Asking, Asks, AsksFirst, BeforePrompt, AskFirst,
        Committed
  <2> QED
    BY Zenon, <1>1, <2>1, <2>2 DEF UnitStart
<1>2. CASE Connect(ClusterActions)
  BY <1>2, CallInv DEF Connect, Asking, Asks, BeforePrompt, AskFirst, Committed
<1>3. CASE UnitDryRun \/ UnitAnswered \/ FeaturesAnswered \/ FeaturesDescribe \/ ReadReport
  <2>1. Fail \/ \E rows, failed : Report(rows, failed)
    BY Zenon, <1>3 DEF UnitDryRun, UnitAnswered, FeaturesAnswered, FeaturesDescribe, ReadReport
  <2> QED
    BY <2>1, FailInv, ReportInv
<1>4. CASE UnitConnected
  BY <1>0, <1>4, UnaskedInv, AskingInv
  DEF UnitConnected, Goto, Fresh, Asking, Asks, AsksFirst, BeforePrompt, AskFirst
<1>5. CASE ConfirmUnit
  <2>1. Impact = {line.target}
    BY <1>5 DEF ConfirmUnit, Asks, Impact
  <2> QED
    BY <1>5, <2>1, ConfirmInv
    DEF ConfirmUnit, Asking, Asks, AsksFirst, BeforePrompt, AskFirst
<1>6. CASE UnitRequest
  <2>1. PICK answer \in {"ok", "refused", "unsupported"} :
          Sent({line.target}, [x \in {line.target} |-> answer], "answered")
    BY <1>6 DEF UnitRequest
  <2>2. ~line.dry
    BY <1>6 DEF UnitRequest, Inv, DryInv, Committed
  <2>3. CASE line.kind \in Asks
    <3>1. Impact = {line.target}
      BY <2>3 DEF Asks, Impact
    <3> QED
      BY <1>6, <2>1, <2>2, <2>3, <3>1, SentInv
      DEF UnitRequest, Asking, Asks, BeforePrompt, AskFirst
  <2>4. CASE line.kind \notin Asks
    BY <1>0, <1>6, <2>1, <2>2, <2>4, UnaskedInv DEF UnitRequest, Sent, Fresh, Asking
  <2> QED
    BY <2>3, <2>4
<1>7. CASE FeaturesStart \/ ReadStart
  <2>1. Fail \/ Goto("connect")
    BY <1>7 DEF FeaturesStart, ReadStart
  <2> QED
    BY <1>0, <1>7, <2>1, FailInv, UnaskedInv
    DEF FeaturesStart, ReadStart, Goto, OnlyLocal, Fresh, Asking, Asks, Committed
<1>8. CASE CheckDependencies
  <2>1. Goto("update") \/ Call("update", cmd.seen) \/ Fail
    BY <1>8 DEF CheckDependencies
  <2> QED
    BY <1>0, <1>8, <2>1, FailInv, CallInv, UnaskedInv
    DEF CheckDependencies, Goto, OnlyLocal, Fresh, Asking, Asks, Committed
<1>9. CASE UpdateFeatures
  <2>1. CASE line.dry
    <3>1. PICK next \in {"updated", "lost"}, answer \in {"ok", "refused"} :
            /\ OnlyLocal
            /\ cmd' = [cmd EXCEPT !.pc = next, !.reply = [f \in Updates |-> answer]]
      BY Zenon, <1>9, <2>1 DEF UpdateFeatures
    <3> QED
      BY <1>0, <1>9, <3>1, UnaskedInv
      DEF UpdateFeatures, OnlyLocal, Fresh, Asking, Asks, Committed
  <2>2. CASE ~line.dry
    <3>1. PICK reply : Sent(Updates, reply, "updated")
      BY <1>9, <2>2 DEF UpdateFeatures
    <3> QED
      BY <1>0, <1>9, <2>2, <3>1, UnaskedInv DEF UpdateFeatures, Sent, Fresh, Asking, Asks
  <2> QED
    BY <2>1, <2>2
<1> QED
  BY <1>1, <1>2, <1>3, <1>4, <1>5, <1>6, <1>7, <1>8, <1>9 DEF ClusterOpsNext

LEMMA NextInv == Inv /\ [Next]_allVars => Inv'
<1> SUFFICES ASSUME Inv, [Next]_allVars PROVE Inv'
  OBVIOUS
<1>1. CASE Runs
  BY <1>1, TopicsKeepInv, DescribeKeepsInv, AclsKeepInv, ConfigsKeepInv, TransactionsKeepInv,
     ReplicasKeepInv, ClusterOpsKeepInv, FailInv
  DEF Runs, Step, Lost
<1>2. CASE Interrupted
  BY <1>2, EndingInv DEF Interrupted, Cancel
<1>3. CASE Elsewhere \/ Ends \/ UNCHANGED allVars
  <2>1. UNCHANGED <<line, cmd, effects>>
    BY <1>3 DEF Elsewhere, Ends, Stay, allVars, vars
  <2>2. Shape' /\ DryInv' /\ UNCHANGED <<BeforePrompt, Impact, ResourceAcls>>
    BY <2>1, RemovalImpactStays DEF Inv, Shape, DryInv, BeforePrompt, Impact, Asked
  <2>3. ConsentInv'
    BY <2>1, <2>2 DEF Inv, ConsentInv
  <2>4. line.kind = "aclsRemove" /\ cluster \subseteq Bindings => cluster' \subseteq Bindings
    BY <1>3 DEF Elsewhere, Ends, Stay, allVars, vars, Of, AclsElsewhere, TopicActions, ConfigActions,
               TransactionActions, ReplicaActions, ClusterActions, UnitActions, FeatureActions,
               ClusterReads
  <2> QED
    BY <2>1, <2>2, <2>3, <2>4 DEF Inv, RemovalInv
<1> QED
  BY <1>1, <1>2, <1>3 DEF Next

\* safety.rs, for every command line that parses and every cluster: a dry run
\* changes nothing, and a command that asks has changed only what its prompt
\* showed, however often others have changed the cluster meanwhile.
THEOREM Guarded == Spec => []ChangesAreAgreedTo
<1>1. Inv => ChangesAreAgreedTo
  <2> SUFFICES ASSUME Inv PROVE ChangesAreAgreedTo
    OBVIOUS
  <2>1. line.dry => effects = {}
    BY DEF Inv, DryInv
  <2>2. line.kind \in Asking => effects \subseteq cmd.agreed
    BY <2>1 DEF Inv, ConsentInv
  <2> QED
    BY <2>1, <2>2 DEF ChangesAreAgreedTo
<1> QED
  BY <1>1, InitInv, NextInv, PTL DEF Spec

-----------------------------------------------------------------------------
(* Rows and exit codes tell what was done                                  *)

\* The places behind a request that changes the cluster.
Carried == {"created", "altered", "deleted", "done", "refused", "aborted", "answered", "moved",
            "elected", "updated", "added", "removed", "lost"}

DoneOf(reply) == {x \in DOMAIN reply : reply[x] = "ok"}

\* What the answer to a request may say of a thing.
Answers ==
    CASE Of({"create"}) -> {"ok", "exists", "refused"}
      [] Of({"leaderElection"}) -> {"ok", "notNeeded", "refused"}
      [] OTHER -> {"ok", "refused", "missing", "unsupported"}

\* A command with one request has done nothing before it, and then what the
\* answer says, also where the answer is lost.
OneRequestInv ==
    IF cmd.pc \in Carried
    THEN /\ effects = DoneOf(cmd.reply)
         /\ IF Of({"logDirsAlter"})
            THEN cmd.asked = Range(line.replicaMoves) /\ DOMAIN cmd.reply = Assignments
            ELSE DOMAIN cmd.reply = cmd.asked
         /\ Of(UnitActions) => cmd.asked = {line.target}
         /\ cmd.pc = "done" => cmd.asked \subseteq effects
         /\ \A x \in DOMAIN cmd.reply : cmd.reply[x] \in Answers
    ELSE cmd.asked = {} /\ effects = {}

\* acls --add has rows of all that it has done, but for the last request.
AddInv ==
    /\ Reported \subseteq effects
    /\ IF cmd.pc \in Carried
       THEN /\ cmd.asked \subseteq effects \cup DOMAIN cmd.reply
            /\ effects \subseteq Reported \cup DoneOf(cmd.reply)
            /\ DoneOf(cmd.reply) \subseteq effects
       ELSE cmd.asked \subseteq effects /\ effects \subseteq Reported

\* So has acls --remove.
RemoveInv ==
    /\ Reported \subseteq effects /\ cmd.asked \subseteq effects
    /\ effects \subseteq Reported \cup (IF cmd.pc \in Carried THEN cmd.asked ELSE {})

Working ==
    /\ Of({"aclsAdd"}) => AddInv
    /\ Of({"aclsRemove"}) => RemoveInv
    /\ ~Of({"aclsAdd", "aclsRemove"}) => OneRequestInv

TruthInv ==
    /\ RowsAreOfChanges /\ SuccessMeansDone
    /\ cmd.pc # "ended" /\ Changing => Working

LEMMA InitTruth == Init => TruthInv
<1> SUFFICES ASSUME Init PROVE TruthInv OBVIOUS
<1>1. /\ cmd = Fresh /\ line \in Lines /\ effects = {} /\ moves = 0
  BY DEF Init, CommandInit
<1>2. /\ cmd.pc = "start" /\ cmd.exit = "none" /\ cmd.rows = {} /\ cmd.asked = {}
      /\ cmd.reply = <<>> /\ Reported = {}
  BY <1>1 DEF Fresh, Reported
<1>3. TypeOK BY SMTT(20), <1>1, <1>2, MaxMovesIsNat DEF TypeOK, Exits
<1>4. Working BY <1>1, <1>2 DEF Working, AddInv, RemoveInv, OneRequestInv, Carried
<1>5. QED BY <1>2, <1>3, <1>4 DEF TruthInv, RowsAreOfChanges, SuccessMeansDone

\* A command that has not ended has no exit code to be right about.
LEMMA GoesOn ==
    ASSUME TruthInv, UNCHANGED <<line, moves>>, cmd.pc # "ended", cmd'.pc # "ended",
           cmd'.exit = cmd.exit, Changing => Working'
    PROVE  TruthInv'
<1>1. TypeOK /\ cmd.exit = "none" BY DEF TruthInv, RowsAreOfChanges, TypeOK
<1>2. TypeOK' BY <1>1 DEF TypeOK, Exits
<1>3. Changing' = Changing BY DEF Changing
<1>4. QED BY <1>1, <1>2, <1>3 DEF TruthInv, RowsAreOfChanges, SuccessMeansDone

\* What the end of a command has to be right about.
OkOf(rows) == {r.what : r \in {x \in rows : x.ok}}

LEMMA EndTruth ==
    ASSUME Inv, TruthInv, UNCHANGED <<line, moves>>, OnlyLocal, cmd.pc # "ended",
           NEW exit \in Exits \ {"none"}, NEW rows, cmd' = Ended(exit, rows),
           exit \in {"usage", "cancelled"} => rows = {},
           Changing => \A x \in OkOf(rows) : x \in effects \/ Replaced(x),
           exit = "success" /\ Changing =>
             /\ \A x \in cmd.asked : x \in effects \/ Forgiven(x)
             /\ effects \subseteq OkOf(rows)
    PROVE  TruthInv'
<1>1. /\ cmd'.pc = "ended" /\ cmd'.exit = exit /\ cmd'.rows = rows
      /\ cmd'.asked = cmd.asked /\ cmd'.reply = cmd.reply
  BY DEF Inv, Shape, Fresh, Ended
<1>2. TypeOK' BY <1>1 DEF TruthInv, RowsAreOfChanges, TypeOK, Exits
<1>3. Reported' = OkOf(rows) BY <1>1 DEF Reported, OkOf
<1>4. effects' = effects /\ Changing' = Changing BY DEF OnlyLocal, Changing
<1>5. \A x : Replaced(x)' = Replaced(x) BY SMTT(20), <1>4 DEF Replaced, Of, Assignments
<1>6. \A x : Forgiven(x)' = Forgiven(x) BY <1>1, <1>5 DEF Forgiven, Of, Flags
<1>7. RowsAreOfChanges' BY <1>2, <1>3, <1>4, <1>5 DEF RowsAreOfChanges
<1>8. SuccessMeansDone' BY <1>1, <1>3, <1>4, <1>6 DEF SuccessMeansDone
<1>9. QED BY <1>1, <1>7, <1>8 DEF TruthInv

\* An end without rows and without success.
LEMMA FailTruth ==
    ASSUME Inv, TruthInv, UNCHANGED <<line, moves>>, cmd.pc # "ended",
           \/ Fail \/ Usage
           \/ cmd' = Ended("cancelled", {}) /\ OnlyLocal
    PROVE  TruthInv'
<1>1. OkOf({}) = {} BY DEF OkOf
<1>2. PICK exit \in {"failure", "usage", "cancelled"} : cmd' = Ended(exit, {}) /\ OnlyLocal
  BY DEF Fail, Usage
<1>3. QED BY <1>1, <1>2, EndTruth DEF Exits

LEMMA ReportTruth ==
    ASSUME Inv, TruthInv, UNCHANGED <<line, moves>>, cmd.pc # "ended",
           NEW rows, NEW failed \in BOOLEAN, Report(rows, failed),
           Changing => \A x \in OkOf(rows) : x \in effects \/ Replaced(x),
           ~failed /\ Changing =>
             /\ \A x \in cmd.asked : x \in effects \/ Forgiven(x)
             /\ effects \subseteq OkOf(rows)
    PROVE  TruthInv'
<1>1. CASE cmd' = Ended("failure", {})
  <2>1. Fail BY <1>1 DEF Fail, Report
  <2>2. QED BY <2>1, FailTruth
<1>2. CASE cmd' = Ended(FromFailed(failed), rows)
  <2>1. FromFailed(failed) = IF failed THEN "failure" ELSE "success" BY DEF FromFailed
  <2>2. OnlyLocal BY DEF Report
  <2>3. QED BY <1>2, <2>1, <2>2, EndTruth DEF Exits
<1>3. QED BY <1>1, <1>2 DEF Report

\* The report of a command that only reads, or of a dry run.
LEMMA ReadTruth ==
    ASSUME Inv, TruthInv, UNCHANGED <<line, moves>>, cmd.pc # "ended", ~Changing,
           NEW rows, NEW failed \in BOOLEAN, Report(rows, failed)
    PROVE  TruthInv'
BY ReportTruth

LEMMA ReadGoesOn ==
    ASSUME TruthInv, UNCHANGED <<line, moves>>, cmd.pc # "ended", ~Changing,
           cmd'.pc # "ended", cmd'.exit = cmd.exit
    PROVE  TruthInv'
BY GoesOn

\* A step on the way to the next request.
LEMMA WayTruth ==
    ASSUME TruthInv, UNCHANGED <<line, moves>>, OnlyLocal,
           cmd.pc \notin Carried \cup {"ended"}, cmd'.pc \notin Carried \cup {"ended"},
           cmd'.exit = cmd.exit, cmd'.asked = cmd.asked, cmd'.rows = cmd.rows
    PROVE  TruthInv'
<1>1. Changing => Working BY DEF TruthInv
<1>2. Reported' = Reported /\ effects' = effects BY DEF Reported, OnlyLocal
<1>3. Working => Working'
  BY <1>2 DEF Working, Of, AddInv, RemoveInv, OneRequestInv
<1>4. QED BY <1>1, <1>3, GoesOn

LEMMA GotoTruth ==
    ASSUME Inv, TruthInv, UNCHANGED <<line, moves>>, cmd.pc \notin Carried \cup {"ended"},
           NEW pc, pc \notin Carried \cup {"ended"}, Goto(pc)
    PROVE  TruthInv'
<1>1. /\ cmd'.pc = pc /\ cmd'.exit = cmd.exit /\ cmd'.asked = cmd.asked /\ cmd'.rows = cmd.rows
      /\ OnlyLocal
  BY DEF Inv, Shape, Fresh, Goto
<1>2. QED BY <1>1, WayTruth

LEMMA CallTruth ==
    ASSUME Inv, TruthInv, UNCHANGED <<line, moves>>, cmd.pc \notin Carried \cup {"ended"},
           NEW pc, pc \notin Carried \cup {"ended"}, NEW seen, Call(pc, seen)
    PROVE  TruthInv'
<1>1. CASE Fail BY <1>1, FailTruth
<1>2. CASE cmd' = [cmd EXCEPT !.pc = pc, !.seen = seen] /\ OnlyLocal
  <2>1. /\ cmd'.pc = pc /\ cmd'.exit = cmd.exit /\ cmd'.asked = cmd.asked /\ cmd'.rows = cmd.rows
    BY <1>2 DEF Inv, Shape, Fresh
  <2>2. QED BY <1>2, <2>1, WayTruth
<1>3. QED BY <1>1, <1>2 DEF Call

LEMMA ConnectTruth ==
    ASSUME Inv, TruthInv, UNCHANGED <<line, moves>>, NEW kinds, Connect(kinds)
    PROVE  TruthInv'
BY CallTruth DEF Connect, At, Carried

LEMMA ConfirmTruth ==
    ASSUME Inv, TruthInv, UNCHANGED <<line, moves>>, cmd.pc \notin Carried \cup {"ended"},
           NEW pc, pc \notin Carried \cup {"ended"}, NEW impact, Confirm(impact, pc)
    PROVE  TruthInv'
<1>1. CASE cmd' = [cmd EXCEPT !.pc = pc, !.agreed = impact] /\ OnlyLocal
  <2>1. /\ cmd'.pc = pc /\ cmd'.exit = cmd.exit /\ cmd'.asked = cmd.asked /\ cmd'.rows = cmd.rows
    BY <1>1 DEF Inv, Shape, Fresh
  <2>2. QED BY <1>1, <2>1, WayTruth
<1>2. CASE Usage \/ (cmd' = Ended("cancelled", {}) /\ OnlyLocal) BY <1>2, FailTruth
<1>3. QED BY <1>1, <1>2 DEF Confirm

\* The request of a command with one.
LEMMA SentTruth ==
    ASSUME Inv, TruthInv, UNCHANGED <<line, moves>>, Changing,
           ~Of({"aclsAdd", "aclsRemove"}), cmd.pc \notin Carried \cup {"ended"},
           NEW asked, NEW reply, NEW pc \in Carried, Sent(asked, reply, pc),
           IF Of({"logDirsAlter"})
           THEN asked = Range(line.replicaMoves) /\ DOMAIN reply = Assignments
           ELSE DOMAIN reply = asked,
           Of(UnitActions) => asked = {line.target},
           pc = "done" => asked \subseteq DoneOf(reply),
           \A x \in DOMAIN reply : reply[x] \in Answers
    PROVE  TruthInv'
<1>1. OneRequestInv BY DEF TruthInv, Working
<1>2. /\ cmd'.pc \in {pc, "lost"} /\ cmd'.exit = cmd.exit /\ cmd'.asked = asked
      /\ cmd'.reply = reply /\ effects' = effects \cup DoneOf(reply)
  BY DEF Inv, Shape, Fresh, Sent, DoneOf
<1>3. effects = {} BY <1>1 DEF OneRequestInv
<1>4. cmd'.pc \in Carried /\ cmd'.pc # "ended" BY <1>2 DEF Carried
<1>5. Assignments' = Assignments /\ Answers' = Answers /\ \A a : Of(a)' = Of(a)
  BY DEF Assignments, Answers, Of
<1>6. OneRequestInv' BY <1>2, <1>3, <1>4, <1>5 DEF OneRequestInv
<1>7. Working'
  <2>1. ~Of({"aclsAdd"}) /\ ~Of({"aclsRemove"}) BY DEF Of
  <2>2. ~Of({"aclsAdd"})' /\ ~Of({"aclsRemove"})' BY <2>1 DEF Of
  <2>3. QED BY <1>6, <2>2 DEF Working
<1>8. QED BY <1>2, <1>4, <1>7, GoesOn DEF Carried

\* The rows of an answer.
LEMMA RowFacts == \A what, ok : Row(what, ok).what = what /\ Row(what, ok).ok = ok
BY DEF Row

LEMMA OkOfReply == ASSUME NEW reply PROVE OkOf(RowsOf(reply)) = DoneOf(reply)
<1>1. ASSUME NEW x \in OkOf(RowsOf(reply)) PROVE x \in DoneOf(reply)
  <2>1. PICK r \in RowsOf(reply) : r.ok /\ x = r.what BY DEF OkOf
  <2>2. PICK y \in DOMAIN reply : r = Row(y, reply[y] = "ok") BY <2>1 DEF RowsOf
  <2>3. r.what = y /\ r.ok = (reply[y] = "ok") BY <2>2, RowFacts, Zenon
  <2>4. QED BY Zenon, <2>1, <2>3 DEF DoneOf
<1>2. ASSUME NEW x \in DoneOf(reply) PROVE x \in OkOf(RowsOf(reply))
  <2> DEFINE r == Row(x, reply[x] = "ok")
  <2>1. r \in RowsOf(reply) BY DEF RowsOf, DoneOf
  <2>2. r.what = x /\ r.ok = (reply[x] = "ok") BY RowFacts, Zenon
  <2>3. r.ok BY Zenon, <2>2 DEF DoneOf
  <2> HIDE DEF r
  <2>4. QED BY <2>1, <2>2, <2>3 DEF OkOf
<1>3. QED BY <1>1, <1>2

LEMMA OkOfTrue == ASSUME NEW S PROVE OkOf({Row(x, TRUE) : x \in S}) = S
<1>1. \A x : Row(x, TRUE).what = x /\ Row(x, TRUE).ok BY DEF Row
<1>2. QED BY Zenon, <1>1 DEF OkOf

LEMMA OkOfFalse == ASSUME NEW S PROVE OkOf({Row(x, FALSE) : x \in S}) = {}
<1>1. \A x : ~Row(x, FALSE).ok BY DEF Row
<1>2. QED BY Zenon, <1>1 DEF OkOf

LEMMA OkOfUnion == ASSUME NEW R, NEW S PROVE OkOf(R \cup S) = OkOf(R) \cup OkOf(S)
BY DEF OkOf

\* The report of all that its answer says.
LEMMA AnsweredTruth ==
    ASSUME Inv, TruthInv, UNCHANGED <<line, moves>>, Changing,
           ~Of({"aclsAdd", "aclsRemove", "logDirsAlter"}), cmd.pc \in Carried,
           NEW failed \in BOOLEAN, Report(RowsOf(cmd.reply), failed),
           ~failed => \A x \in DOMAIN cmd.reply : cmd.reply[x] = "ok" \/ Forgiven(x)
    PROVE  TruthInv'
<1>1. cmd.pc # "ended" BY DEF Carried
<1>2. effects = DoneOf(cmd.reply) /\ DOMAIN cmd.reply = cmd.asked
  BY <1>1 DEF TruthInv, Working, OneRequestInv, Of
<1>3. OkOf(RowsOf(cmd.reply)) = DoneOf(cmd.reply) BY OkOfReply
<1>4. QED BY <1>1, <1>2, <1>3, ReportTruth DEF DoneOf

\* Without a row that failed all has been done.
LEMMA AllDone ==
    ASSUME NEW reply, ~AnyFailed(RowsOf(reply)) PROVE \A x \in DOMAIN reply : reply[x] = "ok"
<1>1. ASSUME NEW x \in DOMAIN reply PROVE reply[x] = "ok"
  <2>1. Row(x, reply[x] = "ok") \in RowsOf(reply) BY DEF RowsOf
  <2>2. Row(x, reply[x] = "ok").ok BY <2>1 DEF AnyFailed
  <2>3. QED BY <2>2, RowFacts, Zenon
<1>2. QED BY <1>1

LEMMA AnyFailedType == \A rows : AnyFailed(rows) \in BOOLEAN
BY DEF AnyFailed

\* A report without rows of a command that has sent nothing, or that failed.
LEMMA EmptyTruth ==
    ASSUME Inv, TruthInv, UNCHANGED <<line, moves>>, cmd.pc # "ended",
           NEW failed \in BOOLEAN, Report({}, failed),
           failed \/ (cmd.pc \notin Carried /\ ~Of({"aclsAdd", "aclsRemove"}))
    PROVE  TruthInv'
<1>1. OkOf({}) = {} BY DEF OkOf
<1>2. ~failed /\ Changing => cmd.asked = {} /\ effects = {}
  BY DEF TruthInv, Working, OneRequestInv
<1>3. QED BY <1>1, <1>2, ReportTruth

LEMMA TopicsKeepTruth ==
    ASSUME Inv, TruthInv, TopicsNext, UNCHANGED <<line, moves>>
    PROVE  TruthInv'
<1> USE DEF At, TopicActions
<1>1. CASE TopicsStart
  BY <1>1, GotoTruth, FailTruth DEF TopicsStart, Carried
<1>2. CASE Connect(TopicActions)
  BY <1>2, ConnectTruth
<1>3. CASE ListTopics
  <2>0. cmd.pc = "connected" /\ cmd.pc \notin Carried \cup {"ended"}
    BY <1>3 DEF ListTopics, Carried
  <2>1. CASE Fail
    BY <2>0, <2>1, FailTruth
  <2>2. CASE line.kind = "list" \/ line.dry
    <3>1. ~Changing
      BY <2>2 DEF Changing, Reading
    <3>2. Fail \/ \E rows : \E failed \in BOOLEAN : Report(rows, failed)
      BY ZenonT(60), <1>3, <2>2, AnyFailedType DEF ListTopics
    <3>3. QED
      BY <2>0, <2>1, <3>1, <3>2, ReadTruth
  <2>3. CASE Report({}, FALSE) /\ line.kind # "list"
    BY Zenon, <1>3, <2>0, <2>3, EmptyTruth DEF ListTopics, Of
  <2>4. CASE /\ OnlyLocal
             /\ cmd' = [cmd EXCEPT !.seen = Resolve(Existing),
                          !.pc = IF line.kind = "delete" THEN "prompt" ELSE "describe"]
    <3>1. /\ cmd'.pc \in {"prompt", "describe"} /\ cmd'.exit = cmd.exit
          /\ cmd'.asked = cmd.asked /\ cmd'.rows = cmd.rows
      BY <2>4 DEF Inv, Shape, Fresh
    <3>2. QED
      BY <2>0, <2>4, <3>1, WayTruth DEF Carried
  <2>5. QED
    BY Zenon, <1>3, <2>1, <2>2, <2>3, <2>4 DEF ListTopics
<1>4. CASE CreateDryRun
  <2>1. ~Changing /\ cmd.pc # "ended"
    BY <1>4 DEF CreateDryRun, Changing
  <2>2. Fail \/ \E rows : \E failed \in BOOLEAN : Report(rows, failed)
    BY Zenon, <1>4 DEF CreateDryRun, Created
  <2>3. QED
    BY <2>1, <2>2, FailTruth, ReadTruth
<1>5. CASE CreateTopics
  <2>1. PICK reply \in [line.names -> {"ok", "exists", "refused"}] :
          Sent(line.names, reply, "created")
    BY <1>5 DEF CreateTopics
  <2>2. Answers = {"ok", "exists", "refused"} /\ DOMAIN reply = line.names
    BY <1>5, <2>1 DEF CreateTopics, Answers, Of
  <2>3. QED
    BY <1>5, <2>1, <2>2, SentTruth
    DEF CreateTopics, Of, Changing, Reading, ClusterReads, Carried, UnitActions
<1>6. CASE CreateAnswered
  <2> DEFINE failed == \E n \in DOMAIN cmd.reply :
                         \/ cmd.reply[n] = "refused"
                         \/ cmd.reply[n] = "exists" /\ "ifNotExists" \notin Flags
  <2>1. Report(RowsOf(cmd.reply), failed) /\ cmd.pc = "created" /\ line.kind = "create"
    BY Zenon, <1>6 DEF CreateAnswered, Created
  <2>2. CASE line.dry
    BY Zenon, <2>1, <2>2, ReadTruth DEF Changing
  <2>3. CASE ~line.dry
    <3>1. Changing /\ cmd.pc \in Carried /\ cmd.pc # "ended"
      BY <2>1, <2>3 DEF Changing, Reading, ClusterReads, Carried
    <3>2. \A x \in DOMAIN cmd.reply : cmd.reply[x] \in {"ok", "exists", "refused"}
      BY <2>1, <3>1 DEF TruthInv, Working, OneRequestInv, Of, Answers
    <3>3. ~failed => \A x \in DOMAIN cmd.reply : cmd.reply[x] = "ok" \/ Forgiven(x)
      BY <2>1, <3>2 DEF Forgiven, Of
    <3>4. QED
      BY Zenon, <2>1, <3>1, <3>3, AnsweredTruth DEF Of
  <2>4. QED
    BY <2>2, <2>3
<1>7. CASE AlterDescribe
  <2>0. cmd.pc = "describe" /\ cmd.pc \notin Carried \cup {"ended"}
    BY <1>7 DEF AlterDescribe, Carried
  <2>1. CASE Report({}, TRUE)
    BY Zenon, <2>0, <2>1, EmptyTruth
  <2>2. CASE OnlyLocal /\ cmd' = [cmd EXCEPT !.pc = "grow", !.seen = [n \in cmd.seen |-> cluster[n]]]
    <3>1. /\ cmd'.pc = "grow" /\ cmd'.exit = cmd.exit
          /\ cmd'.asked = cmd.asked /\ cmd'.rows = cmd.rows
      BY <2>2 DEF Inv, Shape, Fresh
    <3>2. QED
      BY <2>0, <2>2, <3>1, WayTruth DEF Carried
  <2>3. QED
    BY Zenon, <1>7, <2>1, <2>2 DEF AlterDescribe
<1>8. CASE CreatePartitions \/ DeleteTopics
  <2>1. PICK names, reply, pc : /\ pc \in {"altered", "deleted"}
                                /\ reply \in [names -> {"ok", "refused"}]
                                /\ Sent(names, reply, pc)
    BY <1>8 DEF CreatePartitions, DeleteTopics
  <2>2. \/ line.kind = "alter" /\ cmd.pc = "grow"
        \/ line.kind = "delete" /\ cmd.pc = "delete"
    BY <1>8 DEF CreatePartitions, DeleteTopics
  <2>3. ~line.dry
    BY <2>2 DEF Inv, DryInv, Committed
  <2>4. Answers = {"ok", "refused", "missing", "unsupported"} /\ DOMAIN reply = names
    BY <2>1, <2>2 DEF Answers, Of
  <2>5. /\ Changing /\ cmd.pc \notin Carried \cup {"ended"} /\ pc \in Carried /\ pc # "done"
        /\ ~Of({"aclsAdd", "aclsRemove"}) /\ ~Of({"logDirsAlter"}) /\ ~Of(UnitActions)
    BY <2>1, <2>2, <2>3 DEF Of, Changing, Reading, ClusterReads, Carried, UnitActions
  <2>6. \A x \in DOMAIN reply : reply[x] \in Answers
    BY <2>1, <2>4
  <2>7. QED
    BY <2>1, <2>4, <2>5, <2>6, SentTruth
<1>9. CASE ConfirmDelete
  BY <1>9, ConfirmTruth DEF ConfirmDelete, Carried
<1>10. CASE TopicsAnswered
  <2>1. /\ Report(RowsOf(cmd.reply), AnyFailed(RowsOf(cmd.reply)))
        /\ line.kind \in {"alter", "delete"} /\ cmd.pc \in {"altered", "deleted"}
    BY <1>10 DEF TopicsAnswered
  <2>2. CASE line.dry
    BY <2>1, <2>2, AnyFailedType, ReadTruth DEF Changing
  <2>3. CASE ~line.dry
    BY <2>1, <2>3, AllDone, AnyFailedType, AnsweredTruth
    DEF Of, Changing, Reading, ClusterReads, Carried
  <2>4. QED
    BY <2>2, <2>3
<1>11. QED
  BY <1>1, <1>2, <1>3, <1>4, <1>5, <1>6, <1>7, <1>8, <1>9, <1>10 DEF TopicsNext

LEMMA DescribeKeepsTruth ==
    ASSUME Inv, TruthInv, DescribeNext, UNCHANGED <<line, moves>>
    PROVE  TruthInv'
<1>1. ~Changing /\ cmd.pc # "ended"
  BY Zenon DEF DescribeNext, DescribeStart, Connect, DescribeListing, DescribeTopics,
         DescribeTopicConfigs, DescribeLive, ListReassignments, At, Changing, Reading
<1>2. CASE Fail \/ \E rows : \E failed \in BOOLEAN : Report(rows, failed)
  BY <1>1, <1>2, FailTruth, ReadTruth
<1>3. CASE \E pc, seen : pc # "ended" /\ OnlyLocal /\ cmd' = [cmd EXCEPT !.pc = pc, !.seen = seen]
  BY <1>1, <1>3, ReadGoesOn DEF Inv, Shape, Fresh
<1>4. CASE DescribeStart
  BY <1>1, <1>4, ReadGoesOn DEF DescribeStart, Goto, Inv, Shape, Fresh
<1>5. CASE Connect({"describe"})
  BY <1>5, ConnectTruth
<1>6. CASE DescribeListing \/ DescribeTopicConfigs \/ DescribeLive
  BY Zenon, <1>2, <1>3, <1>6 DEF DescribeListing, DescribeTopicConfigs, DescribeLive, Call
<1>7. CASE DescribeTopics
  BY Zenon, <1>2, <1>3, <1>7 DEF DescribeTopics
<1>8. CASE ListReassignments
  BY Zenon, <1>2, <1>8 DEF ListReassignments
<1>9. QED
  BY <1>4, <1>5, <1>6, <1>7, <1>8 DEF DescribeNext

\* acls: a resource is done, with rows of what was done on it.
LEMMA StepTruth ==
    ASSUME Inv, TruthInv, UNCHANGED <<line, moves>>, cmd.pc # "ended", Of(AclActions),
           NEW r, NEW rows, StepDone(r, rows),
           Changing => /\ cmd.asked \subseteq effects
                       /\ OkOf(rows) \subseteq effects
                       /\ effects \subseteq Reported \cup OkOf(rows)
    PROVE  TruthInv'
<1>1. /\ cmd'.pc = "connected" /\ cmd'.exit = cmd.exit /\ cmd'.asked = cmd.asked
      /\ cmd'.rows = cmd.rows \cup rows /\ effects' = effects
  BY DEF Inv, Shape, Fresh, StepDone, OnlyLocal
<1>2. Reported = OkOf(cmd.rows) /\ Reported' = OkOf(cmd.rows \cup rows)
  BY <1>1 DEF Reported, OkOf
<1>3. Reported' = Reported \cup OkOf(rows)
  BY <1>2, OkOfUnion
<1>4. "connected" \notin Carried BY DEF Carried
<1>5. ASSUME Changing PROVE Working'
  <2>1. CASE line.kind = "aclsAdd"
    <3>1. AddInv BY <1>5, <2>1 DEF TruthInv, Working, Of
    <3>2. AddInv' BY <1>1, <1>3, <1>4, <1>5, <3>1 DEF AddInv
    <3>3. ~Of({"aclsRemove"})' /\ Of({"aclsAdd", "aclsRemove"})' BY <2>1 DEF Of
    <3>4. QED BY <3>2, <3>3 DEF Working
  <2>2. CASE line.kind = "aclsRemove"
    <3>1. RemoveInv BY <1>5, <2>2 DEF TruthInv, Working, Of
    <3>2. RemoveInv' BY <1>1, <1>3, <1>4, <1>5, <3>1 DEF RemoveInv
    <3>3. ~Of({"aclsAdd"})' /\ Of({"aclsAdd", "aclsRemove"})' BY <2>2 DEF Of
    <3>4. QED BY <3>2, <3>3 DEF Working
  <2>3. QED BY <1>5, <2>1, <2>2 DEF Changing, Reading, Of, AclActions
<1>6. QED BY <1>1, <1>5, GoesOn

\* acls: the command stops at a resource, with rows of what was done on it.
LEMMA StopTruth ==
    ASSUME Inv, TruthInv, UNCHANGED <<line, moves>>, cmd.pc # "ended",
           NEW rows, Stop(rows), Changing => Reported \cup OkOf(rows) \subseteq effects
    PROVE  TruthInv'
<1>1. CASE Fail BY <1>1, FailTruth
<1>2. CASE Report(cmd.rows \cup rows, TRUE)
  <2>1. OkOf(cmd.rows \cup rows) = Reported \cup OkOf(rows)
    BY OkOfUnion DEF Reported, OkOf
  <2>2. QED BY Zenon, <1>2, <2>1, ReportTruth
<1>3. QED BY Zenon, <1>1, <1>2 DEF Stop

LEMMA AddingKeepsTruth ==
    ASSUME Inv, TruthInv, AddStep \/ CreateAcls \/ AddAnswered, UNCHANGED <<line, moves>>
    PROVE  TruthInv'
<1> USE DEF At
<1>1. line.kind = "aclsAdd" /\ cmd.pc # "ended" /\ Of(AclActions)
  BY Zenon DEF AddStep, CreateAcls, AddAnswered, Of, AclActions
<1>2. Changing => AddInv
  BY <1>1 DEF TruthInv, Working, Of
<1>3. OkOf({}) = {}
  BY DEF OkOf
<1>4. CASE AddStep
  <2>0. cmd.pc = "connected" /\ cmd.pc \notin Carried
    BY Zenon, <1>4 DEF AddStep, Carried
  <2>1. PICK r \in cmd.seen.todo :
          LET absent == Creations(r) \ cluster
          IN  \/ /\ absent = {} \/ line.dry
                 /\ StepDone(r, {Row(b, TRUE) : b \in absent})
              \/ /\ absent # {} /\ ~line.dry
                 /\ cmd' = [cmd EXCEPT !.pc = "create", !.seen.absent = absent, !.seen.at = r]
                 /\ OnlyLocal
              \/ Stop({})
    BY Zenon, <1>4 DEF AddStep
  <2> DEFINE absent == Creations(r) \ cluster
  <2>2. CASE (absent = {} \/ line.dry) /\ StepDone(r, {Row(b, TRUE) : b \in absent})
    <3>1. OkOf({Row(b, TRUE) : b \in absent}) = absent
      BY Zenon, OkOfTrue
    <3>2. Changing => absent = {}
      BY <2>2 DEF Changing
    <3> HIDE DEF absent
    <3>3. QED
      BY <1>1, <1>2, <2>0, <2>2, <3>1, <3>2, StepTruth DEF AddInv
  <2>3. CASE OnlyLocal /\ cmd' = [cmd EXCEPT !.pc = "create", !.seen.absent = absent, !.seen.at = r]
    <3>1. /\ cmd'.pc = "create" /\ cmd'.exit = cmd.exit
          /\ cmd'.asked = cmd.asked /\ cmd'.rows = cmd.rows
      BY <2>3 DEF Inv, Shape, Fresh
    <3>2. QED
      BY <2>0, <2>3, <3>1, WayTruth DEF Carried
  <2>4. CASE Stop({})
    BY <1>1, <1>2, <1>3, <2>4, StopTruth DEF AddInv
  <2>5. QED
    BY <2>1, <2>2, <2>3, <2>4
<1>5. CASE CreateAcls
  <2>0. cmd.pc = "create" /\ cmd.pc \notin Carried /\ ~line.dry
    BY <1>5 DEF CreateAcls, Carried, Inv, DryInv, Committed
  <2>1. PICK reply \in [cmd.seen.absent -> {"ok", "refused"}] :
          Sent(cmd.asked \cup cmd.seen.absent, reply, "added")
    BY <1>5 DEF CreateAcls
  <2>2. /\ cmd'.pc \in {"added", "lost"} /\ cmd'.exit = cmd.exit /\ cmd'.reply = reply
        /\ cmd'.asked = cmd.asked \cup cmd.seen.absent /\ cmd'.rows = cmd.rows
        /\ effects' = effects \cup DoneOf(reply)
    BY <2>1 DEF Inv, Shape, Fresh, Sent, DoneOf
  <2>3. AddInv /\ Reported' = Reported /\ cmd'.pc \in Carried /\ cmd'.pc # "ended"
    BY <1>1, <1>2, <2>0, <2>2 DEF Changing, Reading, ClusterReads, Reported, Carried
  <2>4. DOMAIN reply = cmd.seen.absent
    BY <2>1
  <2>5. AddInv'
    BY <2>0, <2>2, <2>3, <2>4 DEF AddInv
  <2>6. ~Of({"aclsRemove"})' /\ Of({"aclsAdd", "aclsRemove"})'
    BY <1>1 DEF Of
  <2>7. QED
    BY <1>1, <2>2, <2>3, <2>5, <2>6, GoesOn DEF Working
<1>6. CASE AddAnswered
  <2>0. cmd.pc \in Carried
    BY <1>6 DEF AddAnswered, Carried
  <2>1. CASE ~AnyFailed(RowsOf(cmd.reply)) /\ StepDone(cmd.seen.at, RowsOf(cmd.reply))
    <3>1. OkOf(RowsOf(cmd.reply)) = DoneOf(cmd.reply) /\ DoneOf(cmd.reply) = DOMAIN cmd.reply
      BY <2>1, AllDone, OkOfReply DEF DoneOf
    <3>2. QED
      BY <1>1, <1>2, <2>0, <2>1, <3>1, StepTruth DEF AddInv
  <2>2. CASE Stop({Row(b, FALSE) : b \in DOMAIN cmd.reply})
    BY Zenon, <1>1, <1>2, <2>2, OkOfFalse, StopTruth DEF AddInv
  <2>3. QED
    BY <1>6, <2>1, <2>2 DEF AddAnswered
<1>7. QED
  BY <1>4, <1>5, <1>6

LEMMA RemovingKeepsTruth ==
    ASSUME Inv, TruthInv, RemoveDryRun \/ DeleteAcls \/ RemoveAnswered, UNCHANGED <<line, moves>>
    PROVE  TruthInv'
<1> USE DEF At
<1>1. line.kind = "aclsRemove" /\ cmd.pc # "ended" /\ Of(AclActions)
  BY Zenon DEF RemoveDryRun, DeleteAcls, RemoveAnswered, Of, AclActions
<1>2. Changing => RemoveInv
  BY <1>1 DEF TruthInv, Working, Of
<1>3. OkOf({}) = {}
  BY DEF OkOf
<1>4. CASE RemoveDryRun
  <2>1. ~Changing
    BY <1>4 DEF RemoveDryRun, Changing
  <2>2. \E rows : Stop(rows) \/ \E r : StepDone(r, rows)
    BY ZenonT(60), <1>4 DEF RemoveDryRun
  <2>3. QED
    BY <1>1, <2>1, <2>2, StepTruth, StopTruth
<1>5. CASE DeleteAcls
  <2>1. PICK removed :
          /\ cmd'.pc \in {"removed", "lost"} /\ cmd'.exit = cmd.exit
          /\ cmd'.asked = removed /\ cmd'.rows = cmd.rows /\ effects' = effects \cup removed
    <3> DEFINE Filters(r) == IF ResourceAcls[r] = {} THEN {{}} ELSE {{e} : e \in ResourceAcls[r]}
               Removed(r, carried) == {b \in cluster : \E es \in carried : Selects(r, es, b)}
               Removes(r, carried) ==
                 /\ effects' = effects \cup Removed(r, carried)
                 /\ \E pc \in {"removed", "lost"} :
                      cmd' = [cmd EXCEPT !.pc = pc, !.asked = Removed(r, carried), !.seen.at = r,
                                !.reply = [all |-> carried = Filters(r)]]
    <3>1. PICK r \in cmd.seen.todo : \E carried \in SUBSET Filters(r) : Removes(r, carried)
      BY Zenon, <1>5 DEF DeleteAcls
    <3>2. PICK carried \in SUBSET Filters(r) : Removes(r, carried)
      BY Zenon, <3>1
    <3>3. /\ cmd'.pc \in {"removed", "lost"} /\ cmd'.exit = cmd.exit
          /\ cmd'.asked = Removed(r, carried) /\ cmd'.rows = cmd.rows
          /\ effects' = effects \cup Removed(r, carried)
      BY <3>2 DEF Inv, Shape, Fresh
    <3> HIDE DEF Removed
    <3>4. QED
      BY <3>3
  <2>3. RemoveInv /\ Reported' = Reported /\ cmd'.pc \in Carried /\ cmd'.pc # "ended"
    BY Zenon, <1>1, <1>2, <1>5, <2>1 DEF DeleteAcls, Changing, Reading, ClusterReads, Reported, Carried
  <2>4. cmd.pc \notin Carried
    BY Zenon, <1>5 DEF DeleteAcls, Carried
  <2>5. RemoveInv'
    BY <2>1, <2>3, <2>4 DEF RemoveInv
  <2>6. ~Of({"aclsAdd"})' /\ Of({"aclsAdd", "aclsRemove"})'
    BY <1>1 DEF Of
  <2>7. QED
    BY <1>1, <2>1, <2>3, <2>5, <2>6, GoesOn DEF Working
<1>6. CASE RemoveAnswered
  <2> DEFINE rows == {Row(b, TRUE) : b \in cmd.asked}
  <2>0. cmd.pc \in Carried
    BY <1>6 DEF RemoveAnswered, Carried
  <2>1. OkOf(rows) = cmd.asked
    BY Zenon, OkOfTrue
  <2>2. Stop({}) \/ Stop(rows) \/ StepDone(cmd.seen.at, rows)
    BY <1>6 DEF RemoveAnswered
  <2> HIDE DEF rows
  <2>3. QED
    BY <1>1, <1>2, <1>3, <2>0, <2>1, <2>2, StepTruth, StopTruth DEF RemoveInv
<1>7. QED
  BY <1>4, <1>5, <1>6

LEMMA AclsKeepTruth ==
    ASSUME Inv, TruthInv, AclsNext, UNCHANGED <<line, moves>>
    PROVE  TruthInv'
<1> USE DEF At
<1>1. CASE AclsStart
  <2>1. cmd.pc = "start" /\ cmd.pc \notin Carried \cup {"ended"}
    BY <1>1 DEF AclsStart, Carried
  <2>2. CASE Usage
    BY <2>1, <2>2, FailTruth
  <2>3. CASE ~Usage
    <3>1. PICK pc, seen : /\ pc \in {"prompt", "connect"} /\ OnlyLocal
                          /\ cmd' = [cmd EXCEPT !.pc = pc, !.seen = seen]
      BY ZenonT(60), <1>1, <2>3 DEF AclsStart
    <3>2. pc \notin Carried \cup {"ended"}
      BY <3>1 DEF Carried
    <3>3. QED
      BY Zenon, <2>1, <3>1, <3>2, CallTruth DEF Call
  <2>4. QED
    BY <2>2, <2>3
<1>2. CASE ConfirmRemoval
  BY <1>2, ConfirmTruth DEF ConfirmRemoval, Carried
<1>3. CASE Connect(AclActions)
  BY <1>3, ConnectTruth
<1>4. CASE AclsFinish
  <2>1. Report(cmd.rows, FALSE) /\ cmd.pc = "connected" /\ cmd.pc \notin Carried
    BY Zenon, <1>4 DEF AclsFinish, Carried
  <2>2. OkOf(cmd.rows) = Reported
    BY DEF Reported, OkOf
  <2>3. Changing => Reported \subseteq effects /\ cmd.asked \subseteq effects /\ effects \subseteq Reported
    BY <1>4, <2>1 DEF AclsFinish, TruthInv, Working, AddInv, RemoveInv, Of
  <2>4. QED
    BY Zenon, <2>1, <2>2, <2>3, ReportTruth
<1>5. CASE ListStep
  <2>1. ~Changing /\ cmd.pc # "ended" /\ Of(AclActions)
    BY <1>5 DEF ListStep, Changing, Reading, Of, AclActions
  <2>2. CASE Fail
    BY <2>1, <2>2, FailTruth
  <2>3. CASE \E rows : Report(rows, FALSE)
    BY Zenon, <2>1, <2>3, ReadTruth
  <2>4. CASE \E r, rows : StepDone(r, rows)
    BY <2>1, <2>4, StepTruth
  <2>5. QED
    BY Zenon, <1>5, <2>2, <2>3, <2>4 DEF ListStep
<1>6. QED
  BY <1>1, <1>2, <1>3, <1>4, <1>5, AddingKeepsTruth, RemovingKeepsTruth DEF AclsNext

LEMMA ConfigsKeepTruth ==
    ASSUME Inv, TruthInv, ConfigsNext, UNCHANGED <<line, moves>>
    PROVE  TruthInv'
<1> USE DEF At
<1>1. CASE ConfigsStart
  BY <1>1, GotoTruth, FailTruth DEF ConfigsStart, Carried
<1>2. CASE Connect(ConfigActions)
  BY <1>2, ConnectTruth
<1>3. CASE AlterReads
  <2>1. cmd.pc = "connected" /\ (Goto("alter") \/ Fail \/ Call("alter", cmd.seen))
    BY ZenonT(60), <1>3 DEF AlterReads
  <2>2. {"connected", "alter"} \cap (Carried \cup {"ended"}) = {}
    BY DEF Carried
  <2>3. QED
    BY <2>1, <2>2, GotoTruth, FailTruth, CallTruth
<1>4. CASE NothingToAlter
  BY Zenon, <1>4, EmptyTruth DEF NothingToAlter, Carried, Of
<1>5. CASE AlterConfigs
  <2>1. PICK answer, reply, pc : /\ answer \in {"ok", "refused"} /\ Sent(Ops, reply, pc)
                                 /\ reply = [o \in Ops |-> answer]
                                 /\ pc = (IF answer = "ok" THEN "done" ELSE "refused")
    BY <1>5 DEF AlterConfigs
  <2>2. line.kind = "configsAlter" /\ cmd.pc = "alter" /\ ~line.dry
    BY <1>5, NoDryRun DEF AlterConfigs, Inv, Shape
  <2>3. /\ Changing /\ cmd.pc \notin Carried \cup {"ended"}
        /\ ~Of({"aclsAdd", "aclsRemove"}) /\ ~Of({"logDirsAlter"}) /\ ~Of(UnitActions)
    BY <2>2 DEF Of, Changing, Reading, ClusterReads, Carried, UnitActions
  <2>4. Answers = {"ok", "refused", "missing", "unsupported"}
    BY <2>2 DEF Answers, Of
  <2>5. DOMAIN reply = Ops /\ pc \in Carried /\ (pc = "done" => Ops \subseteq DoneOf(reply))
    BY <2>1 DEF DoneOf, Carried
  <2>6. \A x \in DOMAIN reply : reply[x] \in Answers
    BY <2>1, <2>4
  <2>7. QED
    BY <2>1, <2>3, <2>5, <2>6, SentTruth
<1>6. CASE AlterAnswered
  <2>1. CASE Fail
    BY Zenon, <1>6, <2>1, FailTruth DEF AlterAnswered
  <2>2. CASE At({"configsAlter"}, "done") /\ Report(RowsOf(cmd.reply), FALSE)
    <3>1. line.kind = "configsAlter" /\ ~line.dry
      BY <2>2, NoDryRun DEF Inv, Shape
    <3>2. /\ Changing /\ cmd.pc \in Carried
          /\ ~Of({"aclsAdd", "aclsRemove", "logDirsAlter"}) /\ ~Of({"aclsAdd", "aclsRemove"})
          /\ ~Of({"logDirsAlter"})
      BY <2>2, <3>1 DEF Of, Changing, Reading, ClusterReads, Carried
    <3>3. OneRequestInv
      BY <2>2, <3>2 DEF TruthInv, Working
    <3>4. \A x \in DOMAIN cmd.reply : cmd.reply[x] = "ok"
      BY <2>2, <3>2, <3>3 DEF OneRequestInv, DoneOf
    <3>5. QED
      BY Zenon, <2>2, <3>2, <3>4, AnsweredTruth
  <2>3. QED
    BY Zenon, <1>6, <2>1, <2>2 DEF AlterAnswered
<1>7. CASE DescribeList \/ DescribeEach \/ DescribeQuotas \/ DescribeScram
  <2>1. line.kind = "configsDescribe" /\ ~Changing /\ cmd.pc # "ended"
    BY Zenon, <1>7 DEF DescribeList, DescribeEach, DescribeQuotas, DescribeScram, Changing, Reading
  <2>2. CASE Fail \/ \E rows : Report(rows, FALSE)
    BY Zenon, <2>1, <2>2, FailTruth, ReadTruth
  <2>3. CASE cmd'.pc # "ended" /\ cmd'.exit = cmd.exit
    BY <2>1, <2>3, ReadGoesOn
  <2>4. CASE DescribeList
    <3>1. \/ \E rows : Report(rows, FALSE)
          \/ \E seen : Call("describe", seen)
      BY Zenon, <2>4 DEF DescribeList
    <3>2. Fail \/ (\E rows : Report(rows, FALSE)) \/ (cmd'.pc # "ended" /\ cmd'.exit = cmd.exit)
      BY Zenon, <3>1 DEF Call, Inv, Shape, Fresh
    <3>3. QED
      BY Zenon, <2>2, <2>3, <3>2
  <2>5. CASE DescribeEach
    <3>1. \/ Fail \/ \E rows : Report(rows, FALSE)
          \/ \E seen, rows : cmd' = [cmd EXCEPT !.seen = seen, !.rows = rows]
      BY Zenon, <2>5 DEF DescribeEach
    <3>2. Fail \/ (\E rows : Report(rows, FALSE)) \/ (cmd'.pc # "ended" /\ cmd'.exit = cmd.exit)
      BY Zenon, <2>1, <3>1 DEF Inv, Shape, Fresh
    <3>3. QED
      BY Zenon, <2>2, <2>3, <3>2
  <2>6. CASE DescribeQuotas
    <3>1. \/ Fail \/ \E rows : Report(rows, FALSE)
          \/ \E rows : cmd' = [cmd EXCEPT !.pc = "scram", !.rows = rows]
      BY Zenon, <2>6 DEF DescribeQuotas
    <3>2. Fail \/ (\E rows : Report(rows, FALSE)) \/ (cmd'.pc # "ended" /\ cmd'.exit = cmd.exit)
      BY Zenon, <3>1 DEF Inv, Shape, Fresh
    <3>3. QED
      BY Zenon, <2>2, <2>3, <3>2
  <2>7. CASE DescribeScram
    BY Zenon, <2>2, <2>7 DEF DescribeScram
  <2>8. QED
    BY <1>7, <2>4, <2>5, <2>6, <2>7
<1>8. QED
  BY <1>1, <1>2, <1>3, <1>4, <1>5, <1>6, <1>7 DEF ConfigsNext

LEMMA TransactionsKeepTruth ==
    ASSUME Inv, TruthInv, TransactionsNext, UNCHANGED <<line, moves>>
    PROVE  TruthInv'
<1> USE DEF At
<1>1. CASE TransactionsStart
  <2>1. PICK pc \in {"prompt", "connect"} : Fail \/ Goto(pc)
    BY <1>1 DEF TransactionsStart
  <2>2. cmd.pc \notin Carried \cup {"ended"} /\ pc \notin Carried \cup {"ended"}
    BY <1>1 DEF TransactionsStart, Carried
  <2>3. QED
    BY <2>1, <2>2, GotoTruth, FailTruth
<1>2. CASE Connect(TransactionActions)
  BY <1>2, ConnectTruth
<1>3. CASE \/ ListBegin \/ ListOnBroker \/ ListDone \/ DescribeIds \/ SearchPartitions
           \/ OpenCandidates \/ ProducersReported \/ ListByProducers \/ DescribeTransaction
           \/ HangingReported
  <2>1. ~Changing /\ cmd.pc # "ended"
    BY Zenon, <1>3 DEF ListBegin, ListOnBroker, ListDone, DescribeIds, SearchPartitions, OpenCandidates,
                ProducersReported, ListByProducers, DescribeTransaction, HangingReported,
                Changing, Reading
  <2>2. CASE Fail \/ \E rows : Report(rows, FALSE)
    BY Zenon, <2>1, <2>2, FailTruth, ReadTruth
  <2>3. CASE \E pc, seen, rows : /\ pc # "ended"
                                 /\ cmd' = [cmd EXCEPT !.pc = pc, !.seen = seen, !.rows = rows]
    <3>1. cmd'.pc # "ended" /\ cmd'.exit = cmd.exit
      BY <2>3 DEF Inv, Shape, Fresh
    <3>2. QED
      BY <2>1, <3>1, ReadGoesOn
  <2>4. CASE \E pc, seen : pc # "ended" /\ (cmd' = [cmd EXCEPT !.pc = pc, !.seen = seen])
    <3>1. cmd'.pc # "ended" /\ cmd'.exit = cmd.exit
      BY <2>4 DEF Inv, Shape, Fresh
    <3>2. QED
      BY <2>1, <3>1, ReadGoesOn
  <2>5. ASSUME NEW pc, NEW seen, pc # "ended", Call(pc, seen) PROVE TruthInv'
    BY Zenon, <2>2, <2>4, <2>5 DEF Call
  <2>6. CASE ListBegin \/ OpenCandidates
    BY Zenon, <2>5, <2>6 DEF ListBegin, OpenCandidates
  <2>7. CASE ListOnBroker
    <3>1. cmd'.pc = cmd.pc /\ cmd'.exit = cmd.exit
      BY Zenon, <2>7 DEF ListOnBroker, Inv, Shape, Fresh
    <3>2. QED
      BY <2>1, <3>1, ReadGoesOn
  <2>8. CASE ListDone \/ ProducersReported \/ HangingReported
    BY Zenon, <2>2, <2>8 DEF ListDone, ProducersReported, HangingReported
  <2>9. CASE DescribeIds
    <3>1. Fail \/ (\E rows : Report(rows, FALSE)) \/ \E rows : cmd' = [cmd EXCEPT !.rows = rows]
      BY Zenon, <2>9 DEF DescribeIds
    <3>2. Fail \/ (\E rows : Report(rows, FALSE)) \/ (cmd'.pc = cmd.pc /\ cmd'.exit = cmd.exit)
      BY Zenon, <3>1 DEF Inv, Shape, Fresh
    <3>3. QED
      BY Zenon, <2>1, <2>2, <3>2, ReadGoesOn
  <2>10. CASE SearchPartitions
    BY Zenon, <2>4, <2>5, <2>10 DEF SearchPartitions
  <2>11. CASE ListByProducers
    BY Zenon, <2>2, <2>5, <2>11 DEF ListByProducers
  <2>12. CASE DescribeTransaction
    BY <2>5, <2>12 DEF DescribeTransaction
  <2>13. QED
    BY <1>3, <2>6, <2>7, <2>8, <2>9, <2>10, <2>11, <2>12
<1>4. CASE AbortSpec
  <2>1. cmd.pc = "connected" /\ cmd.pc \notin Carried \cup {"ended"} /\ "prompt" \notin Carried
    BY <1>4 DEF AbortSpec, Carried
  <2>2. \/ Fail \/ Goto("prompt")
        \/ line.dry /\ Report({Row(line.target, TRUE)}, FALSE)
    BY Zenon, <1>4 DEF AbortSpec
  <2>3. QED
    BY Zenon, <2>1, <2>2, FailTruth, GotoTruth, ReadTruth DEF Changing
<1>5. CASE ConfirmAbort \/ ConfirmTermination
  BY <1>5, ConfirmTruth DEF ConfirmAbort, ConfirmTermination, Carried
<1>6. CASE AbortTransaction \/ ForceTerminate
  <2>1. PICK x, answer, reply : /\ answer \in {"ok", "refused"} /\ Sent({x}, reply, "aborted")
                                /\ reply = [y \in {x} |-> answer]
    BY Zenon, <1>6 DEF AbortTransaction, ForceTerminate
  <2>2. line.kind \in {"abort", "forceTerminate"} /\ cmd.pc \in {"abort", "connected"} /\ ~line.dry
    BY <1>6 DEF AbortTransaction, ForceTerminate, Inv, DryInv, Committed
  <2>3. /\ Changing /\ cmd.pc \notin Carried \cup {"ended"} /\ "aborted" \in Carried
        /\ ~Of({"aclsAdd", "aclsRemove"}) /\ ~Of({"logDirsAlter"}) /\ ~Of(UnitActions)
    BY <2>2 DEF Of, Changing, Reading, ClusterReads, Carried, UnitActions
  <2>4. Answers = {"ok", "refused", "missing", "unsupported"}
    BY <2>2 DEF Answers, Of
  <2>5. DOMAIN reply = {x} /\ \A y \in DOMAIN reply : reply[y] \in Answers
    BY <2>1, <2>4
  <2>6. QED
    BY <2>1, <2>3, <2>5, SentTruth
<1>7. CASE TerminateDryRun
  BY Zenon, <1>7, ReadTruth DEF TerminateDryRun, Changing
<1>8. CASE TransactionAnswered
  <2>1. line.kind \in {"abort", "forceTerminate"} /\ cmd.pc = "aborted"
    BY <1>8 DEF TransactionAnswered
  <2>2. CASE Fail
    BY <2>1, <2>2, FailTruth
  <2>3. CASE ~AnyFailed(RowsOf(cmd.reply)) /\ Report(RowsOf(cmd.reply), FALSE)
    <3>1. CASE line.dry
      BY Zenon, <2>1, <2>3, <3>1, ReadTruth DEF Changing
    <3>2. CASE ~line.dry
      BY Zenon, <2>1, <2>3, <3>2, AllDone, AnsweredTruth DEF Of, Changing, Reading, ClusterReads, Carried
    <3>3. QED
      BY <3>1, <3>2
  <2>4. QED
    BY Zenon, <1>8, <2>2, <2>3 DEF TransactionAnswered
<1>9. QED
  BY <1>1, <1>2, <1>3, <1>4, <1>5, <1>6, <1>7, <1>8 DEF TransactionsNext

\* Of a set of natural numbers that is not empty, one is the least.
LEMMA LeastBy ==
    ASSUME NEW R, IsWellFoundedOn(R, Nat), \A x, y \in Nat : y < x => <<y, x>> \in R,
           NEW T \in SUBSET Nat, T # {}
    PROVE  \E x \in T : \A y \in T : x <= y
<1>1. \E x \in T : \A y \in T : <<y, x>> \notin R BY WFMin, Zenon
<1>2. PICK x \in T : \A y \in T : <<y, x>> \notin R BY <1>1
<1>3. \A y \in T : ~(y < x) BY Zenon, <1>2
<1>4. QED BY SMTT(20), <1>3

\* Of the places of a sequence that have something in common, one is the last.
LEMMA Last ==
    ASSUME NEW n \in Nat, NEW T \in SUBSET (1..n), T # {}
    PROVE  \E i \in T : \A j \in T : j <= i
<1>1. IsWellFoundedOn(OpToRel(<, Nat), Nat) BY NatLessThanWellFounded, Zenon
<1>2. \A x, y \in Nat : y < x => <<y, x>> \in OpToRel(<, Nat) BY DEF OpToRel
<1>3. PICK U : U = {n - i : i \in T} BY Zenon
<1>4. U \in SUBSET Nat /\ U # {}
  <2>1. \A i \in T : i \in 1..n /\ n - i \in Nat BY SMTT(20)
  <2>2. \A x \in U : x \in Nat BY <1>3, <2>1
  <2>3. PICK i : i \in T OBVIOUS
  <2>4. n - i \in U BY <1>3, <2>3
  <2>5. QED BY <2>2, <2>4
<1>5. PICK x \in U : \A y \in U : x <= y BY <1>1, <1>2, <1>4, LeastBy, Zenon
<1>6. PICK i \in T : x = n - i BY <1>3
<1>7. ASSUME NEW j \in T PROVE j <= i
  <2>1. n - j \in U BY <1>3
  <2>2. n - i <= n - j BY <1>5, <1>6, <2>1
  <2>3. QED BY SMTT(20), <2>2
<1>8. QED BY <1>7

\* log-dirs: each replica that is to be moved is sent with its last move, and
\* with no other.
LEMMA AssignmentFacts ==
    ASSUME line \in Lines, line.kind = "logDirsAlter"
    PROVE  /\ Assignments \subseteq Range(line.replicaMoves)
           /\ \A m \in Range(line.replicaMoves) : \E c \in Assignments : c[1] = m[1]
           /\ \A c, d \in Assignments : c[1] = d[1] => c = d
<1>1. line.replicaMoves \in Seq(Parts \X Dirs)
  BY LinesAreParsed
  DEF TopicsArgs, DescribeArgs, AclsArgs, ConfigsArgs, TransactionsArgs, DeleteRecordsArgs,
      LogDirsArgs, LeaderElectionArgs, GetOffsetsArgs, ClusterArgs, MetadataQuorumArgs,
      DelegationTokensArgs, FeaturesArgs, TopicActions, AclActions, ConfigActions,
      TransactionActions, FeatureActions
<1>2. PICK s, n : /\ s = line.replicaMoves /\ n = Len(s) /\ n \in Nat /\ DOMAIN s = 1..n
                  /\ s \in Seq(Parts \X Dirs)
  BY SMTT(20), <1>1
<1>3. Range(s) = {s[i] : i \in 1..n}
  BY <1>2 DEF Range
<1>4. Assignments = {m \in Range(s) : \E i \in 1..n : /\ s[i] = m
                                                      /\ \A j \in (i + 1)..n : s[j][1] # m[1]}
  BY <1>2 DEF Assignments
<1>5. ASSUME NEW m \in Range(s) PROVE \E c \in Assignments : c[1] = m[1]
  <2>1. PICK T : T = {i \in 1..n : s[i][1] = m[1]} BY Zenon
  <2>2. T \in SUBSET (1..n) /\ T # {} BY <1>3, <2>1
  <2>3. PICK i \in T : \A j \in T : j <= i BY Zenon, <1>2, <2>2, Last
  <2>4. \A j \in (i + 1)..n : s[j][1] # m[1]
    <3>1. SUFFICES ASSUME NEW j \in (i + 1)..n, s[j][1] = m[1] PROVE FALSE OBVIOUS
    <3>2. i \in 1..n /\ j \in 1..n /\ j > i BY SMTT(20), <1>2, <2>2
    <3>3. QED BY SMTT(20), <2>1, <2>3, <3>1, <3>2
  <2>5. i \in 1..n /\ s[i][1] = m[1] BY <2>1
  <2>6. s[i] \in Assignments BY <1>3, <1>4, <2>4, <2>5
  <2>7. QED BY <2>5, <2>6
<1>6. ASSUME NEW c \in Assignments, NEW d \in Assignments, c[1] = d[1] PROVE c = d
  <2>1. PICK i \in 1..n : s[i] = c /\ \A k \in (i + 1)..n : s[k][1] # c[1] BY <1>4
  <2>2. PICK j \in 1..n : s[j] = d /\ \A k \in (j + 1)..n : s[k][1] # d[1] BY <1>4
  <2>3. j \notin (i + 1)..n /\ i \notin (j + 1)..n BY <1>6, <2>1, <2>2
  <2>4. i = j BY SMTT(20), <1>2, <2>3
  <2>5. QED BY <2>1, <2>2, <2>4
<1>7. QED
  BY <1>2, <1>4, <1>5, <1>6

\* The rows of log-dirs --alter: of the moves that were sent, what the broker
\* has answered, and of the moves that they replace, the same.
LEMMA MovesAnsweredTruth ==
    ASSUME Inv, TruthInv, MovesAnswered, UNCHANGED <<line, moves>>
    PROVE  TruthInv'
<1> DEFINE Sender(p) == CHOOSE m \in Assignments : m[1] = p
           outcome == [p \in {m[1] : m \in Assignments} |->
                         IF cmd.pc = "lost" THEN "refused" ELSE cmd.reply[Sender(p)]]
           rows == {Row(m, outcome[m[1]] = "ok") : m \in Range(line.replicaMoves)}
<1>1. /\ line.kind = "logDirsAlter" /\ cmd.pc \in {"moved", "lost"} /\ cmd.pc # "ended"
      /\ cmd.pc \in Carried /\ line \in Lines
  BY DEF MovesAnswered, At, Carried, Inv, Shape
<1>2. Report(rows, AnyFailed(rows))
  BY DEF MovesAnswered, Moved
<1>3. CASE ~Changing
  BY <1>1, <1>2, <1>3, AnyFailedType, ReadTruth
<1>4. CASE Changing
  <2>1. /\ effects = DoneOf(cmd.reply) /\ cmd.asked = Range(line.replicaMoves)
        /\ DOMAIN cmd.reply = Assignments
    BY <1>1, <1>4 DEF TruthInv, Working, OneRequestInv, Of
  <2>2. ASSUME NEW m \in Range(line.replicaMoves)
        PROVE  /\ Sender(m[1]) \in Assignments /\ Sender(m[1])[1] = m[1]
               /\ m \in Assignments => Sender(m[1]) = m
               /\ m \notin Assignments /\ Sender(m[1]) \in effects => Replaced(m)
               /\ outcome[m[1]] = "ok" <=> cmd.pc = "moved" /\ Sender(m[1]) \in effects
    <3>1. \E c \in Assignments : c[1] = m[1]
      BY <1>1, <2>2, AssignmentFacts
    <3>2. Sender(m[1]) \in Assignments /\ Sender(m[1])[1] = m[1]
      BY <3>1
    <3>3. m \in Assignments => Sender(m[1]) = m
      BY <1>1, <3>2, AssignmentFacts
    <3>4. m[1] \in {c[1] : c \in Assignments}
      BY <3>1
    <3>5. outcome[m[1]] = IF cmd.pc = "lost" THEN "refused" ELSE cmd.reply[Sender(m[1])]
      BY Zenon, <3>4
    <3> HIDE DEF Sender, outcome
    <3>6. QED
      BY <1>1, <2>1, <3>2, <3>3, <3>5 DEF Replaced, Of, DoneOf
  <2> HIDE DEF Sender, outcome
  <2>3. ASSUME NEW x \in OkOf(rows) PROVE x \in Range(line.replicaMoves) /\ outcome[x[1]] = "ok"
    <3>1. PICK r \in rows : r.ok /\ x = r.what BY DEF OkOf
    <3>2. PICK m \in Range(line.replicaMoves) : r = Row(m, outcome[m[1]] = "ok") BY <3>1
    <3>3. r.what = m /\ r.ok = (outcome[m[1]] = "ok") BY <3>2, RowFacts, Zenon
    <3>4. QED BY Zenon, <3>1, <3>3
  <2>4. ASSUME NEW m \in Range(line.replicaMoves), outcome[m[1]] = "ok" PROVE m \in OkOf(rows)
    <3>1. PICK r : r = Row(m, outcome[m[1]] = "ok") OBVIOUS
    <3>2. r.what = m /\ r.ok = (outcome[m[1]] = "ok") BY <3>1, RowFacts, Zenon
    <3>3. r \in rows /\ r.ok BY Zenon, <2>4, <3>1, <3>2
    <3> HIDE DEF rows
    <3>4. QED BY <3>2, <3>3 DEF OkOf
  <2>5. ASSUME ~AnyFailed(rows), NEW m \in Range(line.replicaMoves) PROVE outcome[m[1]] = "ok"
    <3>1. PICK r : r = Row(m, outcome[m[1]] = "ok") OBVIOUS
    <3>2. r.ok = (outcome[m[1]] = "ok") BY <3>1, RowFacts, Zenon
    <3>3. r \in rows BY <3>1
    <3>4. r.ok BY <2>5, <3>3 DEF AnyFailed
    <3>5. QED BY Zenon, <3>2, <3>4
  <2> HIDE DEF rows
  <2>6. \A x \in OkOf(rows) : x \in effects \/ Replaced(x)
    BY <2>2, <2>3
  <2>7. ~AnyFailed(rows) => \A x \in cmd.asked : x \in effects \/ Forgiven(x)
    BY <2>1, <2>2, <2>5 DEF Forgiven
  <2>8. ASSUME ~AnyFailed(rows), NEW x \in effects PROVE x \in OkOf(rows)
    <3>1. x \in Assignments /\ x \in Range(line.replicaMoves)
      BY <1>1, <2>1, <2>8, AssignmentFacts DEF DoneOf
    <3>2. QED
      BY <2>4, <2>5, <2>8, <3>1
  <2>9. QED
    BY <1>1, <1>2, <2>6, <2>7, <2>8, AnyFailedType, ReportTruth
<1>5. QED
  BY <1>3, <1>4

LEMMA ReplicasKeepTruth ==
    ASSUME Inv, TruthInv, ReplicasNext, UNCHANGED <<line, moves>>
    PROVE  TruthInv'
<1> USE DEF At
<1>1. CASE ReplicasStart
  BY <1>1, GotoTruth, FailTruth DEF ReplicasStart, Carried
<1>2. CASE Connect(ReplicaActions)
  BY <1>2, ConnectTruth
<1>3. CASE PlannedRecords \/ LogDirsDryRun
  <2>1. ~Changing /\ cmd.pc # "ended"
    BY <1>3 DEF PlannedRecords, LogDirsDryRun, Changing
  <2>2. Fail \/ \E rows : Report(rows, AnyFailed(rows))
    BY ZenonT(60), <1>3 DEF PlannedRecords, LogDirsDryRun, Moved
  <2>3. QED
    BY <2>1, <2>2, FailTruth, ReadTruth, AnyFailedType
<1>4. CASE BeforeDelete \/ BeforeMove
  BY <1>4, GotoTruth DEF BeforeDelete, BeforeMove, Carried
<1>5. CASE ConfirmRecords \/ ConfirmMoves
  BY <1>5, ConfirmTruth DEF ConfirmRecords, ConfirmMoves, Carried
<1>6. CASE DeleteRecords
  <2>1. PICK reply \in [Asked -> {"ok", "refused", "missing"}] : Sent(Asked, reply, "answered")
    BY <1>6 DEF DeleteRecords
  <2>2. line.kind = "deleteRecords" /\ cmd.pc = "records" /\ ~line.dry
    BY <1>6 DEF DeleteRecords, Inv, DryInv, Committed
  <2>3. /\ Changing /\ cmd.pc \notin Carried \cup {"ended"} /\ "answered" \in Carried
        /\ ~Of({"aclsAdd", "aclsRemove"}) /\ ~Of({"logDirsAlter"}) /\ ~Of(UnitActions)
        /\ Answers = {"ok", "refused", "missing", "unsupported"}
    BY <2>2 DEF Of, Changing, Reading, ClusterReads, Carried, UnitActions, Answers
  <2>4. DOMAIN reply = Asked /\ \A x \in DOMAIN reply : reply[x] \in Answers
    BY <2>1, <2>3
  <2>5. QED
    BY <2>1, <2>3, <2>4, SentTruth
<1>7. CASE RecordsDeleted
  <2>1. /\ Report(RowsOf(cmd.reply), AnyFailed(RowsOf(cmd.reply)))
        /\ line.kind = "deleteRecords" /\ cmd.pc = "answered"
    BY <1>7 DEF RecordsDeleted
  <2>2. CASE line.dry
    BY <2>1, <2>2, AnyFailedType, ReadTruth DEF Changing
  <2>3. CASE ~line.dry
    BY <2>1, <2>3, AllDone, AnyFailedType, AnsweredTruth
    DEF Of, Changing, Reading, ClusterReads, Carried
  <2>4. QED
    BY <2>2, <2>3
<1>8. CASE DescribeCurrent
  BY <1>8, CallTruth, FailTruth DEF DescribeCurrent, Carried
<1>9. CASE AlterReplicaLogDirs
  <2>1. PICK reply \in [Assignments -> {"ok", "refused"}] :
          Sent(Range(line.replicaMoves), reply, "moved")
    BY <1>9 DEF AlterReplicaLogDirs
  <2>2. line.kind = "logDirsAlter" /\ cmd.pc = "move" /\ ~line.dry
    BY <1>9 DEF AlterReplicaLogDirs, Inv, DryInv, Committed
  <2>3. /\ Changing /\ cmd.pc \notin Carried \cup {"ended"} /\ "moved" \in Carried
        /\ ~Of({"aclsAdd", "aclsRemove"}) /\ Of({"logDirsAlter"}) /\ ~Of(UnitActions)
        /\ Answers = {"ok", "refused", "missing", "unsupported"}
    BY <2>2 DEF Of, Changing, Reading, ClusterReads, Carried, UnitActions, Answers
  <2>4. DOMAIN reply = Assignments /\ \A x \in DOMAIN reply : reply[x] \in Answers
    BY <2>1, <2>3
  <2>5. QED
    BY <2>1, <2>3, <2>4, SentTruth
<1>10. CASE DescribeLogDirs
  <2>1. ~Changing /\ cmd.pc # "ended"
    BY <1>10 DEF DescribeLogDirs, Changing, Reading
  <2>2. Fail \/ \E rows : \E failed \in BOOLEAN : Report(rows, failed)
    BY Zenon, <1>10 DEF DescribeLogDirs
  <2>3. QED
    BY <2>1, <2>2, FailTruth, ReadTruth
<1>11. CASE ElectLeaders
  <2>1. PICK reply \in [Electable -> {"ok", "notNeeded", "refused"}] :
          Sent(Electable, reply, "elected")
    BY <1>11 DEF ElectLeaders
  <2>2. line.kind = "leaderElection" /\ cmd.pc = "connected" /\ ~line.dry
    BY <1>11, NoDryRun DEF ElectLeaders, Inv, Shape
  <2>3. /\ Changing /\ cmd.pc \notin Carried \cup {"ended"} /\ "elected" \in Carried
        /\ ~Of({"aclsAdd", "aclsRemove"}) /\ ~Of({"logDirsAlter"}) /\ ~Of(UnitActions)
        /\ Answers = {"ok", "notNeeded", "refused"}
    BY <2>2 DEF Of, Changing, Reading, ClusterReads, Carried, UnitActions, Answers
  <2>4. DOMAIN reply = Electable /\ \A x \in DOMAIN reply : reply[x] \in Answers
    BY <2>1, <2>3
  <2>5. QED
    BY <2>1, <2>3, <2>4, SentTruth
<1>12. CASE ElectionAnswered
  <2>1. line.kind = "leaderElection" /\ cmd.pc \in {"elected", "lost"} /\ ~line.dry
    BY Zenon, <1>12, NoDryRun DEF ElectionAnswered, Inv, Shape
  <2>2. /\ Changing /\ cmd.pc \in Carried /\ cmd.pc # "ended"
        /\ ~Of({"aclsAdd", "aclsRemove", "logDirsAlter"}) /\ ~Of({"aclsAdd", "aclsRemove"})
        /\ Answers = {"ok", "notNeeded", "refused"}
    BY <2>1 DEF Of, Changing, Reading, ClusterReads, Carried, Answers
  <2>3. CASE Fail \/ Report({}, TRUE)
    BY Zenon, <2>2, <2>3, FailTruth, EmptyTruth
  <2>4. CASE Report(RowsOf(cmd.reply), \E p \in DOMAIN cmd.reply : cmd.reply[p] = "refused")
    <3>1. PICK failed \in BOOLEAN : failed = \E p \in DOMAIN cmd.reply : cmd.reply[p] = "refused"
      BY Zenon
    <3>2. \A x \in DOMAIN cmd.reply : cmd.reply[x] \in {"ok", "notNeeded", "refused"}
      BY <2>2 DEF TruthInv, Working, OneRequestInv
    <3>3. ~failed => \A x \in DOMAIN cmd.reply : cmd.reply[x] = "ok" \/ Forgiven(x)
      BY <2>1, <3>1, <3>2 DEF Forgiven, Of
    <3>4. Report(RowsOf(cmd.reply), failed)
      BY Zenon, <2>4, <3>1
    <3>5. QED
      BY <2>2, <3>3, <3>4, AnsweredTruth
  <2>5. QED
    BY Zenon, <1>12, <2>3, <2>4 DEF ElectionAnswered
<1>13. CASE ListPartitions \/ SelectPartitions
  <2>1. cmd.pc \in {"connected", "selected"}
        /\ (Fail \/ \E seen : \E pc \in {"selected", "offsets"} : Call(pc, seen))
    BY <1>13 DEF ListPartitions, SelectPartitions
  <2>2. {"connected", "selected", "offsets"} \cap (Carried \cup {"ended"}) = {}
    BY DEF Carried
  <2>3. QED
    BY <2>1, <2>2, CallTruth, FailTruth
<1>14. CASE OffsetsResult
  <2>1. ~Changing /\ cmd.pc # "ended"
    BY <1>14 DEF OffsetsResult, Changing, Reading
  <2>2. \E rows : \E failed \in BOOLEAN : Report(rows, failed)
    BY Zenon, <1>14 DEF OffsetsResult
  <2>3. QED
    BY <2>1, <2>2, ReadTruth
<1>15. QED
  BY <1>1, <1>2, <1>3, <1>4, <1>5, <1>6, <1>7, <1>8, <1>9, <1>10, <1>11, <1>12, <1>13, <1>14,
     MovesAnsweredTruth
  DEF ReplicasNext

LEMMA ClusterOpsKeepTruth ==
    ASSUME Inv, TruthInv, ClusterOpsNext, UNCHANGED <<line, moves>>
    PROVE  TruthInv'
<1> USE DEF At
<1>0. {"start", "connect", "connected", "prompt", "request", "update"} \cap (Carried \cup {"ended"}) = {}
  BY DEF Carried
<1>1. CASE Connect(ClusterActions)
  BY <1>1, ConnectTruth
<1>2. CASE UnitStart
  <2>1. /\ cmd.pc = "start"
        /\ \/ Fail \/ Goto("prompt") \/ Goto("connect")
           \/ line.dry /\ Report({Row(line.target, TRUE)}, FALSE)
    BY Zenon, <1>2 DEF UnitStart
  <2>2. QED
    BY Zenon, <1>0, <2>1, FailTruth, GotoTruth, ReadTruth DEF Changing
<1>3. CASE UnitDryRun
  BY Zenon, <1>3, ReadTruth DEF UnitDryRun, Changing
<1>4. CASE UnitConnected
  <2>1. cmd.pc = "connected" /\ (Goto("prompt") \/ Goto("request"))
    BY <1>4 DEF UnitConnected
  <2>2. QED
    BY <1>0, <2>1, GotoTruth
<1>5. CASE ConfirmUnit
  <2>1. cmd.pc = "prompt" /\ \E pc \in {"connect", "request"} : Confirm({line.target}, pc)
    BY <1>5 DEF ConfirmUnit
  <2>2. QED
    BY <1>0, <2>1, ConfirmTruth
<1>6. CASE UnitRequest
  <2>1. PICK answer, reply : /\ answer \in {"ok", "refused", "unsupported"}
                             /\ reply = [x \in {line.target} |-> answer]
                             /\ Sent({line.target}, reply, "answered")
    BY SMTT(20), <1>6 DEF UnitRequest
  <2>2. line.kind \in UnitActions /\ cmd.pc = "request" /\ ~line.dry
    BY <1>6 DEF UnitRequest, Inv, DryInv, Committed
  <2>3. /\ Changing /\ cmd.pc \notin Carried \cup {"ended"} /\ "answered" \in Carried
        /\ ~Of({"aclsAdd", "aclsRemove"}) /\ ~Of({"logDirsAlter"})
        /\ Answers = {"ok", "refused", "missing", "unsupported"}
    BY <2>2 DEF Of, Changing, Reading, ClusterReads, Carried, UnitActions, Answers
  <2>4. DOMAIN reply = {line.target} /\ \A x \in DOMAIN reply : reply[x] \in Answers
    BY <2>1, <2>3
  <2>5. QED
    BY <2>1, <2>3, <2>4, SentTruth
<1>7. CASE UnitAnswered
  <2>1. line.kind \in UnitActions /\ cmd.pc = "answered" /\ cmd.pc \in Carried /\ cmd.pc # "ended"
    BY <1>7 DEF UnitAnswered, Carried
  <2>2. CASE Fail
    BY <2>1, <2>2, FailTruth
  <2>3. CASE /\ \/ cmd.reply[line.target] = "ok"
                \/ cmd.reply[line.target] = "unsupported" /\ line.kind = "unregister"
             /\ Report(RowsOf(cmd.reply), FALSE)
    <3>1. CASE line.dry
      BY Zenon, <2>1, <2>3, <3>1, ReadTruth DEF Changing
    <3>2. CASE ~line.dry
      <4>1. /\ Changing /\ ~Of({"aclsAdd", "aclsRemove", "logDirsAlter"})
            /\ ~Of({"aclsAdd", "aclsRemove"}) /\ ~Of({"logDirsAlter"}) /\ Of(UnitActions)
        BY <2>1, <3>2 DEF Of, Changing, Reading, ClusterReads, UnitActions
      <4>2. DOMAIN cmd.reply = {line.target}
        BY <2>1, <4>1 DEF TruthInv, Working, OneRequestInv
      <4>3. \A x \in DOMAIN cmd.reply : cmd.reply[x] = "ok" \/ Forgiven(x)
        BY <2>3, <4>2 DEF Forgiven, Of
      <4>4. QED
        BY Zenon, <2>1, <2>3, <4>1, <4>3, AnsweredTruth
    <3>3. QED
      BY <3>1, <3>2
  <2>4. QED
    BY Zenon, <1>7, <2>2, <2>3 DEF UnitAnswered
<1>8. CASE FeaturesStart \/ ReadStart
  <2>1. cmd.pc = "start" /\ (Fail \/ Goto("connect"))
    BY <1>8 DEF FeaturesStart, ReadStart
  <2>2. QED
    BY <1>0, <2>1, FailTruth, GotoTruth
<1>9. CASE CheckDependencies
  <2>1. cmd.pc = "connected" /\ (Fail \/ Goto("update") \/ Call("update", cmd.seen))
    BY <1>9 DEF CheckDependencies
  <2>2. QED
    BY <1>0, <2>1, FailTruth, GotoTruth, CallTruth
<1>10. CASE UpdateFeatures
  <2>1. line.kind = "featuresUpdate" /\ cmd.pc = "update"
    BY <1>10 DEF UpdateFeatures
  <2>2. CASE line.dry
    <3>1. \E reply : cmd' \in {[cmd EXCEPT !.pc = next, !.reply = reply] : next \in {"updated", "lost"}}
      BY Zenon, <1>10, <2>2 DEF UpdateFeatures
    <3>2. cmd'.pc \in {"updated", "lost"} /\ cmd'.exit = cmd.exit
      BY Zenon, <3>1 DEF Inv, Shape, Fresh
    <3>3. QED
      BY <2>1, <2>2, <3>2, ReadGoesOn DEF Changing
  <2>3. CASE ~line.dry
    <3>1. PICK answer, reply : /\ answer \in {"ok", "refused"} /\ reply = [f \in Updates |-> answer]
                               /\ Sent(Updates, reply, "updated")
      BY <1>10, <2>3 DEF UpdateFeatures
    <3>2. /\ Changing /\ cmd.pc \notin Carried \cup {"ended"} /\ "updated" \in Carried
          /\ ~Of({"aclsAdd", "aclsRemove"}) /\ ~Of({"logDirsAlter"}) /\ ~Of(UnitActions)
          /\ Answers = {"ok", "refused", "missing", "unsupported"}
      BY <2>1, <2>3 DEF Of, Changing, Reading, ClusterReads, Carried, UnitActions, Answers
    <3>3. DOMAIN reply = Updates /\ \A x \in DOMAIN reply : reply[x] \in Answers
      BY <3>1, <3>2
    <3>4. QED
      BY <3>1, <3>2, <3>3, SentTruth
  <2>4. QED
    BY <2>2, <2>3
<1>11. CASE FeaturesAnswered
  <2>1. /\ line.kind = "featuresUpdate" /\ cmd.pc \in {"updated", "lost"} /\ cmd.pc # "ended"
        /\ cmd.pc \in Carried
    BY Zenon, <1>11 DEF FeaturesAnswered, Carried
  <2>2. CASE Fail
    BY <2>1, <2>2, FailTruth
  <2>3. CASE Report({Row(f, FALSE) : f \in Updates}, TRUE)
    BY Zenon, <2>1, <2>3, OkOfFalse, ReportTruth
  <2>4. CASE Report(RowsOf(cmd.reply), AnyFailed(RowsOf(cmd.reply)))
    <3>1. CASE line.dry
      BY <2>1, <2>4, <3>1, AnyFailedType, ReadTruth DEF Changing
    <3>2. CASE ~line.dry
      BY <2>1, <2>4, <3>2, AllDone, AnyFailedType, AnsweredTruth
      DEF Of, Changing, Reading, ClusterReads
    <3>3. QED
      BY <3>1, <3>2
  <2>5. QED
    BY Zenon, <1>11, <2>2, <2>3, <2>4 DEF FeaturesAnswered
<1>12. CASE FeaturesDescribe \/ ReadReport
  <2>1. ~Changing /\ cmd.pc # "ended"
    BY Zenon, <1>12 DEF FeaturesDescribe, ReadReport, Changing, Reading
  <2>2. Fail \/ \E rows : Report(rows, FALSE)
    BY Zenon, <1>12 DEF FeaturesDescribe, ReadReport
  <2>3. QED
    BY Zenon, <2>1, <2>2, FailTruth, ReadTruth
<1>13. QED
  BY <1>1, <1>2, <1>3, <1>4, <1>5, <1>6, <1>7, <1>8, <1>9, <1>10, <1>11, <1>12 DEF ClusterOpsNext

LEMMA NextTruth == Inv /\ TruthInv /\ [Next]_allVars => TruthInv'
<1> SUFFICES ASSUME Inv, TruthInv, [Next]_allVars PROVE TruthInv'
  OBVIOUS
<1>1. CASE Runs
  <2>1. UNCHANGED <<line, moves>> /\ Step
    BY <1>1 DEF Runs
  <2>2. CASE Lost(LookInto)
    BY <2>1, <2>2, FailTruth DEF Lost
  <2>3. QED
    BY <2>1, <2>2, TopicsKeepTruth, DescribeKeepsTruth, AclsKeepTruth, ConfigsKeepTruth,
       TransactionsKeepTruth, ReplicasKeepTruth, ClusterOpsKeepTruth
    DEF Step
<1>2. CASE Interrupted
  BY <1>2, FailTruth DEF Interrupted, Cancel
<1>3. CASE Elsewhere \/ Ends \/ UNCHANGED allVars
  <2>1. UNCHANGED <<line, cmd, effects>>
    BY <1>3 DEF Elsewhere, Ends, Stay, allVars, vars
  <2>2. moves' \in 0..MaxMoves
    BY SMTT(20), <1>3, MaxMovesIsNat
    DEF Elsewhere, Ends, allVars, vars, TruthInv, RowsAreOfChanges, TypeOK
  <2>3. TypeOK'
    BY <2>1, <2>2 DEF TruthInv, RowsAreOfChanges, TypeOK
  <2>4. /\ Changing' = Changing /\ Reported' = Reported /\ Working' = Working
        /\ \A x : Replaced(x)' = Replaced(x) /\ Forgiven(x)' = Forgiven(x)
    <3>1. Assignments' = Assignments /\ Flags' = Flags /\ Answers' = Answers
      BY <2>1 DEF Assignments, Flags, Answers, Of
    <3>2. Reported' = Reported /\ Changing' = Changing
      BY <2>1 DEF Reported, Changing
    <3>3. AddInv' = AddInv /\ RemoveInv' = RemoveInv /\ OneRequestInv' = OneRequestInv
      BY <2>1, <3>1, <3>2 DEF AddInv, RemoveInv, OneRequestInv, Of
    <3>4. \A x : Replaced(x)' = Replaced(x)
      BY <2>1, <3>1 DEF Replaced, Of
    <3>5. \A x : Forgiven(x)' = Forgiven(x)
      BY <2>1, <3>1, <3>4 DEF Forgiven, Of
    <3>6. Working' = Working
      BY <2>1, <3>3 DEF Working, Of
    <3>7. QED
      BY <3>2, <3>4, <3>5, <3>6
  <2>5. QED
    BY <2>1, <2>3, <2>4 DEF TruthInv, RowsAreOfChanges, SuccessMeansDone
<1>4. QED
  BY <1>1, <1>2, <1>3 DEF Next

LEMMA Truth == Spec => []TruthInv
BY InitInv, NextInv, InitTruth, NextTruth, PTL DEF Spec

\* For every command line that parses and every cluster, whatever fails, is
\* lost or is interrupted: a row that says a change was made is of a change
\* that was made, and what was refused or cancelled has no rows.
THEOREM RowsAreTrue == Spec => []RowsAreOfChanges
<1>1. TruthInv => RowsAreOfChanges
  BY DEF TruthInv
<1>2. QED
  BY <1>1, Truth, PTL

\* exit.rs, for every command line and every cluster: exit code 0 of a command
\* that changes the cluster means that all it asked for is done or forgiven,
\* and that all that was done is in its report.
THEOREM SuccessIsDone == Spec => []SuccessMeansDone
<1>1. TruthInv => SuccessMeansDone
  BY DEF TruthInv
<1>2. QED
  BY <1>1, Truth, PTL

-----------------------------------------------------------------------------
(* Reports tell what held                                                  *)

\* What the cluster is for the commands that read more than once.
ClusterInv ==
    /\ Of({"configsDescribe"}) =>
         /\ DOMAIN cluster = Entities
         /\ \A e \in Entities : /\ cluster[e].keys \subseteq KeysOf(e)
                                /\ ~cluster[e].there => cluster[e].keys = {}
    /\ Of({"transactionsList"}) =>
         /\ DOMAIN cluster = {"open", "old", "known", "coord", "on", "loading"}
         /\ cluster.known \subseteq Producers /\ cluster.on \in [Producers -> Coordinators]
    /\ Of({"findHanging"}) =>
         /\ DOMAIN cluster = {"open", "old", "known", "coord", "on", "loading"}
         /\ \A o \in cluster.open : o[2] \in Producers
         /\ DOMAIN cluster.coord = Producers
         /\ \A p \in Producers : p \notin cluster.known => cluster.coord[p] = {}

\* describe: a row that held throughout is of the leader that was read, and the
\* selectors apply to what was read so far; to one that was false throughout
\* none does.
DescribeRead ==
    /\ \A x \in facts.held :
         /\ cmd.pc \in {"configs", "brokers", "reassignments"} =>
              /\ x[2] = cmd.seen.part.leader
              /\ "underReplicated" \in line.flags => IsUnderReplicated(cmd.seen.part, None)
              /\ "underMinIsr" \in line.flags => IsUnderMinIsr(cmd.seen.part, x[1])
              /\ "atMinIsr" \in line.flags => IsAtMinIsr(cmd.seen.part, x[1])
         /\ cmd.pc \in {"brokers", "reassignments"} => x[1] = cmd.seen.min
         /\ cmd.pc = "reassignments" /\ "unavailable" \in line.flags =>
              IsUnavailable(cmd.seen.part, cmd.seen.live)
    /\ \A x \in facts.denied :
         /\ line.flags \cap Selectors # {}
         /\ cmd.pc \in {"configs", "brokers", "reassignments"} =>
              /\ x[2] = cmd.seen.part.leader
              /\ "underReplicated" \in line.flags => ~IsUnderReplicated(cmd.seen.part, None)
              /\ "underMinIsr" \in line.flags => ~IsUnderMinIsr(cmd.seen.part, x[1])
              /\ "atMinIsr" \in line.flags => ~IsAtMinIsr(cmd.seen.part, x[1])
         /\ cmd.pc = "reassignments" /\ "unavailable" \in line.flags =>
              ~IsUnavailable(cmd.seen.part, cmd.seen.live)

Listed(b) == line.principals = {} \/ b.entry.who \in line.principals

\* acls --list: each filter that is done has found its bindings.
AclsRead ==
    IF cmd.pc = "start" THEN cmd.rows = {}
    ELSE /\ DOMAIN cmd.seen = {"todo", "done", "at", "absent"}
         /\ cmd.seen.todo \cup cmd.seen.done = ResourceFilters
         /\ \A x \in facts.held : \A r \in cmd.seen.done : Matches(r, x.on) => x \in Reported
         /\ \A x \in facts.denied : x \in Reported => ~Listed(x)

\* configs --describe: what is not reported yet is of an entity still to be
\* described, or a credential.
ConfigsRead ==
    /\ cmd.pc # "start" => ConfigPlanHolds
    /\ cmd.pc \in {"start", "connect", "connected"} => cmd.rows = {}
    /\ cmd.pc = "describe" =>
         /\ ~HasQuotas(line.types)
         /\ \A e \in cmd.seen : e \in Entities /\ e[1] = line.types /\ (Named => e = Entity)
         /\ \A x \in facts.held : x[1] \in cmd.seen \/ x \in Reported
    /\ cmd.pc = "scram" =>
         /\ HasQuotas(line.types)
         /\ \A x \in facts.held : x[2] \in ScramKeys \/ x \in Reported
    /\ Reported \cap facts.denied = {}

\* transactions list: or of a coordinator that is still to be asked, or failed.
ListRead ==
    /\ cmd.pc \in {"start", "connect", "connected"} => cmd.rows = {}
    /\ cmd.pc = "list" =>
         /\ DOMAIN cmd.seen = {"asks", "left", "failed"}
         /\ \A x \in facts.held : x[2] \in cmd.seen.left \cup cmd.seen.failed \/ x \in Reported
    /\ Reported \cap facts.denied = {}

\* transactions describe: a transactional id that is described is described as
\* it was throughout.
IdsRead ==
    /\ \A x \in facts.held : (\E r \in cmd.rows : r.what[1] = x[1]) => x \in Reported
    /\ Reported \cap facts.denied = {}

\* find-hanging and describe-producers: the partition is still to be searched,
\* or the transaction is a candidate; and then its producer is still to be
\* described, or it is found hanging.
SearchRead ==
    /\ cmd.pc = "search" =>
         /\ cmd.seen.left \subseteq line.partitions
         /\ \A x \in facts.held : x[1] \in cmd.seen.left \/ x \in cmd.seen.candidates
         /\ Of({"describeProducers"}) => cmd.seen.candidates \cap facts.denied = {}
    /\ Of({"findHanging"}) /\ cmd.pc = "describe" =>
         /\ DOMAIN cmd.seen = {"candidates", "todo", "hanging"}
         /\ \A x \in facts.held : \/ x \in cmd.seen.hanging
                                  \/ x \in cmd.seen.candidates /\ x[2] \in cmd.seen.todo
         /\ cmd.seen.hanging \cap facts.denied = {}

\* get-offsets: what was there throughout is in both readings.
OffsetsRead ==
    /\ cmd.pc = "selected" => facts.held \subseteq cmd.seen.all
    /\ cmd.pc = "offsets" =>
         facts.held \subseteq cmd.seen.parts /\ cmd.seen.parts \subseteq line.partitions

ReadInv ==
    /\ Of({"describe"}) => DescribeRead
    /\ Of({"aclsList"}) => AclsRead
    /\ Of({"configsDescribe"}) => ConfigsRead
    /\ Of({"transactionsList"}) => ListRead
    /\ Of({"transactionsDescribe"}) => IdsRead
    /\ Of({"describeProducers", "findHanging"}) => SearchRead
    /\ Of({"getOffsets"}) => OffsetsRead

\* What is remembered holds now, and the report so far has all of it that was
\* read.
TellsInv ==
    line.kind \in Reading =>
      /\ facts.held \subseteq Holds /\ facts.denied \subseteq Denies
      /\ ClusterInv
      /\ cmd.pc # "ended" => cmd.exit = "none" /\ ReadInv
      /\ ReportsWhatHeld /\ ReportsNothingFalse

\* What is remembered only shrinks, and holds now.
LEMMA FactsShrink ==
    ASSUME Remember
    PROVE  /\ facts'.held \subseteq facts.held /\ facts'.held \subseteq Holds'
           /\ facts'.denied \subseteq facts.denied /\ facts'.denied \subseteq Denies'
<1> DEFINE holds == Holds'
           denies == Denies'
<1>1. facts' = [held |-> facts.held \cap holds, denied |-> facts.denied \cap denies]
  BY Zenon DEF Remember
<1> HIDE DEF holds, denies
<1>2. facts'.held = facts.held \cap holds /\ facts'.denied = facts.denied \cap denies
  BY <1>1
<1>3. QED
  BY <1>2 DEF holds, denies

LEMMA ClusterStays ==
    ASSUME ClusterInv, UNCHANGED <<line, cluster>>
    PROVE  ClusterInv'
BY DEF ClusterInv, Of

\* A command that ends with a report of all that is remembered and of nothing
\* that is known to be false.
LEMMA EndTells ==
    ASSUME Inv, TellsInv, UNCHANGED line, OnlyLocal, Remember,
           NEW exit, NEW rows, cmd' = Ended(exit, rows),
           exit = "success" => facts.held \subseteq OkOf(rows),
           OkOf(rows) \cap facts.denied = {}
    PROVE  TellsInv'
<1> SUFFICES ASSUME line.kind \in Reading PROVE TellsInv'
  BY DEF TellsInv
<1>1. cmd'.pc = "ended" /\ cmd'.exit = exit /\ cmd'.rows = rows
  BY DEF Inv, Shape, Fresh, Ended
<1>2. Reported' = OkOf(rows)
  BY <1>1 DEF Reported, OkOf
<1>3. ClusterInv'
  BY ClusterStays DEF TellsInv, OnlyLocal
<1>4. ReportsWhatHeld' /\ ReportsNothingFalse'
  BY <1>1, <1>2, FactsShrink DEF ReportsWhatHeld, ReportsNothingFalse
<1>5. QED
  BY <1>1, <1>3, <1>4, FactsShrink DEF TellsInv

LEMMA NoRows == OkOf({}) = {}
BY DEF OkOf

LEMMA OkOfOne == ASSUME NEW x PROVE OkOf({Row(x, TRUE)}) = {x}
<1>1. {Row(x, TRUE)} = {Row(y, TRUE) : y \in {x}} OBVIOUS
<1>2. QED BY <1>1, OkOfTrue, Zenon

LEMMA OkOfExcept ==
    ASSUME NEW S, NEW T PROVE OkOf({Row(x, x \notin T) : x \in S}) = S \ T
<1> DEFINE R == {Row(x, x \notin T) : x \in S}
<1>1. ASSUME NEW x \in OkOf(R) PROVE x \in S \ T
  <2>1. PICK r \in R : r.ok /\ x = r.what BY DEF OkOf
  <2>2. PICK y \in S : r = Row(y, y \notin T) BY <2>1
  <2>3. r.what = y /\ r.ok = (y \notin T) BY <2>2, RowFacts, Zenon
  <2>4. QED BY Zenon, <2>1, <2>3
<1>2. ASSUME NEW x \in S \ T PROVE x \in OkOf(R)
  <2> DEFINE r == Row(x, x \notin T)
  <2>1. r \in R OBVIOUS
  <2>2. r.what = x /\ r.ok = (x \notin T) BY RowFacts, Zenon
  <2>3. r.ok BY Zenon, <2>2
  <2> HIDE DEF r, R
  <2>4. QED BY <2>1, <2>2, <2>3 DEF OkOf
<1>3. QED BY <1>1, <1>2

\* A request that was answered.
LEMMA CallGoes ==
    ASSUME Inv, ~Fail, NEW pc, NEW seen, Call(pc, seen)
    PROVE  /\ OnlyLocal /\ cmd'.pc = pc /\ cmd'.seen = seen
           /\ cmd'.exit = cmd.exit /\ cmd'.rows = cmd.rows
BY DEF Call, Inv, Shape, Fresh

LEMMA FailTells ==
    ASSUME Inv, TellsInv, UNCHANGED line, Remember, Fail \/ Usage \/ Cancel
    PROVE  TellsInv'
<1>1. OnlyLocal /\ \E exit \in {"failure", "usage", "cancelled"} : cmd' = Ended(exit, {})
  BY DEF Fail, Usage, Cancel
<1>2. QED
  BY <1>1, NoRows, EndTells

LEMMA ReportTells ==
    ASSUME Inv, TellsInv, UNCHANGED line, Remember,
           NEW rows, NEW failed \in BOOLEAN, Report(rows, failed),
           ~failed => facts.held \subseteq OkOf(rows),
           OkOf(rows) \cap facts.denied = {}
    PROVE  TellsInv'
<1>1. OnlyLocal /\ (cmd' = Ended(FromFailed(failed), rows) \/ cmd' = Ended("failure", {}))
  BY DEF Report
<1>2. CASE cmd' = Ended("failure", {})
  BY <1>1, <1>2, NoRows, EndTells
<1>3. CASE cmd' = Ended(FromFailed(failed), rows)
  BY <1>1, <1>3, EndTells DEF FromFailed
<1>4. QED
  BY <1>1, <1>2, <1>3

\* What was read in the last request is what holds.
LEMMA NowTells ==
    ASSUME Inv, TellsInv, UNCHANGED line, Remember,
           NEW failed \in BOOLEAN, Report({Row(x, TRUE) : x \in Holds}, failed),
           line.kind \in Reading, Denies \cap Holds = {}
    PROVE  TellsInv'
<1> DEFINE rows == {Row(x, TRUE) : x \in Holds}
<1>1. OkOf(rows) = Holds
  BY OkOfTrue, Zenon
<1> HIDE DEF rows
<1>2. facts.held \subseteq Holds /\ facts.denied \subseteq Denies
  BY DEF TellsInv
<1>3. Report(rows, failed)
  BY DEF rows
<1>4. QED
  BY <1>1, <1>2, <1>3, ReportTells

\* A command that goes on.
LEMMA GoesOnTells ==
    ASSUME TellsInv, UNCHANGED line, OnlyLocal, Remember, line.kind \in Reading,
           cmd.pc # "ended", cmd'.pc # "ended", cmd'.exit = cmd.exit, ReadInv'
    PROVE  TellsInv'
<1>1. cmd.exit = "none" /\ ClusterInv'
  BY ClusterStays DEF TellsInv, OnlyLocal
<1>2. ReportsWhatHeld' /\ ReportsNothingFalse'
  BY <1>1 DEF ReportsWhatHeld, ReportsNothingFalse
<1>3. QED
  BY <1>1, <1>2, FactsShrink DEF TellsInv

\* The commands with one read.
OneRead == {"list", "logDirsDescribe", "featuresDescribe"} \cup ClusterReads

LEMMA OneReadTells ==
    ASSUME Inv, TellsInv, UNCHANGED line, Remember, line.kind \in OneRead, cmd.pc # "ended",
           NEW pc, pc # "ended", NEW seen, Goto(pc) \/ Call(pc, seen)
    PROVE  TellsInv'
<1>1. CASE Fail
  BY <1>1, FailTells
<1>2. CASE ~Fail
  <2>1. OnlyLocal /\ cmd'.pc # "ended" /\ cmd'.exit = cmd.exit
    BY <1>2 DEF Goto, Call, Inv, Shape, Fresh
  <2>2. ReadInv' /\ line.kind \in Reading
    BY DEF ReadInv, Of, OneRead, Reading, ClusterReads
  <2>3. QED
    BY <2>1, <2>2, GoesOnTells
<1>3. QED
  BY <1>1, <1>2

LEMMA TopicsTell ==
    ASSUME Inv, TellsInv, TopicsNext, UNCHANGED <<line, moves>>, Remember
    PROVE  TellsInv'
<1> USE DEF At
<1>1. line.kind \in TopicActions
  BY Zenon DEF TopicsNext, TopicsStart, Connect, ListTopics, CreateDryRun, CreateTopics,
               CreateAnswered, AlterDescribe, CreatePartitions, ConfirmDelete, DeleteTopics,
               TopicsAnswered, TopicActions
<1>2. CASE line.kind # "list"
  BY <1>1, <1>2 DEF TellsInv, Reading, ClusterReads, TopicActions
<1>3. CASE line.kind = "list"
  <2>0. line.kind \in OneRead /\ line.kind \in Reading
    BY <1>3 DEF OneRead, Reading
  <2>1. CASE TopicsStart
    BY <2>0, <2>1, FailTells, OneReadTells DEF TopicsStart
  <2>2. CASE Connect(TopicActions)
    BY <2>0, <2>2, OneReadTells DEF Connect
  <2>3. CASE ListTopics
    <3>1. Holds = Resolve(Existing) /\ Denies = TopicNames \ Holds
      BY <1>3 DEF Holds, Denies, Of
    <3>2. Fail \/ Report({Row(n, TRUE) : n \in Holds}, FALSE)
      BY Zenon, <1>3, <2>3, <3>1 DEF ListTopics
    <3>3. QED
      BY <2>0, <3>1, <3>2, FailTells, NowTells
  <2>4. QED
    BY Zenon, <1>3, <2>1, <2>2, <2>3
    DEF TopicsNext, CreateDryRun, CreateTopics, CreateAnswered, AlterDescribe, CreatePartitions,
        ConfirmDelete, DeleteTopics, TopicsAnswered
<1>4. QED
  BY <1>2, <1>3

LEMMA DescribeTells ==
    ASSUME Inv, TellsInv, DescribeNext, UNCHANGED <<line, moves>>, Remember
    PROVE  TellsInv'
<1> USE DEF At
<1>1. line.kind = "describe" /\ cmd.pc # "ended"
  BY Zenon DEF DescribeNext, DescribeStart, Connect, DescribeListing, DescribeTopics,
               DescribeTopicConfigs, DescribeLive, ListReassignments
<1>2. /\ line.kind \in Reading /\ Holds = DescribeHolds /\ Denies = DescribeDenies
      /\ ReadInv <=> DescribeRead
      /\ ReadInv' <=> DescribeRead'
  BY <1>1 DEF Reading, Holds, Denies, Of, ReadInv
<1>3. DescribeRead /\ facts.held \subseteq DescribeHolds /\ facts.denied \subseteq DescribeDenies
  BY <1>1, <1>2 DEF TellsInv
<1>4. ASSUME OnlyLocal, cmd'.pc # "ended", cmd'.exit = cmd.exit, DescribeRead'
      PROVE  TellsInv'
  BY <1>1, <1>2, <1>4, GoesOnTells
<1>5. facts'.held \subseteq facts.held /\ facts'.denied \subseteq facts.denied
  BY FactsShrink
<1>6. CASE Fail
  BY <1>6, FailTells
<1>7. \A x \in facts.held :
        /\ cluster.there /\ x = <<cluster.min, cluster.part.leader>>
        /\ "underReplicated" \in line.flags => Ongoing = None /\ IsUnderReplicated(cluster.part, None)
        /\ "unavailable" \in line.flags => IsUnavailable(cluster.part, cluster.live)
        /\ "underMinIsr" \in line.flags => IsUnderMinIsr(cluster.part, cluster.min)
        /\ "atMinIsr" \in line.flags => IsAtMinIsr(cluster.part, cluster.min)
  BY <1>3 DEF DescribeHolds
<1>8. \A x \in facts.denied :
        /\ x = <<cluster.min, cluster.part.leader>> /\ Ongoing = None
        /\ line.flags \cap Selectors # {}
        /\ "underReplicated" \in line.flags => ~IsUnderReplicated(cluster.part, None)
        /\ "unavailable" \in line.flags => ~IsUnavailable(cluster.part, cluster.live)
        /\ "underMinIsr" \in line.flags => ~IsUnderMinIsr(cluster.part, cluster.min)
        /\ "atMinIsr" \in line.flags => ~IsAtMinIsr(cluster.part, cluster.min)
  BY <1>3 DEF DescribeDenies, ShouldPrint
<1>9. CASE ~Fail /\ (DescribeStart \/ Connect({"describe"}) \/ DescribeListing)
  <2>1. CASE cluster.there \/ ~DescribeListing
    <3>1. OnlyLocal /\ cmd'.pc \in {"connect", "connected", "descriptions"} /\ cmd'.exit = cmd.exit
      BY <1>9, <2>1 DEF DescribeStart, Connect, DescribeListing, Goto, Call, Inv, Shape, Fresh
    <3>2. DescribeRead'
      BY <1>5, <1>8, <3>1 DEF DescribeRead
    <3>3. QED
      BY <1>4, <3>1, <3>2
  <2>2. CASE ~cluster.there /\ DescribeListing
    <3>1. Report({}, FALSE) /\ facts.held = {}
      BY <1>7, <1>9, <2>2 DEF DescribeListing
    <3>2. QED
      BY <3>1, NoRows, ReportTells
  <2>3. QED
    BY <2>1, <2>2
<1>10. CASE DescribeTopics
  <2>1. CASE Report({}, TRUE)
    BY <2>1, NoRows, ReportTells
  <2>2. CASE /\ cmd' = [cmd EXCEPT !.pc = "configs", !.seen = [part |-> cluster.part]]
             /\ OnlyLocal
    <3>1. cmd'.pc = "configs" /\ cmd'.seen.part = cluster.part /\ cmd'.exit = cmd.exit
      BY <2>2 DEF Inv, Shape, Fresh
    <3>2. DescribeRead'
      BY SMTT(20), <1>5, <1>7, <1>8, <3>1 DEF DescribeRead
    <3>3. QED
      BY <1>4, <2>2, <3>1, <3>2
  <2>3. QED
    BY <1>10, <2>1, <2>2 DEF DescribeTopics
<1>11. CASE ~Fail /\ DescribeTopicConfigs
  <2>1. PICK min : /\ cluster.there => min = cluster.min
                   /\ cmd' = [cmd EXCEPT !.pc = "brokers", !.seen = [part |-> cmd.seen.part, min |-> min]]
                   /\ OnlyLocal /\ cmd.pc = "configs"
    BY <1>11 DEF DescribeTopicConfigs, Call
  <2>2. /\ cmd'.pc = "brokers" /\ cmd'.seen.part = cmd.seen.part /\ cmd'.seen.min = min
        /\ cmd'.exit = cmd.exit
    BY <2>1 DEF Inv, Shape, Fresh
  <2>3. DescribeRead'
    BY SMTT(20), <1>3, <1>5, <1>7, <2>1, <2>2 DEF DescribeRead
  <2>4. QED
    BY <1>4, <2>1, <2>2, <2>3
<1>12. CASE ~Fail /\ DescribeLive
  <2>1. /\ cmd' = [cmd EXCEPT !.pc = "reassignments", !.seen =
                     [part |-> cmd.seen.part, min |-> cmd.seen.min, live |-> cluster.live]]
        /\ OnlyLocal /\ cmd.pc = "brokers"
    BY <1>12 DEF DescribeLive, Call
  <2>2. /\ cmd'.pc = "reassignments" /\ cmd'.seen.part = cmd.seen.part
        /\ cmd'.seen.min = cmd.seen.min /\ cmd'.seen.live = cluster.live /\ cmd'.exit = cmd.exit
    BY <2>1 DEF Inv, Shape, Fresh
  <2>3. \A part, p, live : part.leader = p.leader => (IsUnavailable(part, live) <=> IsUnavailable(p, live))
    BY DEF IsUnavailable
  <2>4. DescribeRead'
    BY SMTT(20), <1>3, <1>5, <1>7, <1>8, <2>1, <2>2, <2>3 DEF DescribeRead
  <2>5. QED
    BY <1>4, <2>1, <2>2, <2>4
<1>13. CASE ~Fail /\ ListReassignments
  <2> DEFINE found == IF "denied" \in line.flags THEN None ELSE Ongoing
             s == cmd.seen
             row == <<s.min, s.part.leader>>
  <2>1. CASE Report({}, TRUE)
    BY <2>1, NoRows, ReportTells
  <2>2. CASE Report(DescribeTopic(s, found), FALSE)
    <3>1. cmd.pc = "reassignments"
      BY <1>13 DEF ListReassignments
    <3>2. ASSUME facts.held # {} PROVE ShouldPrint(s.part, found, s.live, s.min) /\ facts.held = {row}
      <4>1. PICK x \in facts.held : TRUE
        BY <3>2
      <4>2. facts.held = {x} /\ x = row
        BY SMTT(20), <1>3, <1>7, <3>1, <4>1 DEF DescribeRead
      <4>3. /\ "underReplicated" \in line.flags => found = None /\ IsUnderReplicated(s.part, None)
            /\ "unavailable" \in line.flags => IsUnavailable(s.part, s.live)
            /\ "underMinIsr" \in line.flags => IsUnderMinIsr(s.part, s.min)
            /\ "atMinIsr" \in line.flags => IsAtMinIsr(s.part, s.min)
        BY <1>3, <1>7, <3>1, <4>1 DEF DescribeRead
      <4> HIDE DEF found, s
      <4>4. ShouldPrint(s.part, found, s.live, s.min)
        BY <4>3 DEF ShouldPrint, Selectors
      <4>5. QED
        BY <4>2, <4>4
    <3>3. ASSUME ShouldPrint(s.part, found, s.live, s.min), row \in facts.denied PROVE FALSE
      <4>1. found = None /\ row[1] = s.min
        BY <1>8, <3>3
      <4>2. /\ line.flags \cap Selectors # {}
            /\ "underReplicated" \in line.flags => ~IsUnderReplicated(s.part, None)
            /\ "unavailable" \in line.flags => ~IsUnavailable(s.part, s.live)
            /\ "underMinIsr" \in line.flags => ~IsUnderMinIsr(s.part, s.min)
            /\ "atMinIsr" \in line.flags => ~IsAtMinIsr(s.part, s.min)
        BY <1>3, <3>1, <3>3, <4>1 DEF DescribeRead
      <4> HIDE DEF found, s
      <4>3. QED
        BY <3>3, <4>1, <4>2 DEF ShouldPrint
    <3> HIDE DEF row, s, found
    <3>4. OkOf(DescribeTopic(s, found)) = IF ShouldPrint(s.part, found, s.live, s.min) THEN {row} ELSE {}
      <4>1. OkOf({Row(row, TRUE)}) = {row}
        BY OkOfOne
      <4>2. QED
        BY <4>1, NoRows DEF DescribeTopic, row
    <3>5. QED
      BY <2>2, <3>2, <3>3, <3>4, ReportTells
  <2>3. QED
    BY Zenon, <1>13, <2>1, <2>2 DEF ListReassignments
<1>14. QED
  BY <1>6, <1>9, <1>10, <1>11, <1>12, <1>13 DEF DescribeNext

LEMMA FiltersStay == ASSUME UNCHANGED line PROVE ResourceFilters' = ResourceFilters
BY DEF ResourceFilters, Given

LEMMA AclsTell ==
    ASSUME Inv, TellsInv, AclsNext, UNCHANGED <<line, moves>>, Remember
    PROVE  TellsInv'
<1> USE DEF At
<1>1. line.kind \in AclActions /\ cmd.pc # "ended"
  BY Zenon DEF AclsNext, AclsStart, ConfirmRemoval, Connect, AclsFinish, AddStep, CreateAcls,
               AddAnswered, RemoveDryRun, DeleteAcls, RemoveAnswered, ListStep, AclActions
<1>2. CASE line.kind # "aclsList"
  BY <1>1, <1>2 DEF TellsInv, Reading, ClusterReads, AclActions
<1>3. CASE line.kind = "aclsList"
  <2>1. /\ line.kind \in Reading
        /\ ReadInv <=> AclsRead
        /\ ReadInv' <=> AclsRead'
    BY <1>3 DEF Reading, Of, ReadInv
  <2>2. /\ \A b : b \in Holds <=>
              /\ b \in cluster /\ Listed(b)
              /\ ResourceFilters = {} \/ \E r \in ResourceFilters : Matches(r, b.on)
        /\ \A b \in Denies : b \notin Holds
    BY <1>3 DEF Holds, Denies, Of, Listed
  <2>3. AclsRead /\ facts.held \subseteq Holds /\ facts.denied \subseteq Denies
    BY <1>1, <2>1 DEF TellsInv
  <2>4. ASSUME OnlyLocal, cmd'.pc # "ended", cmd'.exit = cmd.exit, AclsRead'
        PROVE  TellsInv'
    BY <1>1, <2>1, <2>4, GoesOnTells
  <2>5. facts'.held \subseteq facts.held /\ facts'.denied \subseteq facts.denied
    BY FactsShrink
  <2>6. \A b : Listed(b)' = Listed(b)
    BY DEF Listed
  <2>7. CASE Fail \/ Usage
    BY <2>7, FailTells
  <2>8. CASE AclsStart /\ ~Usage
    <3>1. /\ OnlyLocal
          /\ cmd' = [cmd EXCEPT !.pc = "connect",
                       !.seen = [todo |-> ResourceFilters, done |-> {}, at |-> TheCluster, absent |-> {}]]
          /\ cmd.pc = "start"
      BY <1>3, <2>8 DEF AclsStart
    <3>2. /\ cmd'.pc = "connect" /\ cmd'.exit = cmd.exit /\ cmd'.rows = {}
          /\ cmd'.seen = [todo |-> ResourceFilters, done |-> {}, at |-> TheCluster, absent |-> {}]
      BY <2>3, <3>1 DEF Inv, Shape, Fresh, AclsRead
    <3>3. Reported' = {}
      BY <3>2 DEF Reported
    <3>4. AclsRead'
      BY SMTT(20), <3>2, <3>3, FiltersStay DEF AclsRead
    <3>5. QED
      BY <2>4, <3>1, <3>2, <3>4
  <2>9. CASE Connect(AclActions) /\ ~Fail
    <3>1. /\ OnlyLocal /\ cmd.pc = "connect" /\ cmd'.pc = "connected" /\ cmd'.exit = cmd.exit
          /\ cmd'.rows = cmd.rows /\ cmd'.seen = cmd.seen
      BY <2>9 DEF Connect, Call, Inv, Shape, Fresh
    <3>2. Reported' = Reported
      BY <3>1 DEF Reported
    <3>3. AclsRead'
      BY <2>3, <2>5, <2>6, <3>1, <3>2, FiltersStay DEF AclsRead
    <3>4. QED
      BY <2>4, <3>1, <3>3
  <2>10. ASSUME cmd.pc = "connected", NEW r \in cmd.seen.todo,
                StepDone(r, {Row(b, TRUE) : b \in {x \in cluster : Matches(r, x.on)}})
         PROVE  TellsInv'
    <3> DEFINE found == {x \in cluster : Matches(r, x.on)}
               new == {Row(b, TRUE) : b \in found}
    <3>1. OkOf(new) = found
      BY OkOfTrue, Zenon
    <3>2. StepDone(r, new)
      BY <2>10
    <3> HIDE DEF new
    <3>3. /\ OnlyLocal /\ cmd'.pc = "connected" /\ cmd'.exit = cmd.exit /\ cmd'.rows = cmd.rows \cup new
          /\ DOMAIN cmd'.seen = {"todo", "done", "at", "absent"}
          /\ cmd'.seen.todo = cmd.seen.todo \ {r} /\ cmd'.seen.done = cmd.seen.done \cup {r}
      <4>1. /\ DOMAIN cmd = {"pc", "seen", "asked", "reply", "rows", "exit", "agreed"}
            /\ DOMAIN cmd.seen = {"todo", "done", "at", "absent"}
        BY <2>3, <2>10 DEF Inv, Shape, Fresh, AclsRead
      <4>2. QED
        BY <3>2, <4>1 DEF StepDone
    <3>4. Reported' = Reported \cup found
      BY SMTT(20), <3>1, <3>3, OkOfUnion DEF Reported, OkOf
    <3>5. /\ cmd.seen.todo \cup cmd.seen.done = ResourceFilters
          /\ \A x \in facts.held : \A q \in cmd.seen.done : Matches(q, x.on) => x \in Reported
          /\ \A x \in facts.denied : x \in Reported => ~Listed(x)
      BY <2>3, <2>10 DEF AclsRead
    <3>6. ASSUME NEW x \in facts'.held, NEW q \in cmd'.seen.done, Matches(q, x.on) PROVE x \in Reported'
      BY <2>2, <2>3, <2>5, <3>3, <3>4, <3>5, <3>6
    <3>7. ASSUME NEW x \in facts'.denied, x \in Reported' PROVE ~Listed(x)
      BY <2>2, <2>3, <2>5, <3>3, <3>4, <3>5, <3>7
    <3>8. cmd'.seen.todo \cup cmd'.seen.done = ResourceFilters'
      BY <3>3, <3>5, FiltersStay, <2>10
    <3>9. AclsRead'
      BY <2>6, <3>3, <3>6, <3>7, <3>8 DEF AclsRead
    <3>10. QED
      BY <2>4, <3>3, <3>9
  <2>11. ASSUME cmd.pc = "connected", cmd.seen.todo = {},
                NEW found, found = IF cmd.seen.done = {} THEN {Row(b, TRUE) : b \in cluster} ELSE cmd.rows,
                NEW listed, listed = IF line.principals = {} THEN found
                                     ELSE {x \in found : x.what.entry.who \in line.principals},
                Report(listed, FALSE)
         PROVE  TellsInv'
    <3>1. OkOf(found) = IF cmd.seen.done = {} THEN cluster ELSE Reported
      BY <2>11, OkOfTrue DEF Reported, OkOf
    <3>2. \A b : b \in OkOf(listed) <=> b \in OkOf(found) /\ Listed(b)
      BY <2>11 DEF OkOf, Listed
    <3>3. /\ cmd.seen.done = ResourceFilters
          /\ \A x \in facts.held : \A q \in cmd.seen.done : Matches(q, x.on) => x \in Reported
          /\ \A x \in facts.denied : x \in Reported => ~Listed(x)
      BY <2>3, <2>11 DEF AclsRead
    <3>4. facts.held \subseteq OkOf(listed)
      BY <2>2, <2>3, <3>1, <3>2, <3>3
    <3>5. OkOf(listed) \cap facts.denied = {}
      BY <2>2, <2>3, <3>1, <3>2, <3>3
    <3>6. QED
      BY <2>11, <3>4, <3>5, ReportTells
  <2>12. CASE ListStep
    BY Zenon, <2>7, <2>10, <2>11, <2>12 DEF ListStep
  <2>13. QED
    BY Zenon, <1>3, <2>7, <2>8, <2>9, <2>12
    DEF AclsNext, ConfirmRemoval, AclsFinish, AddStep, CreateAcls, AddAnswered, RemoveDryRun,
        DeleteAcls, RemoveAnswered, Connect, Call
<1>4. QED
  BY <1>2, <1>3

\* The keys of an entity: those that --describe asks for.
LEMMA KeysFacts ==
    ASSUME NEW e
    PROVE  /\ KeysOf(e) \subseteq ConfigKeys
           /\ ~HasQuotas(e[1]) \/ KeysOf(e) \subseteq QuotaKeys \cup IpQuotaKeys \cup ScramKeys
           /\ HasQuotas(e[1]) /\ (e[1] # <<"users">> \/ e[2] = <<"">>) =>
                KeysOf(e) \subseteq QuotaKeys \cup IpQuotaKeys
BY DEF KeysOf, ConfigKeys

LEMMA SequenceOfOne == ASSUME NEW T, NEW s \in Seq(T), Len(s) = 1 PROVE s = <<s[1]>>
<1>1. s[1] \in T BY SMTT(20)
<1>2. <<s[1]>> \in Seq(T) BY SMTT(20), <1>1
<1>3. Len(<<s[1]>>) = 1 /\ <<s[1]>>[1] = s[1] OBVIOUS
<1>4. \A i \in 1..Len(s) : s[i] = <<s[1]>>[i] BY SMTT(20)
<1>5. QED BY SMTT(20), <1>2, <1>3, <1>4

\* A command line that was planned for resources, and names one, names one of
\* the entities.
LEMMA EntityFacts ==
    ASSUME line \in Lines, line.kind = "configsDescribe", ConfigPlanHolds
    PROVE  /\ ~HasQuotas(line.types) /\ Named => Entity \in Entities /\ Entity[1] = line.types
           /\ HasQuotas(line.types) /\ ~(Types = {"users"} /\ ~HasDefault) =>
                \A e \in Meant : e[1] # <<"users">> \/ e[2] = <<"">>
<1>1. ConfigsArgs(line)
  BY LinesAreParsed
  DEF TopicsArgs, DescribeArgs, AclsArgs, TransactionsArgs, DeleteRecordsArgs, LogDirsArgs,
      LeaderElectionArgs, GetOffsetsArgs, ClusterArgs, MetadataQuorumArgs, DelegationTokensArgs,
      FeaturesArgs, TopicActions, AclActions, TransactionActions, FeatureActions
<1>2. line.types \in Seq(STRING) /\ line.names \in Seq(STRING)
  BY <1>1 DEF ConfigsArgs
<1>3. ASSUME ~HasQuotas(line.types), Named PROVE Entity \in Entities /\ Entity[1] = line.types
  <2>1. Len(line.types) = 1 \/ Types = {"users", "clients"}
    BY DEF ConfigPlanHolds, TypesFit
  <2>2. Len(line.types) = 1
    BY <1>3, <2>1 DEF HasQuotas, Types
  <2>3. line.types # <<>> /\ Len(line.types) <= Len(line.names)
    <3>1. \A s \in Seq(STRING) : Len(s) \in Nat /\ (Len(s) = 0 <=> s = <<>>)
      BY SMTT(20)
    <3>2. line.types # <<>>
      <4>1. 1 # 0 BY SMT
      <4>2. QED BY Zenon, <1>2, <2>2, <3>1, <4>1
    <3>3. Len(line.names) \in Nat /\ Len(line.names) # 0
      BY Zenon, <1>2, <1>3, <3>1 DEF Named
    <3>4. QED
      BY SMTT(20), <2>2, <3>2, <3>3
  <2>4. QED
    BY <1>1, <2>3 DEF ConfigsArgs, Entity, EntityOf
<1>4. ASSUME HasQuotas(line.types), ~(Types = {"users"} /\ ~HasDefault), NEW e \in Meant,
             e[1] = <<"users">>
      PROVE  e[2] = <<"">>
  <2>1. /\ line.types = <<"users">> /\ e \in Entities
        /\ \A i \in 1..Len(line.names) : e[2][i] = line.names[i]
    BY <1>4 DEF Meant
  <2>2. Types = {"users"}
    BY SMTT(20), <2>1 DEF Types, Range
  <2>3. Len(line.types) = 1 /\ Len(line.names) <= 1
    BY <1>4, <2>1 DEF ConfigPlanHolds, DescribeFits
  <2>4. PICK i \in 1..Len(line.names) : line.names[i] = ""
    BY <1>4, <2>2 DEF HasDefault
  <2>5. i = 1
    <3>1. Len(line.names) \in Nat
      BY SMTT(20), <1>2
    <3>2. \A n \in Nat : n <= 1 => \A j \in 1..n : j = 1
      BY SMTT(20)
    <3>3. QED
      BY <2>3, <2>4, <3>1, <3>2
  <2>6. e[2] \in Seq(STRING) /\ Len(e[2]) = Len(e[1])
    BY <2>1, EntitiesAreNamed
  <2>7. Len(e[2]) = 1 /\ e[2][1] = ""
    <3>1. Len(e[1]) = 1
      BY SMTT(20), <1>4
    <3>2. e[2][i] = line.names[i]
      BY <2>1
    <3>3. QED
      BY <2>4, <2>5, <2>6, <3>1, <3>2
  <2>8. QED
    BY Zenon, <2>6, <2>7, SequenceOfOne
<1>5. QED
  BY <1>3, <1>4

\* The rows of --describe are of keys that are set.
LEMMA KeyRowsFacts ==
    ASSUME NEW entities, NEW keys
    PROVE  \A x : x \in OkOf(KeyRows(entities, keys)) <=>
             \E e \in entities : \E k \in cluster[e].keys \cap keys : x = <<e, k>>
<1>1. ASSUME NEW x, x \in OkOf(KeyRows(entities, keys))
      PROVE  \E e \in entities : \E k \in cluster[e].keys \cap keys : x = <<e, k>>
  <2>1. PICK r \in KeyRows(entities, keys) : r.what = x
    BY <1>1 DEF OkOf
  <2>2. PICK e \in entities : r \in {Row(<<e, k>>, TRUE) : k \in cluster[e].keys \cap keys}
    BY <2>1 DEF KeyRows
  <2>3. PICK k \in cluster[e].keys \cap keys : r = Row(<<e, k>>, TRUE)
    BY <2>2
  <2>4. x = <<e, k>>
    BY <2>1, <2>3, RowFacts
  <2>5. QED
    BY <2>4
<1>2. ASSUME NEW e \in entities, NEW k \in cluster[e].keys \cap keys
      PROVE  <<e, k>> \in OkOf(KeyRows(entities, keys))
  <2>1. Row(<<e, k>>, TRUE) \in KeyRows(entities, keys)
    <3>1. Row(<<e, k>>, TRUE) \in {Row(<<e, q>>, TRUE) : q \in cluster[e].keys \cap keys}
      OBVIOUS
    <3>2. QED
      BY Zenon, <3>1 DEF KeyRows
  <2> DEFINE r == Row(<<e, k>>, TRUE)
  <2>2. r.what = <<e, k>> /\ r.ok
    BY Zenon, RowFacts
  <2> HIDE DEF r
  <2>3. QED
    BY <2>1, <2>2 DEF OkOf, r
<1>3. QED
  BY <1>1, <1>2

LEMMA ConfigsTell ==
    ASSUME Inv, TellsInv, ConfigsNext, UNCHANGED <<line, moves>>, Remember
    PROVE  TellsInv'
<1> USE DEF At
<1>1. line.kind \in ConfigActions /\ cmd.pc # "ended"
  BY Zenon DEF ConfigsNext, ConfigsStart, Connect, AlterReads, NothingToAlter, AlterConfigs,
               AlterAnswered, DescribeList, DescribeEach, DescribeQuotas, DescribeScram,
               ConfigActions
<1>2. CASE line.kind # "configsDescribe"
  BY <1>1, <1>2 DEF TellsInv, Reading, ClusterReads, ConfigActions
<1>3. CASE line.kind = "configsDescribe"
  <2>1. /\ line.kind \in Reading /\ line \in Lines
        /\ ReadInv <=> ConfigsRead
        /\ ReadInv' <=> ConfigsRead'
    BY <1>3 DEF Reading, Of, ReadInv, Inv, Shape
  <2>2. /\ DOMAIN cluster = Entities
        /\ \A e \in Entities : /\ cluster[e].keys \subseteq KeysOf(e)
                               /\ ~cluster[e].there => cluster[e].keys = {}
    BY <1>3, <2>1 DEF TellsInv, ClusterInv, Of
  <2>3. ConfigsRead /\ facts.held \subseteq Holds /\ facts.denied \subseteq Denies
    BY <1>1, <2>1 DEF TellsInv
  <2>4. \A x \in facts.held : \E e \in Described : \E k \in cluster[e].keys :
          x = <<e, k>> /\ OfTheType(e)
    <3>1. Holds = UNION {{<<e, k>> : k \in cluster[e].keys} : e \in {y \in Described : OfTheType(y)}}
      BY <1>3 DEF Holds, Of
    <3>2. QED
      BY <2>3, <3>1
  <2>5. \A e \in Described, k \in ConfigKeys :
          e \in Entities /\ e[1] = line.types /\ k \in cluster[e].keys =>
            <<e, k>> \notin facts.denied
    <3>1. /\ Holds = UNION {{<<e, k>> : k \in cluster[e].keys} : e \in {y \in Described : OfTheType(y)}}
          /\ Denies = (({e \in Entities : e[1] = line.types} \X ConfigKeys) \ Holds)
                        \cup {<<e, "none">> : e \in {y \in Entities : y[1] = line.types /\ OfTheType(y)}}
      BY <1>3 DEF Holds, Denies, Of
    <3>2. SUFFICES ASSUME NEW e \in Described, NEW k \in ConfigKeys, e \in Entities,
                          e[1] = line.types, k \in cluster[e].keys
                   PROVE  <<e, k>> \notin Denies
      BY <2>3
    <3>3. OfTheType(e)
      BY <2>2, <3>2 DEF OfTheType
    <3>4. <<e, k>> \in Holds
      BY SMTT(20), <3>1, <3>2, <3>3
    <3>5. k # "none"
      BY <3>2, NoneIsNoKey
    <3>6. QED
      BY <3>1, <3>4, <3>5
  <2>6. ASSUME Named, ~OfTheType(Entity) PROVE <<Entity, "none">> \notin facts.denied
    <3>1. Denies = (({e \in Entities : e[1] = line.types} \X ConfigKeys) \ Holds)
                        \cup {<<e, "none">> : e \in {y \in Entities : y[1] = line.types /\ OfTheType(y)}}
      BY <1>3 DEF Denies, Of
    <3>2. QED
      BY <2>3, <2>6, <3>1, NoneIsNoKey
  <2>7. ASSUME OnlyLocal, cmd'.pc # "ended", cmd'.exit = cmd.exit, ConfigsRead'
        PROVE  TellsInv'
    BY <1>1, <2>1, <2>7, GoesOnTells
  <2>8. facts'.held \subseteq facts.held /\ facts'.denied \subseteq facts.denied
    BY FactsShrink
  <2>9. /\ ConfigPlanHolds' = ConfigPlanHolds /\ HasQuotas(line.types)' = HasQuotas(line.types)
        /\ Named' = Named /\ Entity' = Entity
    BY DEF ConfigPlanHolds, TypesFit, NamesFit, DescribeFits, AlterFits, KeysFit, ScramFits, Types,
           HasName, HasDefault, HasQuotas, Named, Entity, EntityOf
  <2>10. CASE Fail
    BY <2>10, FailTells
  <2>11. CASE ~Fail /\ (ConfigsStart \/ Connect(ConfigActions))
    <3>1. /\ OnlyLocal /\ cmd'.pc \in {"connect", "connected"} /\ cmd'.exit = cmd.exit
          /\ cmd'.rows = {} /\ ConfigPlanHolds
      BY <2>3, <2>11 DEF ConfigsStart, Connect, Call, Goto, Inv, Shape, Fresh, ConfigsRead
    <3>2. Reported' = {}
      BY <3>1 DEF Reported
    <3>3. ConfigsRead'
      BY <2>9, <3>1, <3>2 DEF ConfigsRead
    <3>4. QED
      BY <2>7, <3>1, <3>3
  <2>12. CASE ~Fail /\ DescribeList
    <3>1. cmd.pc = "connected" /\ ~HasQuotas(line.types) /\ cmd.rows = {} /\ ConfigPlanHolds
      BY <2>3, <2>12 DEF DescribeList, ConfigsRead
    <3>2. Described = {e \in Entities : Named => e = Entity}
      BY <3>1 DEF Described
    <3>3. ASSUME Named, ~OfTheType(Entity), Report({Row(<<Entity, "none">>, TRUE)}, FALSE)
          PROVE  TellsInv'
      <4>1. facts.held = {}
        BY <2>4, <3>2, <3>3
      <4>2. OkOf({Row(<<Entity, "none">>, TRUE)}) = {<<Entity, "none">>}
        BY OkOfOne
      <4>3. QED
        BY <2>6, <3>3, <4>1, <4>2, ReportTells
    <3>4. ASSUME NEW todo, todo = IF Named THEN {Entity} ELSE {e \in Entities : OfTheType(e)},
                 Call("describe", todo)
          PROVE  TellsInv'
      <4>1. /\ OnlyLocal /\ cmd'.pc = "describe" /\ cmd'.exit = cmd.exit /\ cmd'.rows = {}
            /\ cmd'.seen = todo
        BY <2>12, <3>1, <3>4 DEF Call, Inv, Shape, Fresh
      <4>2. Reported' = {}
        BY <4>1 DEF Reported
      <4>3. \A e \in todo : e \in Entities /\ e[1] = line.types /\ (Named => e = Entity)
        BY <1>3, <2>1, <3>1, <3>4, EntityFacts DEF OfTheType
      <4>4. \A x \in facts.held : x[1] \in todo
        BY SMTT(20), <2>4, <3>2, <3>4
      <4>5. ConfigsRead'
        BY <2>8, <2>9, <3>1, <4>1, <4>2, <4>3, <4>4 DEF ConfigsRead
      <4>6. QED
        BY <2>7, <4>1, <4>5
    <3>5. QED
      BY Zenon, <2>12, <3>3, <3>4 DEF DescribeList
  <2>13. CASE ~Fail /\ DescribeEach
    <3>1. /\ cmd.pc = "describe" /\ ~HasQuotas(line.types) /\ ConfigPlanHolds
          /\ \A e \in cmd.seen : e \in Entities /\ e[1] = line.types /\ (Named => e = Entity)
          /\ \A x \in facts.held : x[1] \in cmd.seen \/ x \in Reported
          /\ Reported \cap facts.denied = {}
      BY <2>3, <2>13 DEF DescribeEach, ConfigsRead
    <3>2. CASE cmd.seen = {} /\ Report(cmd.rows, FALSE)
      <4>1. facts.held \subseteq OkOf(cmd.rows) /\ OkOf(cmd.rows) \cap facts.denied = {}
        BY <3>1, <3>2 DEF Reported, OkOf
      <4>2. QED
        BY <3>2, <4>1, ReportTells
    <3>3. ASSUME NEW e \in cmd.seen, OnlyLocal,
                 cmd' = [cmd EXCEPT !.seen = cmd.seen \ {e},
                           !.rows = cmd.rows \cup KeyRows({e}, ConfigKeys)]
          PROVE  TellsInv'
      <4> DEFINE new == KeyRows({e}, ConfigKeys)
      <4>1. \A x : x \in OkOf(new) <=> \E k \in cluster[e].keys \cap ConfigKeys : x = <<e, k>>
        BY SMTT(20), KeyRowsFacts
      <4> HIDE DEF new
      <4>2. /\ cmd'.pc = "describe" /\ cmd'.exit = cmd.exit /\ cmd'.rows = cmd.rows \cup new
            /\ cmd'.seen = cmd.seen \ {e}
        BY <3>1, <3>3 DEF Inv, Shape, Fresh, new
      <4>3. Reported' = Reported \cup OkOf(new)
        BY <4>2, OkOfUnion DEF Reported, OkOf
      <4>4. cluster[e].keys \subseteq ConfigKeys
        BY <2>2, <3>1, KeysFacts
      <4>5. e \in Described
        BY <3>1 DEF Described
      <4>6. \A x \in facts.held : x[1] = e => x \in OkOf(new)
        BY SMTT(20), <2>4, <4>1, <4>4
      <4>7. OkOf(new) \cap facts.denied = {}
        BY SMTT(20), <2>5, <3>1, <4>1, <4>5
      <4>8. ConfigsRead'
        BY <2>8, <2>9, <3>1, <4>2, <4>3, <4>6, <4>7 DEF ConfigsRead
      <4>9. QED
        BY <2>7, <3>3, <4>2, <4>8
    <3>4. QED
      BY Zenon, <2>13, <3>2, <3>3 DEF DescribeEach
  <2>14. ASSUME HasQuotas(line.types), NEW keys, keys \subseteq ConfigKeys,
                NEW x, x \in OkOf(KeyRows(Meant, keys))
         PROVE  x \notin facts.denied
    <3>1. PICK e \in Meant : \E k \in cluster[e].keys \cap keys : x = <<e, k>>
      BY SMTT(20), <2>14, KeyRowsFacts
    <3>2. PICK k \in cluster[e].keys \cap keys : x = <<e, k>>
      BY <3>1
    <3>3. e \in Described /\ e \in Entities /\ e[1] = line.types
      BY <2>14 DEF Described, Meant
    <3>4. QED
      BY <2>5, <2>14, <3>2, <3>3
  <2>15. ASSUME HasQuotas(line.types), NEW keys, NEW x \in facts.held,
                \A e \in Meant : x[1] = e /\ x[2] \in cluster[e].keys => x[2] \in keys
         PROVE  x \in OkOf(KeyRows(Meant, keys))
    <3>1. PICK e \in Meant : \E k \in cluster[e].keys : x = <<e, k>>
      BY <2>4, <2>15 DEF Described
    <3>2. PICK k \in cluster[e].keys : x = <<e, k>>
      BY <3>1
    <3>3. k \in keys
      BY <2>15, <3>2
    <3>4. QED
      BY <3>2, <3>3, KeyRowsFacts
  <2>16. \A e \in Meant : /\ e \in Entities /\ e[1] = line.types
                          /\ cluster[e].keys \subseteq KeysOf(e)
    BY <2>2 DEF Meant
  <2>17. CASE ~Fail /\ DescribeQuotas
    <3> DEFINE rows == KeyRows(Meant, QuotaKeys \cup IpQuotaKeys)
    <3>1. cmd.pc = "connected" /\ HasQuotas(line.types) /\ ConfigPlanHolds
      BY <2>3, <2>17 DEF DescribeQuotas, ConfigsRead
    <3>2. OkOf(rows) \cap facts.denied = {}
      BY <2>14, <3>1 DEF ConfigKeys
    <3>3. CASE OnlyLocal /\ cmd' = [cmd EXCEPT !.pc = "scram", !.rows = rows]
      <4>1. ASSUME NEW x \in facts.held PROVE x[2] \in ScramKeys \/ x \in OkOf(rows)
        <5>1. \A e \in Meant : cluster[e].keys \subseteq QuotaKeys \cup IpQuotaKeys \cup ScramKeys
          BY <2>16, <3>1, KeysFacts
        <5>2. CASE x[2] \notin ScramKeys
          BY <2>15, <3>1, <4>1, <5>1, <5>2
        <5>3. QED
          BY <5>2
      <4> HIDE DEF rows
      <4>2. cmd'.pc = "scram" /\ cmd'.exit = cmd.exit /\ cmd'.rows = rows
        BY <3>3 DEF Inv, Shape, Fresh
      <4>3. Reported' = OkOf(rows)
        BY <4>2 DEF Reported, OkOf
      <4>4. ConfigsRead'
        BY <2>8, <2>9, <3>1, <3>2, <4>1, <4>2, <4>3 DEF ConfigsRead
      <4>5. QED
        BY <2>7, <3>3, <4>2, <4>4
    <3>4. CASE ~(Types = {"users"} /\ ~HasDefault) /\ Report(rows, FALSE)
      <4>1. \A e \in Meant : cluster[e].keys \subseteq QuotaKeys \cup IpQuotaKeys
        BY <1>3, <2>1, <2>16, <3>1, <3>4, KeysFacts, EntityFacts
      <4>2. facts.held \subseteq OkOf(rows)
        BY <2>15, <3>1, <4>1
      <4> HIDE DEF rows
      <4>3. QED
        BY <3>2, <3>4, <4>2, ReportTells
    <3>5. QED
      BY Zenon, <2>17, <3>3, <3>4 DEF DescribeQuotas
  <2>18. CASE ~Fail /\ DescribeScram
    <3> DEFINE new == KeyRows(Meant, ScramKeys)
    <3>1. /\ HasQuotas(line.types) /\ Reported \cap facts.denied = {}
          /\ \A x \in facts.held : x[2] \in ScramKeys \/ x \in Reported
      BY <2>3, <2>18 DEF DescribeScram, ConfigsRead
    <3>2. OkOf(new) \cap facts.denied = {}
      BY <2>14, <3>1 DEF ConfigKeys
    <3>3. \A x \in facts.held : x[2] \in ScramKeys => x \in OkOf(new)
      BY <2>15, <3>1
    <3>4. Report(cmd.rows \cup new, FALSE)
      BY <2>18 DEF DescribeScram
    <3> HIDE DEF new
    <3>5. OkOf(cmd.rows \cup new) = Reported \cup OkOf(new)
      BY OkOfUnion DEF Reported, OkOf
    <3>6. QED
      BY <3>1, <3>2, <3>3, <3>4, <3>5, ReportTells
  <2>19. QED
    BY Zenon, <1>3, <2>10, <2>11, <2>12, <2>13, <2>17, <2>18
    DEF ConfigsNext, AlterReads, NothingToAlter, AlterConfigs, AlterAnswered
<1>4. QED
  BY <1>2, <1>3

\* What comes before the first read.
LEMMA TransactionsGo ==
    ASSUME Inv, ~Fail, TransactionsStart \/ Connect(TransactionActions)
    PROVE  /\ OnlyLocal /\ cmd.pc \in {"start", "connect"}
           /\ cmd'.pc \in {"prompt", "connect", "connected"}
           /\ cmd'.exit = cmd.exit /\ cmd'.rows = cmd.rows
<1>1. CASE TransactionsStart
  BY <1>1 DEF TransactionsStart, At, Goto, Inv, Shape, Fresh
<1>2. CASE Connect(TransactionActions)
  BY <1>2, CallGoes DEF Connect, At
<1>3. QED
  BY <1>1, <1>2

\* transactions list
LEMMA ListTells ==
    ASSUME Inv, TellsInv, line.kind = "transactionsList", UNCHANGED <<line, moves>>, Remember, ~Fail,
           TransactionsStart \/ Connect(TransactionActions) \/ ListBegin \/ ListOnBroker \/ ListDone
    PROVE  TellsInv'
<1> USE DEF At
<1>1. /\ line.kind \in Reading /\ cmd.pc # "ended" /\ DOMAIN cmd = DOMAIN Fresh
      /\ ReadInv <=> ListRead
      /\ ReadInv' <=> ListRead'
  BY Zenon DEF Reading, Of, ReadInv, Inv, Shape, TransactionsStart, Connect, ListBegin, ListOnBroker,
               ListDone
<1>2. /\ cluster.known \subseteq Producers /\ cluster.on \in [Producers -> Coordinators]
      /\ ListRead /\ facts.held \subseteq Holds /\ facts.denied \subseteq Denies
  BY <1>1 DEF TellsInv, ClusterInv, Of
<1>3. /\ Holds = {<<p, cluster.on[p]>> : p \in cluster.known}
      /\ Denies = (Producers \X Coordinators) \ Holds
  BY DEF Holds, Denies, Of
<1>4. ASSUME OnlyLocal, cmd'.pc # "ended", cmd'.exit = cmd.exit, ListRead'
      PROVE  TellsInv'
  BY <1>1, <1>4, GoesOnTells
<1>5. facts'.held \subseteq facts.held /\ facts'.denied \subseteq facts.denied
  BY FactsShrink
<1>6. CASE TransactionsStart \/ Connect(TransactionActions)
  <2>1. /\ OnlyLocal /\ cmd.pc \in {"start", "connect"}
        /\ cmd'.pc \in {"prompt", "connect", "connected"}
        /\ cmd'.exit = cmd.exit /\ cmd'.rows = cmd.rows
    BY <1>6, TransactionsGo
  <2>2. cmd'.rows = {}
    BY <1>2, <2>1 DEF ListRead
  <2>3. Reported' = {}
    BY <2>2 DEF Reported
  <2>4. ListRead'
    BY <2>1, <2>2, <2>3 DEF ListRead
  <2>5. QED
    BY <1>4, <2>1, <2>4
<1>7. CASE ListBegin
  <2>1. /\ OnlyLocal /\ cmd'.pc = "list" /\ cmd'.exit = cmd.exit /\ cmd'.rows = {}
        /\ cmd'.seen = [asks |-> [b \in Coordinators |-> 0], left |-> Coordinators, failed |-> {}]
    BY <1>1, <1>2, <1>7 DEF ListBegin, Call, Fresh, ListRead
  <2>2. Reported' = {}
    BY <2>1 DEF Reported
  <2>3. \A x \in facts.held : x[2] \in Coordinators
    BY SMTT(20), <1>2, <1>3
  <2>4. ListRead'
    BY SMTT(20), <1>5, <2>1, <2>2, <2>3 DEF ListRead
  <2>5. QED
    BY <1>4, <2>1, <2>4
<1>8. CASE ListOnBroker
  <2>1. PICK b \in cmd.seen.left :
          LET answered == [cmd.seen EXCEPT !.left = @ \ {b}]
          IN  \/ cmd' = [cmd EXCEPT !.seen.asks[b] = @ + 1]
              \/ cmd' = [cmd EXCEPT !.seen = answered, !.rows = @ \cup
                   {Row(<<p, b>>, TRUE) : p \in {q \in cluster.known : cluster.on[q] = b}}]
              \/ cmd' = [cmd EXCEPT !.seen = [answered EXCEPT !.failed = @ \cup {b}]]
    BY <1>8 DEF ListOnBroker
  <2>2. /\ OnlyLocal /\ cmd.pc = "list" /\ DOMAIN cmd.seen = {"asks", "left", "failed"}
        /\ \A x \in facts.held : x[2] \in cmd.seen.left \cup cmd.seen.failed \/ x \in Reported
        /\ Reported \cap facts.denied = {}
    BY <1>2, <1>8 DEF ListOnBroker, ListRead
  <2>3. CASE cmd' = [cmd EXCEPT !.seen.asks[b] = @ + 1]
    <3>1. /\ cmd'.pc = "list" /\ cmd'.exit = cmd.exit /\ cmd'.rows = cmd.rows
          /\ DOMAIN cmd'.seen = {"asks", "left", "failed"}
          /\ cmd'.seen.left = cmd.seen.left /\ cmd'.seen.failed = cmd.seen.failed
      BY <1>1, <2>2, <2>3 DEF Fresh
    <3>2. Reported' = Reported
      BY <3>1 DEF Reported
    <3>3. ListRead'
      BY <1>5, <2>2, <3>1, <3>2 DEF ListRead
    <3>4. QED
      BY <1>4, <2>2, <3>1, <3>3
  <2>4. CASE cmd' = [cmd EXCEPT !.seen = [cmd.seen EXCEPT !.left = @ \ {b}], !.rows = @ \cup
               {Row(<<p, b>>, TRUE) : p \in {q \in cluster.known : cluster.on[q] = b}}]
    <3> DEFINE found == {<<p, b>> : p \in {q \in cluster.known : cluster.on[q] = b}}
               new == {Row(<<p, b>>, TRUE) : p \in {q \in cluster.known : cluster.on[q] = b}}
    <3>1. OkOf(new) = found
      <4>1. new = {Row(x, TRUE) : x \in found}
        OBVIOUS
      <4>2. QED
        BY <4>1, OkOfTrue, Zenon
    <3> HIDE DEF new
    <3>2. /\ cmd'.pc = "list" /\ cmd'.exit = cmd.exit /\ cmd'.rows = cmd.rows \cup new
          /\ DOMAIN cmd'.seen = {"asks", "left", "failed"}
          /\ cmd'.seen.left = cmd.seen.left \ {b} /\ cmd'.seen.failed = cmd.seen.failed
      BY <1>1, <2>2, <2>4 DEF Fresh, new
    <3>3. Reported' = Reported \cup found
      BY <3>1, <3>2, OkOfUnion DEF Reported, OkOf
    <3>4. \A x \in facts.held : x[2] = b => x \in found
      BY SMTT(20), <1>2, <1>3
    <3>5. found \cap facts.denied = {}
      BY SMTT(20), <1>2, <1>3
    <3> HIDE DEF found
    <3>6. ListRead'
      BY <1>5, <2>2, <3>2, <3>3, <3>4, <3>5 DEF ListRead
    <3>7. QED
      BY <1>4, <2>2, <3>2, <3>6
  <2>5. CASE cmd' = [cmd EXCEPT !.seen = [[cmd.seen EXCEPT !.left = @ \ {b}] EXCEPT !.failed = @ \cup {b}]]
    <3>1. /\ cmd'.pc = "list" /\ cmd'.exit = cmd.exit /\ cmd'.rows = cmd.rows
          /\ DOMAIN cmd'.seen = {"asks", "left", "failed"}
          /\ cmd'.seen.left = cmd.seen.left \ {b} /\ cmd'.seen.failed = cmd.seen.failed \cup {b}
      BY <1>1, <2>2, <2>5 DEF Fresh
    <3>2. Reported' = Reported
      BY <3>1 DEF Reported
    <3>3. ListRead'
      BY <1>5, <2>2, <3>1, <3>2 DEF ListRead
    <3>4. QED
      BY <1>4, <2>2, <3>1, <3>3
  <2>6. QED
    BY Zenon, <2>1, <2>3, <2>4, <2>5
<1>9. CASE ListDone
  <2>1. cmd.seen.left = {} /\ cmd.seen.failed = {} /\ Report(cmd.rows, FALSE) /\ cmd.pc = "list"
    BY <1>9 DEF ListDone
  <2>2. facts.held \subseteq OkOf(cmd.rows) /\ OkOf(cmd.rows) \cap facts.denied = {}
    BY <1>2, <2>1 DEF ListRead, Reported, OkOf
  <2>3. QED
    BY <2>1, <2>2, ReportTells
<1>10. QED
  BY <1>6, <1>7, <1>8, <1>9

\* transactions describe
LEMMA IdsTell ==
    ASSUME Inv, TellsInv, line.kind = "transactionsDescribe", UNCHANGED <<line, moves>>, Remember, ~Fail,
           TransactionsStart \/ Connect(TransactionActions) \/ DescribeIds
    PROVE  TellsInv'
<1> USE DEF At
<1>1. /\ line.kind \in Reading /\ cmd.pc # "ended" /\ DOMAIN cmd = DOMAIN Fresh
      /\ ReadInv <=> IdsRead
      /\ ReadInv' <=> IdsRead'
  BY Zenon DEF Reading, Of, ReadInv, Inv, Shape, TransactionsStart, Connect, DescribeIds
<1>2. IdsRead /\ facts.held \subseteq Holds /\ facts.denied \subseteq Denies
  BY <1>1 DEF TellsInv
<1>3. /\ Holds = {<<p, cluster.coord[p]>> : p \in line.ids \cap cluster.known}
      /\ Denies = (Producers \X SUBSET LogPartitions) \ Holds
  BY DEF Holds, Denies, Of
<1>4. ASSUME OnlyLocal, cmd'.pc # "ended", cmd'.exit = cmd.exit, IdsRead'
      PROVE  TellsInv'
  BY <1>1, <1>4, GoesOnTells
<1>5. facts'.held \subseteq facts.held /\ facts'.denied \subseteq facts.denied
  BY FactsShrink
<1>6. CASE TransactionsStart \/ Connect(TransactionActions)
  <2>2. OnlyLocal /\ cmd'.pc # "ended" /\ cmd'.exit = cmd.exit /\ cmd'.rows = cmd.rows
    BY <1>6, TransactionsGo
  <2>3. Reported' = Reported
    BY <2>2 DEF Reported
  <2>4. IdsRead'
    BY <1>2, <1>5, <2>2, <2>3 DEF IdsRead
  <2>5. QED
    BY <1>4, <2>2, <2>4
<1>7. CASE DescribeIds
  <2> DEFINE left == line.ids \ {r.what[1] : r \in cmd.rows}
  <2>1. CASE left = {} /\ Report(cmd.rows, FALSE)
    <3>1. \A x \in facts.held : \E r \in cmd.rows : r.what[1] = x[1]
      BY SMTT(20), <1>2, <1>3, <2>1
    <3>2. facts.held \subseteq OkOf(cmd.rows) /\ OkOf(cmd.rows) \cap facts.denied = {}
      BY <1>2, <3>1 DEF IdsRead, Reported, OkOf
    <3>3. QED
      BY <2>1, <3>2, ReportTells
  <2>2. ASSUME NEW p \in left \cap cluster.known, OnlyLocal,
               cmd' = [cmd EXCEPT !.rows = @ \cup {Row(<<p, cluster.coord[p]>>, TRUE)}]
        PROVE  TellsInv'
    <3> DEFINE x == <<p, cluster.coord[p]>>
    <3>1. /\ cmd'.pc # "ended" /\ cmd'.exit = cmd.exit
          /\ cmd'.rows = cmd.rows \cup {Row(x, TRUE)}
      BY <1>1, <2>2 DEF Fresh
    <3>2. x \in Holds /\ x \notin facts.denied /\ \A y \in facts.held : y[1] = p => y = x
      BY SMTT(20), <1>2, <1>3, <2>2
    <3>3. OkOf({Row(x, TRUE)}) = {x}
      BY OkOfOne
    <3>4. x[1] = p
      OBVIOUS
    <3> HIDE DEF x
    <3>5. Reported' = Reported \cup {x}
      BY <3>1, <3>3, OkOfUnion DEF Reported, OkOf
    <3>6. ASSUME NEW y \in facts.held, NEW r \in cmd'.rows, r.what[1] = y[1] PROVE y \in Reported'
      <4>1. CASE r \in cmd.rows
        BY <1>2, <3>5, <3>6, <4>1 DEF IdsRead
      <4>2. CASE r = Row(x, TRUE)
        <5>1. r.what = x
          BY <4>2, RowFacts
        <5>2. y = x
          BY <3>2, <3>4, <3>6, <5>1
        <5>3. QED
          BY <3>5, <5>2
      <4>3. QED
        BY <3>1, <3>6, <4>1, <4>2
    <3>7. Reported' \cap facts'.denied = {}
      BY <1>2, <1>5, <3>2, <3>5 DEF IdsRead
    <3>8. IdsRead'
      BY <1>5, <3>6, <3>7 DEF IdsRead
    <3>9. QED
      BY <1>4, <2>2, <3>1, <3>8
  <2>3. QED
    BY Zenon, <1>7, <2>1, <2>2 DEF DescribeIds
<1>8. QED
  BY <1>6, <1>7

\* describe-producers and find-hanging
LEMMA SearchTells ==
    ASSUME Inv, TellsInv, line.kind \in {"describeProducers", "findHanging"},
           UNCHANGED <<line, moves>>, Remember, ~Fail,
           \/ TransactionsStart \/ Connect(TransactionActions) \/ SearchPartitions \/ OpenCandidates
           \/ ProducersReported \/ ListByProducers \/ DescribeTransaction \/ HangingReported
    PROVE  TellsInv'
<1> USE DEF At
<1>1. /\ line.kind \in Reading /\ cmd.pc # "ended" /\ DOMAIN cmd = DOMAIN Fresh
      /\ ReadInv <=> SearchRead
      /\ ReadInv' <=> SearchRead'
  BY Zenon DEF Reading, Of, ReadInv, Inv, Shape, TransactionsStart, Connect, SearchPartitions,
               OpenCandidates, ProducersReported, ListByProducers, DescribeTransaction, HangingReported
<1>2. SearchRead /\ facts.held \subseteq Holds /\ facts.denied \subseteq Denies
  BY <1>1 DEF TellsInv
<1>3. /\ \A x \in facts.held : x \in cluster.open /\ x[1] \in line.partitions
      /\ line.kind = "describeProducers" =>
           \A o \in cluster.open : o[1] \in line.partitions => o \notin facts.denied
  <2>1. CASE line.kind = "describeProducers"
    <3>1. /\ Holds = {o \in cluster.open : o[1] \in line.partitions}
          /\ Denies = (LogPartitions \X Producers) \ Holds
      BY <2>1 DEF Holds, Denies, Of
    <3>2. QED
      BY <1>2, <3>1
  <2>2. CASE line.kind = "findHanging"
    <3>1. Holds = {o \in cluster.old : IsHanging(o) /\ o[1] \in line.partitions}
      BY <2>2 DEF Holds, Of
    <3>2. QED
      BY <1>2, <2>2, <3>1 DEF IsHanging
  <2>3. QED
    BY <2>1, <2>2
<1>4. line.kind = "findHanging" =>
        /\ \A x \in facts.held : x \in cluster.old /\ x[1] \notin cluster.coord[x[2]]
        /\ \A x \in facts.denied : x[1] \in cluster.coord[x[2]] /\ x[2] \in cluster.known
  <2> SUFFICES ASSUME line.kind = "findHanging"
               PROVE  /\ \A x \in facts.held : x \in cluster.old /\ x[1] \notin cluster.coord[x[2]]
                      /\ \A x \in facts.denied : x[1] \in cluster.coord[x[2]] /\ x[2] \in cluster.known
    OBVIOUS
  <2>1. /\ Holds = {o \in cluster.old : IsHanging(o) /\ o[1] \in line.partitions}
        /\ Denies = {o \in cluster.open : ~IsHanging(o)}
    BY DEF Holds, Denies, Of
  <2>2. /\ \A o \in cluster.open : o[2] \in Producers
        /\ \A p \in Producers : p \notin cluster.known => cluster.coord[p] = {}
    BY <1>1 DEF TellsInv, ClusterInv, Of
  <2>3. QED
    BY <1>2, <2>1, <2>2 DEF IsHanging
<1>5. ASSUME OnlyLocal, cmd'.pc # "ended", cmd'.exit = cmd.exit, SearchRead'
      PROVE  TellsInv'
  BY <1>1, <1>5, GoesOnTells
<1>6. facts'.held \subseteq facts.held /\ facts'.denied \subseteq facts.denied
  BY FactsShrink
<1>7. CASE TransactionsStart \/ Connect(TransactionActions)
  <2>2. OnlyLocal /\ cmd'.pc \in {"prompt", "connect", "connected"} /\ cmd'.exit = cmd.exit
    BY <1>7, TransactionsGo
  <2>3. SearchRead'
    BY <2>2 DEF SearchRead
  <2>4. QED
    BY <1>5, <2>2, <2>3
<1>8. CASE SearchPartitions
  <2>1. /\ OnlyLocal /\ cmd'.pc = "search" /\ cmd'.exit = cmd.exit
        /\ cmd'.seen = [left |-> line.partitions, candidates |-> {}]
    BY <1>1, <1>8 DEF SearchPartitions, Call, Fresh
  <2>2. SearchRead'
    BY SMTT(20), <1>3, <1>6, <2>1 DEF SearchRead
  <2>3. QED
    BY <1>5, <2>1, <2>2
<1>9. CASE OpenCandidates
  <2>1. PICK batch, kept :
          /\ batch \subseteq cmd.seen.left
          /\ kept = IF line.kind = "findHanging"
                    THEN {o \in cluster.open : o[1] \in batch} \cap cluster.old
                    ELSE {o \in cluster.open : o[1] \in batch}
          /\ Call("search", [left |-> cmd.seen.left \ batch,
                             candidates |-> cmd.seen.candidates \cup kept])
    BY <1>9 DEF OpenCandidates
  <2>2. /\ OnlyLocal /\ cmd'.pc = "search" /\ cmd'.exit = cmd.exit
        /\ cmd'.seen.left = cmd.seen.left \ batch
        /\ cmd'.seen.candidates = cmd.seen.candidates \cup kept
    <3>1. /\ OnlyLocal /\ cmd'.pc = "search" /\ cmd'.exit = cmd.exit
          /\ cmd'.seen = [left |-> cmd.seen.left \ batch,
                          candidates |-> cmd.seen.candidates \cup kept]
      BY <2>1, CallGoes
    <3>2. QED
      BY SMTT(20), <3>1
  <2>3. /\ cmd.seen.left \subseteq line.partitions
        /\ \A x \in facts.held : x[1] \in cmd.seen.left \/ x \in cmd.seen.candidates
        /\ line.kind = "describeProducers" => cmd.seen.candidates \cap facts.denied = {}
    BY <1>2, <1>9 DEF OpenCandidates, SearchRead, Of
  <2>4. \A x \in facts.held : x[1] \in batch => x \in kept
    BY <1>3, <1>4, <2>1
  <2>5. line.kind = "describeProducers" => kept \cap facts.denied = {}
    BY <1>3, <2>1, <2>3
  <2>6. SearchRead'
    BY <1>6, <2>2, <2>3, <2>4, <2>5 DEF SearchRead, Of
  <2>7. QED
    BY <1>5, <2>2, <2>6
<1>10. CASE ProducersReported
  <2> DEFINE rows == {Row(o, TRUE) : o \in cmd.seen.candidates}
  <2>1. Report(rows, FALSE)
    BY <1>10 DEF ProducersReported
  <2>2. OkOf(rows) = cmd.seen.candidates
    BY OkOfTrue, Zenon
  <2> HIDE DEF rows
  <2>3. facts.held \subseteq cmd.seen.candidates /\ cmd.seen.candidates \cap facts.denied = {}
    BY <1>2, <1>10 DEF ProducersReported, SearchRead, Of
  <2>4. QED
    BY <2>1, <2>2, <2>3, ReportTells
<1>11. CASE ListByProducers
  <2>0. line.kind = "findHanging" /\ facts.held \subseteq cmd.seen.candidates
    BY <1>2, <1>11 DEF ListByProducers, SearchRead
  <2>1. CASE {o[2] : o \in cmd.seen.candidates} = {} /\ Report({}, FALSE)
    <3>1. facts.held = {}
      BY <2>0, <2>1
    <3>2. QED
      BY <2>1, <3>1, NoRows, ReportTells
  <2>2. CASE Call("describe", [candidates |-> cmd.seen.candidates,
                 todo |-> {o[2] : o \in cmd.seen.candidates} \cap cluster.known,
                 hanging |-> {o \in cmd.seen.candidates : o[2] \notin cluster.known}])
    <3>1. /\ OnlyLocal /\ cmd'.pc = "describe" /\ cmd'.exit = cmd.exit
          /\ cmd'.seen = [candidates |-> cmd.seen.candidates,
                          todo |-> {o[2] : o \in cmd.seen.candidates} \cap cluster.known,
                          hanging |-> {o \in cmd.seen.candidates : o[2] \notin cluster.known}]
      BY <1>1, <2>2 DEF Call, Fresh
    <3>2. SearchRead'
      BY SMTT(20), <1>4, <1>6, <2>0, <3>1 DEF SearchRead, Of
    <3>3. QED
      BY <1>5, <3>1, <3>2
  <2>3. QED
    BY Zenon, <1>11, <2>1, <2>2 DEF ListByProducers
<1>12. CASE DescribeTransaction
  <2>0. /\ line.kind = "findHanging" /\ DOMAIN cmd.seen = {"candidates", "todo", "hanging"}
        /\ \A x \in facts.held : \/ x \in cmd.seen.hanging
                                 \/ x \in cmd.seen.candidates /\ x[2] \in cmd.seen.todo
        /\ cmd.seen.hanging \cap facts.denied = {}
    BY <1>2, <1>12 DEF DescribeTransaction, SearchRead, Of
  <2>1. PICK p, unknown :
          /\ unknown = {o \in cmd.seen.candidates :
                          o[2] = p /\ (p \notin cluster.known \/ o[1] \notin cluster.coord[p])}
          /\ Call("describe", [cmd.seen EXCEPT !.todo = @ \ {p}, !.hanging = @ \cup unknown])
    BY <1>12 DEF DescribeTransaction
  <2>2. /\ OnlyLocal /\ cmd'.pc = "describe" /\ cmd'.exit = cmd.exit
        /\ cmd'.seen.candidates = cmd.seen.candidates /\ DOMAIN cmd'.seen = DOMAIN cmd.seen
        /\ cmd'.seen.todo = cmd.seen.todo \ {p} /\ cmd'.seen.hanging = cmd.seen.hanging \cup unknown
    <3>1. /\ OnlyLocal /\ cmd'.pc = "describe" /\ cmd'.exit = cmd.exit
          /\ cmd'.seen = [cmd.seen EXCEPT !.todo = @ \ {p}, !.hanging = @ \cup unknown]
      BY <2>1, CallGoes
    <3>2. QED
      BY <2>0, <3>1
  <2>3. \A x \in facts.held : x \in cmd.seen.candidates /\ x[2] = p => x \in unknown
    BY <1>4, <2>0, <2>1
  <2>4. unknown \cap facts.denied = {}
    BY <1>4, <2>0, <2>1
  <2>5. SearchRead'
    BY <1>6, <2>0, <2>2, <2>3, <2>4 DEF SearchRead, Of
  <2>6. QED
    BY <1>5, <2>2, <2>5
<1>13. CASE HangingReported
  <2> DEFINE rows == {Row(o, TRUE) : o \in cmd.seen.hanging}
  <2>1. Report(rows, FALSE)
    BY <1>13 DEF HangingReported
  <2>2. OkOf(rows) = cmd.seen.hanging
    BY OkOfTrue, Zenon
  <2> HIDE DEF rows
  <2>3. facts.held \subseteq cmd.seen.hanging /\ cmd.seen.hanging \cap facts.denied = {}
    BY <1>2, <1>13 DEF HangingReported, SearchRead, Of
  <2>4. QED
    BY <2>1, <2>2, <2>3, ReportTells
<1>14. QED
  BY <1>7, <1>8, <1>9, <1>10, <1>11, <1>12, <1>13

LEMMA TransactionsTell ==
    ASSUME Inv, TellsInv, TransactionsNext, UNCHANGED <<line, moves>>, Remember
    PROVE  TellsInv'
<1> USE DEF At
<1>1. line.kind \in TransactionActions
  BY Zenon DEF TransactionsNext, TransactionsStart, Connect, ListBegin, ListOnBroker, ListDone,
               DescribeIds, SearchPartitions, OpenCandidates, ProducersReported, ListByProducers,
               DescribeTransaction, HangingReported, AbortSpec, ConfirmAbort, AbortTransaction,
               ConfirmTermination, TerminateDryRun, ForceTerminate, TransactionAnswered,
               TransactionActions
<1>2. CASE Fail
  BY <1>2, FailTells
<1>3. CASE line.kind \in {"abort", "forceTerminate"}
  BY <1>3 DEF TellsInv, Reading, ClusterReads
<1>4. CASE ~Fail /\ line.kind \notin {"abort", "forceTerminate"}
  <2>1. \/ TransactionsStart \/ Connect(TransactionActions) \/ ListBegin \/ ListOnBroker \/ ListDone
        \/ DescribeIds \/ SearchPartitions \/ OpenCandidates \/ ProducersReported
        \/ ListByProducers \/ DescribeTransaction \/ HangingReported
    BY Zenon, <1>4 DEF TransactionsNext, AbortSpec, ConfirmAbort, AbortTransaction,
                       ConfirmTermination, TerminateDryRun, ForceTerminate, TransactionAnswered
  <2>2. CASE line.kind = "transactionsList"
    <3>1. TransactionsStart \/ Connect(TransactionActions) \/ ListBegin \/ ListOnBroker \/ ListDone
      BY Zenon, <2>1, <2>2 DEF DescribeIds, SearchPartitions, OpenCandidates, ProducersReported,
                               ListByProducers, DescribeTransaction, HangingReported
    <3>2. QED
      BY <1>4, <2>2, <3>1, ListTells
  <2>3. CASE line.kind = "transactionsDescribe"
    <3>1. TransactionsStart \/ Connect(TransactionActions) \/ DescribeIds
      BY Zenon, <2>1, <2>3 DEF ListBegin, ListOnBroker, ListDone, SearchPartitions, OpenCandidates,
                               ProducersReported, ListByProducers, DescribeTransaction,
                               HangingReported
    <3>2. QED
      BY <1>4, <2>3, <3>1, IdsTell
  <2>4. CASE line.kind \in {"describeProducers", "findHanging"}
    <3>1. \/ TransactionsStart \/ Connect(TransactionActions) \/ SearchPartitions \/ OpenCandidates
          \/ ProducersReported \/ ListByProducers \/ DescribeTransaction \/ HangingReported
      BY Zenon, <2>1, <2>4 DEF ListBegin, ListOnBroker, ListDone, DescribeIds
    <3>2. QED
      BY <1>4, <2>4, <3>1, SearchTells
  <2>5. QED
    BY <1>1, <1>4, <2>2, <2>3, <2>4 DEF TransactionActions
<1>5. QED
  BY <1>2, <1>3, <1>4

LEMMA OffsetsTell ==
    ASSUME Inv, TellsInv, line.kind = "getOffsets", UNCHANGED <<line, moves>>, Remember, ~Fail,
           \/ ReplicasStart \/ Connect(ReplicaActions)
           \/ ListPartitions \/ SelectPartitions \/ OffsetsResult
    PROVE  TellsInv'
<1> USE DEF At
<1>1. /\ line.kind \in Reading /\ cmd.pc # "ended" /\ DOMAIN cmd = DOMAIN Fresh
      /\ ReadInv <=> OffsetsRead
      /\ ReadInv' <=> OffsetsRead'
  BY Zenon DEF Reading, Of, ReadInv, Inv, Shape, ReplicasStart, Connect, ListPartitions,
               SelectPartitions, OffsetsResult
<1>2. OffsetsRead /\ facts.held \subseteq Holds /\ facts.denied \subseteq Denies
  BY <1>1 DEF TellsInv
<1>3. Holds = DOMAIN cluster.parts \cap line.partitions /\ Denies = Parts \ Holds
  BY DEF Holds, Denies, Of
<1>4. ASSUME OnlyLocal, cmd'.pc # "ended", cmd'.exit = cmd.exit, OffsetsRead'
      PROVE  TellsInv'
  BY <1>1, <1>4, GoesOnTells
<1>5. facts'.held \subseteq facts.held
  BY FactsShrink
<1>6. CASE ReplicasStart \/ Connect(ReplicaActions)
  <2>1. OnlyLocal /\ cmd'.pc \in {"connect", "connected"} /\ cmd'.exit = cmd.exit
    BY <1>1, <1>6 DEF ReplicasStart, Connect, Goto, Call, Fresh
  <2>2. QED
    BY <1>4, <2>1 DEF OffsetsRead
<1>7. CASE ListPartitions
  <2>1. /\ OnlyLocal /\ cmd'.pc = "selected" /\ cmd'.exit = cmd.exit
        /\ cmd'.seen.all = DOMAIN cluster.parts
    <3>1. /\ OnlyLocal /\ cmd'.pc = "selected" /\ cmd'.exit = cmd.exit
          /\ cmd'.seen = [all |-> DOMAIN cluster.parts]
      BY <1>7, CallGoes DEF ListPartitions
    <3>2. QED
      BY SMTT(20), <3>1
  <2>2. OffsetsRead'
    BY <1>2, <1>3, <1>5, <2>1 DEF OffsetsRead
  <2>3. QED
    BY <1>4, <2>1, <2>2
<1>8. CASE SelectPartitions
  <2>1. /\ OnlyLocal /\ cmd'.pc = "offsets" /\ cmd'.exit = cmd.exit
        /\ cmd'.seen.parts = cmd.seen.all \cap line.partitions /\ cmd.pc = "selected"
    <3>1. /\ OnlyLocal /\ cmd'.pc = "offsets" /\ cmd'.exit = cmd.exit
          /\ cmd'.seen = [parts |-> cmd.seen.all \cap line.partitions]
      BY <1>8, CallGoes DEF SelectPartitions
    <3>2. cmd.pc = "selected"
      BY <1>8 DEF SelectPartitions
    <3>3. QED
      BY SMTT(20), <3>1, <3>2
  <2>2. OffsetsRead'
    BY <1>2, <1>3, <1>5, <2>1 DEF OffsetsRead
  <2>3. QED
    BY <1>4, <2>1, <2>2
<1>9. CASE OffsetsResult
  <2>1. PICK failed \in SUBSET cmd.seen.parts :
          /\ cmd.seen.parts \ DOMAIN cluster.parts \subseteq failed
          /\ Report({Row(p, p \notin failed) : p \in cmd.seen.parts}, failed # {})
    BY <1>9 DEF OffsetsResult
  <2> DEFINE rows == {Row(p, p \notin failed) : p \in cmd.seen.parts}
  <2>2. OkOf(rows) = cmd.seen.parts \ failed
    BY OkOfExcept
  <2> HIDE DEF rows
  <2>3. facts.held \subseteq cmd.seen.parts /\ cmd.seen.parts \subseteq line.partitions
    BY <1>2, <1>9 DEF OffsetsResult, OffsetsRead
  <2>4. OkOf(rows) \cap facts.denied = {}
    BY <1>2, <1>3, <2>1, <2>2, <2>3
  <2>5. failed = {} => facts.held \subseteq OkOf(rows)
    BY <2>2, <2>3
  <2>6. Report(rows, failed # {})
    BY <2>1 DEF rows
  <2>7. QED
    BY <2>4, <2>5, <2>6, ReportTells
<1>10. QED
  BY <1>6, <1>7, <1>8, <1>9

LEMMA ReplicasTell ==
    ASSUME Inv, TellsInv, ReplicasNext, UNCHANGED <<line, moves>>, Remember
    PROVE  TellsInv'
<1> USE DEF At
<1>1. line.kind \in ReplicaActions
  BY Zenon DEF ReplicasNext, ReplicasStart, Connect, PlannedRecords, BeforeDelete, ConfirmRecords,
               DeleteRecords, RecordsDeleted, DescribeCurrent, LogDirsDryRun, BeforeMove,
               ConfirmMoves, AlterReplicaLogDirs, MovesAnswered, DescribeLogDirs, ElectLeaders,
               ElectionAnswered, ListPartitions, SelectPartitions, OffsetsResult, ReplicaActions
<1>2. CASE line.kind \notin {"getOffsets", "logDirsDescribe"}
  BY <1>1, <1>2 DEF TellsInv, Reading, ClusterReads, ReplicaActions
<1>3. CASE Fail
  BY <1>3, FailTells
<1>4. CASE line.kind = "getOffsets" /\ ~Fail
  <2>1. \/ ReplicasStart \/ Connect(ReplicaActions)
        \/ ListPartitions \/ SelectPartitions \/ OffsetsResult
    BY Zenon, <1>4
    DEF ReplicasNext, PlannedRecords, BeforeDelete, ConfirmRecords, DeleteRecords, RecordsDeleted,
        DescribeCurrent, LogDirsDryRun, BeforeMove, ConfirmMoves, AlterReplicaLogDirs,
        MovesAnswered, DescribeLogDirs, ElectLeaders, ElectionAnswered
  <2>2. QED
    BY <1>4, <2>1, OffsetsTell
<1>5. CASE line.kind = "logDirsDescribe" /\ ~Fail
  <2>1. ReplicasStart \/ Connect(ReplicaActions) \/ DescribeLogDirs
    BY Zenon, <1>5
    DEF ReplicasNext, PlannedRecords, BeforeDelete, ConfirmRecords, DeleteRecords, RecordsDeleted,
        DescribeCurrent, LogDirsDryRun, BeforeMove, ConfirmMoves, AlterReplicaLogDirs,
        MovesAnswered, ElectLeaders, ElectionAnswered, ListPartitions, SelectPartitions,
        OffsetsResult
  <2>2. line.kind \in OneRead /\ line.kind \in Reading
    BY <1>5 DEF OneRead, Reading
  <2>3. CASE ReplicasStart \/ Connect(ReplicaActions)
    BY <1>5, <2>2, <2>3, OneReadTells DEF ReplicasStart, Connect
  <2>4. CASE DescribeLogDirs
    <3>1. Holds = cluster.dirs /\ Denies = Dirs \ Holds
      BY <1>5 DEF Holds, Denies, Of
    <3>2. Report({Row(d, TRUE) : d \in Holds}, cluster.dirs = {}) \/ Report({}, TRUE)
      BY Zenon, <1>5, <2>4, <3>1 DEF DescribeLogDirs
    <3>3. CASE Report({}, TRUE)
      BY <3>3, NoRows, ReportTells
    <3>4. CASE Report({Row(d, TRUE) : d \in Holds}, cluster.dirs = {})
      BY <2>2, <3>1, <3>4, NowTells
    <3>5. QED
      BY <3>2, <3>3, <3>4
  <2>5. QED
    BY <2>1, <2>3, <2>4
<1>6. QED
  BY <1>2, <1>3, <1>4, <1>5

LEMMA ClusterOpsTell ==
    ASSUME Inv, TellsInv, ClusterOpsNext, UNCHANGED <<line, moves>>, Remember
    PROVE  TellsInv'
<1> USE DEF At
<1>1. line.kind \in ClusterActions
  BY Zenon DEF ClusterOpsNext, Connect, UnitStart, UnitDryRun, UnitConnected, ConfirmUnit,
               UnitRequest, UnitAnswered, FeaturesStart, CheckDependencies, UpdateFeatures,
               FeaturesAnswered, FeaturesDescribe, ReadStart, ReadReport, ClusterActions,
               FeatureActions, Asks, UnitActions
<1>2. CASE line.kind \notin {"featuresDescribe"} \cup ClusterReads
  BY <1>1, <1>2 DEF TellsInv, Reading, ClusterReads, ClusterActions, FeatureActions, UnitActions
<1>3. CASE Fail
  BY <1>3, FailTells
<1>4. CASE line.kind \in {"featuresDescribe"} \cup ClusterReads /\ ~Fail
  <2>1. Connect(ClusterActions) \/ FeaturesStart \/ ReadStart \/ FeaturesDescribe \/ ReadReport
    BY Zenon, <1>4
    DEF ClusterOpsNext, UnitStart, UnitDryRun, UnitConnected, ConfirmUnit, UnitRequest,
        UnitAnswered, CheckDependencies, UpdateFeatures, FeaturesAnswered, UnitActions, Asks,
        ClusterReads
  <2>2. line.kind \in OneRead /\ line.kind \in Reading
    BY <1>4 DEF OneRead, Reading
  <2>3. CASE Connect(ClusterActions) \/ FeaturesStart \/ ReadStart
    BY <1>4, <2>2, <2>3, OneReadTells DEF Connect, FeaturesStart, ReadStart
  <2>4. CASE FeaturesDescribe
    <3>1. /\ Holds = {<<f, cluster.levels[f]>> : f \in Features}
          /\ Denies = (Features \X (0..MaxLevel)) \ Holds
      BY <2>4 DEF FeaturesDescribe, Holds, Denies, Of
    <3>2. Report({Row(<<f, cluster.levels[f]>>, TRUE) : f \in Features}, FALSE)
      BY <1>4, <2>4 DEF FeaturesDescribe
    <3>3. {Row(<<f, cluster.levels[f]>>, TRUE) : f \in Features} = {Row(x, TRUE) : x \in Holds}
      BY <3>1
    <3>4. Report({Row(x, TRUE) : x \in Holds}, FALSE)
      BY <3>2, <3>3
    <3>5. Denies \cap Holds = {}
      BY <3>1
    <3>6. QED
      BY <2>2, <3>4, <3>5, NowTells
  <2>5. CASE ReadReport
    <3>1. Denies \cap Holds = {}
      BY <2>5 DEF ReadReport, Denies, Of, ClusterReads
    <3>2. Report({Row(x, TRUE) : x \in Holds}, FALSE)
      <4>0. {Row(x, TRUE) : x \in {}} = {}
        OBVIOUS
      <4>1. CASE line.kind = "listEndpoints"
        <5>1. Holds = IF "fenced" \in line.flags /\ ~cluster.knows THEN {} ELSE cluster.nodes
          BY <4>1 DEF Holds, Of
        <5>2. IF "fenced" \in line.flags /\ ~cluster.knows THEN Report({}, FALSE)
              ELSE Report({Row(n, TRUE) : n \in cluster.nodes}, FALSE)
          BY <1>4, <2>5, <4>1 DEF ReadReport
        <5>3. QED
          BY <4>0, <5>1, <5>2
      <4>2. CASE line.kind = "quorumDescribe"
        <5>1. Holds = cluster.voters
          BY <4>2 DEF Holds, Of
        <5>2. Report({Row(n, TRUE) : n \in cluster.voters}, FALSE)
          BY <1>4, <2>5, <4>2 DEF ReadReport
        <5>3. QED
          BY <5>1, <5>2
      <4>3. CASE line.kind = "tokenDescribe"
        <5>1. Holds = cluster.tokens
          BY <4>3 DEF Holds, Of
        <5>2. Report({Row(n, TRUE) : n \in cluster.tokens}, FALSE)
          BY <1>4, <2>5, <4>3 DEF ReadReport
        <5>3. QED
          BY <5>1, <5>2
      <4>4. CASE line.kind = "clusterId"
        <5>1. Holds = {}
          BY <4>4 DEF Holds, Of
        <5>2. Report({}, FALSE)
          BY <1>4, <2>5, <4>4 DEF ReadReport
        <5>3. QED
          BY <4>0, <5>1, <5>2
      <4>5. QED
        BY <2>5, <4>1, <4>2, <4>3, <4>4 DEF ReadReport, ClusterReads
    <3>3. QED
      BY <2>2, <3>1, <3>2, NowTells
  <2>6. QED
    BY <2>1, <2>3, <2>4, <2>5
<1>5. QED
  BY <1>2, <1>3, <1>4

\* What the command has read does not change while others change the cluster.
LEMMA ReadStays ==
    ASSUME ReadInv, UNCHANGED <<line, cmd>>,
           facts'.held \subseteq facts.held, facts'.denied \subseteq facts.denied
    PROVE  ReadInv'
<1>1. Reported' = Reported
  BY DEF Reported
<1>2. ASSUME DescribeRead PROVE DescribeRead'
  BY <1>2 DEF DescribeRead, IsUnderReplicated, IsUnderMinIsr, IsAtMinIsr, IsUnavailable,
              ReplicationFactor, ReassignmentInProgress
<1>3. ASSUME AclsRead PROVE AclsRead'
  BY <1>1, <1>3, FiltersStay DEF AclsRead, Listed
<1>4. ASSUME ConfigsRead PROVE ConfigsRead'
  <2>1. /\ ConfigPlanHolds' = ConfigPlanHolds /\ HasQuotas(line.types)' = HasQuotas(line.types)
        /\ Named' = Named /\ Entity' = Entity
    BY DEF ConfigPlanHolds, TypesFit, NamesFit, DescribeFits, AlterFits, KeysFit, ScramFits, Types,
           HasName, HasDefault, HasQuotas, Named, Entity, EntityOf
  <2>2. QED
    BY <1>1, <1>4, <2>1 DEF ConfigsRead
<1>5. ASSUME ListRead PROVE ListRead'
  BY <1>1, <1>5 DEF ListRead
<1>6. ASSUME IdsRead PROVE IdsRead'
  BY <1>1, <1>6 DEF IdsRead
<1>7. ASSUME SearchRead PROVE SearchRead'
  BY <1>7 DEF SearchRead, Of
<1>8. ASSUME OffsetsRead PROVE OffsetsRead'
  BY <1>8 DEF OffsetsRead
<1>9. QED
  BY <1>2, <1>3, <1>4, <1>5, <1>6, <1>7, <1>8 DEF ReadInv, Of

LEMMA ElsewhereTells ==
    ASSUME Inv, TellsInv, Elsewhere
    PROVE  TellsInv'
<1> SUFFICES ASSUME line.kind \in Reading PROVE TellsInv'
  BY DEF TellsInv, Elsewhere
<1>1. /\ cmd.pc # "ended" /\ UNCHANGED <<line, cmd>> /\ Remember
      /\ cmd.exit = "none" /\ ReadInv /\ ClusterInv
  BY DEF Elsewhere, TellsInv
<1>2. ReadInv'
  BY <1>1, FactsShrink, ReadStays
<1>3. ReportsWhatHeld' /\ ReportsNothingFalse'
  BY <1>1 DEF ReportsWhatHeld, ReportsNothingFalse
<1>4. ASSUME line.kind = "configsDescribe" PROVE ClusterInv'
  <2>1. ConfigsElsewhere
    BY <1>4 DEF Elsewhere, Of, TopicActions, AclActions, TransactionActions, ReplicaActions,
                ClusterActions, UnitActions, FeatureActions, ClusterReads
  <2>2. PICK e \in Entities : \E there \in BOOLEAN, keys \in {{}, KeysOf(e)} :
          /\ cluster' = [cluster EXCEPT ![e] = [there |-> there, keys |-> keys]]
          /\ ~there => keys = {}
    BY <2>1 DEF ConfigsElsewhere
  <2>3. /\ DOMAIN cluster = Entities
        /\ \A x \in Entities : /\ cluster[x].keys \subseteq KeysOf(x)
                               /\ ~cluster[x].there => cluster[x].keys = {}
    BY <1>1, <1>4 DEF ClusterInv, Of
  <2>4. /\ DOMAIN cluster' = Entities
        /\ \A x \in Entities : /\ cluster'[x].keys \subseteq KeysOf(x)
                               /\ ~cluster'[x].there => cluster'[x].keys = {}
    BY SMTT(20), <2>2, <2>3
  <2>5. QED
    BY <1>1, <1>4, <2>4 DEF ClusterInv, Of
<1>5. ASSUME line.kind = "transactionsList" PROVE ClusterInv'
  <2>1. CoordinatorsElsewhere
    BY <1>5 DEF Elsewhere, Of, TopicActions, AclActions, ConfigActions, ReplicaActions,
                ClusterActions, UnitActions, FeatureActions, ClusterReads, TransactionsElsewhere
  <2> DEFINE P(c) == /\ DOMAIN c = {"open", "old", "known", "coord", "on", "loading"}
                     /\ c.known \subseteq Producers /\ c.on \in [Producers -> Coordinators]
  <2>2. P(cluster)
    BY <1>1, <1>5 DEF ClusterInv, Of
  <2>3. P(cluster')
    <3>1. ASSUME NEW p \in Producers, NEW b \in Coordinators, cluster' = [cluster EXCEPT !.on[p] = b]
          PROVE  P(cluster')
      BY <2>2, <3>1
    <3>2. ASSUME NEW loading, cluster' = [cluster EXCEPT !.loading = loading] PROVE P(cluster')
      BY <2>2, <3>2
    <3>3. QED
      BY <2>1, <3>1, <3>2 DEF CoordinatorsElsewhere
  <2>4. QED
    BY <1>1, <1>5, <2>3 DEF ClusterInv, Of
<1>6. ASSUME line.kind = "findHanging" PROVE ClusterInv'
  <2>1. ProducersElsewhere
    BY <1>6 DEF Elsewhere, Of, TopicActions, AclActions, ConfigActions, ReplicaActions,
                ClusterActions, UnitActions, FeatureActions, ClusterReads, TransactionsElsewhere
  <2> DEFINE P(c) == /\ DOMAIN c = {"open", "old", "known", "coord", "on", "loading"}
                     /\ \A o \in c.open : o[2] \in Producers
                     /\ DOMAIN c.coord = Producers
                     /\ \A p \in Producers : p \notin c.known => c.coord[p] = {}
  <2>2. P(cluster)
    BY <1>1, <1>6 DEF ClusterInv, Of
  <2>3. P(cluster')
    <3>1. PICK p \in Producers :
            \/ \E t \in LogPartitions :
                 \/ cluster' = [cluster EXCEPT !.coord[p] = @ \cup {t}, !.known = @ \cup {p}]
                 \/ cluster' = [cluster EXCEPT !.open = @ \cup {Open(t, p)}]
            \/ cluster' = [cluster EXCEPT !.coord[p] = {},
                             !.open = {o \in @ : o[2] # p \/ o[1] \notin cluster.coord[p]},
                             !.old = {o \in @ : o[2] # p \/ o[1] \notin cluster.coord[p]}]
            \/ cluster.coord[p] = {} /\ cluster' = [cluster EXCEPT !.known = @ \ {p}]
      BY Zenon, <2>1 DEF ProducersElsewhere
    <3>2. ASSUME NEW t, cluster' = [cluster EXCEPT !.coord[p] = @ \cup {t}, !.known = @ \cup {p}]
          PROVE  P(cluster')
      BY <2>2, <3>2
    <3>3. ASSUME NEW t, cluster' = [cluster EXCEPT !.open = @ \cup {Open(t, p)}]
          PROVE  P(cluster')
      BY SMTT(20), <2>2, <3>3 DEF Open
    <3>4. CASE cluster' = [cluster EXCEPT !.coord[p] = {},
                             !.open = {o \in @ : o[2] # p \/ o[1] \notin cluster.coord[p]},
                             !.old = {o \in @ : o[2] # p \/ o[1] \notin cluster.coord[p]}]
      BY <2>2, <3>4
    <3>5. CASE cluster.coord[p] = {} /\ cluster' = [cluster EXCEPT !.known = @ \ {p}]
      BY <2>2, <3>5
    <3>6. QED
      BY Zenon, <3>1, <3>2, <3>3, <3>4, <3>5
  <2>4. QED
    BY <1>1, <1>6, <2>3 DEF ClusterInv, Of
<1>7. ClusterInv'
  BY <1>1, <1>4, <1>5, <1>6 DEF ClusterInv, Of
<1>8. QED
  BY <1>1, <1>2, <1>3, <1>7, FactsShrink DEF TellsInv

LEMMA InitTells == Init => TellsInv
<1> SUFFICES ASSUME Init, line.kind \in Reading PROVE TellsInv
  BY DEF TellsInv
<1>1. /\ cmd = Fresh /\ facts = [held |-> Holds, denied |-> Denies] /\ InitialCluster
      /\ line \in Lines
  BY DEF Init, CommandInit
<1>2. cmd.pc = "start" /\ cmd.rows = {} /\ cmd.exit = "none"
  BY <1>1 DEF Fresh
<1>3. facts.held = Holds /\ facts.denied = Denies
  BY <1>1
<1>4. Reported = {}
  BY <1>2 DEF Reported
<1>5. ReportsWhatHeld /\ ReportsNothingFalse
  BY <1>2 DEF ReportsWhatHeld, ReportsNothingFalse
<1>6. ReadInv
  <2>1. Of({"describe"}) => DescribeRead
    <3>1. SUFFICES ASSUME line.kind = "describe", NEW x \in Denies PROVE line.flags \cap Selectors # {}
      BY <1>2, <1>3 DEF DescribeRead, Of
    <3>2. x \in DescribeDenies
      BY <3>1 DEF Denies, Of
    <3>3. QED
      BY <3>2 DEF DescribeDenies, ShouldPrint
  <2>2. Of({"aclsList"}) => AclsRead
    BY <1>2 DEF AclsRead
  <2>3. ConfigsRead /\ ListRead /\ IdsRead /\ SearchRead /\ OffsetsRead
    BY <1>2, <1>4 DEF ConfigsRead, ListRead, IdsRead, SearchRead, OffsetsRead
  <2>4. QED
    BY <2>1, <2>2, <2>3 DEF ReadInv
<1>7. ClusterInv
  <2>1. ASSUME line.kind = "configsDescribe" PROVE ClusterInv
    <3>1. ConfigsInit
      <4>1. /\ ~Of(TopicActions) /\ ~Of({"describe"}) /\ ~Of(AclActions) /\ Of(ConfigActions)
            /\ ~Of(TransactionActions) /\ ~Of(ReplicaActions) /\ ~Of(ClusterActions)
        BY <2>1 DEF Of, TopicActions, AclActions, ConfigActions, TransactionActions, ReplicaActions,
                    ClusterActions, UnitActions, FeatureActions, ClusterReads
      <4>2. QED
        BY <1>1, <4>1 DEF InitialCluster
    <3>2. QED
      BY SMTT(20), <2>1, <3>1 DEF ConfigsInit, ClusterInv, Of
  <2>2. ASSUME line.kind \in {"transactionsList", "findHanging"} PROVE ClusterInv
    <3>1. TransactionsInit
      <4>1. /\ ~Of(TopicActions) /\ ~Of({"describe"}) /\ ~Of(AclActions) /\ ~Of(ConfigActions)
            /\ Of(TransactionActions) /\ ~Of(ReplicaActions) /\ ~Of(ClusterActions)
        BY <2>2 DEF Of, TopicActions, AclActions, ConfigActions, TransactionActions, ReplicaActions,
                    ClusterActions, UnitActions, FeatureActions, ClusterReads
      <4>2. QED
        BY <1>1, <4>1 DEF InitialCluster
    <3>2. PICK live \in SUBSET (LogPartitions \X Producers), hanging \in SUBSET (LogPartitions \X Producers) :
            cluster = [open |-> live \cup hanging, old |-> live \cup hanging, known |-> Producers,
                       coord |-> [p \in Producers |-> {t \in LogPartitions : Open(t, p) \in live}],
                       on |-> [p \in Producers |-> CHOOSE b \in Coordinators : TRUE],
                       loading |-> {}]
      BY <3>1 DEF TransactionsInit
    <3>3. (CHOOSE b \in Coordinators : TRUE) \in Coordinators
      BY CoordinatorsExist
    <3>4. QED
      BY <2>2, <3>2, <3>3 DEF ClusterInv, Of
  <2>3. QED
    BY <2>1, <2>2 DEF ClusterInv, Of
<1>8. QED
  BY <1>2, <1>3, <1>5, <1>6, <1>7 DEF TellsInv

\* What holds depends on the command line and the cluster.
LEMMA HoldsStay ==
    ASSUME UNCHANGED <<line, cluster>>
    PROVE  Holds' = Holds /\ Denies' = Denies
<1>1. Resolve(Existing)' = Resolve(Existing)
  BY DEF Resolve, Existing, Allowed, Flags
<1>2. Ongoing' = Ongoing
  BY DEF Ongoing
<1>3. DescribeHolds' = DescribeHolds
  BY <1>2 DEF DescribeHolds, IsUnderReplicated, IsUnderMinIsr, IsAtMinIsr, IsUnavailable
<1>4. DescribeDenies' = DescribeDenies
  BY <1>2 DEF DescribeDenies, ShouldPrint, IsUnderReplicated, IsUnderMinIsr, IsAtMinIsr, IsUnavailable
<1>5. Described' = Described /\ \A e : OfTheType(e)' = OfTheType(e)
  BY DEF Described, Meant, HasQuotas, Named, Entity, EntityOf, OfTheType
<1>6. \A o : IsHanging(o)' = IsHanging(o)
  BY DEF IsHanging
<1>7. Holds' = Holds
  BY SMTT(20), <1>1, <1>3, <1>5, <1>6, FiltersStay DEF Holds, Of
<1>8. Denies' = Denies
  BY <1>4, <1>5, <1>6, <1>7 DEF Denies, Of
<1>9. QED
  BY <1>7, <1>8

LEMMA NextTells == Inv /\ TellsInv /\ [Next]_allVars => TellsInv'
<1> SUFFICES ASSUME Inv, TellsInv, [Next]_allVars PROVE TellsInv'
  OBVIOUS
<1>1. CASE UNCHANGED allVars \/ Ends
  <2>1. UNCHANGED <<line, cmd, cluster, facts>>
    BY <1>1 DEF allVars, vars, Ends, Stay
  <2>2. Holds' = Holds /\ Denies' = Denies
    BY <2>1, HoldsStay
  <2>3. line.kind \in Reading /\ cmd.pc # "ended" /\ ReadInv => ReadInv'
    BY <2>1, ReadStays
  <2>4. ReportsWhatHeld' = ReportsWhatHeld /\ ReportsNothingFalse' = ReportsNothingFalse
    BY <2>1 DEF ReportsWhatHeld, ReportsNothingFalse, Reported
  <2>5. ClusterInv => ClusterInv'
    BY <2>1, ClusterStays
  <2>6. QED
    BY <2>1, <2>2, <2>3, <2>4, <2>5 DEF TellsInv
<1>2. CASE Interrupted
  BY <1>2, FailTells DEF Interrupted
<1>3. CASE Elsewhere
  BY <1>3, ElsewhereTells
<1>4. CASE Runs
  <2>1. UNCHANGED <<line, moves>> /\ Remember /\ Step
    BY <1>4 DEF Runs
  <2>2. CASE Lost(LookInto)
    BY <2>1, <2>2, FailTells DEF Lost
  <2>3. QED
    BY <2>1, <2>2, TopicsTell, DescribeTells, AclsTell, ConfigsTell, TransactionsTell, ReplicasTell,
       ClusterOpsTell DEF Step
<1>5. QED
  BY <1>1, <1>2, <1>3, <1>4 DEF Next

LEMMA Tells == Spec => []TellsInv
<1>1. Init => Inv /\ TellsInv
  BY InitInv, InitTells
<1>2. Inv /\ TellsInv /\ [Next]_allVars => (Inv /\ TellsInv)'
  BY NextInv, NextTells
<1>3. QED
  BY <1>1, <1>2, PTL DEF Spec

\* A report that succeeds has all that held in every state from the start of
\* the command to its end, for any cluster, any command line and any number of
\* changes between its reads.
THEOREM ReportsAll == Spec => []ReportsWhatHeld
<1>1. TellsInv => ReportsWhatHeld
  BY Zenon DEF TellsInv, ReportsWhatHeld
<1>2. QED
  BY <1>1, Tells, PTL

\* A report has nothing that was false in all those states: find-hanging names
\* no transaction that was live throughout.
THEOREM ReportsTrue == Spec => []ReportsNothingFalse
<1>1. TellsInv => ReportsNothingFalse
  BY Zenon DEF TellsInv, ReportsNothingFalse
<1>2. QED
  BY <1>1, Tells, PTL

=============================================================================
