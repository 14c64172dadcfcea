-------------------------------- MODULE Acls --------------------------------
(***************************************************************************)
(* krabka acls --add, --remove and --list.  For them cluster is the set of *)
(* bindings, each an entry on a resource.                                  *)
(***************************************************************************)
EXTENDS Command

CONSTANTS Bindings,   \* bound: the bindings that are ever created
          Covers      \* pairs of names: a prefixed one and a name that it covers

AclActions == {"aclsAdd", "aclsRemove", "aclsList"}

Resource(kind, name, pattern) == [kind |-> kind, name |-> name, pattern |-> pattern]

Binding(r, e) == [on |-> r, entry |-> e]

\* The command lines: the resources, the principals and hosts to allow and to
\* deny, and the operations.
AclsArgs(l) ==
    /\ l.kind \in AclActions
    /\ l.flags \subseteq {"producer", "consumer", "idempotent", "cluster", "principal"}
    /\ l.pattern \in {"literal", "prefixed", "any", "match"}
    /\ {"topics", "groups", "txids", "allow", "deny", "allowHosts", "denyHosts", "ops",
        "principals"} \subseteq DOMAIN l

AclsInit == cluster \in SUBSET Bindings

AclsElsewhere ==
    \E b \in Bindings : cluster' = IF b \in cluster THEN cluster \ {b} ELSE cluster \cup {b}

-----------------------------------------------------------------------------
(* The checks before the connect                                           *)

Given(f) == f \in line.flags

Role == Given("producer") \/ Given("consumer")

\* The refusals of plan, which exit with the usage code.
AclsCheck ==
    /\ line.kind = "aclsList" => /\ ~Role /\ ~line.dry
                                 /\ line.allow = {} /\ line.deny = {}
                                 /\ line.allowHosts = {} /\ line.denyHosts = {}
    /\ Role => line.ops = {} /\ line.deny = {} /\ line.denyHosts = {}
    /\ Given("principal") => line.kind = "aclsList"
    /\ Given("producer") => line.topics # {}
    /\ Given("idempotent") => Given("producer")
    /\ Given("consumer") => /\ line.topics # {} /\ line.groups # {}
                            /\ ~Given("producer") => ~Given("cluster") /\ line.txids = {}

\* hosts: the hosts given, else every host where a principal is.
Hosts(hosts, principals) == IF hosts = {} /\ principals # {} THEN {"*"} ELSE hosts

\* entries: empty when no principal is given.
Entries(ops) ==
    [who: line.allow, host: Hosts(line.allowHosts, line.allow), op: ops, may: {TRUE}]
      \cup [who: line.deny, host: Hosts(line.denyHosts, line.deny), op: ops, may: {FALSE}]

TheCluster == Resource("cluster", "kafka-cluster", "literal")

ResourceFilters ==
    {Resource("topic", n, line.pattern) : n \in line.topics}
      \cup {Resource("group", n, line.pattern) : n \in line.groups}
      \cup {Resource("txid", n, line.pattern) : n \in line.txids}
      \cup (IF line.pattern = "literal" /\ (Given("cluster") \/ Given("idempotent"))
            THEN {TheCluster} ELSE {})

\* What --producer and --consumer stand for on a kind of resource.
ProducerOps == [topic |-> {"write", "describe", "create"}, txid |-> {"write", "describe"}]

ConsumerOps == [topic |-> {"read", "describe"}, group |-> {"read"}]

ByProducer ==
    IF ~Given("producer") THEN {}
    ELSE {r \in ResourceFilters : r.kind \in DOMAIN ProducerOps}
           \cup (IF Given("idempotent") THEN {TheCluster} ELSE {})

ByConsumer ==
    IF ~Given("consumer") THEN {} ELSE {r \in ResourceFilters : r.kind \in DOMAIN ConsumerOps}

\* resource_acls: the entries of each resource.
ResourceAcls ==
    IF ~Role THEN [r \in ResourceFilters |-> Entries(IF line.ops = {} THEN {"all"} ELSE line.ops)]
    ELSE [r \in ByProducer \cup ByConsumer |->
            (IF r \notin ByProducer THEN {}
             ELSE Entries(IF r = TheCluster THEN {"idempotentWrite"} ELSE ProducerOps[r.kind]))
              \cup (IF r \in ByConsumer THEN Entries(ConsumerOps[r.kind]) ELSE {})]

\* The operations of each resource type, as far as the instances use them.
Supports ==
    [topic |-> {"all", "read", "write", "create", "describe"},
     group |-> {"all", "read", "describe"},
     txid |-> {"all", "write", "describe"},
     cluster |-> {"all", "create", "describe", "idempotentWrite"}]

AclsPlanHolds ==
    /\ AclsCheck
    /\ line.kind # "aclsList" =>
         /\ ResourceFilters # {}
         /\ \A r \in DOMAIN ResourceAcls : \A e \in ResourceAcls[r] : e.op \in Supports[r.kind]
    /\ line.kind = "aclsAdd" => /\ line.pattern \in {"literal", "prefixed"}
                                /\ \A r \in DOMAIN ResourceAcls : ResourceAcls[r] # {}

-----------------------------------------------------------------------------
(* Filters.  The matching is the broker's.                                 *)

Matches(filter, r) ==
    /\ filter.kind = r.kind
    /\ CASE filter.pattern = "any" -> r.name = filter.name
         [] filter.pattern = "match" -> \/ r.name = filter.name
                                        \/ r.pattern = "prefixed" /\ <<r.name, filter.name>> \in Covers
         [] OTHER -> r = filter

\* remove_steps: no entries stand for every entry.
Selects(filter, entries, b) == Matches(filter, b.on) /\ (entries = {} \/ b.entry \in entries)

\* removal_impact, as the bindings that the filters shown can match.
RemovalImpact ==
    {b \in Bindings : \E r \in DOMAIN ResourceAcls : Selects(r, ResourceAcls[r], b)}

-----------------------------------------------------------------------------

AclsStart ==
    /\ At(AclActions, "start")
    /\ IF ~AclsPlanHolds THEN Usage
       ELSE cmd' = [cmd EXCEPT
              !.pc = IF line.kind = "aclsRemove" /\ ~line.dry THEN "prompt" ELSE "connect",
              !.seen = [todo |-> IF line.kind = "aclsList" THEN ResourceFilters
                                 ELSE DOMAIN ResourceAcls,
                        done |-> {}, at |-> TheCluster, absent |-> {}]] /\ OnlyLocal

\* The prompt comes before the connect.
ConfirmRemoval == At({"aclsRemove"}, "prompt") /\ Confirm(RemovalImpact, "connect")

\* A step of the loop is done, with its rows.
StepDone(r, rows) ==
    /\ cmd' = [cmd EXCEPT !.pc = "connected", !.rows = cmd.rows \cup rows,
                 !.seen.todo = cmd.seen.todo \ {r}, !.seen.done = cmd.seen.done \cup {r}]
    /\ OnlyLocal

\* Report::stop: without a row before or of its own the whole command fails.
Stop(rows) ==
    IF cmd.seen.done = {} /\ rows = {} THEN Fail
    ELSE Report(cmd.rows \cup rows, TRUE)

AclsFinish ==
    /\ At({"aclsAdd", "aclsRemove"}, "connected") /\ cmd.seen.todo = {}
    /\ Report(cmd.rows, FALSE)

-----------------------------------------------------------------------------
(* --add                                                                   *)

\* add_steps
Creations(r) == {Binding(r, e) : e \in ResourceAcls[r]}

\* Reads what is on the resource; what is there already is not added.
AddStep ==
    /\ At({"aclsAdd"}, "connected")
    /\ \E r \in cmd.seen.todo :
         LET absent == Creations(r) \ cluster
         IN  \/ /\ absent = {} \/ line.dry
                /\ StepDone(r, {Row(b, TRUE) : b \in absent})
             \/ /\ absent # {} /\ ~line.dry
                /\ cmd' = [cmd EXCEPT !.pc = "create", !.seen.absent = absent, !.seen.at = r]
                /\ OnlyLocal
             \/ Stop({})

\* External: each binding is created or refused; creating one that is there
\* already is no error.
CreateAcls ==
    /\ At({"aclsAdd"}, "create")
    /\ \E reply \in [cmd.seen.absent -> {"ok", "refused"}] :
         /\ Sent(cmd.asked \cup cmd.seen.absent, reply, "added")
         /\ cluster' = cluster \cup {b \in DOMAIN reply : reply[b] = "ok"}

\* (fault) a binding that the answer does not refuse has been created.
AddAnsweredAnyhow ==
    /\ At({"aclsAdd"}, "added") \/ At({"aclsAdd"}, "lost")
    /\ IF cmd.pc = "added" /\ ~AnyFailed(RowsOf(cmd.reply))
       THEN StepDone(cmd.seen.at, RowsOf(cmd.reply))
       ELSE Stop({Row(b, TRUE) : b \in DOMAIN cmd.reply})

AddAnswered ==
    /\ At({"aclsAdd"}, "added") \/ At({"aclsAdd"}, "lost")
    /\ IF cmd.pc = "added" /\ ~AnyFailed(RowsOf(cmd.reply))
       THEN StepDone(cmd.seen.at, RowsOf(cmd.reply))
       ELSE Stop({Row(b, FALSE) : b \in DOMAIN cmd.reply})

-----------------------------------------------------------------------------
(* --remove and --list                                                     *)

Selected(r) == {b \in cluster : Selects(r, ResourceAcls[r], b)}

\* DescribeAcls in place of DeleteAcls.
RemoveDryRun ==
    /\ At({"aclsRemove"}, "connected") /\ line.dry
    /\ \E r \in cmd.seen.todo :
         \/ StepDone(r, {Row(b, TRUE) : b \in Selected(r)})
         \/ \E found \in SUBSET Selected(r) : Stop({Row(b, TRUE) : b \in found})

\* External: each filter removes what it matches now, or is refused.
DeleteAcls ==
    /\ At({"aclsRemove"}, "connected") /\ ~line.dry
    /\ \E r \in cmd.seen.todo :
         LET filters == IF ResourceAcls[r] = {} THEN {{}} ELSE {{e} : e \in ResourceAcls[r]}
         IN  \E carried \in SUBSET filters :
               LET removed == {b \in cluster : \E es \in carried : Selects(r, es, b)}
               IN  /\ cluster' = cluster \ removed
                   /\ effects' = effects \cup removed
                   /\ \E pc \in {"removed", "lost"} :
                        cmd' = [cmd EXCEPT !.pc = pc, !.asked = removed, !.seen.at = r,
                                  !.reply = [all |-> carried = filters]]

RemoveAnswered ==
    /\ At({"aclsRemove"}, "removed") \/ At({"aclsRemove"}, "lost")
    /\ LET rows == {Row(b, TRUE) : b \in cmd.asked}
       IN  IF cmd.pc = "lost" THEN Stop({})
           ELSE IF cmd.reply.all THEN StepDone(cmd.seen.at, rows)
           ELSE Stop(rows)

\* One DescribeAcls per filter, one for everything without a filter.
ListStep ==
    /\ At({"aclsList"}, "connected")
    /\ \/ \E r \in cmd.seen.todo :
            StepDone(r, {Row(b, TRUE) : b \in {x \in cluster : Matches(r, x.on)}})
       \/ /\ cmd.seen.todo = {}
          /\ LET found == IF cmd.seen.done = {} THEN {Row(b, TRUE) : b \in cluster} ELSE cmd.rows
                 listed == IF line.principals = {} THEN found
                           ELSE {x \in found : x.what.entry.who \in line.principals}
             IN  Report(listed, FALSE)
       \/ Fail

AclsNext ==
    \/ AclsStart \/ ConfirmRemoval \/ Connect(AclActions) \/ AclsFinish
    \/ AddStep \/ CreateAcls \/ AddAnswered
    \/ RemoveDryRun \/ DeleteAcls \/ RemoveAnswered \/ ListStep
=============================================================================
