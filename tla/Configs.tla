------------------------------- MODULE Configs ------------------------------
(***************************************************************************)
(* krabka configs --alter and --describe.  An entity is a pair of a        *)
(* sequence of entity types and one of names, the name "" standing for the *)
(* default entity.  For these commands cluster says of every entity        *)
(* whether it is there and which keys are set on it.                       *)
(***************************************************************************)
EXTENDS Command, Functions

CONSTANTS Entities,
          QuotaKeys,    \* quotas of users and clients
          IpQuotaKeys,
          ScramKeys,
          OtherKeys     \* names of configs and of loggers

ConfigKeys == QuotaKeys \cup IpQuotaKeys \cup ScramKeys \cup OtherKeys

ASSUME EntitiesAreNamed ==
    \A e \in Entities :
      /\ e = <<e[1], e[2]>> /\ e[1] \in Seq(STRING) /\ e[2] \in Seq(STRING)
      /\ Len(e[1]) = Len(e[2])

\* "none" stands for the entity itself, that is not there.
ASSUME NoneIsNoKey == "none" \notin ConfigKeys

ConfigActions == {"configsAlter", "configsDescribe"}

\* Users, clients and addresses have quotas, and users with a name have SCRAM
\* credentials.  The other entities are resources with configs.
HasQuotas(types) == Range(types) \subseteq {"users", "clients", "ips"}

KeysOf(e) ==
    CASE ~HasQuotas(e[1]) -> OtherKeys
      [] e[1] = <<"ips">> -> IpQuotaKeys
      [] e[1] = <<"users">> /\ e[2] # <<"">> -> QuotaKeys \cup ScramKeys
      [] OTHER -> QuotaKeys

ConfigsInit ==
    \E set \in BOOLEAN :
      cluster = [e \in Entities |-> [there |-> TRUE, keys |-> IF set THEN KeysOf(e) ELSE {}]]

\* Others set and delete configs, and delete topics, brokers and groups.
ConfigsElsewhere ==
    \E e \in {x \in Entities : x[1] = line.types} :
      \/ \E keys \in {{}, KeysOf(e)} :
           cluster' = [cluster EXCEPT ![e] = [there |-> TRUE, keys |-> keys]]
      \/ /\ ~HasQuotas(e[1])
         /\ cluster' = [cluster EXCEPT ![e] = [there |-> FALSE, keys |-> {}]]

-----------------------------------------------------------------------------
(* plan: what is checked before the connect                                *)

EntityTypes == {"topics", "clients", "users", "brokers", "broker-loggers", "ips",
                "client-metrics", "groups"}

QuotaTypes == {"users", "clients", "brokers", "ips"}

Types == Range(line.types)

HasName == \E i \in 1..Len(line.names) : line.names[i] # ""

HasDefault == \E i \in 1..Len(line.names) : line.names[i] = ""

\* A name stands for the type at its place, and the empty one for the default
\* entity.  describe_plan takes the first name for a resource.
EntityOf(l) ==
    <<l.types, IF Len(l.names) <= Len(l.types) THEN l.names ELSE <<l.names[1]>>>>

\* The command lines, which have no --dry-run.
ConfigsArgs(l) ==
    /\ l.kind \in ConfigActions /\ ~l.dry
    /\ l.flags \subseteq {"all", "twoWays", "badName", "badValue", "emptyFile"}
    /\ l.types \in Seq(STRING) /\ l.names \in Seq(STRING)
    /\ l.sets \cup l.deletes \subseteq ConfigKeys
    /\ l.types # <<>> /\ Len(l.types) <= Len(l.names) => EntityOf(l) \in Entities

\* Two types are users and clients.
TypesFit ==
    /\ Len(line.types) = Cardinality(Types)
    /\ Types \subseteq EntityTypes
    /\ Len(line.types) = 1 \/ Types = {"users", "clients"}

\* Flags that name entities in two ways, or a name that is no broker id, no
\* address or no topic name.
NamesFit == line.flags \cap {"twoWays", "badName"} = {}

DescribeFits ==
    /\ line.sets = {} /\ line.deletes = {}
    /\ Types \cap QuotaTypes = {} => ~HasDefault
    /\ "broker-loggers" \in Types => HasName
    /\ HasQuotas(line.types) => Len(line.names) <= Len(line.types)

\* What the kind of entity takes, from alter_plan.
KeysFit ==
    LET touched == line.sets \cup line.deletes
        scram == touched \cap ScramKeys
    IN  CASE Types = {"ips"} -> touched \subseteq IpQuotaKeys
          [] "clients" \in Types -> touched \subseteq QuotaKeys
          [] Types = {"users"} ->
               /\ touched \subseteq QuotaKeys \cup ScramKeys
               /\ scram # {} => ~HasDefault /\ touched \cap QuotaKeys = {}
          [] OTHER -> TRUE

\* A SCRAM change that is no quota change: one credential of one user, whose
\* value parses.
ScramFits ==
    Types \subseteq {"users", "clients"} /\ (line.sets \cup line.deletes) \cap QuotaKeys = {} =>
      /\ Cardinality(line.sets) + Cardinality(line.deletes) <= 1
      /\ line.sets # {} => "badValue" \notin line.flags
      /\ Len(line.types) = 1

AlterFits ==
    /\ IF Types \cap QuotaTypes # {} THEN HasName \/ HasDefault ELSE HasName
    /\ line.sets \cup line.deletes # {} \/ "emptyFile" \in line.flags
    /\ Len(line.types) = Len(line.names)
    /\ KeysFit /\ ScramFits

ConfigPlanHolds ==
    /\ TypesFit /\ NamesFit
    /\ IF line.kind = "configsDescribe" THEN DescribeFits ELSE AlterFits

ConfigsStart ==
    /\ At(ConfigActions, "start")
    /\ IF ConfigPlanHolds THEN Goto("connect") ELSE Fail

-----------------------------------------------------------------------------
(* --alter                                                                 *)

Entity == EntityOf(line)

Op(op, key) == [on |-> Entity, op |-> op, key |-> key]

Ops == {Op("delete", k) : k \in line.deletes} \cup {Op("set", k) : k \in line.sets}

IsQuotaChange ==
    \/ Types = {"ips"}
    \/ Types \subseteq {"users", "clients"} /\ (line.sets \cup line.deletes) \cap QuotaKeys # {}

\* The kinds of change that read before they write: loggers that the broker
\* has, quotas that are set.  A quota value is parsed only then.
AlterReads ==
    /\ At({"configsAlter"}, "connected")
    /\ LET current == cluster[Entity].keys
           invalid == IF IsQuotaChange THEN line.deletes \ current
                      ELSE (line.sets \cup line.deletes) \ current
           unparsed == IsQuotaChange /\ line.sets # {} /\ "badValue" \in line.flags
       IN  IF Types # {"broker-loggers"} /\ ~IsQuotaChange THEN Goto("alter")
           ELSE IF invalid # {} \/ unparsed THEN Fail
           ELSE Call("alter", cmd.seen)

\* No credential to change is no request.
NothingToAlter ==
    /\ At({"configsAlter"}, "alter") /\ Ops = {} /\ Types \subseteq {"users", "clients"}
    /\ Report({}, FALSE)

\* External: the broker does all that one request asks of an entity, or none.
\* A group and a client metrics subscription are there once they have configs.
AlterConfigs ==
    /\ At({"configsAlter"}, "alter") /\ (Ops # {} \/ ~(Types \subseteq {"users", "clients"}))
    /\ \E answer \in {"ok", "refused"} :
         /\ answer = "ok" => cluster[Entity].there \/ Types \cap {"client-metrics", "groups"} # {}
         /\ Sent(Ops, [o \in Ops |-> answer], IF answer = "ok" THEN "done" ELSE "refused")
         /\ cluster' = IF answer = "refused" THEN cluster
                       ELSE [cluster EXCEPT ![Entity].keys = (@ \ line.deletes) \cup line.sets]

AlterAnswered ==
    \/ At({"configsAlter"}, "done") /\ Report(RowsOf(cmd.reply), FALSE)
    \/ At({"configsAlter"}, "refused") /\ Fail

-----------------------------------------------------------------------------
(* --describe                                                              *)

OfTheType(e) == e[1] = line.types /\ cluster[e].there

Named == line.names # <<>>

KeyRows(entities, keys) ==
    UNION {{Row(<<e, k>>, TRUE) : k \in cluster[e].keys \cap keys} : e \in entities}

\* entity_exists is asked for a name without --all.  A group whose config
\* names cannot be listed passes for one that exists.
DescribeList ==
    /\ At({"configsDescribe"}, "connected") /\ ~HasQuotas(line.types)
    /\ \/ /\ Named /\ "all" \notin line.flags /\ ~OfTheType(Entity)
          /\ Report({Row(<<Entity, "none">>, TRUE)}, FALSE)
       \/ LET unlisted == Types = {"groups"} /\ Named
              todo == IF Named THEN {Entity} ELSE {e \in Entities : OfTheType(e)}
          IN  /\ Named /\ "all" \notin line.flags => OfTheType(Entity) \/ unlisted
              /\ Call("describe", todo)

\* One request for each entity: a topic, broker or logger that is gone by
\* then fails the command.
DescribeEach ==
    /\ At({"configsDescribe"}, "describe")
    /\ \/ /\ cmd.seen = {}
          /\ Report(cmd.rows, FALSE)
       \/ \E e \in cmd.seen :
            IF ~cluster[e].there /\ Types \cap {"client-metrics", "groups"} = {} THEN Fail
            ELSE /\ cmd' = [cmd EXCEPT !.seen = cmd.seen \ {e},
                              !.rows = cmd.rows \cup KeyRows({e}, ConfigKeys)]
                 /\ OnlyLocal
       \/ Fail

\* quota_components: an entity type without a name stands for every entity.
Meant == {e \in Entities : /\ e[1] = line.types
                           /\ \A i \in 1..Len(line.names) : e[2][i] = line.names[i]}

\* The entities that --describe is about.
Described ==
    IF HasQuotas(line.types) THEN Meant ELSE {e \in Entities : Named => e = Entity}

\* One request for the quotas, and one for the SCRAM credentials of users.
DescribeQuotas ==
    /\ At({"configsDescribe"}, "connected") /\ HasQuotas(line.types)
    /\ LET rows == KeyRows(Meant, QuotaKeys \cup IpQuotaKeys)
       IN  IF Types = {"users"} /\ ~HasDefault
           THEN \/ cmd' = [cmd EXCEPT !.pc = "scram", !.rows = rows] /\ OnlyLocal
                \/ Fail
           ELSE Report(rows, FALSE) \/ Fail

DescribeScram ==
    /\ At({"configsDescribe"}, "scram")
    /\ Report(cmd.rows \cup KeyRows(Meant, ScramKeys), FALSE) \/ Fail

ConfigsNext ==
    \/ ConfigsStart \/ Connect(ConfigActions)
    \/ AlterReads \/ NothingToAlter \/ AlterConfigs \/ AlterAnswered
    \/ DescribeList \/ DescribeEach \/ DescribeQuotas \/ DescribeScram
=============================================================================
