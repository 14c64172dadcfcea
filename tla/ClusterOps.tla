----------------------------- MODULE ClusterOps -----------------------------
(***************************************************************************)
(* The commands on the cluster as a whole: krabka cluster, features,       *)
(* metadata-quorum and delegation-tokens.  For them cluster holds          *)
(*   nodes   the registered brokers,                                       *)
(*   knows   whether the brokers know the request that the command needs,  *)
(*   levels  the finalized level of each feature,                          *)
(*   voters  the controllers of the quorum, and leader, one of the nodes   *)
(*           that it may name,                                             *)
(*   tokens  the delegation tokens that have not expired.                  *)
(***************************************************************************)
EXTENDS Command

CONSTANTS Nodes,
          Features,
          Depends,     \* for a feature and a level, pairs of a feature and its least level
          MaxLevel     \* bound: the levels of a feature

\* What changes one thing only.  The thing is line.target.
UnitActions == {"unregister", "addController", "removeController",
                "tokenCreate", "tokenRenew", "tokenExpire"}

FeatureActions == {"featuresUpdate", "featuresDescribe"}

ClusterReads == {"clusterId", "listEndpoints", "quorumDescribe", "tokenDescribe"}

ClusterActions == UnitActions \cup FeatureActions \cup ClusterReads

\* The command lines.
ClusterArgs(l) ==
    /\ l.kind \in {"clusterId", "unregister", "listEndpoints"}
    /\ l.flags \subseteq {"fenced", "malformed"} /\ l.target \in Nodes

MetadataQuorumArgs(l) ==
    /\ l.kind \in {"quorumDescribe", "addController", "removeController"}
    /\ l.flags \subseteq {"badPort", "malformed"} /\ l.target \in Nodes

DelegationTokensArgs(l) ==
    /\ l.kind \in {"tokenCreate", "tokenRenew", "tokenExpire", "tokenDescribe"}
    /\ l.flags \subseteq {"malformed"} /\ l.target \in Nodes

FeaturesArgs(l) ==
    /\ l.kind \in FeatureActions
    /\ l.flags \subseteq {"upgrade"} /\ \A f \in DOMAIN l.updates : l.updates[f] \in Nat

ClusterOpsInit ==
    cluster \in [nodes: {Nodes}, knows: BOOLEAN, voters: {Nodes}, leader: Nodes, tokens: {Nodes},
                 levels: IF line.kind \in FeatureActions THEN [Features -> 0..1]
                         ELSE {[f \in Features |-> 0]}]

NodesElsewhere ==
    \E n \in Nodes :
      \/ cluster' = [cluster EXCEPT !.nodes = IF n \in @ THEN @ \ {n} ELSE @ \cup {n}]
      \/ cluster' = [cluster EXCEPT !.voters = IF n \in @ THEN @ \ {n} ELSE @ \cup {n}]
      \/ cluster' = [cluster EXCEPT !.leader = n]
      \/ cluster' = [cluster EXCEPT !.tokens = IF n \in @ THEN @ \ {n} ELSE @ \cup {n}]

LevelsElsewhere ==
    \E f \in Features, level \in 0..MaxLevel : cluster' = [cluster EXCEPT !.levels[f] = level]

ClusterOpsElsewhere ==
    IF line.kind \in FeatureActions THEN LevelsElsewhere ELSE NodesElsewhere

-----------------------------------------------------------------------------
(* One thing at a time                                                     *)

\* Those that ask, and those of them that ask before they connect.
Asks == {"unregister", "removeController", "tokenExpire"}

AsksFirst == {"removeController"}

\* --dry-run is for some only.  A dry run of the quorum contacts no broker.
\* The port of a controller is checked after its dry run.
UnitStart ==
    /\ At(UnitActions, "start")
    /\ IF \/ "malformed" \in line.flags
          \/ line.dry /\ line.kind \in {"tokenCreate", "tokenRenew"}
       THEN Fail
       ELSE IF line.dry /\ line.kind \in {"addController", "removeController"}
       THEN Report({Row(line.target, TRUE)}, FALSE)
       ELSE IF line.kind = "addController" /\ "badPort" \in line.flags THEN Fail
       ELSE Goto(IF line.kind \in AsksFirst THEN "prompt" ELSE "connect")

UnitDryRun ==
    /\ At(UnitActions, "connected") /\ line.dry
    /\ Report({Row(line.target, TRUE)}, FALSE)

UnitConnected ==
    /\ At(UnitActions, "connected") /\ ~line.dry
    /\ Goto(IF line.kind \in Asks \ AsksFirst THEN "prompt" ELSE "request")

ConfirmUnit ==
    /\ At(Asks, "prompt")
    /\ Confirm({line.target}, IF line.kind \in AsksFirst THEN "connect" ELSE "request")

Apply(x) ==
    CASE line.kind = "unregister" -> [cluster EXCEPT !.nodes = @ \ {x}]
      [] line.kind = "addController" -> [cluster EXCEPT !.voters = @ \cup {x}]
      [] line.kind = "removeController" -> [cluster EXCEPT !.voters = @ \ {x}]
      [] line.kind = "tokenExpire" -> [cluster EXCEPT !.tokens = @ \ {x}]
      [] OTHER -> [cluster EXCEPT !.tokens = @ \cup {x}]

\* External: the controller carries the request out, refuses it, or does not
\* know it.
UnitRequest ==
    /\ At(UnitActions, "request")
    /\ \E answer \in {"ok", "refused", "unsupported"} :
         /\ (answer = "unsupported") <=> ~cluster.knows
         /\ Sent({line.target}, [x \in {line.target} |-> answer], "answered")
         /\ cluster' = IF answer = "ok" THEN Apply(line.target) ELSE cluster

\* unregister_outcome: a cluster without the API is said so, with exit code 0.
UnitAnswered ==
    /\ At(UnitActions, "answered")
    /\ IF \/ cmd.reply[line.target] = "ok"
          \/ cmd.reply[line.target] = "unsupported" /\ line.kind = "unregister"
       THEN Report(RowsOf(cmd.reply), FALSE)
       ELSE Fail

-----------------------------------------------------------------------------
(* features: line.updates gives the level for each feature                 *)

Updates == DOMAIN line.updates

\* Plan::validate, and FeatureUpdate::new: level 0 is no upgrade.
FeaturesStart ==
    /\ At(FeatureActions, "start")
    /\ IF /\ line.kind = "featuresUpdate"
          /\ \/ Updates = {} \/ ~(Updates \subseteq Features)
             \/ \E f \in Updates : line.updates[f] > MaxLevel
             \/ "upgrade" \in line.flags /\ \E f \in Updates : line.updates[f] = 0
       THEN Fail ELSE Goto("connect")

Needs(f) == Depends[f][line.updates[f]]

\* unmet_dependency on the proposed levels.
Unmet(levels) ==
    LET proposed == [f \in Features |-> IF f \in Updates THEN line.updates[f] ELSE levels[f]]
    IN  \E f \in Updates : \E d \in Needs(f) : proposed[d[1]] < d[2]

\* The current levels are read unless it is a dry run, which leaves the check
\* to the controller.
CheckDependencies ==
    /\ At({"featuresUpdate"}, "connected")
    /\ IF line.dry \/ \A f \in Updates : Needs(f) = {} THEN Goto("update")
       ELSE IF Unmet(cluster.levels) THEN Fail
       ELSE Call("update", cmd.seen)

\* External: the controller checks the levels of now, and takes all or none.
UpdateFeatures ==
    /\ At({"featuresUpdate"}, "update")
    /\ \E answer \in {"ok", "refused"} :
         /\ answer = "ok" => ~Unmet(cluster.levels)
         /\ LET reply == [f \in Updates |-> answer]
            IN  IF line.dry
                THEN /\ cmd' \in {[cmd EXCEPT !.pc = next, !.reply = reply] :
                                    next \in {"updated", "lost"}}
                     /\ OnlyLocal
                ELSE /\ Sent(Updates, reply, "updated")
                     /\ cluster' = IF answer = "refused" THEN cluster
                                   ELSE [cluster EXCEPT !.levels = [f \in Features |->
                                           IF f \in Updates THEN line.updates[f] ELSE @[f]]]

\* outcome_errors: the error of the whole call is the error of each feature.
FeaturesAnswered ==
    \/ /\ At({"featuresUpdate"}, "updated")
       /\ Report(RowsOf(cmd.reply), AnyFailed(RowsOf(cmd.reply)))
    \/ /\ At({"featuresUpdate"}, "lost")
       /\ Fail \/ Report({Row(f, FALSE) : f \in Updates}, TRUE)

FeaturesDescribe ==
    /\ At({"featuresDescribe"}, "connected")
    /\ Report({Row(<<f, cluster.levels[f]>>, TRUE) : f \in Features}, FALSE) \/ Fail

-----------------------------------------------------------------------------
(* The commands that only read                                             *)

ReadStart ==
    /\ At(ClusterReads, "start")
    /\ IF \/ "malformed" \in line.flags
          \/ line.kind = "tokenDescribe" /\ line.dry
       THEN Fail ELSE Goto("connect")

\* list-endpoints of a broker that does not know of fenced ones exits with 0.
\* A quorum whose leader is no voter has no status.
ReadReport ==
    /\ At(ClusterReads, "connected")
    /\ \/ CASE line.kind = "listEndpoints" ->
                 IF "fenced" \in line.flags /\ ~cluster.knows THEN Report({}, FALSE)
                 ELSE Report({Row(n, TRUE) : n \in cluster.nodes}, FALSE)
            [] line.kind = "quorumDescribe" ->
                 IF cluster.leader \notin cluster.voters THEN Fail
                 ELSE Report({Row(n, TRUE) : n \in cluster.voters}, FALSE)
            [] line.kind = "tokenDescribe" -> Report({Row(n, TRUE) : n \in cluster.tokens}, FALSE)
            [] OTHER -> Report({}, FALSE)
       \/ Fail

ClusterOpsNext ==
    \/ Connect(ClusterActions)
    \/ UnitStart \/ UnitDryRun \/ UnitConnected \/ ConfirmUnit \/ UnitRequest \/ UnitAnswered
    \/ FeaturesStart \/ CheckDependencies \/ UpdateFeatures \/ FeaturesAnswered
    \/ FeaturesDescribe \/ ReadStart \/ ReadReport
=============================================================================
