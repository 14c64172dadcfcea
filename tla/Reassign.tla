------------------------------ MODULE Reassign ------------------------------
(***************************************************************************)
(* krabka reassign-partitions: --execute, --verify and --cancel against a  *)
(* cluster that carries reassignments and log dir moves out meanwhile.     *)
(*                                                                         *)
(* A command is a process; every request it sends and every prompt is a    *)
(* step of its own, because the cluster, and the commands of the other     *)
(* operators, move between them.  A request that writes may take effect in *)
(* part, or take effect and still be reported as failed.  Ctrl-C drops the *)
(* command between two steps.                                              *)
(*                                                                         *)
(* The cluster is external: its reassignments, throttles and log dirs are  *)
(* modelled by what the requests of the command say of them.               *)
(***************************************************************************)
EXTENDS Naturals, Sequences, Functions

CONSTANTS Operators,
          Initial,      \* the partitions of the cluster and their replicas
          TopicOf,      \* the topic of each partition that a file may name
          Nodes,        \* the brokers of the cluster
          Dirs,         \* log dirs of a broker
          Files,        \* the reassignment files, parsed
          None,
          MaxCommands,  \* bound: how many commands are run
          Kinds         \* bound: which ones

Parts == DOMAIN Initial

\* PartitionTarget: an entry of a file names a partition, its replicas and a log
\* dir, or "any", for each of them.
Entries == UNION {Range(f) : f \in Files}

Brokers == Nodes \cup UNION {Range(e.replicas) : e \in Entries}

\* duplicates finds none.
NoDuplicates(s) == \A i, j \in 1..Len(s) : s[i] = s[j] => i = j

IsList(s) == s \in Seq(Range(s))

ASSUME FilesAreFiles ==
    /\ \A f \in Files : IsList(f)
    /\ \A e \in Entries : /\ e.partition \in DOMAIN TopicOf
                          /\ IsList(e.replicas) /\ IsList(e.dirs)
                          /\ Len(e.replicas) = Len(e.dirs)
                          /\ Range(e.dirs) \subseteq Dirs \cup {"any"}

ASSUME ClusterIsThere ==
    /\ Parts \subseteq DOMAIN TopicOf
    /\ \A p \in Parts : Initial[p] \in Seq(Nodes) /\ NoDuplicates(Initial[p])
    /\ MaxCommands \in Nat
    /\ Kinds \subseteq {"execute", "verify", "cancel"}
    /\ None \notin Dirs

VARIABLES part,      \* the replicas of each partition, and how they are reassigned
          dir,       \* the log dir of each replica that a file moves
          throttle,  \* the throttle configs of the topics and of the brokers
          proc,      \* the command of each operator
          commands,  \* how many were run
          report,    \* what a command that ended in this step reports
          marks      \* what the throttle of the last --execute covers (history)

vars == <<part, dir, throttle, proc, commands, report, marks>>

-----------------------------------------------------------------------------
(* The file. *)

Named(f) == {f[i].partition : i \in 1..Len(f)}

\* ReassignmentFile::targets, as a map: the last entry of a partition stays.
Targets(f) ==
    [p \in Named(f) |->
        LET last == CHOOSE i \in 1..Len(f) :
                       /\ f[i].partition = p
                       /\ \A j \in (i + 1)..Len(f) : f[j].partition # p
        IN  f[last].replicas]

MovesOf(e) == {i \in 1..Len(e.replicas) : e.dirs[i] # "any"}

\* ReassignmentFile::log_dir_moves: a replica is a partition and a broker, and
\* the last entry of a replica stays.
LogDirMoves(f) ==
    LET spots == UNION {{i} \X MovesOf(f[i]) : i \in 1..Len(f)}
        At(s) == <<f[s[1]].partition, f[s[1]].replicas[s[2]]>>
        Later(s, u) == u[1] > s[1] \/ (u[1] = s[1] /\ u[2] > s[2])
    IN  [r \in {At(s) : s \in spots} |->
            LET last == CHOOSE s \in spots :
                           At(s) = r /\ ~\E u \in spots : At(u) = r /\ Later(s, u)
            IN  f[last[1]].dirs[last[2]]]

\* No partition has two entries.
NamedOnce(f) == \A i, j \in 1..Len(f) : f[i].partition = f[j].partition => i = j

\* (fault) A replica list may repeat a broker.
CheckExecuteAllowsRepeats(f) ==
    /\ f # <<>>
    /\ \A e \in Range(f) : e.replicas # <<>>
    /\ NamedOnce(f)

\* files::check_execute
CheckExecute(f) ==
    /\ f # <<>>
    /\ \A e \in Range(f) : e.replicas # <<>>
    /\ NamedOnce(f)
    /\ \A e \in Range(f) : NoDuplicates(e.replicas)

Topics(parts) == {TopicOf[p] : p \in parts}

-----------------------------------------------------------------------------
(* The cluster, external. *)

Replicas == UNION {DOMAIN LogDirMoves(f) : f \in Files}

\* The elements of a list that are not in S, in their order.
Without(s, S) ==
    LET kept[n \in 0..Len(s)] ==
            IF n = 0 THEN <<>>
            ELSE IF s[n] \in S THEN kept[n - 1] ELSE Append(kept[n - 1], s[n])
    IN  kept[Len(s)]

\* The reassignment of a partition goes on.
Moving(p) == part[p].adding # {} \/ part[p].removing # {}

Active == {p \in Parts : Moving(p)}

\* ListPartitionReassignments
Listing(parts) ==
    [p \in parts |-> [replicas |-> part[p].replicas, adding |-> part[p].adding]]

\* The replicas that hold the data.
Origin(p) == Without(part[p].replicas, part[p].adding)

\* The controller takes a target; a partition on the move keeps its origin.
Reassigned(p, target) ==
    [replicas |-> target \o Without(Origin(p), Range(target)),
     adding |-> Range(target) \ Range(Origin(p)),
     removing |-> Range(Origin(p)) \ Range(target)]

Settled(replicas) == [replicas |-> replicas, adding |-> {}, removing |-> {}]

\* The controller gives the replicas up that it was adding.
Reverted(p) == Settled(Origin(p))

\* Log dirs of the replicas that are gone are gone.
Hosted(parts) ==
    [r \in Replicas |-> IF r[1] \in DOMAIN parts /\ r[2] \in Range(parts[r[1]].replicas)
                        THEN dir[r] ELSE [at |-> None, to |-> None]]

Unthrottled == [leader |-> {}, follower |-> {}, rate |-> {}, dirRate |-> {}]

-----------------------------------------------------------------------------
(* The throttles. *)

\* (fault) Only what is proposed is throttled.
MoveMapOfProposal(active, proposed, current) ==
    [p \in DOMAIN proposed |->
        LET sources == Range(current[p])
        IN  [sources |-> sources, destinations |-> Range(proposed[p]) \ sources]]

\* MoveMap::proposed: the moves of the active reassignments, then of the
\* proposed ones; a partition on the move keeps its sources.
MoveMap(active, proposed, current) ==
    [p \in DOMAIN active \cup DOMAIN proposed |->
        LET sources == IF p \in DOMAIN active
                       THEN Range(active[p].replicas) \ active[p].adding
                       ELSE Range(current[p])
        IN  [sources |-> sources,
             destinations |-> IF p \in DOMAIN proposed THEN Range(proposed[p]) \ sources
                              ELSE active[p].adding]]

\* MoveMap::leader_throttles
LeaderThrottles(moves) == UNION {{p} \X moves[p].sources : p \in DOMAIN moves}

\* (fault) The sources are listed once more.
FollowerThrottlesOfSources(moves) == UNION {{p} \X moves[p].sources : p \in DOMAIN moves}

\* MoveMap::follower_throttles
FollowerThrottles(moves) ==
    UNION {{p} \X (moves[p].destinations \ moves[p].sources) : p \in DOMAIN moves}

\* MoveMap::brokers
MovingBrokers(moves) ==
    UNION {moves[p].sources \cup moves[p].destinations : p \in DOMAIN moves}

\* The throttled replicas of some topics are replaced.
Replaced(old, new, topics) ==
    {x \in old : TopicOf[x[1]] \notin topics} \cup {x \in new : TopicOf[x[1]] \in topics}

-----------------------------------------------------------------------------
(* The commands. *)

NoMoves == [r \in {} |-> None]

Idle == [pc |-> "idle", kind |-> "verify", file |-> <<>>, additional |-> FALSE,
         rates |-> {}, dry |-> FALSE, preserve |-> FALSE,
         active |-> NoMoves, current |-> NoMoves, reassigning |-> {}, moves |-> NoMoves,
         consent |-> FALSE, failed |-> FALSE, late |-> FALSE]

Init ==
    /\ part = [p \in Parts |-> Settled(Initial[p])]
    /\ dir \in {d \in [Replicas -> [at: Dirs \cup {None}, to: {None}]] :
                 \A r \in Replicas : d[r].at = None <=>
                    ~(r[1] \in Parts /\ r[2] \in Range(Initial[r[1]]))}
    /\ throttle = Unthrottled
    /\ proc = [o \in Operators |-> Idle]
    /\ commands = 0
    /\ report = None
    /\ marks = [p \in Parts |-> "none"]

\* The command ends with an exit code and is gone.
Exit(o, code) ==
    /\ proc' = [proc EXCEPT ![o] = Idle]
    /\ report' = [kind |-> proc[o].kind, file |-> proc[o].file, code |-> code,
                  dry |-> proc[o].dry, clears |-> DOMAIN proc[o].active = {} /\ ~proc[o].preserve]

Continue(o, locals) ==
    /\ proc' = [proc EXCEPT ![o] = locals]
    /\ report' = None

Goto(o, label) == Continue(o, [proc[o] EXCEPT !.pc = label])

\* The command goes on at a label, or ends well.
Advance(o, locals, label) ==
    IF label = "end" THEN Exit(o, 0) ELSE Continue(o, [locals EXCEPT !.pc = label])

At(o, kind, label) == proc[o].kind = kind /\ proc[o].pc = label

\* ReassignPartitionsArgs::run: validate and read the file.
Start(o) ==
    /\ proc[o].pc = "idle"
    /\ commands < MaxCommands
    /\ \E kind \in Kinds, f \in Files, additional, dry, preserve \in BOOLEAN,
          rates \in SUBSET {"interBroker", "logDir"} :
        /\ kind = "execute" => ~preserve
        /\ kind # "execute" => ~additional /\ rates = {}
        /\ kind = "verify" => ~dry
        /\ Continue(o, [Idle EXCEPT !.pc = "list", !.kind = kind, !.file = f,
                          !.additional = additional, !.rates = rates, !.dry = dry,
                          !.preserve = preserve])
    /\ commands' = commands + 1
    /\ UNCHANGED <<part, dir, throttle, marks>>

-----------------------------------------------------------------------------
(* --execute up to the prompt. *)

\* (fault) The active reassignments are not looked at.
RefusesNothing(o, active) == FALSE

\* CANNOT_EXECUTE_BECAUSE_OF_EXISTING
Refuses(o, active) == ~proc[o].additional /\ DOMAIN active # {}

\* check_execute and the first request.
ExecuteList(o) ==
    /\ At(o, "execute", "list")
    /\ LET active == Listing(Active) IN
       IF ~CheckExecute(proc[o].file) \/ Refuses(o, active) THEN Exit(o, 1)
       ELSE Continue(o, [proc[o] EXCEPT !.pc = "describe", !.active = active])
    /\ UNCHANGED <<part, dir, throttle, commands, marks>>

\* The brokers and the partitions exist; the current replicas are the rollback.
ExecuteDescribe(o) ==
    /\ At(o, "execute", "describe")
    /\ LET targets == Targets(proc[o].file) IN
       IF \E p \in DOMAIN targets : p \notin Parts \/ ~(Range(targets[p]) \subseteq Nodes)
       THEN Exit(o, 1)
       ELSE IF proc[o].dry THEN Exit(o, 0)
       ELSE Continue(o, [proc[o] EXCEPT !.pc = "prompt",
                           !.current = [p \in DOMAIN targets |-> part[p].replicas],
                           !.moves = LogDirMoves(proc[o].file)])
    /\ UNCHANGED <<part, dir, throttle, commands, marks>>

-----------------------------------------------------------------------------
(* --verify and --cancel up to their first write. *)

\* (fault) A partition that is on the move is compared as well.
IncompleteIgnoringActive(active, targets) ==
    \E p \in DOMAIN targets : p \notin Parts \/ part[p].replicas # targets[p]

\* partition_states, and whether one of them is not done and on target.
Incomplete(active, targets) ==
    \E p \in DOMAIN targets :
        p \in DOMAIN active \/ p \notin Parts \/ part[p].replicas # targets[p]

\* (fault) A replica that is being copied counts as done.
MoveDoneIgnoresFuture(r) == dir[r].at # None

\* MoveState::done
MoveDone(r) == dir[r].at # None /\ dir[r].to = None

VerifyList(o) ==
    /\ At(o, "verify", "list")
    /\ Continue(o, [proc[o] EXCEPT !.pc = "describe", !.active = Listing(Active)])
    /\ UNCHANGED <<part, dir, throttle, commands, marks>>

VerifyDescribe(o) ==
    /\ At(o, "verify", "describe")
    /\ Continue(o, [proc[o] EXCEPT !.pc = "findMoves",
                      !.failed = Incomplete(proc[o].active, Targets(proc[o].file))])
    /\ UNCHANGED <<part, dir, throttle, commands, marks>>

\* move_states; the throttles are cleared when nothing at all is on the move.
VerifyMoves(o) ==
    /\ At(o, "verify", "findMoves")
    /\ LET ongoing == \E r \in DOMAIN LogDirMoves(proc[o].file) : ~MoveDone(r)
       IN  IF DOMAIN proc[o].active = {} /\ ~ongoing /\ ~proc[o].preserve
           THEN Goto(o, "clearBrokers")
           ELSE Exit(o, IF ongoing \/ proc[o].failed THEN 1 ELSE 0)
    /\ UNCHANGED <<part, dir, throttle, commands, marks>>

\* An empty filter lists every active reassignment.
CancelList(o) ==
    /\ At(o, "cancel", "list")
    /\ LET named == Named(proc[o].file)
       IN  Continue(o, [proc[o] EXCEPT !.pc = "findMoves",
                          !.reassigning = IF named = {} THEN Active ELSE Active \cap named])
    /\ UNCHANGED <<part, dir, throttle, commands, marks>>

\* What a cancel goes on with once it may.
AfterReassign(me) ==
    IF DOMAIN me.moves # {} THEN "moves"
    ELSE IF me.kind = "cancel" /\ ~me.preserve THEN "clearBrokers" ELSE "end"

AfterCancelPrompt(me) == IF me.reassigning # {} THEN "alter" ELSE AfterReassign(me)

\* (fault) The throttles do not count as a change.
ChangesOfMoves(o, moving) == proc[o].reassigning # {} \/ DOMAIN moving # {}

\* Whether a cancel has anything to ask for.
Changes(o, moving) ==
    proc[o].reassigning # {} \/ DOMAIN moving # {} \/ ~proc[o].preserve

\* move_states: a replica on the move goes back to the dir it is in.
CancelMoves(o) ==
    /\ At(o, "cancel", "findMoves")
    /\ LET asked == DOMAIN LogDirMoves(proc[o].file)
           moving == [r \in {x \in asked : dir[x].at # None /\ dir[x].to # None} |-> dir[r].at]
           next == [proc[o] EXCEPT !.moves = moving]
       IN  IF proc[o].dry THEN Exit(o, 0)
           ELSE IF Changes(o, moving) THEN Continue(o, [next EXCEPT !.pc = "prompt"])
           ELSE Advance(o, next, AfterCancelPrompt(next))
    /\ UNCHANGED <<part, dir, throttle, commands, marks>>

-----------------------------------------------------------------------------
(* The prompt and the writes. *)

AfterRates(me) == IF "logDir" \in me.rates THEN "throttleDirs" ELSE "alter"

AfterPrompt(me) ==
    IF me.kind = "cancel" THEN AfterCancelPrompt(me)
    ELSE IF "interBroker" \in me.rates THEN "throttleTopics" ELSE AfterRates(me)

\* confirm: agreed, declined, or nobody there to ask.
Prompt(o) ==
    /\ proc[o].pc = "prompt"
    /\ \/ Advance(o, [proc[o] EXCEPT !.consent = TRUE], AfterPrompt(proc[o]))
       \/ Exit(o, 130)
       \/ Exit(o, 2)
    /\ UNCHANGED <<part, dir, throttle, commands, marks>>

\* (fault) The errors of a write are not looked at.
WrittenSomehow(o, done, asked, label) == Advance(o, proc[o], label)

\* A write was carried out in part, or as a whole, and the command goes on only
\* when it was carried out as a whole and says so.
Written(o, done, asked, label) ==
    \/ done = asked /\ Advance(o, proc[o], label)
    \/ Exit(o, 1)

\* The moves of the active reassignments and of the file.
Moves(o) == MoveMap(proc[o].active, Targets(proc[o].file), proc[o].current)

\* write_throttles: the throttled replicas of the topics.  From here on the
\* old destinations of a partition that is resubmitted are not covered.
ThrottleTopics(o) ==
    /\ proc[o].pc = "throttleTopics"
    /\ LET topics == Topics(DOMAIN Moves(o)) IN
       \E done \in SUBSET topics :
        /\ throttle' = [throttle EXCEPT
                          !.leader = Replaced(@, LeaderThrottles(Moves(o)), done),
                          !.follower = Replaced(@, FollowerThrottles(Moves(o)), done)]
        /\ Written(o, done, topics, "throttleBrokers")
    /\ marks' = [p \in Parts |-> IF p \in Named(proc[o].file) /\ marks[p] = "both"
                                 THEN "leaders" ELSE marks[p]]
    /\ UNCHANGED <<part, dir, commands>>

\* write_throttles: the rates of the brokers.
ThrottleBrokers(o) ==
    /\ proc[o].pc = "throttleBrokers"
    /\ LET brokers == MovingBrokers(Moves(o)) IN
       \E done \in SUBSET brokers :
        /\ throttle' = [throttle EXCEPT !.rate = @ \cup done]
        /\ Written(o, done, brokers, AfterRates(proc[o]))
    /\ UNCHANGED <<part, dir, commands, marks>>

\* write_throttles: the rates between log dirs.
ThrottleDirs(o) ==
    /\ proc[o].pc = "throttleDirs"
    /\ LET brokers == {r[2] : r \in DOMAIN proc[o].moves} IN
       \E done \in SUBSET brokers :
        /\ throttle' = [throttle EXCEPT !.dirRate = @ \cup done]
        /\ Written(o, done, brokers, "alter")
    /\ UNCHANGED <<part, dir, commands, marks>>

\* What the throttle of an --execute covers of a partition it put on the move.
Mark(me, p) ==
    IF "interBroker" \notin me.rates THEN "none"
    ELSE IF (p \in DOMAIN me.active) = Moving(p) THEN "both" ELSE "stale"

\* alter_reassignments of --execute.
AlterExecute(o) ==
    /\ At(o, "execute", "alter")
    /\ LET targets == Targets(proc[o].file) IN
       \E accepted \in SUBSET DOMAIN targets :
        /\ part' = [p \in Parts |-> IF p \in accepted THEN Reassigned(p, targets[p]) ELSE part[p]]
        /\ marks' = [p \in Parts |-> IF p \in accepted THEN Mark(proc[o], p) ELSE marks[p]]
        /\ Written(o, accepted, DOMAIN targets, AfterReassign(proc[o]))
    /\ UNCHANGED <<dir, throttle, commands>>

\* alter_reassignments of --cancel: one that ended meanwhile is an error.
AlterCancel(o) ==
    /\ At(o, "cancel", "alter")
    /\ \E accepted \in SUBSET (proc[o].reassigning \cap Active) :
        /\ part' = [p \in Parts |-> IF p \in accepted THEN Reverted(p) ELSE part[p]]
        /\ marks' = [p \in Parts |-> IF p \in accepted THEN "none" ELSE marks[p]]
        /\ Written(o, accepted, proc[o].reassigning, AfterReassign(proc[o]))
    /\ dir' = Hosted(part')
    /\ UNCHANGED <<throttle, commands>>

\* A replica that is where it should be is not copied.
MoveTo(r, d) == [dir[r] EXCEPT !.to = IF dir[r].at = d THEN None ELSE d]

\* (fault) The moves are tried again without end.
GivesUpNever(o) == FALSE

\* The deadline is looked at after an attempt.
GivesUp(o) == proc[o].late

\* (fault) A replica that is not on its broker yet is forgotten.
LeftToMoveForgets(o, started) == {}

\* The moves that the next round tries again.
LeftToMove(o, started) == DOMAIN proc[o].moves \ started

\* One round of execute_moves: a replica that is not on its broker yet is tried
\* again, any other error ends the command.
StartMoves(o) ==
    /\ proc[o].pc = "moves"
    /\ LET here == {r \in DOMAIN proc[o].moves : dir[r].at # None} IN
       \E started \in SUBSET here :
        LET left == [r \in LeftToMove(o, started) |-> proc[o].moves[r]]
            next == [proc[o] EXCEPT !.moves = left]
        IN  /\ dir' = [r \in Replicas |-> IF r \in started THEN MoveTo(r, proc[o].moves[r])
                                          ELSE dir[r]]
            /\ IF started # here THEN Exit(o, 1)
               ELSE IF DOMAIN left = {} THEN Advance(o, next, AfterReassign(next))
               ELSE IF GivesUp(o) THEN Exit(o, 1)
               ELSE Continue(o, next)
    /\ UNCHANGED <<part, throttle, commands, marks>>

\* The deadline of execute_moves passes.
Deadline(o) ==
    /\ proc[o].pc = "moves"
    /\ ~proc[o].late
    /\ Continue(o, [proc[o] EXCEPT !.late = TRUE])
    /\ UNCHANGED <<part, dir, throttle, commands, marks>>

\* clear_all_throttles: a cancel clears what covers the other partitions too.
Released(o) == IF proc[o].kind = "cancel" THEN [p \in Parts |-> "none"] ELSE marks

ClearBrokers(o) ==
    /\ proc[o].pc = "clearBrokers"
    /\ LET brokers == Nodes \cup UNION {Range(e.replicas) : e \in Range(proc[o].file)} IN
       \E done \in SUBSET brokers :
        /\ throttle' = [throttle EXCEPT !.rate = @ \ done, !.dirRate = @ \ done]
        /\ Written(o, done, brokers, "clearTopics")
    /\ marks' = Released(o)
    /\ UNCHANGED <<part, dir, commands>>

ClearTopics(o) ==
    /\ proc[o].pc = "clearTopics"
    /\ LET topics == Topics(Named(proc[o].file)) IN
       \E done \in SUBSET topics :
        /\ throttle' = [throttle EXCEPT !.leader = Replaced(@, {}, done),
                                        !.follower = Replaced(@, {}, done)]
        /\ \/ done = topics /\ Exit(o, IF proc[o].failed THEN 1 ELSE 0)
           \/ Exit(o, 1)
    /\ marks' = Released(o)
    /\ UNCHANGED <<part, dir, commands>>

-----------------------------------------------------------------------------
(* What happens to a command, and what the cluster does meanwhile. *)

\* A request that reads fails.
ReadFails(o) ==
    /\ proc[o].pc \in {"list", "describe", "findMoves", "clearBrokers"}
    /\ Exit(o, 1)
    /\ UNCHANGED <<part, dir, throttle, commands, marks>>

\* Ctrl-C: run_until_cancelled drops the command where it waits.
Interrupt(o) ==
    /\ proc[o].pc # "idle"
    /\ Exit(o, 130)
    /\ UNCHANGED <<part, dir, throttle, commands, marks>>

\* The reassignment of a partition is complete.
Complete(p) ==
    /\ Moving(p)
    /\ part' = [part EXCEPT ![p] = Settled(Without(@.replicas, @.removing))]
    /\ dir' = Hosted(part')
    /\ marks' = [marks EXCEPT ![p] = "none"]
    /\ report' = None
    /\ UNCHANGED <<throttle, proc, commands>>

\* A new replica is created in a log dir of its broker.
Land(r) ==
    /\ r[1] \in Parts
    /\ r[2] \in Range(part[r[1]].replicas)
    /\ dir[r].at = None
    /\ \E d \in Dirs : dir' = [dir EXCEPT ![r].at = d]
    /\ report' = None
    /\ UNCHANGED <<part, throttle, proc, commands, marks>>

\* A replica was copied to its new log dir.
Copied(r) ==
    /\ dir[r].to # None
    /\ dir' = [dir EXCEPT ![r] = [at |-> @.to, to |-> None]]
    /\ report' = None
    /\ UNCHANGED <<part, throttle, proc, commands, marks>>

\* No command is running.
Rest ==
    /\ \A o \in Operators : proc[o].pc = "idle"
    /\ UNCHANGED vars

\* A step of a command that waits for nobody but the cluster.
Run(o) ==
    \/ ExecuteList(o) \/ ExecuteDescribe(o)
    \/ VerifyList(o) \/ VerifyDescribe(o) \/ VerifyMoves(o)
    \/ CancelList(o) \/ CancelMoves(o)
    \/ ThrottleTopics(o) \/ ThrottleBrokers(o) \/ ThrottleDirs(o)
    \/ AlterExecute(o) \/ AlterCancel(o) \/ StartMoves(o)
    \/ ClearBrokers(o) \/ ClearTopics(o)
    \/ ReadFails(o)

Next ==
    \/ \E o \in Operators : Start(o) \/ Run(o) \/ Prompt(o) \/ Deadline(o) \/ Interrupt(o)
    \/ \E p \in Parts : Complete(p)
    \/ \E r \in Replicas : Land(r) \/ Copied(r)
    \/ Rest

Spec == Init /\ [][Next]_vars

\* The client ends every request, with an error if need be, and the deadline
\* passes; nobody has to answer a prompt, and no reassignment has to end.
Fairness == \A o \in Operators : WF_vars(Run(o)) /\ WF_vars(Deadline(o))

FairSpec == Spec /\ Fairness
-----------------------------------------------------------------------------
(* What one operator at a time may rely on. *)

Labels == {"idle", "list", "describe", "findMoves", "prompt", "throttleTopics",
           "throttleBrokers", "throttleDirs", "alter", "moves", "clearBrokers", "clearTopics"}

\* The replicas of a partition are brokers, each at most once, and a command
\* stands where its kind may stand.
TypeOK ==
    /\ \A p \in Parts : /\ NoDuplicates(part[p].replicas)
                        /\ part[p].adding \cup part[p].removing \subseteq Range(part[p].replicas)
                        /\ Range(part[p].replicas) \subseteq Nodes
    /\ dir \in [Replicas -> [at: Dirs \cup {None}, to: Dirs \cup {None}]]
    /\ throttle \in [leader: SUBSET (Parts \X Brokers), follower: SUBSET (Parts \X Brokers),
                     rate: SUBSET Brokers, dirRate: SUBSET Brokers]
    /\ \A o \in Operators : /\ proc[o].pc \in Labels
                            /\ proc[o].file \in Files \cup {<<>>}
                            /\ proc[o].reassigning \subseteq Parts
    /\ commands \in 0..MaxCommands
    /\ marks \in [Parts -> {"none", "stale", "leaders", "both"}]

\* The brokers that serve the data of a partition on the move are throttled.
LeaderCovered(p) ==
    {p} \X Range(Origin(p)) \subseteq throttle.leader /\ Range(Origin(p)) \subseteq throttle.rate

\* The brokers that fetch it are.
FollowerCovered(p) ==
    {p} \X part[p].adding \subseteq throttle.follower /\ part[p].adding \subseteq throttle.rate

\* A partition that was put on the move under --throttle stays throttled at its
\* sources until it arrives: the throttled replicas of a topic are one config,
\* which a later --execute --additional replaces, and it may replace it in
\* part, be refused or be interrupted.  It stays throttled at its destinations
\* as well, until an --execute that names the same partition replaces them.
\* (Not for a partition whose earlier reassignment ended while the command was
\* at its prompt, from whose listing the throttle was computed.)
ThrottledWhileMoving ==
    \A p \in Parts : Moving(p) =>
        /\ marks[p] \in {"leaders", "both"} => LeaderCovered(p)
        /\ marks[p] = "both" => FollowerCovered(p)

\* Without --additional, the assignment that --execute prints for the rollback
\* is the one that it replaces, although it was read before the prompt.
RollbackIsWhatItReplaces ==
    [][\A o \in Operators :
         At(o, "execute", "alter") /\ ~proc[o].additional /\ part' # part =>
            \A p \in DOMAIN proc[o].current :
               proc[o].current[p] = part[p].replicas /\ ~Moving(p)]_vars

\* A --verify that exits 0 found every partition of its file at rest on its
\* target and no log dir move of its file under way, although it reads the
\* active reassignments, the replicas and the log dirs at three different times.
VerifiedIsSettled ==
    report # None /\ report.kind = "verify" /\ report.code = 0 =>
        /\ \A p \in Named(report.file) :
              p \in Parts /\ ~Moving(p) /\ part[p].replicas = Targets(report.file)[p]
        /\ \A r \in DOMAIN LogDirMoves(report.file) : dir[r].at # None /\ dir[r].to = None

\* An --execute that exits 0 has every partition of its file on its way to its
\* target, or there, and every replica in its log dir or copied to it.
ExecutedIsUnderWay ==
    report # None /\ report.kind = "execute" /\ report.code = 0 /\ ~report.dry =>
        /\ \A p \in Named(report.file) :
              Without(part[p].replicas, part[p].removing) = Targets(report.file)[p]
        /\ \A r \in DOMAIN LogDirMoves(report.file) :
              LogDirMoves(report.file)[r] \in {dir[r].at, dir[r].to}

\* A --verify that exits 0, found nothing on the move and may clear throttles
\* leaves none behind on any broker of the cluster and on the topics of its
\* file, whichever commands have set them, in part or as a whole, before it.
VerifiedIsUnthrottled ==
    report # None /\ report.kind = "verify" /\ report.code = 0 /\ report.clears =>
        /\ (throttle.rate \cup throttle.dirRate) \cap Nodes = {}
        /\ \A x \in throttle.leader \cup throttle.follower :
              TopicOf[x[1]] \notin Topics(Named(report.file))

\* The exit code tells the truth of a cluster that is in order: the replicas
\* that --execute writes are distinct brokers, and exit code 0 of --verify and
\* of --execute means what their reports say.
ExitsTellTheTruth ==
    TypeOK /\ VerifiedIsSettled /\ VerifiedIsUnthrottled /\ ExecutedIsUnderWay

\* A command changes the cluster only when the operator agreed to it: on no
\* path does --execute or --cancel write before the prompt or on a dry run,
\* and --verify never touches more than the throttles.
ConsentedChanges ==
    [][\A o \in Operators :
         proc'[o] # proc[o] /\ <<part, dir, throttle>>' # <<part, dir, throttle>> =>
            \/ proc[o].consent /\ ~proc[o].dry
            \/ proc[o].kind = "verify" /\ <<part, dir>>' = <<part, dir>>]_vars

\* Every command ends, but for one that waits at its prompt: the loop of
\* execute_moves ends although a replica may never reach its broker.
CommandsEnd ==
    \A o \in Operators :
        (proc[o].pc \notin {"idle", "prompt"}) ~> (proc[o].pc \in {"idle", "prompt"})

-----------------------------------------------------------------------------
(* What the program says of itself. *)

\* --cancel: "None of the specified partition reassignments are active."
CancelsTheSpecified ==
    [][\A o \in Operators, p \in Parts :
         At(o, "cancel", "alter") /\ part'[p] # part[p] => p \in Named(proc[o].file)]_vars
=============================================================================
