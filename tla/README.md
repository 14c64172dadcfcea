# Verification of krabka-cli

TLA+ models of the `krabka` operator CLI (`crates/krabka-cli`) and of the admin
UI server (`crates/admin-ui`), the TLC configurations that check them on small
instances, and TLAPS proofs for every size. `PROJECT.json` ties each definition
to the lines it models, each property to the runs that check it, and each
hazard of the code to the properties that watch it.

    tlc -config MCFanOut.cfg MCFanOut      # any run of PROJECT.json
    tlapm PluginProofs.tla                 # any *Proofs module

## 1. Inventory

The repository holds two programs that talk to external services, a Kafka
broker cluster through `krabka-client-admin` and the tenant registry of Gres, and
that persist nothing themselves.

| Part | State it owns | Operations | What is hard |
| --- | --- | --- | --- |
| `fan_out.rs` | running futures, outputs | fill, poll, drop | slots move on completion; order of results |
| admin UI: `session.rs`, `auth.rs`, `server.rs`, `server_fns.rs` | session store under a lock; one task per request | sign-in, pages, mutations, sign-out, expiry | every lock and await is an interleaving point; clients go away |
| `reassign_partitions.rs` and its files and plan | none; the cluster's reassignments, throttles, log dirs | execute, verify, cancel, generate, list, converge | many requests per command, prompt in between, partial failures |
| `console_consumer.rs` | buffer, count, stop reason | poll, pop, write, seek back, close | rebalances, crashes and Ctrl-C around a buffer; commit position |
| `console_producer.rs` | line buffer, delivery tasks, counters | read, enqueue, deliver, join, close | deliveries resolve late, out of order, or after Ctrl-C |
| `external.rs` | the plugin process, signal streams | resolve, register, spawn, select | signals at every point; files change during the search |
| `consumer_groups.rs` and its `reset.rs` | none; the groups' offsets | describe, reset, delete, delete-offsets | members commit and logs move between the requests; groups and partitions that fail one by one |
| `lib.rs`, `safety.rs`, `exit.rs`, `output.rs` | none | dispatch, cancel, confirm, report, exit code | Ctrl-C against a request in flight; consent |
| `topics/`, `acls.rs`, `configs.rs`, `transactions.rs`, `delete_records.rs`, `log_dirs.rs`, `leader_election.rs`, `get_offsets.rs`, `features.rs`, `metadata_quorum.rs`, `delegation_tokens.rs`, `cluster.rs` | none; the cluster's | read, prompt, mutate, report | state read before the prompt and used after it; rows that fail one by one; reports put together from several reads |
| `gres.rs` | none; the registry's tenant records, the tenants' Kafka access | create, suspend, resume, delete, split, move | four writes to two systems; operators who race for one versioned record; range layouts |
| `replica_placer.rs`, `permissions.rs` | none | pure algorithms | boundary cases |

Every component, modelled or not and why, is in `PROJECT.json` under
"components"; the hazards are under "hazards", at the line where they bite.

What each part must get right, whatever the timing:

- **fan-out**: at most the limit in flight; every item started once and answered
  once; results under their own items; the batch ends.
- **admin UI**: a request acts for the session of its own cookie and for no
  session that has ended; a logout is final; a sign-in frees what was abandoned;
  an outage is not reported as a wrong password.
- **reassign-partitions**: what moves under `--throttle` stays throttled; the
  printed rollback is what is replaced; exit codes tell the truth; nothing is
  written without consent; only the named partitions are touched.
- **console-consumer**: the group's offsets never pass a record that no run
  processed, never move back, and give no record to two runs without a failure.
- **console-producer**: exit 0 means that all of stdin is in the topic; the
  counts add up; `--sync` writes a prefix.
- **plugins**: the first executable match runs; no orphan plugin; SIGTERM arrives.
- **consumer-groups**: no offset is set past the end of its log; a row that is
  reported was written or deleted; no lag is negative; `--dry-run` changes nothing.
- **admin commands**: what is deleted or altered was shown and agreed to;
  `--dry-run` changes nothing; a row that says done was done, and exit code 0 means
  all was done; a report leaves out nothing that held throughout and says nothing
  that was false throughout; every command ends.
- **gres**: a published tenant record means that credential, ACLs and config exist; no
  update of a record is lost; range layouts stay a partition of the key space, and
  a key moves only to a newer log.

## 2. Modules

| Module | Models | Abstract specification |
| --- | --- | --- |
| `FanOut` | `fan_out::bounded` | `BatchMap`: every item is answered once, results appear at once and in input order |
| `AdminServer` | sessions and requests of the admin UI | `SessionLife`: an id is opened once, then ended, and never comes back |
| `Reassign` | `reassign-partitions --execute`, `--verify`, `--cancel` | |
| `ConsumerGroups` | `consumer-groups --describe`, `--reset-offsets`, `--delete`, `--delete-offsets` | |
| `ConsoleConsumer` | `console-consumer`, several runs of one group | |
| `ConsoleProducer` | `console-producer` | |
| `Plugin` | `external.rs` | |
| `Command` | the life of an admin command: `lib.rs`, `safety.rs`, `exit.rs`, `output.rs` | |
| `Topics`, `TopicDescribe` | `topics` | |
| `Acls`, `Configs`, `Transactions` | the commands of these names | |
| `Replicas` | `delete-records`, `log-dirs`, `leader-election`, `get-offsets` | |
| `ClusterOps` | `cluster`, `features`, `metadata-quorum`, `delegation-tokens` | |
| `Commands` | composition of the seven modules above with a cluster that others change | |
| `Gres` | `gres`: several operators, one tenant, the registry and the brokers | `VersionedRegister`: every write makes the next version |

The `*Proofs` modules hold the theorems (section 4; those about `FanOut` are in
`ConsumerGroupsProofs`, whose descriptions run on it); the `MC*` modules give
the constants that a `.cfg` cannot write. Definitions marked *(fault)* are
plausible mistakes in the definition that follows them: with one in its place,
TLC must find the property violated that `PROJECT.json` pairs it with.

### How state and actions correspond to the code

**FanOut.** `running` is the vector of running futures in slot order, `outputs` the
vector of options, `pending` the iterator, `stage` where the loop is. `Fill` is the inner `while`; `Poll` one
call of the `poll_fn` closure that finds a ready future, with the `swap_remove`
and the store; `Resolve` is a future becoming ready (external); `Cancel` is
`run_until_cancelled` dropping the command.

**AdminServer.** A task is one request. `store` is `SessionStore.sessions`; `clock` is
`Instant::now()`. The runtime is multi-threaded, so a step ends at every await,
at every acquisition of the store's lock, and at the clock read before it. `get`
is `GetNow`, `GetRead`, `GetDrop` (clock; read lock and clone; write lock and
remove). `ReadBody` is the body extractor with its checks in the code's order
and the second lookup. `Connect`, `Probe`, `ReadAcls`, `Stamp`, `Insert` are the
awaits of `sign_in` and the two halves of `create_record`. `Disconnect` drops a
handler at an await. `issued` and `loggedOut` are history.

**Reassign.** A command is a process, each request and the prompt a step.
`part`, `dir` and `throttle` are the cluster (external: `Complete`, `Land`,
`Copied`). A write may take effect in part or be reported as failed although it
took effect (`Written`). `marks` is history: what the throttle of the last
`--execute` has covered.

**ConsumerGroups.** One command, request by request. `Target` is `target_groups` or the
scope of `--delete-offsets`, `Describe` is `describe_raw`, `Prompt` is `confirm`.
`DescribeGroup` is one future of the fan-out of `describe_groups`, with its two reads
in the order of `group_offsets`. The loop of `reset` is `NextGroup`, `ReadCommitted`,
`CheckPartitions`, `LookUpFirst`, `LookUpSecond` (the two lookups of `reset::plan`) and
`Alter`. `log`, `group` and `offset` are the cluster (external: `Join`, `Leave`, `Commit`,
`Expire`, `Produce`, `Trim`). `written` and `agreed` are history.

**ConsoleConsumer.** `Poll`, `Pop`, `Write`, `Stop` are the loop of `process` and
`receive`; `SeekBack` and `Leave` are `Stream::close`. The group coordinator is
`Assign`, `Revoke`, `Evict`; a process may die anywhere (`Kill`). `seen`, `again`
and `missed` are history.

**ConsoleProducer.** `Start`, `ReadChunk`/`ReadEnd`, `Take`, `Enqueue`, `Deliver`,
`Task`, `Close`, `Exit` follow `produce`; `Resolve` is the producer's answer.

**Plugin.** `Look` and `Mode` are the two reads of `resolve` for one `PATH` entry,
`Register` and `Spawn` the start of `supervise`, `Wait`, `Ignore` and `Forward` the
arms of its `select!`; signals, files and the plugin are external.

**Command and Commands.** One admin command runs from its dispatch to its exit code.
`line` is the parsed command line, `cmd` the command's locals: the step it is at,
what it has read, the answer of its last mutating request, its rows and exit
code. Each request to the brokers is a step, and so is the prompt. `Confirm` is
`confirm_with`, `Cancel` is `run_until_cancelled` dropping the command, `Report` is the
rendering with the exit code of `exit.rs`, `Sent` is a mutating request whose answer may
be lost. The command modules give the steps: for example `topics delete` is
`TopicsStart`, `Connect`, the listing, the prompt with the names, `DeleteTopics` and its
rows; `find-hanging` is its four reads. `Elsewhere` is what other operators, clients
and brokers do between two steps. `effects` and `facts` are history: what the cluster has
done for the command, and what of its report has held, or been false, in every
state since it started. A name, a config or a binding is a member of a small set; the
tables and the wording are left out.

**Gres.** `run[o]` is the command of operator `o`. `CreateTenant` is the read of the record and
the build of the next one, `UpsertTenantConfig`, `ProvisionScram`, `ProvisionAcls` and
`ReplaceIfVersion` are the writes that follow; each may fail or be carried out without
an answer. `ChangeTenantState` is suspend and resume, `PlanSplit` and `PlanMove` compute a
layout from the record that was read, and `BeginOperation` hands it to the controller.
`CarryOut` is the controller (external). A layout is a sequence of ranges with end
keys; `SplitTarget` and `Replacement` are the pure functions that choose ids, bounds and
generations, `ValidLayout` is the reference that the target must meet. `refused` is history.

### What is assumed of code outside the repository

- The consumer library commits and gives partitions up only inside `poll` and
  `close`; `poll` is cancel safe; the coordinator refuses the commit of a member
  that it has evicted.
- The producer library answers every record that it accepted; a record that is
  reported as failed may have been written all the same.
- The cluster carries reassignments out at any time, or never.
- The coordinator refuses to alter the offsets of a group that has members or to
  delete it, and its answer to an alteration names every partition. The end of a
  log never moves back (topics are not deleted and created again meanwhile).
- Brokers answer for every item of an admin request, where the command module does
  not say that the code looks for items that are missing; ACL filters match by
  type, name and pattern; the controller takes the changes of one config resource,
  and a feature update, as a whole or not at all.
- The registry of Gres replaces a record only at the version that is given, and its
  controller carries a plan out only on the version that it was made for.
  The command lines give no log generations of their own.
- Session ids are random and do not repeat.

## 3. Runs

| Run | Question | Bounds |
| --- | --- | --- |
| `fan_out` | bound, order, refinement of `BatchMap`, end | 5 items, limit 3: slots are refilled twice and every slot is removed from every position |
| `admin_sessions` | whose session a request acts for; purge; refinement of `SessionLife` | 2 requests at a time, 2 ids, 2 capabilities, expiry after 1 tick, outages: a sign-in or logout can fall between any two steps of a lookup |
| `reassign` | throttles, rollback, truth of exit codes, consent, end | 2 commands in a row (an `--execute --additional`, `--verify` or `--cancel` after an `--execute`), 3 brokers, files with replica moves, log dir moves and every refusal |
| `consumer_groups` | offsets inside the logs, truth of reports, lag, dry runs and scope | 2 groups, 2 partitions and an unknown topic, 18 command lines with every scenario, 2 moves of members or logs between any two requests |
| `console_consumer` | committed offsets under rebalances, one kill or eviction, Ctrl-C; every kind of command line ends | 2 runs, 2 partitions of 2 and 1 records, batches of up to 2; one record cannot be formatted |
| `console_producer` | exit 0, order, end | 4 lines, of which the third may be malformed, with and without `--sync` |
| `plugin` | lookup, ownership, signals | 4 `PATH` entries, one empty and one repeated; 2 file changes, 3 signals |
| `commands` | consent, truth of rows and exit codes, reports over several reads, end | more than a hundred command lines of every command, each asked at a terminal, from a script and as a dry run where it can be; 2 changes by others between any two requests; 2 or 3 topics, brokers, partitions, producers and entities, so that one of several can fail |
| `gres` | access of published records, refinement of `VersionedRegister`, plans, log generations | 2 operators with one tenant, 4 keys, 5 range ids, records up to version 3, one operation that waits for the controller |

Every bound is a constant named in its module. They are large enough that each
property has a fault that TLC finds under the same `.cfg`. Symmetry is used only
where no liveness is checked. Deadlock is checked everywhere; a program that is
done takes an explicit stuttering step.

Three further runs are expected to fail, each on a sentence that the repository
writes about itself; `PROJECT.json` quotes it under "findings":

- `admin_outage`: the cause of a failed sign-in is probed after the failure, so an
  outage that ends in between is answered `401`.
- `reassign_empty_cancel`: a `--cancel` file with no partition selects all of them.
- `console_consumer_print`: a record whose write fails is committed.

Further divergences and open ends were met while modelling. They are recorded here
only: either no sentence of the repository is violated, or the model leaves the case
out and says so.

- **reassign-partitions**. A reassignment that ends while a resubmission waits at its
  prompt leaves the resubmitted move without a throttle at its new source.
  `--execute` asks for `--verify` runs "to ensure the throttle is removed", but `--verify`
  clears throttles only when nothing is active in the cluster and only of the
  topics of its own file, so two reassignments of different topics that are verified
  one after the other can leave a topic throttled. A second operator's `--execute`
  between the two requests of a `--verify` loses its throttle; the throttle
  properties are of one operator at a time.
- **consumer-groups**. `consumer_groups.rs` says that a failure exits 1, but a reset of a
  group that has members prints `Error: Assignments can only be reset if the group
  ... is inactive` and exits 0, as its tests expect. An error for a later group
  replaces the report of the groups that were altered before it. `--shift-by` adds
  to an offset that a member may have moved since it was read; the protocol has no
  conditional commit.
- **console-producer**. `console_producer.rs:9` says that krabka "exits 1, because a record
  that was not written is a failure of the command", but the cancelled exit of line 730
  is decided before the failed count, so a run with a failed send that is stopped
  with Ctrl-C exits 130.
- **plugins**. A Ctrl-C between the registration of the handlers and the spawn is ignored
  by krabka and never reaches the plugin.
- **admin UI**. `create_record` says that no abandoned session holds its password past the
  TTL, but the purge runs only when somebody signs in (`SignInPurges` is what holds).
- **log-dirs**. Two `--move` options of one replica become one entry of the request, the
  last, but each gets a success row; `exit.rs:15` says of exit code 0 that "the command did
  what it was asked to do". `RowsAreOfChanges` and `SuccessMeansDone` leave out an option that a
  later one replaces (`Replaced`). A replica that
  the answer leaves out counts as moved, while `delete-records` counts it as failed.
- **topics describe** reads the partition, the minimum, the brokers and the reassignments one
  after the other and shows a partition that one of several selectors picks. A partition that
  is always picked, now by one selector and now by another, can be missed, and so can
  one that is under-replicated while reassignments come and go. `DescribeHolds` claims the
  partitions to which every selector given applies throughout.
- **get-offsets** leaves out a partition that the answer leaves out.
- **metadata-quorum**. The dry run of `add-controller` ends before the port is checked
  (`metadata_quorum.rs:451`), while `safety.rs:7` says that a dry run "performs every
  validation".
- **transactions**. `abort` names a producer and an epoch, so after the prompt it may end
  another transaction of the same producer than the one that was shown. `list` can miss a
  transaction whose coordinator moves between its requests, and `find-hanging` can name one
  that completes between its reads. The report properties are about what held, or was
  false, throughout.
- **configs**. A SCRAM alteration for which the answer has no result is reported as
  completed.
- **gres**. `create-tenant` looks at neither the SCRAM nor the ACL outcomes of a successful
  answer (`gres.rs:948`), so `RecordHasAccess` is stated for what was not refused. A
  `create-tenant` that loses the race or fails has replaced the credential of the tenant
  that is there. A tenant that is deleted and created again under a create has the version
  that was read, and the record is replaced. `delete-tenant` leaves the Kafka access.
  Range ids saturate, and a move may give a range an id and generation that an
  earlier range had.

### Fairness

- **FanOut**: the executor polls a woken future; every request ends (the client has
  request timeouts).
- **Reassign**: requests end and the deadline of the log dir retries passes. Nobody
  has to answer a prompt and no reassignment has to complete.
- **ConsoleConsumer**: each run that can go on does; a timeout that is due and a fired
  token are noticed by the `select!`. Polls need not return records.
- **ConsoleProducer**: the producer answers, and tasks are scheduled. Nothing more
  has to arrive on stdin.
- **Plugin**: tokio's `select!` starts at a random branch, so no arm starves; the
  plugin need not end.
- **Commands**: the runtime polls the command, and a call that is not answered ends with
  its timeout. The operator at a prompt may wait for ever (`Waits`), and others need
  not change anything.

`AdminServer`, `ConsumerGroups` and `Gres` are checked for safety only and assume no fairness.

## 4. Proofs

All theorems hold for all values of the constants that meet the named assumptions
of the module: numbers are numbers, `None` is not a value, command lines and files are
such as the parsers let through, and the cluster starts with distinct replicas. Each module proves an inductive invariant; what it
adds to the property is why the property holds.

- `AdminServerProofs`: the type invariant, `ActsAsItsSession`, `EndedSessionsDoNothing`,
  `LogoutIsFinal`, `OnlyEndedSessionsLeave`, `SignInPurges`, and that `AdminServer`
  implements `SessionLife`. The properties speak of the moment before a broker request;
  the invariant says what a handler knows at every step before it: `StoreInv` (the store is
  a part of what was issued, tokens are unique, nothing logged out remains), `CookieInv`
  (what a lookup has established, and when), `InsertInv` (a record that waits for the lock
  has an id of its own).
- `CommandsProofs`: `ChangesAreAgreedTo`, `RowsAreOfChanges`, `SuccessMeansDone`, `ReportsWhatHeld`
  and `ReportsNothingFalse`, for every command line, cluster and number of changes by others. For the first the invariant follows
  consent through the command: `DryInv` (a dry run is never where a change no longer looks at `--dry-run`),
  `ConsentInv` (past its prompt a command holds the operator's agreement to all that it
  will ask for), `RemovalInv` (the ACL filters that are still to be sent are among those
  that were shown). For the truth of rows and exit codes, `TruthInv` says what the reply that
  a command holds has to do with `effects` at each step (`Working`): one request is
  answered for exactly what it was sent for (`OneRequestInv`), and the loops of `acls` have a
  row for each binding that they have added or removed so far (`AddInv`, `RemoveInv`).
  For `log-dirs`, `AssignmentFacts` shows that the request built from `--move` options
  holds the last option of every replica, by the least number argument.
  For the reports, `TellsInv` says of everything that held in every state since the command
  started that it is reported already or has still to be read, read by read (`ReadInv`:
  `DescribeRead`, `AclsRead`, `ConfigsRead`, `ListRead`, `IdsRead`, `SearchRead`, `OffsetsRead`), and
  of what was false in all of them that no read lets it in. It is inductive because what is
  remembered only shrinks (`FactsShrink`) and holds now, hence at the next read.
- `ConsoleConsumerProofs`: `CommitsOnlyProcessed`, `CommitsMoveForward` and `NoneTwice`, for any
  number of runs, partitions and records. `CoverInv` says that what lies before a committing run's
  position is processed or still in its buffer, and after the seeks of close all
  processed; `BufferInv` orders the buffer, so that the first record of a partition
  in it is where close must seek to; `AheadInv` says that the owner of a partition is not
  behind the group's offset, buffer included. For `NoneTwice`, as long as
  nothing lapsed: `HeldInv` says that the coordinator and the runs agree on who has a
  partition, `FreeInv` that nothing behind the group's offset is processed unless a
  committing run has the partition, and `FreshInv` that nothing is that such a run has buffered
  or not yet fetched. Assumed: there are finitely many records.
- `ConsoleProducerProofs`: `SuccessMeansWritten` and `SyncWritesInOrder`. The invariant
  accounts for every line before the current one: it has a task or its outcome is counted
  (`LoopInv`), and while no failure is counted all counted lines are acknowledged
  (`CountInv`). The end of stdin and the join leave counted lines only.
- `ConsumerGroupsProofs`: `KeepsToTheLog`, `LagIsNeverNegative`, `ReportedIsDone` and
  `ChangesAreAskedFor`, for any groups, partitions, files and numbers. `WorkInv` says of each
  value that was read for a group that it was within the log, which stays true because the end
  of a log only grows; `Told` that the rows of a reset are what it has written until it
  aborts; `Scoped` that a plan covers only what the command line names.
  Of the batch that a description runs on: `InFlightBound`, `ItemsConserved`, `ResultInOrder`,
  and that `FanOut` implements `BatchMap`. The invariant `FanInv` adds `OutputIsAnswer`: an output
  is its own item's answer. Conservation must be part of it, since only because no item is
  both running and answered can a `Poll` not overwrite an output, and only because all are
  one or the other is the result complete.
- `ReassignProofs`. For any number of operators at once: `TypeOK` and `ConsentedChanges`, from
  `ClusterInv` (the replicas of a partition are distinct brokers, and those that are added or
  removed are among them) and `ProcInv` (what a command has checked, by the step it is at:
  past its checks an `--execute` holds a file whose targets are distinct brokers of the
  cluster, past its prompt it was agreed to). What the controller makes of a target rests on
  `WithoutFacts` and `WithoutTail` about lists, proved by induction on their length
  (`Induction`, by the least counterexample), and on what the last entry of a
  replica in a file is (`LogDirMovesIs`, `ExecutableMoves`).
  For one operator at a time (`OneOperator`, the hypothesis of the theorems; section 3 says what
  a second operator breaks): `ThrottledWhileMoving`, `ExitsTellTheTruth` and
  `RollbackIsWhatItReplaces`. `Knows` says what of a command's readings is still true when it acts
  on them although the cluster moves on: nothing is on the move that was not listed (`Lists`),
  so the sources and destinations that it computes are those that the controller will use
  (`MovesAre`); the throttles that it has written cover all of them (`Throttled`); after its
  write the partitions are on their way to their targets, and the replicas whose moves were
  started are bound for their log dirs (`AfterAlter`), which the end of a reassignment does not
  undo because it removes no replica of a target (`CompleteBound`); what a `--verify` found at
  rest stays at rest (`Verifying`).
- `PluginProofs`: `OwnsThePlugin` and `FindsWhatIsThere`, for a `PATH` of any length. What
  was executable throughout is found because the search is past no such entry
  (`SearchInv`); none is left behind because only `Wait`, which reaps it, leaves the loop.
- `GresProofs`: `TypeOK`, `RecordHasAccess`, `PlansFit`, `GenerationsGrow`, and that `Gres`
  implements `VersionedRegister`. `Creating` and
  `Provisioned` say of each operator which of the writes of a create have been done at each
  step, and that nothing takes them back. `LayoutInv` says that the record, what a create is
  about to write and what a plan was made from are layouts, and that every operation leads to a
  layout that is newer for each key it moves. It rests on what the operators compute:
  exactly one range holds a key (`HolderFacts`), a new id is larger than all
  others unless it saturates (`NextIdFacts`), a split inside of a range is a layout
  (`HalvedFits`) and newer (`HalvedIsNewer`), and so is a move (`MoveFits`).

`ItemsConserved`, `OnlyEndedSessionsLeave` and the type invariant of `AdminServer` are
proved and not model-checked.

Only model-checked: liveness (`BatchEnds`, `CommandsEnd`, `RunsEnd`, `RunEnd`, `TermReachesPlugin`,
`EndsWithPlugin`), because the prover has no rule for fairness. Every safety invariant, action
property and refinement that a passing run checks is also proved. The three properties that a
run violates are refuted by the run and have no theorem.

## 5. What is not modelled

- Parsing of arguments and files, rendering (tables, JSON, CSV, record formats), the
  connection options and the views of the admin UI: pure functions of their input, which
  unit tests cover. Where a command depends on one, the model takes its verdict.
- `replica_placer.rs`: a sequential algorithm over racks and offsets; a TLA+ version would
  repeat it line by line, and its tests give whole layouts. `Reassign` takes assignments
  from the file.
- `permissions.rs`: a pure function of ACLs, with a test for each rule. `AdminServer` takes
  its result as a set of capabilities.
- `reassign-partitions --generate` and `--list`, `consumer-groups --list` and the member and
  state descriptions, `gres` list, render-pgdog and probe-topic-read: reads and their
  rendering. `--execute` of a replication factor is a prompt and one call of the client
  library. The balance commands of `gres` run a planner outside this repository on a file.
- `storage` and `format`: local files; the formatter is another crate.
- Logging, shell completions, and the non-unix part of `external.rs`.

`PROJECT.json` lists every part with its reason.
