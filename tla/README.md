# A verification project for the KBL Compute Engine

TLA+ models of the KBL Compute Engine (`controller/`), the TLC runs that check
them on small instances and the TLAPS proofs that carry the main results over to
every instance.

## The system

KBL runs *chains* of *dominos* (small commands) on *sealed snapshots* of data.
A snapshot's identity is a hash of its time slice and its parsed content; a
domino's output is memoized under (snapshot, domino, input hash); every executed
or reused domino is appended to a replay log as a link of a hash chain, the
*spine* or *worldline*. Kubernetes controllers seal snapshots, run workflows,
rotate them over compute contexts and copy the results to read replicas.

| Part | State it keeps | Operations | What is hard |
|---|---|---|---|
| Engine (`pkg/engine`) | nothing of its own; the entries of a run | `Run`, `RunSingle`, `RunSingleFrom` | interrupted between store statements; overlapping runs; retries |
| SQL store (`pkg/store/sqlite.go`, `postgres.go`, `once.go`) | tables `snapshots`, `domino_results`, `replay_log` | `SaveSnapshot`, `GetSnapshot`, `LookupMemo`, `SaveResult`, `ListReplay`, `GetLatestResult` | check-then-act in `SaveSnapshot` and `SaveResult`; UNIQUE violations |
| File store (`tsdb_engine.go`, `tsdb_client.go`, `tsdb_handler.go`) | one file per snapshot, payload, memo row and replay row | the same, over HTTP | a crash between two file writes; timeouts after the server applied the call; order by wall clock |
| Sealing (`snapshot_controller.go`, `pkg/snapshot`) | `Snapshot.status` | `Reconcile` | the spec and the source change while they are read |
| Resolution (`pkg/convert`) | none | `ResolveEngineWorkflow` | statuses that are stale when used |
| Workflow controller | `Workflow.status`, the `-dchain` and `-replay` children | `Reconcile`, `execute`, `executeContainer` | status, event and CDC publication are separate steps |
| Domino controller | `Domino.status` | `Reconcile` (stepwise execution) | dependencies, spine head and memo are read one after the other, long before the result is stored and reported; two managers at once |
| DominoChain controller | `DominoChain.status`, pods and step files | init-container, OpenKruise and Volcano runtimes | progress inferred from files and pod states; image pulls that succeed in part |
| Runner (`cmd/domino-runner`, `pkg/builtin`) | the files of a Pod's volume | wait for the input file, execute, write the output file | a file is there before it is written |
| ComputeWheel controller (`pkg/wheel`) | `ComputeWheel.status` | `Reconcile`, `advance`, `preProvisionNext` | retried after a lost status update; workflows created ahead |
| Events and Multiverse (`pkg/events`, `pkg/routing`, `multiverse_*.go`) | seen event ids, subscriptions, `Multiverse.status` | `Publish`, `Subscribe`, handler, `Reconcile` | duplicates, handler errors, stale captured specs |
| CDC and read replicas (`pkg/cdc`, `pkg/replica`, `readreplica_controller.go`) | topic, consumer position, target store | `Export`, `Publish`, `Consume`, `ApplyAll`, `Materialize` | partial batches, reordering |
| Theory (`pkg/theory`) | none | `VerifySpine`, `UniqueNames`, `AllowedReads`, `AllowDeterministic`, aggregation, entropy | pure |

## How the parts interact

- The Snapshot reconciler and every run write the same `snapshots` table when
  they share a store; a run resolves its content from the store or from the
  source, depending on how the workflow names its snapshot.
- The Workflow reconciler calls `Engine.Run` in its own process, or creates a
  DominoChain and waits for its containers; when it finishes it updates the
  Workflow's status, writes the replay ConfigMap, publishes
  `kbl.snapshot.completed` on the event bus and publishes the CDC envelopes.
- The handlers of the bus are the subscriptions of the Multiverse reconciler.
  A handler routes the event, appends it to `Multiverse.status.routedEvents`
  and creates a ReadReplica.
- The ReadReplica reconciler copies snapshot and results to the store of the
  target universe, directly (`pkg/replica`) or from CDC envelopes (`pkg/cdc`).
- The ComputeWheel reconciler creates one Workflow per slot and reads its phase.
- The Domino reconciler runs one Domino resource on a sealed Snapshot and on the
  outputs that its dependencies have in the replay log. With a file store it talks to
  `kbl-tsdb` over HTTP, gives a request up after ten seconds and tries again.
- The containers of a DominoChain hand their outputs on through files; the reconciler
  sees only their exit codes.
- All reconcilers share objects through the API server, which refuses an update
  made from a copy that is not the latest version. Leader election is off by
  default, so two managers may reconcile the same object; they share no memory, and the
  in-process buses of events and CDC envelopes are lost with their process.

What makes each part correct:

| Part | Properties |
|---|---|
| Engine and stores | a snapshot's payload is the content its identity names; a run sees the sealed content and its own earlier outputs only; two runs of one chain on one snapshot agree; every entry is durable; the tables are a write-once memo and an append-only log |
| Sealing | a status that says Sealed names a stored payload |
| File store | Sealed is said only of a whole payload; a memo file is never replaced; the log grows by rows the memo agrees with, whatever is cut short |
| Stepwise execution | a reported result is in the log and is the memo's; inputs come from the log and the sealed content, or from what a failed read let in; rows hang together; Completed means run by the present command; every Domino settles |
| Hand-over in a Pod | exit code 0 everywhere means that the last file has all steps applied in order; Completed reports just that; every chain ends |
| Compute wheel | slots are recorded in the scheduled order, each once and after its Workflow completed; at most one slot is prepared ahead; a limited wheel ends |
| Replication | no result without its snapshot; Ready means complete and faithful; a replica becomes Ready |
| Multiverse | an event is recorded once, entries are not overwritten, replicas and records belong together |
| Workflow and DominoChain | Completed for a generation reports a run of that generation's spec and stays, whatever other managers do; its log is that run's; a chain completes only after its containers, or ones an earlier Workflow of the name left, ran to the end; a Workflow completes |

## Modules

| Module | Models | Uses |
|---|---|---|
| `WorldlineStore` | what a store backend promises (abstract) | |
| `ContentAddress` | identities and links as injective hashes, payloads and their encoding | |
| `SQLStore` | the SQL tables, one operator per statement | `ContentAddress` |
| `FileStore` | the files of `tsdb_engine.go` and the requests of its service, whole or cut short | `ContentAddress` |
| `Stepwise` | Domino and Snapshot reconcilers of several managers over the file store's service; refines `WorldlineStore` | `FileStore`, `WorldlineStore` |
| `SnapshotReconciler` | sealing | `SQLStore` |
| `Engine` | `Engine.Run` by several processes, composed with sealing over one store; refines `WorldlineStore` | `SnapshotReconciler`, `WorldlineStore` |
| `WheelSchedule` | what a wheel promises (abstract) | |
| `ComputeWheel` | the wheel's reconciler and `pkg/wheel`; refines `WheelSchedule` | `WheelSchedule` |
| `Replication` | ReadReplica reconciler, `pkg/replica`, `pkg/cdc`; its target store refines `WorldlineStore` | `WorldlineStore` |
| `Multiverse` | bus, router, Multiverse reconciler and handler | |
| `WorkflowController` | Workflow and DominoChain reconcilers, their children, the garbage collector | |
| `Handoff` | the containers of one DominoChain, their files, the image pull and the reconciler's verdict | |
| `MC...` | constants of the TLC instances | the module named |
| `...Proofs` | TLAPS proofs | the module named |

### Sealing and the engine

`snapshots`, `memo` and `replay` are the three tables. A payload is an element
of `Bytes`; `Parse` and `Marshal` are what `json.Unmarshal` and `json.Marshal` do:
several payloads have one content, so an identity (a hash of time slice and
parsed content) does not determine the bytes. SHA-256 is an injective
constructor, which is hypothesis H4 of `docs/theory/formal-model.md`.

`SnapshotReconciler` keeps the resource (`spec`, `status`), its `source` and the
reconcile in progress (`sealer`): `ReadSource`, the two statements of
`SaveSnapshot` (`SealCheck`, `SealWrite`) and `SealStatus` are separate steps,
with `EditSpec` and `WriteSource` between any two.

`Engine` adds `run[r]`, one record per invocation. Its program counter follows
`Run`: `load` and `source` resolve the content, `check` and `write` are
`SaveSnapshot`, `domino` applies the gates (unique names, allowed reads,
determinism), resolves the inputs, looks the memo up and executes, `recheck` and
`insert` are `SaveResult` in its two halves, with the UNIQUE violation that a
racing insert meets. A run that fails or crashes (`Fail`, `RunFault`) keeps
nothing but the store and may be started again. Commands are a relation
(`Produces`), so a command that is not a function is part of the model; the
results do not need functions. `Reads` skips the names "snapshot" and "", as `AllowedReads` does.

`StoreRefinement` is `Abstract!Spec` of `WorldlineStore`, with `sealed` the
identities that have a sealed row, `results` the memo rows and `log` the replay rows,
and `Transactional` true: a memo row and its replay row are saved together.

### File store and stepwise execution

`meta` and `payload` are the two files of a snapshot, `memo` and `tornMemo` the memo
files that hold a row and those that are empty or cut, `log` and `tornReplay` the
replay directory. The service holds a lock for a whole request, so a request served is
one step (`Accepted`, or `Refused` by `refuseSealedMutation` and `refuseMemoConflict`).
No file is written atomically and nothing is undone, so `Cut` leaves a prefix of a
request's writes, the last one missing or torn: a sealed flag without its payload, a
memo without its log row, a replay file that makes every listing fail.

`Stepwise` adds the resources (`snap`, `domino`) and, per manager, the Snapshot reconcile
(`sealer`) and the Domino reconcile (`worker`) under way. A worker's `pc` follows
`Reconcile`: `deps` and `output` are `loadDependencyOutputs`, one dependency at a time
(its phase, then its output from the log), `deps` ends in the Running update, `head`
reads the spine's head, `run` is `RunSingleFrom` (resolve, look up, execute, attach the
link), `posted` is the request at the service, `saved` and `refused` its answer, and `Report`
the final status or `fail`. `fresh` says whether the resource is still the version the
worker read; an update is refused when it is not. `late` holds the requests whose client
has given up or died and which the service may serve at any time after. `ReadNotFound` is a read of the
snapshot that fails at the service, which answers 404: the worker goes on with the source of that
moment (`read`), and `stray` remembers the contents that got in that way. `alone`
remembers whether reconciles ever overlapped, with each other or with such a request.

`FileStoreRefinement` is the same `Abstract!Spec`, with `sealed` the identities whose
metadata is sealed and whose payload is whole, and `Transactional` false: a crash
between the two files of a result is the abstract action `Memoize`.

### Compute wheel

`spec`, `status` and `workflows` are the objects; `rec[c]` is reconcile `c`, with the
copy of the wheel it read. `Begin`, `Lookup`, `Create`, `Mark`, `Ahead` and `Act` are
the calls of one `Reconcile` in their order; `Slot`, `Successor`, `Done` and
`Lookahead` are the functions of `pkg/wheel`. `UpdateStatus` is refused when the
wheel was written since it was read. `Fault` ends a reconcile at any call.

`RefinesSchedule` is `Schedule!Spec` of `WheelSchedule`, with `processed` the list in the
status and `workflows` itself. The abstract wheel has no position and no copies: its
i-th slot follows from quotient and remainder of i - 1 by the number of contexts, a slot
gets its Workflow at most `Reach` slots after the last one recorded, and a slot is recorded when its
Workflow is complete.

### Replication

`last` is the last row of each domino in the replay log of each source store (`Source[w]`
is the one w ran on), `unpublished[w]` what the publisher still has to send, `log` the envelopes sent
on each channel (the in-process bus `Bus` or a partition of the Kafka topic;
`Transport[w]` says which of them w's Multiverse uses), `offset` the committed positions per consumer group, `session` the one
reconcile in progress, `snapshot` and `results` the target store, `replica[w]` the
phase. `Publish` sends one envelope; `ConsumeMemory`, `ReadMessage`, `ConsumeEnds`
and `ConsumeNothing` are the two consumers; `Apply` is one iteration of
`ApplyAll`, which refuses an orphan result and a conflicting row; `Copy` is
`Materialize`, which takes the last row of each domino, whichever run logged it (`SourceRows`);
`Finish` judges completeness. `Fault` is a failed call, `Restart` the end of the process, and with
it of the bus and of what was still to be published.

`TargetRefinement` is `Target!Spec` of `WorldlineStore`, with `sealed` the snapshot row the
target holds, `results` its rows that are not reused ones and `Transactional` false. The
abstract log is left empty: rows arrive in any order, and the target keeps none.

### Multiverse

`mv` holds the objects, `reconcile` the reconcile in progress, `subscribed` and
`handlers` the subscriptions of the process (with the routing table each
captured), `seen` the ids of the bus, `delivery` the publish in progress, which
walks the handlers in order, `replicas` the ReadReplicas and `workflow` the
completions. `Restart` empties everything kept in memory. `Resolve` is the router:
override by time slice, partition rules, default universe, and the error when two
universes match.

### Workflow and DominoChain

`wf` is the Workflow, `chain` the DominoChain of its name, `work[k]` the image pull
job, the Pod and the job of a runtime, `replay` the ConfigMap, `rec[m]` the reconcile
that manager `m` has in progress. `status.result` is the spec whose run the status reports, `ran` the
containers that have run to the end, with their owner and spec. A reconcile sets
`Running`, works (`Run`) and ends in a status update (`Commit`) that is refused when the
Workflow changed, be it by a user or by another manager. The replay ConfigMap has no such guard:
`writeReplayLog` reads and updates it anew, and `replay.late` says that the reconcile which
did so had been overtaken. A chain whose snapshot is a path or URI (`Remote`) ends in Error after its
containers succeeded, for the operator's replay has lost it (`Verdict`). Every child remembers the uid of its owner, and
`CollectChain`, `CollectReplay` and `CollectWork` remove it, some time after the owner is gone.

### Hand-over in a Pod

`layout` is the runtime and `plan` the chain, `box[i]` the containers (`none`, `started`,
`read`, `writing`, `ok`, `failed`), `file` the files of the shared volume, `config` the
ConfigMap with the snapshot, `pull` the ImagePullJob. A value is the content it was computed from
with the commands applied to it. The runner's `StartBox`, `ReadInput`, `WaitOver`,
`Compute` and `WriteOutput` are separate steps: `os.WriteFile` creates the file in
`Compute` and fills it in `WriteOutput`, and a runner that polls in between reads
`Torn`. Init containers and Volcano's run in turn over one file, OpenKruise's all at once,
each with a file of its own. The reconcile is `Stage`, `PullImages`, `EnsurePod` and `Look`. When all
steps are done `completeChain` replays the chain: it can do so only for an inline snapshot and
without commands that need a sandbox (`CanReplay`), and it takes the rows that an earlier chain of the
name left in the store (`earlier`) for its own, since the memo key has no command in it (`Replayed`).
A pull job expires, complete or not (`PullExpires`, `PullForgotten`), and is made again.

## Runs that pass

### `MCEngine`

| Run | Configuration | Checks | Shows |
|---|---|---|---|
| worldline | `MCEngine_worldline.cfg` | `TypeOK`, `SnapshotIsolation`, `UniqueWorldline`, `WorldlineRecorded`, `CausalPast`, `StoreRefinement` | Two overlapping runs, with a source rewrite, a fault and a retry, of a chain whose command is not a function and of chains with a future read, a backward dependency, a duplicate or empty name, an unsandboxed or a failing command: isolation, one worldline per snapshot, durable entries, causal order, and the SQL tables as an abstract worldline store. |
| sealing | `MCEngine_sealing.cfg` | `ContentAddressed`, `SealedMeansStored` | The Snapshot reconciler and two runs save the same identities while the spec and the source are edited, broken or removed twice: every stored payload stays the content its identity names, and Sealed always means stored. |
| retries | `MCEngine_retries.cfg` | `RetriesConverge` | Under fair scheduling, two runs by inline content and by reference, with a formatted source, an edit of the spec's time slice and a fault: runs that lose the UNIQUE race, meet a memo conflict, a fault or an outdated status complete when they are retried, and only a reference to a Snapshot whose bytes the store refuses for good is retried for ever. |

### `MCComputeWheel`

| Run | Configuration | Checks | Shows |
|---|---|---|---|
| rotation | `MCComputeWheel_rotation.cfg` | `ScheduleFollowed`, `ProcessedCompleted`, `OneSlotAhead`, `RefinesSchedule`, `WheelCompletes` | Two overlapping reconciles of a wheel of one or two rotations, with look-ahead, an edit of the wheel and a failed call or Workflow: the slots are recorded in order, each after its Workflow completed, Workflows exist at most one slot ahead, the reconciler implements the abstract schedule, and under fair scheduling the wheel processes all slots and goes idle. |

### `MCReplication`

| Run | Configuration | Checks | Shows |
|---|---|---|---|
| replicas | `MCReplication_replicas.cfg` | `NoOrphans`, `ReadyMeansComplete`, `DirectFaithful`, `TargetRefinement`, `ReplicaConverges` | A replica over a Kafka topic of two partitions, one over the in-process bus and a direct one share a store, two of the workflows a source store, with conflicting rows, a failing publisher or call or a restart, and redeliveries: no result without its snapshot, Ready replicas are complete, direct ones serve the sealed payload, the shared store stays a worldline store, and replicas that are not fed by Kafka become Ready unless a restart empties the bus. |

### `MCMultiverse`

| Run | Configuration | Checks | Shows |
|---|---|---|---|
| routing | `MCMultiverse_routing.cfg` | `RecordedOnce`, `ReplicasRecorded`, `AuditTrail` | A Multiverse with a list of two entries, created, edited, deleted and created again while three workflows complete and run again, calls fail and the controller restarts: an event is listed once, no entry is overwritten, and every replica of a live Multiverse is accounted for. |

### `MCWorkflowController`

| Run | Configuration | Checks | Shows |
|---|---|---|---|
| workflow | `MCWorkflowController_workflow.cfg` | `TypeOK`, `CompletedIsCurrent`, `ReplayMatches`, `ChainRan`, `SettledStays`, `Converges` | Two managers reconcile a Workflow that is created, edited and deleted while it runs locally or through DominoChains, with and without julia steps or an inline snapshot, with failed calls, containers and restarts: Completed for a generation means a run of that generation's spec and stays so, its replay log is that run's unless a reconcile that was overtaken wrote it last or it went with an earlier owner, a chain completes only after its containers, or ones left under its name, ran to the end, and every Workflow whose containers do not fail and whose chain can be replayed gets there. |

### `MCStepwise`

| Run | Configuration | Checks | Shows |
|---|---|---|---|
| stepwise | `MCStepwise_stepwise.cfg` | `TypeOK`, `SealedIsComplete`, `ReportedRecorded`, `CompletedByCommand`, `InputsFromSpine`, `SpineLinked`, `FileStoreRefinement`, `DominosSettle` | Two managers seal a Snapshot and run two Domino resources, one on the output of the other, through the file store's service, with timeouts, crashes of either side, failed reads, half-written files, edits and a rewritten or reformatted source: Sealed means whole, reported means recorded, inputs come from the log and from the sealed content or what a failed read let in, rows hang together, the files are a worldline store, and every Domino settles unless a file is damaged or the Snapshot cannot be sealed. |

### `MCHandoff`

| Run | Configuration | Checks | Shows |
|---|---|---|---|
| handoff | `MCHandoff_handoff.cfg` | `TypeOK`, `HandoffFaithful`, `CompletedRan`, `ChainSettles` | Chains of one to three containers in the three layouts hand files on, with containers that die, image pulls that break off or expire, a source that is rewritten and rows an earlier chain left in the store: exit code 0 everywhere means the last file holds all the steps on one content, a Completed chain reports that unless other commands left the rows, and every chain ends, in Error where its replay is impossible. |

The type invariants of `ComputeWheel`, `Replication` and `Multiverse` are proved for every instance and
not run again.

Each property of these runs has a mutant: a wrong variant of a definition, written
just before it, under which TLC finds the property violated.

## Where the code and its documentation disagree

Each of these runs checks one statement of the repository's documentation or
comments against the model of the code, and TLC finds a counterexample.

| Run | Configuration | Property refuted | Shows |
|---|---|---|---|
| memo_command | `MCEngine_memo_command.cfg` | `MemoObservational` | A workflow whose domino command was edited is served the memo of the old command, because the memo key holds the domino's name and not its command. |
| event_lost | `MCMultiverse_lost.cfg` | `EventsRouted` | A handler's status update conflicts with a reconcile, or starts from a lagging cache, and its event is never recorded. |
| stale_chain | `MCWorkflowController_stale_chain.cfg` | `ReportsItsSpec` | A julia Workflow that is edited reports, as Completed for its new generation, the DominoChain of the spec before. |

The details, with the statement that is refuted:

- **memo_command** (`controller/pkg/engine/engine.go:121`). LookupMemo is keyed by snapshot, domino name and input hash; the command is not part of the key, so after a workflow's domino command is edited the engine returns the old command's output. docs/theory/formal-model.md:102 states of the code "A memo hit for (id(s),d,h) yields the same output string and output hash as executing f_d on any input that hashes to h."
- **event_lost** (`controller/internal/controller/multiverse_controller.go:152`). The handler reads the Multiverse, appends and updates the status without retrying a conflict; the bus has marked the id as seen (pkg/events/memory.go:32) and the publisher drops the error (workflow_events.go:45), so the event is never recorded or replicated. docs/adr/0009-multiverse-routing.md:18 says "**Multiverse reconciler** — subscribes to bus, records `status.routedEvents`" and examples/multiverse-finance/README.md:54 "Routed events automatically create **ReadReplica** CRs".
- **stale_chain** (`controller/internal/controller/workflow_controller.go:206`). executeContainer looks the DominoChain up by name and never compares or updates its spec; for julia steps completeFromChainStatus then sets observedGeneration to the new generation with the old chain's steps and snapshot. docs/adr/0005-kubernetes-controller.md:19 says "On reconcile (when `observedGeneration != generation` or not yet Completed):" and :21-22 "Execute the domino chain via the existing engine", "Update Workflow status: phase, snapshot ID, domino counts, per-domino results".

## Other disagreements seen while modelling

Each was met as a counterexample to the statement quoted. No run is kept for them;
the runs that pass and the theorems say only what holds in spite of them.

- `controller/pkg/store/sqlite.go:94`. SaveSnapshot reads the row and writes it by INSERT OR REPLACE in two statements outside a transaction; two writers that both find no row both write, and the second replaces a sealed payload by another encoding of its content. docs/theory/formal-model.md:170 says "A sealed snapshot identity may be rewritten only with identical (tau,x). A different payload, time-slice, or an unseal is rejected." `ContentAddressed` says what survives: the content is the one the identity names.
- `controller/internal/controller/domino_controller.go:105`. The head of the spine is read from the log and the row is appended after the run; two managers, or one manager and the late first request of a reconcile it repeats, append two rows on one head. docs/theory/formal-model.md:188 says "a sequence of standalone steps is a single hash chain from the snapshot ID". `SpineLinked` claims the single chain only while `alone`.
- `controller/cmd/domino-runner/main.go:52`. The runner takes its input file as soon as it is there; in an OpenKruise Pod the step before may have created and not yet filled it. A command that accepts an empty or broken input (`identity`, `coarsen`) passes that on with exit code 0. docs/adr/0007-hot-swapped-dominos-implementation.md:25 says "Only one slot active at a time; next slot pre-swappable (player-piano)" and :39 "Container execution proves data handoff"; `BuildOpenKruisePod` (`pkg/dominochain/builder.go:168`) makes every step a container of its own, which all start at once. `HandoffFaithful` allows for such a chain (`Fragile`), and only for it, a last file that comes from a torn one.
- `controller/pkg/store/sqlite.go:201`. replay_log is keyed by snapshot only and every run appends a spine that starts again at the snapshot ID, so after two completed runs ListReplay returns two spines one after the other, which VerifySpine refuses. docs/theory/formal-model.md:194 says "A completed Engine.Run writes PrevLink/Link on each replay row. ListReplay reloads a chain that VerifySpine accepts on SQLite and the TSDB client."
- `controller/internal/controller/snapshot_controller.go:58`. A run saves json.Marshal of the parsed content, the reconciler saves the file's own bytes; when a run on the shared store comes first and the file is not canonically formatted, refuseSealedMutation returns ErrSealedOverwrite to every reconcile and the Snapshot stays in Error. docs/adr/0018-store-first-snapshot.md:25 says "Store must contain snapshot data before execute (Snapshot reconciler or prior run)" and docs/adr/0019-direct-bytes-staging.md:22 "Snapshot store bytes may preserve source formatting (whitespace, key order) while IDs remain content-addressed via parsed JSON".
- `controller/internal/controller/computewheel_controller.go:103`. The check that stops the wheel asks for phase Idle; every failWheel sets phase Error, so a stopped wheel whose spec is invalid for one reconcile starts the next rotation when the spec is mended. tests/scheduling/README.md:18 says "`maxRotations` stops the wheel after N slice rotations" and docs/theory/formal-model.md:72 "with an absorbing stop when \(r+1\) hits `maxRotations`".
- `controller/internal/controller/computewheel_controller.go:235`. preProvisionNext calls Lookahead with maxRotations 0, so the last slot of the last rotation creates the first Workflow of one rotation more, which the Workflow controller runs. docs/adr/0006-compute-wheel-rotation.md:28 says "`spec.maxRotations` limits total slice rotations for demos and tests (0 = unlimited)." and examples/compute-wheel/README.md:94 "Set `maxRotations: 1` to process one full slice across all contexts then stop".
- `controller/pkg/cdc/types.go:54`. IsComplete compares the number of distinct dominos seen with the length of the chain; the envelopes are selected by snapshot only, so another workflow's dominos make a replica Ready that lacks its own. controller/pkg/cdc/types.go:46 says "IsComplete reports whether all required dominos were replicated."
- `controller/pkg/cdc/export.go:112`. snapshotDataJSON looks only at the inline source, path and URI of the Workflow; for one with snapshotRef it exports the payload "{}" (and an empty time slice), so the replica's row is not the sealed one. docs/adr/0012-debezium-cdc-sync.md:9 says "snapshot and domino result rows replicated as change events" and examples/multiverse-finance/README.md:54 "materialize snapshot + domino results to the target universe store".
- `controller/pkg/cdc/kafka.go:156`. SyncFromConsumer judges completeness by the envelopes of one Consume call, while the reader has committed the ones of earlier calls; a chain read in two attempts leaves the replica Pending for ever with every row in its store. docs/adr/0012-debezium-cdc-sync.md:26 says "CDC mode requeues until all domino chain events arrive" and :28 "incomplete sync requeues after 5s".
- `controller/internal/controller/multiverse_controller.go:124`. ensureSubscription builds the router from the spec of the first reconcile of the process and returns early ever after; edits of the Multiverse do not reach it before a restart. docs/adr/0009-multiverse-routing.md:13 says "**Multiverse CRD** — routing table: default universe, partition rules, time-slice overrides, optional Kafka sync".
- `controller/pkg/events/memory.go:28`. Duplicates are recognised by a set in the controller's memory, so the same event is delivered again after a restart, and a replica is made for the universe it resolves to then. docs/reviewer.md:39 says "the same `event_id` is not delivered twice on retry".
- `controller/pkg/routing/router.go:60`. Two universes whose partitions match are an error, also with a default universe, and the handler drops the event. docs/theory/formal-model.md:76 says "the first matching partition rule, else the default universe. This is a total function whenever a default is configured."
- `controller/internal/controller/workflow_controller.go:363`. completeFromChainStatus sets Completed and returns without publishSnapshotEvent, which execute and completeFromChain call; the snapshot is never routed. docs/adr/0009-multiverse-routing.md:17 says "**Workflow integration** — publishes `kbl.snapshot.completed` on chain completion".
- `controller/internal/controller/workflow_controller.go:427`. writeReplayLog updates the data and labels of an existing ConfigMap and leaves its owner reference, which names the deleted Workflow of the same name; the garbage collector then removes the log that status.replayLogRef refers to. docs/adr/0005-kubernetes-controller.md:23 says "Write replay log JSON to an owned ConfigMap (`{name}-replay`)".
- `controller/internal/controller/workflow_controller.go:416`. writeReplayLog gets the ConfigMap afresh and updates it, whatever has become of the copy of the Workflow that the reconcile holds; with two managers a slow reconcile of an old generation replaces the log after the other has settled the new one, and only its status update is refused. docs/adr/0005-kubernetes-controller.md:23 says "Write replay log JSON to an owned ConfigMap (`{name}-replay`)". `ReplayMatches` allows for it (`replay.late`).
- `controller/internal/controller/dominochain_controller.go:527`. dominoChainToWorkflow copies the inline source only, so the replay of a chain with a path or URI snapshot fails and the chain stays in Error with every container succeeded, and its Workflow with it; the replay also goes through LookupMemo of a store that outlives the chain, so a chain created again under its name with an edited command reports the output of the old one. `Converges` and `ChainSettles` except the first, `CompletedRan` the second.
- `controller/pkg/store/tsdb_handler.go:58`. Any error of OpenSnapshotData is answered with 404, which the client reads as "not stored"; RunSingleFrom then runs on the source as it is at that moment and never compares its identity. docs/adr/0018-store-first-snapshot.md:25 says "Store must contain snapshot data before execute (Snapshot reconciler or prior run)". `InputsFromSpine` allows the contents that got in that way (`stray`).
- `controller/pkg/cdc/bus.go:33`. The in-process CDC bus is a variable of the process and a completed Workflow is not published again, so after a restart a replica that had not been fed stays Pending for ever. docs/adr/0012-debezium-cdc-sync.md:26 says "CDC mode requeues until all domino chain events arrive". `ReplicaConverges` speaks of envelopes that are still there.
- `controller/pkg/replica/materialize.go:48`. Materialize copies the last row of each domino on the snapshot, which may be one of another run or workflow on the same store. examples/multiverse-finance/README.md:54 says "materialize snapshot + domino results to the target universe store". `OwnFeed` leaves such stores out.
- `controller/internal/controller/dominochain_controller.go:459`. ensurePod takes any Pod of the name for its own; after a Workflow is deleted and created again the new chain completes on the Pod the garbage collector has not removed yet, and julia steps are reported that never ran. internal/controller/julia_replay.go:28 says "skipJuliaOperatorReplay is true when Julia already ran in a runner pod".

## Bounds

Every bound is a constant: `MaxEdits`, `MaxFaults`, `MaxAttempts`, `MaxSlots`,
`MaxCreations`, `MaxReruns`, `RoutedCap`, `MaxTurns`, `MaxSealEvents`, `MaxRunEvents`, `MaxStray`, `MaxEvents`. Behaviours stop when a bound is reached,
which is why most configurations do not look for deadlock; that runs do not stop
too early is what the liveness properties check.

- *Engine.* Two runs, because every race here is between two writers of one row.
  Chains of two dominos let an input depend on an earlier output and let a crash
  fall between two saves; `worldline` also has the chains the gates reject (a read of
  a later domino, a name used twice, a domino without a name, a command that fails).
  One Snapshot resource; two time slices where its spec is edited. Two payloads of one
  content, one of another and one that is not JSON, or none at all. One or two edits
  and one fault, so that each can fall between any two statements. A run that has
  recorded nothing may be started again without limit; `MaxAttempts` counts the starts after one that
  has. One such start in `worldline` meets the rows a crashed attempt left (965,503 states); `sealing`
  (559,675) and `retries` (217,739) have chains of one domino, whose runs are done when they have recorded.
  `retries` has a source that is not canonically formatted, runs that bring the content themselves and
  runs that refer to the Snapshot, and edits of the time slice, so that the reconciler
  can meet ErrSealedOverwrite for good and a run a status that is outdated. Runs are
  interchangeable, so they are a symmetry set in the safety runs.
- *Wheel.* Two contexts and slots of up to three rotations cover both carries of the
  position; two overlapping reconciles, one edit (of the limit, or one that breaks the
  spec) and one fault.
- *Replication.* Three workflows on one snapshot: one over Kafka with a
  referenced snapshot, one over the bus with a chain of two dominos and a reused result,
  one direct. They share a domino name, and the direct one's output conflicts, so
  every refusal of the target occurs; two of them share a source store, so that a direct copy finds
  another run's row. Two partitions suffice for reordering; one
  fault, of the publisher or of a reconcile, or a restart (137,821 states).
- *Multiverse.* A list of two entries stands for the 50 of the code and overflows
  with three events; an object is created twice, edited once, a workflow run again
  once, with one fault or restart; two universes of a table may overlap.
- *Workflow.* Two managers, the fewest that can overtake each other. Four specs, one local and one per
  job kind, so that an edit changes the runtime too: one has julia steps, so that
  a chain is left behind by, or for, a run the operator cannot replay, and one a remote snapshot that is not sealed at
  first. Two turns (`MaxTurns`): any two of an edit, a deletion, a later creation, a failed call or
  container and a restart, at any step of either manager. That is enough for a log written late, a
  ConfigMap collected with its first owner, a refused Error over a settled Workflow and a chain made
  for a Workflow that is gone; each was seen to happen (271,743 states).
- *Stepwise.* Two managers, of which one stays up (`Steady`) and the other may stop
  anywhere and takes only the first domino (`Takes`): every race is over one row or one
  resource, and two are enough for it. Two dominos, the second with two inputs, an earlier
  output and the content; the first command is not a function, so that memo races are lost. Two edits
  or faults before the Snapshot is sealed (`MaxSealEvents`), so that a request can be cut
  short or given up and then repeated from another source; one after (`MaxRunEvents`, in
  which the earlier ones count), which falls between any two steps of the dominos.
  One failed read of the snapshot with a rewritten source (`MaxStray`).
  Two payloads of one content and one of another, so that a source may be rewritten or only reformatted
  after a save that was never answered; a cut payload may be no JSON or happen to be other JSON. The run has 272,793 states.
- *Hand-over.* Chains of one, two and three steps with strict, lenient and julia commands
  and one that needs a sandbox, in every layout, with an inline source and with another, two contents, nothing or one row
  in the store, of the same or another command, and three events (`MaxEvents`): two containers may die and
  the source change, or a pull break off twice, or expire when it was complete (209,828 states).

The theorems below do not depend on any of these numbers.

## Fairness

Runs with a liveness property (`retries`, `rotation`, `replicas`, `workflow`, `stepwise`,
`handoff`, `event_lost`) use `FairSpec`. Only steps that the process or its work queue takes by
itself are fair; edits, faults and re-creations never are.

- *Engine*: weak fairness of a run's next step, of starting a run that failed
  (the reconcilers return the error, so the queue retries, for ever) and of the Snapshot reconciler.
- *Wheel*: weak fairness of each reconcile's next step (every outcome short of the
  stop returns an error or `RequeueAfter`) and of Workflows completing, which is
  what `WorkflowController` establishes. A Workflow that fails is reconciled again.
- *Replication*: weak fairness of the publisher and of the reconcile in progress,
  strong fairness of `Begin(w)`: one worker serves all replicas, so a replica's
  turn is not continuously possible, and the requeue of 5 or 30 seconds brings it back.
- *Multiverse*: weak fairness of the delivery in progress and of the reconciles, used in `event_lost`.
- *Workflow*: weak fairness of the chain reconciler's and of every manager's steps, of containers ending,
  of Snapshots being sealed and of the garbage collector. Every outcome of the
  Workflow reconciler other than Completed returns an error or a requeue period.
- *Stepwise*: for the managers in `Steady` only, weak fairness of the reconcile in progress and of
  its request being served (or it times out, which is a fault), strong fairness of `Start(m, d)`:
  one worker serves all Dominos from a first-in first-out queue, and every outcome but completion
  requeues. Requests that were given up need never be served, and other managers may stop.
- *Hand-over*: weak fairness of the reconciler, of some container that can go on, and of OpenKruise
  finishing its job or removing one that did not get through (`ttlSecondsAfterFinished`). The expiry of a
  complete job is an event and not fair: ten minutes pass between two, and seconds between two reconciles.

## What is proved

The theorems hold for every value of the constants that satisfies the named
assumptions of the modules. These say that the encoding parses what it writes
(`EncodingAssumption`), that the markers for "nothing" are not values
(`AbsentAssumption`, `ErrorAssumption`), and what type each definition of a workflow,
wheel, table or spec has (`SnapshotAssumption`, `WorkflowAssumption`, `WheelAssumption`,
`ReplicationAssumption`, `TableAssumption`, `SpecAssumption`, `BoundAssumption`,
`StepwiseAssumption`, `PrefixAssumption`, `HandoffAssumption`). TLC evaluates them in every run of the module.

| Module | Theorem | Property | What it establishes |
|---|---|---|---|
| `EngineProofs` | `TypeCorrectness` | `TypeOK` | Every variable keeps its type in every behaviour, for any sets of runs, workflows, snapshots and payloads. |
| `EngineProofs` | `CausalOrder` | `CausalPast` | A recorded domino read only outputs recorded before it by the same run, for any chain a workflow may list. |
| `EngineProofs` | `ContentAddressing` | `ContentAddressed` | The two-statement SaveSnapshot never leaves a payload under an identity that is not its own, for any number of writers and edits. |
| `EngineProofs` | `SealedStatus` | `SealedMeansStored` | A status that says Sealed names a stored payload and, when current, the spec's time slice. |
| `EngineProofs` | `Isolation` | `SnapshotIsolation` | Every input is resolved from the sealed content and the run's own earlier outputs, whatever happens to the source. |
| `EngineProofs` | `Durability` | `WorldlineRecorded` | Every entry of a worldline continues the hash chain and has its memo and replay rows. |
| `EngineProofs` | `OneWorldline` | `UniqueWorldline` | Two runs of the same chain on the same snapshot agree on everything both have recorded, without assuming that commands are functions. |
| `EngineProofs` | `StoreImplements` | `StoreRefinement` | The SQL tables under interleaved runs and sealers implement the abstract worldline store. |
| `EngineProofs` | `TablesKeepPromise` | (`Consistent`, `NeverForgets`) | Under any runs and sealers the SQL tables have one output per memo key, a memo row and a sealed snapshot for every replay row, and no statement takes any of it back. |
| `WheelProofs` | `TypeCorrect` | (`TypeOK`) | The wheel's spec, status, Workflows and the copies reconciles work on keep their types, for any contexts, interval, limits and number of reconciles. |
| `WheelProofs` | `RotationFollowsSchedule` | `ScheduleFollowed` | Slots are recorded in exactly the order contexts-then-slices prescribes and the position is the next one due, however reconciles overlap, crash or are refused. |
| `WheelProofs` | `NoUpdateLost` | (`NothingLost`) | Every step keeps the list of processed slots or appends the slot that is due to it. |
| `WheelProofs` | `OnlyCompletedRecorded` | `ProcessedCompleted` | Every recorded slot's Workflow has completed, although its phase was read before the status was written. |
| `WheelProofs` | `NeverTwoAhead` | `OneSlotAhead` | No Workflow is created more than one slot ahead of the recorded ones, by stale reconciles either. |
| `WheelProofs` | `WheelImplements` | `RefinesSchedule` | The reconciler, with any number of overlapping and stale reconciles, refused updates, faults and edits, implements the abstract schedule, whose i-th slot is given by quotient and remainder. |
| `ReplicationProofs` | `TypeCorrect` | (`TypeOK`) | Rows, envelopes, offsets and phases keep their types for any workflows, partitions and groups. |
| `ReplicationProofs` | `NoOrphanResults` | `NoOrphans` | The target never holds a domino result without its sealed snapshot, for any reordering, redelivery, fault and mix of direct and cdc replicas. |
| `ReplicationProofs` | `DirectReplicasFaithful` | `DirectFaithful` | A Ready direct replica serves the row the source sealed, whatever cdc replicas wrote to the same store. |
| `ReplicationProofs` | `ReadyReplicasComplete` | `ReadyMeansComplete` | Every Ready replica holds the snapshot and all results of its workflow, over restarts too, unless a workflow with other results shares its transport or, for a direct one, its source store. |
| `ReplicationProofs` | `TargetImplements` | `TargetRefinement` | The store that direct copies and envelopes of any workflows are written to implements the abstract worldline store: its snapshot is written once and a memo key keeps its first output. |
| `ReplicationProofs` | `TargetKeepsPromise` | (`Consistent`, `NeverForgets`) | A replica's store has one output per memo key, all under the snapshot it holds, and nothing in it is ever replaced. |
| `MultiverseProofs` | `TypeCorrect` | (`TypeOK`) | Objects, copies, bus and replicas keep their types, and no event without a route is recorded, for any tables, events and Multiverses. |
| `MultiverseProofs` | `EventsRecordedOnce` | `RecordedOnce` | An event is listed at most once per Multiverse and no list passes its limit, whatever is delivered again. |
| `MultiverseProofs` | `AuditTrailKept` | `AuditTrail` | Optimistic concurrency keeps the audit trail: a step appends one entry at most and drops at most the oldest of a full list. |
| `MultiverseProofs` | `ReplicasAreRecorded` | `ReplicasRecorded` | Every ReadReplica of a live Multiverse has its event in the list, or the list is full, across re-creations, restarts and failed calls. |
| `WorkflowProofs` | `TypeCorrect` | `TypeOK` | The objects of a Workflow, and the copies that reconciles hold, keep their types for any specs, runtimes and managers. |
| `WorkflowProofs` | `SettledWorkflowsStay` | `SettledStays` | A Workflow Completed for its generation is never overwritten by a reconcile that another manager has in progress, for any number of managers, with or without julia steps. |
| `WorkflowProofs` | `CompletedReportsCurrentSpec` | `CompletedIsCurrent` | As long as the operator replays it, a Workflow Completed for its generation reports a run of the spec it has, for any number of managers, edits, re-creations and faults. |
| `WorkflowProofs` | `ReplayLogMatches` | `ReplayMatches` | As long as the operator replays it, the replay ConfigMap holds the run the status refers to, for any number of managers, unless a reconcile that had been overtaken wrote it last or it was collected with the earlier Workflow that owned it. |
| `WorkflowProofs` | `ChainsRunTheirSpec` | `ChainRan` | For every runtime and however often the name is used, the DominoChain of a Workflow completes only after containers of its own ran its spec to the end, or ones did that an earlier Workflow of the name left. |
| `StepwiseProofs` | `TypeCorrect` | `TypeOK` | Files, resources, reconciles and requests keep the types of the records in tsdb_engine.go and of the custom resources, whatever is cut short or served late, for any managers, dominos, commands and payloads. |
| `StepwiseProofs` | `SealedComplete` | `SealedIsComplete` | A Snapshot whose status says Sealed has its whole payload in the file store, with the content its identity names, although metadata and payload are two files and clients give requests up. |
| `StepwiseProofs` | `ReportsRecorded` | `ReportedRecorded` | A Domino never reports a result that is not in the replay log, nor one that lost the race for its memo key, for any number of managers, timeouts and crashes. |
| `StepwiseProofs` | `FileStoreImplements` | `FileStoreRefinement` | The file store behind its service, its requests cut short, given up or served late included, implements the abstract worldline store without transactions. |
| `StepwiseProofs` | `CompletedCommand` | `CompletedByCommand` | A Domino Completed for its generation was executed by the command of that generation, however edits fall between the reconcile's read and its update. |
| `StepwiseProofs` | `InputsOnSpine` | `InputsFromSpine` | The input of every logged row resolves from outputs logged before it for its dependencies and from the sealed content, or one the source had when a read of the snapshot failed, for any dependency lists and selectors and whatever overlaps. |
| `StepwiseProofs` | `SpineIsLinked` | `SpineLinked` | Every logged row hangs by its own hash on the identity or an earlier row, and the rows are one chain as long as no two reconciles overlapped and no result was served late. |
| `StepwiseProofs` | `FilesKeepPromise` | (`Consistent`, `NeverForgets`) | The file store has one output per memo key, a memo row and a sealed snapshot for every replay row, and takes none of it back, whatever is cut short, given up or served late. |
| `HandoffProofs` | `TypeCorrect` | `TypeOK` | Containers, files, the image pull, the reconcile and the status keep their types for any chain, layout and number of faults; a container runs only once the ConfigMap is written. |
| `HandoffProofs` | `HandoffIsFaithful` | `HandoffFaithful` | When all steps of a chain of any length have exited with 0, the last file holds every command in order on one content, in turn or at once, unless a step of an OpenKruise Pod accepts a broken input and read a torn file. |
| `HandoffProofs` | `CompletedHasRun` | `CompletedRan` | Only a chain whose steps all exited with 0 is Completed, and what the operator's replay reports is what the containers computed, unless the store has rows of other commands for its steps or a torn file was handed on. |
| `HandoffProofs` | `VerdictFinal` | (`CompletedIsFinal`) | Whatever containers, cluster and source do after it, the status of a Completed chain and the file its result stands in do not change. |
| `WorldlineStoreProofs` | `StorePromise` | (`Consistent`, `NeverForgets`) | Every worldline store, with or without transactions, is consistent in every state and never forgets: what the three refinements buy. |

A property in parentheses is stated and proved in the proof module, or is a type invariant,
and is checked by no run.

The arguments:

- *Engine and store.* `TypeOK` is inductive once the content a run holds between two
  steps is described as well. Content addressing needs the payload *about to be
  written* to be the content of its identity (`AddressInv`), by sealers and by
  runs; since all writers preserve it the missing transaction in `SaveSnapshot`
  does no harm to it. `SealInv` says that a sealer at its status step has saved its
  identity. `WorldlineInv` relates every entry of every run to the memo row under its key
  (`Stored`), makes the memo a function (`MemoFunctional`), and describes the pending
  entry between lookup and insert. From it `Isolation` and `Durability` follow
  directly. `OneWorldline` is an induction over the position in the chain: equal
  inputs give equal keys, the memo is a function, so the outputs are equal, whether or
  not the command is one. `StoreImplements` shows that each statement is a step
  of `WorldlineStore` or a stutter, citing the same invariant for `Record`.
- *Wheel.* A reconcile acts on an old copy. `PlaceInv` says that a *fresh* copy is the
  status, that the copy's position is the one its own list of slots leads to, and that
  it is never ahead of the object; stale copies are harmless because their
  update is refused, but their Workflow creations are not refused, and for these the
  bound "one slot ahead" follows from the position of the copy being at most that of
  the object. `CompletedInv` carries "the Workflow I saw completed" from `Lookup`
  to the update. For `WheelImplements` an accepted update that records is the abstract
  `Record` (by `StepRecords` it appends the slot that is due, by `CompletedInv` its Workflow
  is complete), a creation, by a stale reconcile too, is `Create` of a slot within reach
  (`CreatesDue`), a Workflow that ends is `Finish`, and all else a stutter. The position of the
  code is counted up context by context; `ScheduledIsDue` shows that it reaches the slot
  that quotient and remainder name.
- *Replication.* `OwnerInv` and `CopyInv` describe what a session holds while it applies
  (which rows it has already saved), `FeedInv` where an envelope can have come from,
  `ProgressInv` that what was counted was applied. `ReadyMeansComplete` speaks of direct
  replicas whose source store, and of others whose transport, carries no other results than their own
  (`OwnFeed`): `IsComplete` counts dominos without looking at their names, so another workflow's would
  do, and `Materialize` takes the last row whoever logged it. `LastInv` says that the source's log has a row
  for each domino of every workflow that completed. For `TargetImplements` one lemma covers the two ways a row gets into the target
  (`SaveRefines`): the refusals of `SaveSnapshot` and `SaveResult` make it a `Seal`, a `Memoize`
  of a new key or a stutter, and `NoOrphans` keeps the memo empty until the snapshot that is
  part of its keys is there.
- *Multiverse.* `HeldInv`: a fresh copy, of a reconcile or a handler, equals the
  object, so an accepted update starts from the latest list. `AuditTrail` is an
  action property over this. `ReplicasAreRecorded` accounts for each replica through
  `LinkInv`, including the handler between its update and its creation.
- *Workflow.* `HeldBy(m)` describes the copy that manager `m` holds: a fresh one is the Workflow, marked
  Running. So no copy is fresh once the Workflow is Settled, every update still to come is refused, and
  `SettledStays` follows for any number of managers. `ConcludedBy(m)` says that a concluded copy reports
  the spec of the copy, `ReportInv` that an accepted one is current and that the ConfigMap holds its run unless
  it was written late or collected. `RanInv` ties chain, containers and `ran` together by the owner (`WorkOf`): what belongs to the
  chain of a Workflow that is there has its spec, and what does not is an orphan of an earlier one, so
  the containers a chain completes on are its own or older ones. The second case is real: a chain of a name used
  again takes the old Pod for its own. `Replayable` leaves out the specs and runs with julia
  steps, and must: with them an edited Workflow reports the chain of its earlier spec (run `stale_chain`).
- *File store and stepwise execution.* One lemma carries most of it: the files change only by a
  request *in flight* (`FileStep`, `InFlight`), served or cut, and a request comes into flight
  only by `SealToBackend` or `Post` (`NewRequest`). So an invariant over the requests, wherever
  they wait (a sealer, a worker or `late`), and over the files is enough. `TypeInv` adds to the
  types what each `pc` makes sure of. `SealInv` says that a status of Sealed, and a sealer with
  an answer of success, name an identity whose two files are whole (`Whole`); no request touches these again.
  `MemoInv` makes the memo a function that every log row agrees with; for a reused output, which
  `SaveResult` does not compare again, this needs the memo row to exist when the request is
  made and memo rows never to go. `LogInv` carries it to workers with an answer and to
  statuses. `FreshInv` and `CommandInv`: a fresh worker's command and generation are the
  resource's, which with the refused updates gives `CompletedCommand`. `SpineInv` derives
  each input from what was in the log when the worker read it (`Derived`, `Past`) and from the sealed
  content or one in `stray`; the log and `stray` only grow. `LinkInv` says that a worker's head is the identity or some row's link; `AloneInv` that while
  `alone` at most one result is between head and log, and its head is the last link. The refinement maps a
  served result to `Record`, a result cut after its memo file to `Memoize`, a whole payload to
  `Seal` and everything else, cut files included, to a stutter.
- *Worldline store.* Every step of the abstract store has the shape `Grows`: what is new in the
  memo has a new key under a sealed identity, and at most one row is new. `Consistent` (one output per
  key, each under a sealed identity, each log row agreeing with the memo) and
  `NeverForgets` follow from it. `WorldlineStoreProofs` proves this once; the SQL tables, the
  file store and a replica's store inherit it through their refinements (`TablesKeepPromise`,
  `FilesKeepPromise`, `TargetKeepsPromise`).
- *Hand-over.* `FileInv` says of every step what it holds and leaves (`StepOK`). In turn: a container
  that has started follows finished ones (`TurnInv`), so the one file they share holds what the last
  finished step left until the next one writes (`Overwritten`), and nobody reads it
  torn. At once: a step reads the whole output of the one before or something torn; a strict
  command exits with an error on the latter, so a torn origin passes an exit code of 0 only where a
  later step is lenient (`Fragile`). The ConfigMap is written anew by every reconcile, but only the first step reads it,
  once, so all commands are applied to one content. `VerdictInv` says what Completed rests on: an
  operator that replays has an inline source, which nobody rewrites, and rows of the same commands give the same value. Exit codes of 0
  stay, and no reconcile goes on after it, which gives `VerdictFinal`.

Only model-checked: the liveness properties (`RetriesConverge`, `WheelCompletes`,
`ReplicaConverges`, `Converges`, `DominosSettle`, `ChainSettles`), since the prover handles neither
fairness nor `ENABLED`, and the counterexamples. Recursive definitions over data are
outside the prover's reach too; the proved modules do not use them.

## Abstractions

- *Store sharing.* Runs and sealers of one model share one database. By default
  `OpenForSnapshot` opens `<snapshot>.db` and `OpenForWorkflow` `<workflow>.db`
  (`pkg/store/resolve.go`); a database is shared by the runs of a
  workflow, and by all when the store is Postgres or has an explicit path.
- Messages, timestamps, labels and the contents of Pods are left out. A read from a
  lagging cache is a read made earlier.
- *Engine.* A CLI run has a time slice; the file form with an empty one is left out. No domino is named
  "snapshot", which a selector cannot tell from the content.
- *Stepwise.* One Snapshot, whose spec is not edited, and one file store; a copy of a Domino read from a lagging cache
  is refused at the Running update, before anything is stored, so a worker's read is taken to be
  current; phases of dependencies are read current. Users edit a Domino's command, and not its `dependsOn`, `inputs` or
  `snapshotRef`; a failed read matters only where the source differs from what was sealed. Data that was written is not lost when the
  machine stops (the code calls no `fsync`), and the service's clock does not step back.
- *Hand-over.* One chain whose spec is not edited, one reconcile at a time; the rows of an earlier chain of its name are matched to
  its steps by position, as for chains whose steps kept their names; a Pod's containers are not restarted
  (`restartPolicy: Never`).
- *Wheel.* The list of contexts and the interval (`timeSliceInterval`) are fixed, and users do not edit the Workflows the
  wheel owns. A Workflow's name is its slot: the conversion to lower case with `_` as `-` is taken to keep different
  slots apart, and so is the time slice in it, which it does for intervals of at least a second.
- *Replication.* One snapshot, one target store, one ReadReplica worker; the target's tables are
  sets of rows; a Multiverse has `sync` (`cdc_publish.go:12` dereferences it without a check; the panic comes after the
  event is published and amounts to a restart); the chain of a workflow does not change; saving the snapshot in
  the target is one step.
- *Multiverse.* The in-process bus, one namespace; handlers run in the single worker
  of the Workflow controller; an update made from a lagging cache is refused;
  failures of the validation and of the Kafka ping are faults.
- *Workflow.* The engine is the spec it ran. All images of a chain are one image
  pull job; the Pods of a job are part of it; users do not delete the chain; one
  reconcile of the DominoChain is one step, also with two managers, whose writes of the chain's status would be
  refused as the Workflow's are. A chain's uid is its owner's, so a second chain that a late reconcile makes for a
  Workflow that is gone is not told from the first; both are collected. A snapshot becomes ready while its spec is
  in use. Commands that need a sandbox, whose replay fails too, are in `Handoff`.

## Not modelled

| Part | Why |
|---|---|
| File store, in part | Which backend a resource opens (`resolve.go`), `/v1/stats` and the retired inline data field: selection and reading without a race. A wall clock that steps back. |
| Executors, in part | What a builtin command computes is a constant; the julia subprocess is a command that may fail. |
| Compute contexts and universes | Reconcilers that validate a spec and set a phase, and the defaults a universe gives a Workflow: no state that two actors share. ApplyToWorkflow appears as an error of WorkflowController's fail. |
| Theory measures | Pure arithmetic over completed runs, much of it on floating-point numbers, which no controller decision depends on. |
| Review walkthrough | A scripted demonstration of the other packages, and a test of import boundaries. |
| Command line and manager | Flag parsing and wiring. The CLI calls Engine.Run on a workflow file; the manager starts the reconcilers without leader election, which ComputeWheel, WorkflowController and Stepwise take into account with two reconcilers each. |
| API types and generated code | Type declarations and generated deep copies; the fields that carry state are in the modules of their reconcilers. |
| Deployment | Manifests, lab scripts, the AWS CDK stack and the build: configuration without state of its own. |

Of modelled parts these are known and left out: a dependency's generation is not compared by
the Domino reconciler (`InputsFromSpine` says the output used is *some* logged one); a stopped
wheel restarts when a broken spec is mended; the look-ahead of the last slot passes `maxRotations`; `processedSlots` grows without limit; a ReadReplica's
name has no run in it, so a second run on the same snapshot keeps the first one's replica.

## Plan

The order is by how much depends on the part. Done: `WorldlineStore`, `SQLStore`,
`SnapshotReconciler`, `Engine` with the refinement; `ComputeWheel`; `Replication`;
`Multiverse`; `WorkflowController`; `FileStore` and `Stepwise` with the second refinement;
`Handoff`; `WheelSchedule` and the refinements of the wheel and of the replicas' store; several managers in `WorkflowController`, restarts in `Replication`, the operator's replay in `Handoff`; the
proofs of all type invariants, safety invariants, action properties and refinements that the
passing runs check. The runs ask one question each of a component and combine its safety and
liveness properties.

Left, in this order:

1. The Kafka event bus, with redelivery after a crash, as a second transport of
   `Multiverse`.
2. A composition of completion, routing and replication, so that "a completed
   workflow is readable in its universe" becomes one statement.
3. A refinement that takes `Handoff` to the single Pod of `WorkflowController`.
