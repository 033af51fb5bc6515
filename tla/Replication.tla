----------------------------- MODULE Replication -----------------------------
(***************************************************************************)
(* Read replicas of one sealed snapshot in one target universe: the        *)
(* ReadReplica reconciler (internal/controller/readreplica_controller.go), *)
(* direct copies (pkg/replica) and change-data-capture over the in-process *)
(* bus or Kafka (pkg/cdc).                                                 *)
(*                                                                         *)
(* Every workflow that completes on the snapshot gets a ReadReplica, all   *)
(* of them over one target store.  In cdc mode the workflow controller     *)
(* publishes the envelopes after the replica exists, so the replica's      *)
(* reconciles race the publisher.  One reconcile of a ReadReplica runs at  *)
(* a time (one controller pod, one worker); its steps are interleaved with *)
(* the publisher's, and it can stop between any two of them.  Publisher,   *)
(* bus and reconciler are one process: what is on the bus or still to be   *)
(* published is gone when it restarts.                                     *)
(***************************************************************************)
EXTENDS Naturals, Sequences, FiniteSets

CONSTANTS
  Workflows,       \* the workflows that complete on the snapshot
  Rows,            \* Rows[w]: the replay rows of w's run, one per domino
  SnapshotRows,    \* rows of the table snapshots: time slice and payload
  Source,          \* Source[w]: the store w's workflow ran on
  SourceSnapshot,  \* the snapshot's row in the source stores
  Exported,        \* Exported[w]: the row ExportFromWorkflow makes up for w
  Mode,            \* Mode[w]: "direct" or "cdc"
  Transport,       \* Transport[w]: "memory", or "kafka" if w's Multiverse has brokers
  Channels,        \* the partitions of the Kafka topic, and Bus
  Bus,             \* the in-process bus
  Group,           \* Group[w]: consumer group of w's replica
  Absent,          \* no row, no reconcile in progress
  MaxFaults        \* bound: failed calls and crashes in a behaviour

\* A row of the tables domino_results and replay_log.
ResultRows == [domino : STRING, input : STRING, output : STRING, reused : BOOLEAN]

\* The dominos of w's chain.
Names(w) == {Rows[w][k].domino : k \in DOMAIN Rows[w]}

ASSUME ReplicationAssumption ==
  /\ Rows \in [Workflows -> Seq(ResultRows)]
  /\ \A w \in Workflows : \A j, k \in DOMAIN Rows[w] :
       Rows[w][j].domino = Rows[w][k].domino => j = k
  /\ DOMAIN Source = Workflows
  /\ SourceSnapshot \in SnapshotRows
  /\ Exported \in [Workflows -> SnapshotRows]
  /\ Mode \in [Workflows -> {"direct", "cdc"}]
  /\ Transport \in [Workflows -> {"memory", "kafka"}]
  /\ Bus \in Channels
  /\ Absent \notin SnapshotRows \cup Workflows
  /\ MaxFaults \in Nat

\* The stores workflows ran on, and the dominos of all chains.
Stores == {Source[w] : w \in Workflows}

Dominos == UNION {Names(w) : w \in Workflows}

VARIABLES
  last,         \* store -> the last row of each domino in its replay log
  unpublished,  \* the envelopes w's publisher has still to send
  log,          \* channel -> the envelopes sent on it
  offset,       \* consumer group -> committed offset of each partition
  replica,      \* status.phase of w's ReadReplica, "None" before it exists
  session,      \* the reconcile in progress
  snapshot,     \* the snapshot's row in the target store
  results,      \* the result rows of the target's replay log
  faults        \* faults met so far

vars == <<last, unpublished, log, offset, replica, session, snapshot, results, faults>>

Groups == {Group[w] : w \in Workflows}

Envelopes == [table : {"snapshots"}, row : SnapshotRows]
               \cup [table : {"domino_results"}, row : ResultRows]

Phases == {"None", "", "Materializing", "Pending", "Ready", "Error"}

Offsets == [Channels -> Nat]

(* A reconcile: whose it is, the offsets its reader has reached, the       *)
(* envelopes it has still to apply, and its SyncProgress.                  *)
Sessions == [of : Workflows \cup {Absent}, pc : {"idle", "consume", "apply", "copy"},
             pos : Offsets, batch : Seq(Envelopes),
             snapshotApplied : BOOLEAN, dominos : SUBSET STRING]

IdleSession ==
  [of |-> Absent, pc |-> "idle", pos |-> [p \in Channels |-> 0], batch |-> <<>>,
   snapshotApplied |-> FALSE, dominos |-> {}]

Init ==
  /\ last = [s \in Stores |-> [d \in Dominos |-> Absent]]
  /\ unpublished = [w \in Workflows |-> <<>>]
  /\ log = [p \in Channels |-> <<>>]
  /\ offset = [g \in Groups |-> [p \in Channels |-> 0]]
  /\ replica = [w \in Workflows |-> "None"]
  /\ session = IdleSession
  /\ snapshot = Absent
  /\ results = {}
  /\ faults = 0

-----------------------------------------------------------------------------
(* The publisher, in the workflow controller.                              *)

SnapshotEnvelope(row) == [table |-> "snapshots", row |-> row]

ResultEnvelope(row) == [table |-> "domino_results", row |-> row]

ExportFromWorkflow(w) ==
  <<SnapshotEnvelope(Exported[w])>>
    \o [k \in DOMAIN Rows[w] |-> ResultEnvelope(Rows[w][k])]

\* The row of domino d in w's run.
RowOf(w, d) == Rows[w][CHOOSE k \in DOMAIN Rows[w] : Rows[w][k].domino = d]

(* A run has logged its rows.  publishSnapshotEvent: the routed event makes *)
(* the multiverse create the ReadReplica, and only then are the envelopes  *)
(* published.                                                              *)
Complete(w) ==
  /\ replica[w] = "None"
  /\ last' = [last EXCEPT ![Source[w]] =
                [d \in Dominos |-> IF d \in Names(w) THEN RowOf(w, d) ELSE @[d]]]
  /\ replica' = [replica EXCEPT ![w] = ""]
  /\ unpublished' =
       [unpublished EXCEPT ![w] = IF Mode[w] = "cdc" THEN ExportFromWorkflow(w) ELSE <<>>]
  /\ UNCHANGED <<log, offset, session, snapshot, results, faults>>

\* cdcPublisherForMultiverse.  The LeastBytes balancer of the Kafka writer may
\* choose any partition, whatever the key.
Carries(p, w) == p = Bus <=> Transport[w] = "memory"

Publish(w) ==
  /\ unpublished[w] # <<>>
  /\ \E p \in Channels :
       /\ Carries(p, w)
       /\ log' = [log EXCEPT ![p] = Append(@, Head(unpublished[w]))]
  /\ unpublished' = [unpublished EXCEPT ![w] = Tail(@)]
  /\ UNCHANGED <<last, offset, replica, session, snapshot, results, faults>>

\* PublishBatch stops at the first error, which nobody looks at.
PublishFails(w) ==
  /\ unpublished[w] # <<>> /\ faults < MaxFaults
  /\ unpublished' = [unpublished EXCEPT ![w] = <<>>]
  /\ faults' = faults + 1
  /\ UNCHANGED <<last, log, offset, replica, session, snapshot, results>>

-----------------------------------------------------------------------------
(* The target store.                                                       *)

\* Mutant: a sealed row may be replaced.
refuseNoMutation(row) == FALSE

refuseSealedMutation(row) == snapshot # Absent /\ snapshot # row

\* Mutant: the later output wins.
refuseNoConflict(row) == FALSE

(* A result that was not reused goes to the memo, where another output of  *)
(* the same domino on the same input is a conflict.                        *)
refuseMemoConflict(row) ==
  /\ ~row.reused
  /\ \E r \in results : /\ ~r.reused
                        /\ r.domino = row.domino /\ r.input = row.input
                        /\ r.output # row.output

Refused(env) ==
  CASE env.table = "snapshots" -> refuseSealedMutation(env.row)
    [] env.table = "domino_results" -> refuseMemoConflict(env.row)

\* Mutant: results need no parent.
NoOrphan(env) == FALSE

\* cdc.applyDominoResult asks the target for the sealed parent.
Orphan(env) == env.table = "domino_results" /\ snapshot = Absent

\* SaveSnapshot or SaveResult of the envelope's row.
Save(env) ==
  /\ snapshot' = IF env.table = "snapshots" THEN env.row ELSE snapshot
  /\ results' = IF env.table = "domino_results" THEN results \cup {env.row} ELSE results

-----------------------------------------------------------------------------
(* The ReadReplica reconciler.                                             *)

(* The reconcile returns and its reader, if it had one, is closed: a       *)
(* closed reader commits what it has read.                                 *)
EndSession(phase) ==
  /\ replica' = [replica EXCEPT ![session.of] = phase]
  /\ offset' = [offset EXCEPT ![Group[session.of]] = session.pos]
  /\ session' = IdleSession

SourceBatch == <<SnapshotEnvelope(SourceSnapshot)>>

\* store.LastSpineResult of each domino of the chain, over the replay log of
\* the snapshot: whichever run was the last to log that domino.
SourceRows(w) ==
  [k \in DOMAIN Rows[w] |->
     ResultEnvelope([last[Source[w]][Rows[w][k].domino] EXCEPT !.reused = FALSE])]

\* Mutant: a replica that waits for envelopes is not looked at again.
BeginOnce(w) ==
  /\ session.pc = "idle"
  /\ replica[w] \notin {"None", "Ready", "Pending"}
  /\ replica' = [replica EXCEPT ![w] = "Materializing"]
  /\ session' = [of |-> w, pc |-> IF Mode[w] = "cdc" THEN "consume" ELSE "copy",
                 pos |-> offset[Group[w]],
                 batch |-> IF Mode[w] = "cdc" THEN <<>> ELSE SourceBatch,
                 snapshotApplied |-> FALSE, dominos |-> {}]
  /\ UNCHANGED <<last, unpublished, log, offset, snapshot, results, faults>>

Begin(w) ==
  /\ session.pc = "idle"
  /\ replica[w] \notin {"None", "Ready"}
  /\ replica' = [replica EXCEPT ![w] = "Materializing"]
  /\ session' = [of |-> w, pc |-> IF Mode[w] = "cdc" THEN "consume" ELSE "copy",
                 pos |-> offset[Group[w]],
                 batch |-> IF Mode[w] = "cdc" THEN <<>> ELSE SourceBatch,
                 snapshotApplied |-> FALSE, dominos |-> {}]
  /\ UNCHANGED <<last, unpublished, log, offset, snapshot, results, faults>>

\* MemoryBus.Consume returns all envelopes of the snapshot, every time.
ConsumeMemory ==
  /\ session.pc = "consume" /\ Transport[session.of] = "memory"
  /\ session' = [session EXCEPT !.pc = "apply", !.batch = log[Bus]]
  /\ UNCHANGED <<last, unpublished, log, offset, replica, snapshot, results, faults>>

\* KafkaConsumer.Consume takes the group's next message of any partition.
ReadMessage(p) ==
  /\ session.pc = "consume" /\ Transport[session.of] = "kafka" /\ p # Bus
  /\ session.pos[p] < Len(log[p])
  /\ session' = [session EXCEPT !.pos[p] = @ + 1, !.batch = Append(@, log[p][session.pos[p] + 1])]
  /\ UNCHANGED <<last, unpublished, log, offset, replica, snapshot, results, faults>>

\* It stops half a second after the last message, or at its deadline.
ConsumeEnds ==
  /\ session.pc = "consume" /\ Transport[session.of] = "kafka"
  /\ session.batch # <<>>
  /\ session' = [session EXCEPT !.pc = "apply"]
  /\ UNCHANGED <<last, unpublished, log, offset, replica, snapshot, results, faults>>

\* With no message by the deadline the replica waits for the next attempt.
ConsumeNothing ==
  /\ session.pc = "consume" /\ Transport[session.of] = "kafka"
  /\ session.batch = <<>>
  /\ \A p \in Channels \ {Bus} : session.pos[p] >= Len(log[p])
  /\ EndSession("Pending")
  /\ UNCHANGED <<last, unpublished, log, snapshot, results, faults>>

(* One envelope of ApplyAll.  A refused one ends the attempt, and with it  *)
(* the rest of the batch.                                                  *)
Apply ==
  /\ session.pc = "apply" /\ session.batch # <<>>
  /\ LET env == Head(session.batch)
     IN  IF Orphan(env) \/ Refused(env)
           THEN EndSession("Pending") /\ UNCHANGED <<snapshot, results>>
           ELSE /\ Save(env)
                /\ session' =
                     [session EXCEPT
                        !.batch = Tail(@),
                        !.snapshotApplied = @ \/ env.table = "snapshots",
                        !.dominos = IF env.table = "domino_results"
                                      THEN @ \cup {env.row.domino} ELSE @]
                /\ UNCHANGED <<offset, replica>>
  /\ UNCHANGED <<last, unpublished, log, faults>>

\* One row of replica.Materialize, which reads the source's log once the
\* snapshot is in the target.
Copy ==
  /\ session.pc = "copy" /\ session.batch # <<>>
  /\ LET env == Head(session.batch)
     IN  IF Refused(env)
           THEN EndSession("Error") /\ UNCHANGED <<snapshot, results>>
           ELSE /\ Save(env)
                /\ session' =
                     [session EXCEPT !.batch = IF env.table = "snapshots"
                                                 THEN SourceRows(session.of) ELSE Tail(@)]
                /\ UNCHANGED <<offset, replica>>
  /\ UNCHANGED <<last, unpublished, log, faults>>

\* Mutant: one domino too few is enough.
IsAlmostComplete ==
  session.snapshotApplied /\ Cardinality(session.dominos) + 1 >= Len(Rows[session.of])

\* SyncProgress.IsComplete counts dominos; it does not look at their names.
IsComplete ==
  session.snapshotApplied /\ Cardinality(session.dominos) >= Len(Rows[session.of])

\* The last status update of the reconcile.
Finish ==
  /\ session.pc \in {"apply", "copy"} /\ session.batch = <<>>
  /\ EndSession(IF session.pc = "copy" \/ IsComplete THEN "Ready" ELSE "Pending")
  /\ UNCHANGED <<last, unpublished, log, snapshot, results, faults>>

\* A reader that was not closed properly has committed some of what it read.
CommitSome ==
  LET g == Group[session.of]
  IN  \E c \in [Channels -> UNION {offset[g][p]..session.pos[p] : p \in Channels}] :
        /\ \A p \in Channels : c[p] \in offset[g][p]..session.pos[p]
        /\ offset' = [offset EXCEPT ![g] = c]

\* A call fails: the phase of the failed reconcile is written or not.
Fault ==
  /\ session.pc # "idle" /\ faults < MaxFaults
  /\ LET w == session.of
         phase == IF Mode[w] = "cdc" THEN "Pending" ELSE "Error"
     IN  replica' \in {replica, [replica EXCEPT ![w] = phase]}
  /\ CommitSome
  /\ session' = IdleSession
  /\ faults' = faults + 1
  /\ UNCHANGED <<last, unpublished, log, snapshot, results>>

(* The controller stops and starts again.  defaultMemory is a variable of  *)
(* the process, and a Workflow that is Completed publishes nothing again.  *)
Restart ==
  /\ faults < MaxFaults
  /\ unpublished' = [w \in Workflows |-> <<>>]
  /\ log' = [log EXCEPT ![Bus] = <<>>]
  /\ IF session.pc = "idle" THEN UNCHANGED offset ELSE CommitSome
  /\ session' = IdleSession
  /\ faults' = faults + 1
  /\ UNCHANGED <<last, replica, snapshot, results>>

SessionStep ==
  \/ ConsumeMemory
  \/ \E p \in Channels : ReadMessage(p)
  \/ ConsumeEnds
  \/ ConsumeNothing
  \/ Apply
  \/ Copy
  \/ Finish

Next ==
  \/ \E w \in Workflows : Complete(w) \/ Publish(w) \/ PublishFails(w) \/ Begin(w)
  \/ SessionStep
  \/ Fault
  \/ Restart

Spec == Init /\ [][Next]_vars

(* Fairness: a publisher that does not fail goes on, the work queue comes  *)
(* back to every replica that is not Ready (five or thirty seconds after   *)
(* an attempt), and a reconcile that does not fail goes on.                *)
FairSpec ==
  /\ Spec
  /\ \A w \in Workflows : WF_vars(Publish(w)) /\ SF_vars(Begin(w))
  /\ WF_vars(SessionStep)

-----------------------------------------------------------------------------
(* Properties.                                                             *)

\* Every variable has the type of the row or field it stands for.
TypeOK ==
  /\ last \in [Stores -> [Dominos -> ResultRows \cup {Absent}]]
  /\ unpublished \in [Workflows -> Seq(Envelopes)]
  /\ log \in [Channels -> Seq(Envelopes)]
  /\ offset \in [Groups -> Offsets]
  /\ replica \in [Workflows -> Phases]
  /\ session \in Sessions
  /\ snapshot \in SnapshotRows \cup {Absent}
  /\ results \subseteq ResultRows
  /\ faults \in Nat

(* docs/theory/formal-model.md: a domino result applies only when the      *)
(* target already holds a sealed parent snapshot, although partitions      *)
(* reorder the envelopes and attempts break off anywhere.                  *)
NoOrphans == results # {} => snapshot # Absent

(* The target holds w's result for the k-th domino of its chain.           *)
Holds(w, k) ==
  \E r \in results : /\ r.domino = Rows[w][k].domino
                     /\ r.input = Rows[w][k].input
                     /\ r.output = Rows[w][k].output

\* The k-th row of v's run and the j-th of w's say the same.
Same(v, k, w, j) ==
  /\ Rows[v][k].domino = Rows[w][j].domino
  /\ Rows[v][k].input = Rows[w][j].input
  /\ Rows[v][k].output = Rows[w][j].output

\* Every result of v's run is one of w's.
Covered(v, w) == \A k \in DOMAIN Rows[v] : \E j \in DOMAIN Rows[w] : Same(v, k, w, j)

\* v's run has the results of w's for the dominos they share.
Agrees(v, w) ==
  \A k \in DOMAIN Rows[v], j \in DOMAIN Rows[w] :
    Rows[v][k].domino = Rows[w][j].domino => Same(v, k, w, j)

\* What reaches w's replica is w's own.  A direct copy takes the last row of
\* each domino, so no other run on w's store may have logged another result
\* for it; an envelope is taken whoever sent it, so the workflows that share
\* w's transport may have run no more than w did.
OwnFeed(w) ==
  IF Mode[w] = "direct"
  THEN \A v \in Workflows : Source[v] = Source[w] /\ replica[v] # "None" => Agrees(v, w)
  ELSE \A v \in Workflows : Mode[v] = "cdc" /\ Transport[v] = Transport[w] => Covered(v, w)

(* SyncProgress.IsComplete: all required dominos were replicated.  A       *)
(* replica whose status says Ready has the snapshot and every result of    *)
(* its workflow, after any number of partial attempts and redeliveries,    *)
(* unless a workflow with other results shares its transport or its source *)
(* store: SyncProgress counts dominos of the snapshot, and Materialize     *)
(* takes the last row of a domino, whoever ran them.                       *)
ReadyMeansComplete ==
  \A w \in Workflows : replica[w] = "Ready" /\ OwnFeed(w) =>
    snapshot # Absent /\ \A k \in DOMAIN Rows[w] : Holds(w, k)

(* A direct replica that is Ready serves the payload the source sealed,    *)
(* whatever other replicas have written to the universe's store.           *)
DirectFaithful ==
  \A w \in Workflows :
    replica[w] = "Ready" /\ Mode[w] = "direct" => snapshot = SourceSnapshot

\* The target's memo; the identity of the snapshot is the row it holds.
Memo ==
  {[key |-> <<snapshot, r.domino, r.input>>, output |-> r.output] :
     r \in {row \in results : ~row.reused}}

Target == INSTANCE WorldlineStore
            WITH Transactional <- FALSE, results <- Memo, log <- <<>>,
                 sealed <- IF snapshot = Absent THEN {} ELSE {snapshot}

(* Direct copies and change-data-capture of several workflows into one     *)
(* store leave it a worldline store, but for the order of the replay log,  *)
(* which the target does not keep: the snapshot is written once and never  *)
(* replaced, a memo key keeps the first output it got, and gets it only    *)
(* under the sealed snapshot.                                              *)
TargetRefinement == Target!Spec

(* The envelopes of w have all been published.                             *)
Arrived(w) ==
  \A i \in DOMAIN ExportFromWorkflow(w) :
    \E p \in Channels : /\ Carries(p, w)
                        /\ \E j \in DOMAIN log[p] : log[p][j] = ExportFromWorkflow(w)[i]

(* The target holds a row that one of w's would have to replace.           *)
Blocked(w) ==
  LET batch == IF Mode[w] = "cdc" THEN ExportFromWorkflow(w) ELSE SourceBatch \o SourceRows(w)
  IN  replica[w] # "None" /\ \E i \in DOMAIN batch : Refused(batch[i])

(* docs/adr/0012: cdc mode requeues until all domino chain events arrive.  *)
(* Over the in-process bus a replica becomes Ready once all of them have   *)
(* arrived, however attempts break off and start too early, and a direct   *)
(* one as soon as it exists, unless the target's own rows forbid it or a   *)
(* restart takes the envelopes off the bus again.                          *)
ReplicaConverges ==
  \A w \in Workflows : Transport[w] = "memory" =>
    ((replica[w] # "None" /\ (Mode[w] = "cdc" => Arrived(w)))
       ~> (replica[w] = "Ready" \/ Blocked(w) \/ (Mode[w] = "cdc" /\ ~Arrived(w))))
=============================================================================
