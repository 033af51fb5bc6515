-------------------------- MODULE WorkflowController --------------------------
(***************************************************************************)
(* A Workflow and the DominoChain that runs it in containers: the Workflow *)
(* reconciler (internal/controller/workflow_controller.go), the            *)
(* DominoChain reconciler (internal/controller/dominochain_controller.go), *)
(* the objects they own and the garbage collector.                         *)
(*                                                                         *)
(* The engine is abstracted to the spec it ran: status.result is the spec  *)
(* whose snapshot and dominos status reports.  Leader election is off by   *)
(* default, so several managers may reconcile one Workflow.  A reconcile   *)
(* holds a copy of it from its first status update to its last; the API    *)
(* server refuses the last one if the Workflow was written in between.     *)
(***************************************************************************)
EXTENDS Naturals

CONSTANTS
  Managers,      \* the managers, each with a Workflow reconciler
  Specs,         \* the specs users give the Workflow
  Runtime,       \* Runtime[s]: spec.execution.runtime, "local" when s needs no containers
  Julia,         \* the specs with julia: commands, which the operator cannot replay
  Remote,        \* the other specs whose snapshot is a path or a URI, lost by the replay of a chain
  Sealed,        \* the specs whose snapshot is sealed before any of this
  NoSpec,        \* no spec
  MaxTurns       \* bound: edits, deletions, later creations and faults, together

Runtimes == {"local", "kubernetes-init", "volcano-init", "openkruise"}

ASSUME SpecAssumption ==
  /\ NoSpec \notin Specs /\ Runtime \in [Specs -> Runtimes]
  /\ Julia \subseteq Specs /\ Remote \subseteq Specs \ Julia /\ Sealed \subseteq Specs

ASSUME BoundAssumption == MaxTurns \in Nat

\* What a chain has created in the cluster: the ImagePullJob, the Pod and the
\* Volcano Job, each under a name derived from the chain's.
Kinds == {"pull", "pod", "job"}

VARIABLES
  wf,      \* the Workflow object
  ready,   \* the specs whose snapshot is sealed
  chain,   \* the DominoChain <name>-dchain; its uid is that of its owner
  work,    \* work[k]: the object of kind k
  ran,     \* the containers that have succeeded: whose they were, and their spec
  replay,  \* the ConfigMap <name>-replay
  rec,     \* rec[m]: the Workflow reconcile that manager m has in progress
  spent    \* turns so far: edits, deletions, later creations and faults

vars == <<wf, ready, chain, work, ran, replay, rec, spent>>
-----------------------------------------------------------------------------
\* Objects.  Owner 0 is no object.

Status(phase, observed, result, ref) ==
  [phase |-> phase, observed |-> observed, result |-> result, ref |-> ref]

NewStatus == Status("", 0, NoSpec, FALSE)

Workflow(exists, uid, generation, spec, finalizer, deleting, status) ==
  [exists |-> exists, uid |-> uid, generation |-> generation, spec |-> spec,
   finalizer |-> finalizer, deleting |-> deleting, status |-> status]

\* No Workflow; uid counts the ones there have been.
Gone(uid) == Workflow(FALSE, uid, 0, NoSpec, FALSE, FALSE, NewStatus)

Chain(owner, spec, phase, finalizer, deleting) ==
  [owner |-> owner, spec |-> spec, phase |-> phase, finalizer |-> finalizer,
   deleting |-> deleting]

NoChain == Chain(0, NoSpec, "", FALSE, FALSE)

Work(owner, spec, state) == [owner |-> owner, spec |-> spec, state |-> state]

NoWork == Work(0, NoSpec, "none")

\* status is the Status of the copy that the reconcile holds; fresh, that the
\* Workflow has not been written since the copy was.
Reconcile(pc, uid, generation, spec, fresh, status) ==
  [pc |-> pc, uid |-> uid, generation |-> generation, spec |-> spec,
   fresh |-> fresh, status |-> status]

Idle == Reconcile("idle", 0, 0, NoSpec, FALSE, NewStatus)

\* late: the run was written by a reconcile whose copy was no longer fresh.
Replay(owner, run, late) == [owner |-> owner, run |-> run, late |-> late]

NoReplay == Replay(0, NoSpec, FALSE)

Init ==
  /\ wf = Gone(0)
  /\ ready = Sealed
  /\ chain = NoChain
  /\ work = [k \in Kinds |-> NoWork]
  /\ ran = {}
  /\ replay = NoReplay
  /\ rec = [m \in Managers |-> Idle]
  /\ spent = 0

Turn == spent < MaxTurns /\ spent' = spent + 1

\* A failed call, container or manager.
Fault == Turn
-----------------------------------------------------------------------------
\* Users and the cluster

\* Every copy that is held is out of date.
Overtake == rec' = [m \in Managers |-> [rec[m] EXCEPT !.fresh = FALSE]]

Create ==
  /\ ~wf.exists
  /\ \E s \in Specs : wf' = Workflow(TRUE, wf.uid + 1, 1, s, FALSE, FALSE, NewStatus)
  /\ IF wf.uid = 0 THEN UNCHANGED spent ELSE Turn
  /\ UNCHANGED <<ready, chain, work, ran, replay, rec>>

Edit ==
  /\ wf.exists /\ ~wf.deleting /\ Turn
  /\ \E s \in Specs \ {wf.spec} :
       wf' = [wf EXCEPT !.spec = s, !.generation = @ + 1]
  /\ Overtake
  /\ UNCHANGED <<ready, chain, work, ran, replay>>

\* The finalizer keeps the object until the reconciler has seen the deletion.
Delete ==
  /\ wf.exists /\ ~wf.deleting /\ Turn
  /\ wf' = IF wf.finalizer
           THEN [wf EXCEPT !.deleting = TRUE, !.generation = @ + 1]
           ELSE Gone(wf.uid)
  /\ Overtake
  /\ UNCHANGED <<ready, chain, work, ran, replay>>

\* The snapshot a spec refers to becomes ready.  Nobody looks at it before the
\* spec is in use, so what is sealed earlier may as well be sealed then.
Seal(s) ==
  /\ s \notin ready /\ (wf.spec = s \/ \E m \in Managers : rec[m].spec = s)
  /\ ready' = ready \cup {s}
  /\ UNCHANGED <<wf, chain, work, ran, replay, rec, spent>>

\* Pods and jobs end by themselves and are never restarted.
WorkSucceeds(k) ==
  /\ work[k].state = "running"
  /\ work' = [work EXCEPT ![k] = Work(work[k].owner, work[k].spec, "succeeded")]
  /\ ran' = IF k = "pull" THEN ran ELSE ran \cup {[owner |-> work[k].owner, spec |-> work[k].spec]}
  /\ UNCHANGED <<wf, ready, chain, replay, rec, spent>>

WorkFails(k) ==
  /\ work[k].state = "running" /\ Fault
  /\ work' = [work EXCEPT ![k] = Work(work[k].owner, work[k].spec, "failed")]
  /\ UNCHANGED <<wf, ready, chain, ran, replay, rec>>

\* The garbage collector, by owner references.
Orphan(owner) == owner # 0 /\ ~(wf.exists /\ wf.uid = owner)

CollectChain ==
  /\ Orphan(chain.owner) /\ ~chain.deleting
  /\ chain' = IF chain.finalizer THEN [chain EXCEPT !.deleting = TRUE] ELSE NoChain
  /\ UNCHANGED <<wf, ready, work, ran, replay, rec, spent>>

CollectReplay ==
  /\ Orphan(replay.owner)
  /\ replay' = NoReplay
  /\ UNCHANGED <<wf, ready, chain, work, ran, rec, spent>>

\* A Workflow that is gone may be given a second chain by a late reconcile,
\* and what its first one created then belongs to no chain either.
CollectWork(k) ==
  /\ work[k].owner # 0 /\ (work[k].owner # chain.owner \/ Orphan(work[k].owner))
  /\ work' = [work EXCEPT ![k] = NoWork]
  /\ UNCHANGED <<wf, ready, chain, ran, replay, rec, spent>>
-----------------------------------------------------------------------------
\* The DominoChain reconciler.  The chain's spec is written once, by its
\* creator, and only this reconciler writes its status: one step.

\* Mutant: the phase of the Pod is copied instead of translated.
VerdictOfPod(state) ==
  IF state = "succeeded" THEN "Completed"
  ELSE IF state = "failed" THEN "Failed"
  ELSE "Running"

\* Mutant: containers that have not terminated count as complete.
VerdictEarly(state) ==
  IF state = "failed" THEN "Error" ELSE "Completed"

\* The phase a chain gets for the state of its containers.  When they have
\* succeeded the operator replays the chain, except one with julia steps, from
\* a copy that keeps only an inline snapshot.
Verdict(state) ==
  IF state \in {"none", "running"} THEN "Running"
  ELSE IF state = "succeeded" /\ chain.spec \notin Remote THEN "Completed"
  ELSE "Error"

\* An object that exists is left alone, whoever created it.
ensure(k, objects) ==
  IF objects[k].owner # 0 THEN objects
  ELSE [objects EXCEPT ![k] = Work(chain.owner, chain.spec, "running")]

\* phase after what the containers are seen to do; Error is retried.
finishChain(state) ==
  chain' = Chain(chain.owner, chain.spec, Verdict(state), chain.finalizer, chain.deleting)

reconcileInitChain ==
  LET after == ensure("pod", work)
  IN /\ work' = after
     /\ finishChain(after["pod"].state)

\* The job's own verdict, else that of any pod that carries the chain's label.
reconcileVolcano ==
  LET after == ensure("job", work)
  IN /\ work' = after
     /\ finishChain(IF after["job"].state # "running" THEN after["job"].state
                    ELSE after["pod"].state)

\* The slots are the main containers; a Pod left from an init chain has none
\* that ends.
openKruiseSlotsComplete(pod) ==
  IF pod.state = "succeeded" /\ Runtime[pod.spec] # "openkruise" THEN "running"
  ELSE pod.state

\* The pod is created once the images are pulled.
reconcileOpenKruise ==
  LET pulled == ensure("pull", work)
      after  == ensure("pod", pulled)
  IN IF pulled["pull"].state = "succeeded"
     THEN work' = after /\ finishChain(openKruiseSlotsComplete(after["pod"]))
     ELSE work' = pulled /\ finishChain(pulled["pull"].state)

Active == chain.owner # 0 /\ ~chain.deleting /\ chain.finalizer /\ chain.phase # "Completed"

AddChainFinalizer ==
  /\ chain.owner # 0 /\ ~chain.deleting /\ ~chain.finalizer
  /\ chain' = [chain EXCEPT !.finalizer = TRUE]
  /\ UNCHANGED <<wf, ready, work, ran, replay, rec, spent>>

finalizeChain ==
  /\ chain.deleting
  /\ chain' = NoChain
  /\ UNCHANGED <<wf, ready, work, ran, replay, rec, spent>>

ReconcileChain ==
  /\ Active
  /\ \/ Runtime[chain.spec] = "kubernetes-init" /\ reconcileInitChain
     \/ Runtime[chain.spec] = "volcano-init" /\ reconcileVolcano
     \/ Runtime[chain.spec] = "openkruise" /\ reconcileOpenKruise
  /\ UNCHANGED <<wf, ready, ran, replay, rec, spent>>

failChain ==
  /\ Active /\ Fault
  /\ chain' = [chain EXCEPT !.phase = "Error"]
  /\ UNCHANGED <<wf, ready, work, ran, replay, rec>>
-----------------------------------------------------------------------------
\* The Workflow reconciler

Settled(w) == w.status.phase = "Completed" /\ w.status.observed = w.generation

AddFinalizer(m) ==
  /\ rec[m].pc = "idle" /\ wf.exists /\ ~wf.deleting /\ ~wf.finalizer
  /\ wf' = [wf EXCEPT !.finalizer = TRUE]
  /\ UNCHANGED <<ready, chain, work, ran, replay, rec, spent>>

finalize(m) ==
  /\ rec[m].pc = "idle" /\ wf.exists /\ wf.deleting
  /\ wf' = Gone(wf.uid)
  /\ UNCHANGED <<ready, chain, work, ran, replay, rec, spent>>

Runnable(m) == rec[m].pc = "idle" /\ wf.exists /\ ~wf.deleting /\ wf.finalizer

\* Mutant: a Workflow in Error is not run again.
BeginUnlessError(m) ==
  /\ Runnable(m) /\ ~Settled(wf) /\ wf.status.phase # "Error"
  /\ wf' = [wf EXCEPT !.status.phase = "Running"]
  /\ rec' = [rec EXCEPT ![m] = Reconcile("run", wf.uid, wf.generation, wf.spec, TRUE, wf'.status)]
  /\ UNCHANGED <<ready, chain, work, ran, replay, spent>>

\* The reconcile reads the Workflow and marks it Running; a read that lags
\* behind is refused and tried again.  Where another manager holds a fresh
\* copy the Workflow is marked already: the update changes nothing, and that
\* copy stays fresh.
Begin(m) ==
  /\ Runnable(m) /\ ~Settled(wf)
  /\ LET running == Status("Running", wf.status.observed, wf.status.result, wf.status.ref)
     IN /\ wf' = Workflow(TRUE, wf.uid, wf.generation, wf.spec, TRUE, FALSE, running)
        /\ rec' = [rec EXCEPT ![m] = Reconcile("run", wf.uid, wf.generation, wf.spec, TRUE, running)]
  /\ UNCHANGED <<ready, chain, work, ran, replay, spent>>

\* The reconcile goes on to its last status update.
Conclude(m, phase, observed, result, ref) ==
  rec' = [rec EXCEPT ![m] = Reconcile("commit", rec[m].uid, rec[m].generation, rec[m].spec,
                                      rec[m].fresh, Status(phase, observed, result, ref))]

Keep(m, phase) == Conclude(m, phase, rec[m].status.observed, rec[m].status.result, rec[m].status.ref)

\* Mutant: the ConfigMap is created and never updated.
writeReplayLogOnce(m, run) ==
  replay' = IF replay.owner = 0 THEN Replay(rec[m].uid, run, ~rec[m].fresh) ELSE replay

\* An existing ConfigMap gets new data and keeps its owner, whatever has become
\* of the Workflow meanwhile.
writeReplayLog(m, run) ==
  replay' = Replay(IF replay.owner = 0 THEN rec[m].uid ELSE replay.owner, run, ~rec[m].fresh)

\* The engine ran; the replay log may fail to be written, which is not an error.
complete(m, run) ==
  \/ /\ writeReplayLog(m, run)
     /\ Conclude(m, "Completed", rec[m].generation, run, TRUE)
     /\ UNCHANGED spent
  \/ /\ Fault
     /\ Conclude(m, "Completed", rec[m].generation, run, FALSE)
     /\ UNCHANGED replay

Running(m, local) == rec[m].pc = "run" /\ (Runtime[rec[m].spec] = "local") = local

execute(m) ==
  /\ Running(m, TRUE) /\ rec[m].spec \in ready
  /\ complete(m, rec[m].spec)
  /\ UNCHANGED <<wf, ready, chain, work, ran>>

\* A snapshot that is not ready stops a local run and the creation of a chain.
isSnapshotNotReady(m) ==
  /\ rec[m].pc = "run" /\ rec[m].spec \notin ready
  /\ Runtime[rec[m].spec] # "local" => chain.owner = 0
  /\ Keep(m, "Pending")
  /\ UNCHANGED <<wf, ready, chain, work, ran, replay, spent>>

createChain(m) ==
  /\ Running(m, FALSE) /\ rec[m].spec \in ready /\ chain.owner = 0
  /\ chain' = Chain(rec[m].uid, rec[m].spec, "", FALSE, FALSE)
  /\ Keep(m, "Running")
  /\ UNCHANGED <<wf, ready, work, ran, replay, spent>>

awaitChain(m) ==
  /\ Running(m, FALSE) /\ chain.owner # 0 /\ chain.phase \notin {"Completed", "Error"}
  /\ Keep(m, "Running")
  /\ UNCHANGED <<wf, ready, chain, work, ran, replay, spent>>

skipJuliaOperatorReplay(m) == chain.spec \in Julia \/ rec[m].spec \in Julia

\* Mutant: the run of the chain is reported, whatever the Workflow says now.
completeFromOldChain(m) ==
  /\ Running(m, FALSE) /\ chain.owner # 0 /\ chain.phase = "Completed"
  /\ ~skipJuliaOperatorReplay(m) /\ rec[m].spec \in ready
  /\ complete(m, chain.spec)
  /\ UNCHANGED <<wf, ready, chain, work, ran>>

\* The chain has completed: the operator runs the Workflow's own spec again.
completeFromChain(m) ==
  /\ Running(m, FALSE) /\ chain.owner # 0 /\ chain.phase = "Completed"
  /\ ~skipJuliaOperatorReplay(m) /\ rec[m].spec \in ready
  /\ complete(m, rec[m].spec)
  /\ UNCHANGED <<wf, ready, chain, work, ran>>

\* ... or, with julia steps, reports what the chain says of itself, without a
\* new replay log.
completeFromChainStatus(m) ==
  /\ Running(m, FALSE) /\ chain.owner # 0 /\ chain.phase = "Completed"
  /\ skipJuliaOperatorReplay(m)
  /\ Conclude(m, "Completed", rec[m].generation, chain.spec, rec[m].status.ref)
  /\ UNCHANGED <<wf, ready, chain, work, ran, replay, spent>>

\* A failed chain, and a completed one for which the snapshot is not ready.
failFromChain(m) ==
  /\ Running(m, FALSE) /\ chain.owner # 0
  /\ \/ chain.phase = "Error"
     \/ chain.phase = "Completed" /\ ~skipJuliaOperatorReplay(m) /\ rec[m].spec \notin ready
  /\ Keep(m, "Error")
  /\ UNCHANGED <<wf, ready, chain, work, ran, replay, spent>>

\* The universe, the store, the engine or the API server returns an error, such
\* as that another manager has created the chain in between.
fail(m) ==
  /\ rec[m].pc = "run" /\ Fault
  /\ Keep(m, "Error")
  /\ UNCHANGED <<wf, ready, chain, work, ran, replay>>

Run(m) ==
  \/ execute(m) \/ isSnapshotNotReady(m) \/ createChain(m) \/ awaitChain(m)
  \/ completeFromChain(m) \/ completeFromChainStatus(m) \/ failFromChain(m)

\* The API server refuses the last status update.
Refused(m) ==
  /\ ~rec[m].fresh
  /\ rec' = [rec EXCEPT ![m] = Idle]
  /\ UNCHANGED wf

\* ... or accepts it; it sets the message, if nothing else.
Accepted(m) ==
  /\ wf' = [wf EXCEPT !.status = rec[m].status]
  /\ rec' = [n \in Managers |-> IF n = m THEN Idle ELSE [rec[n] EXCEPT !.fresh = FALSE]]

\* Mutant: a refused update is sent again with the version the Workflow has by then.
CommitAgain(m) ==
  /\ rec[m].pc = "commit"
  /\ \/ wf.uid # rec[m].uid /\ Refused(m)
     \/ wf.uid = rec[m].uid /\ wf.exists /\ Accepted(m)
  /\ UNCHANGED <<ready, chain, work, ran, replay, spent>>

\* The last status update, refused if the Workflow was written meanwhile.
Commit(m) ==
  /\ rec[m].pc = "commit"
  /\ Refused(m) \/ (rec[m].fresh /\ Accepted(m))
  /\ UNCHANGED <<ready, chain, work, ran, replay, spent>>

\* The manager restarts, or the last status update fails.
Abandon(m) ==
  /\ rec[m].pc # "idle" /\ Fault
  /\ rec' = [rec EXCEPT ![m] = Idle]
  /\ UNCHANGED <<wf, ready, chain, work, ran, replay>>

User == Create \/ Edit \/ Delete

Cluster ==
  \/ \E s \in Specs : Seal(s)
  \/ \E k \in Kinds : WorkSucceeds(k) \/ WorkFails(k) \/ CollectWork(k)
  \/ CollectChain \/ CollectReplay

ChainReconciler == AddChainFinalizer \/ finalizeChain \/ ReconcileChain \/ failChain

WorkflowReconciler(m) ==
  AddFinalizer(m) \/ finalize(m) \/ Begin(m) \/ Run(m) \/ fail(m) \/ Commit(m) \/ Abandon(m)

Next ==
  User \/ Cluster \/ ChainReconciler \/ \E m \in Managers : WorkflowReconciler(m)

Spec == Init /\ [][Next]_vars

\* Every outcome of a reconcile but Completed returns an error or a requeue
\* period; containers end; snapshots become ready; orphans are collected.
Fairness ==
  /\ \A m \in Managers : /\ WF_vars(AddFinalizer(m)) /\ WF_vars(finalize(m))
                         /\ WF_vars(Begin(m)) /\ WF_vars(Run(m)) /\ WF_vars(Commit(m))
  /\ WF_vars(AddChainFinalizer) /\ WF_vars(finalizeChain) /\ WF_vars(ReconcileChain)
  /\ WF_vars(CollectChain) /\ WF_vars(CollectReplay)
  /\ \A k \in Kinds : WF_vars(WorkSucceeds(k)) /\ WF_vars(CollectWork(k))
  /\ \A s \in Specs : WF_vars(Seal(s))

FairSpec == Spec /\ Fairness
-----------------------------------------------------------------------------
StatusType ==
  [phase : {"", "Pending", "Running", "Completed", "Error"}, observed : Nat,
   result : Specs \cup {NoSpec}, ref : BOOLEAN]

WorkflowType ==
  [exists : BOOLEAN, uid : Nat, generation : Nat, spec : Specs \cup {NoSpec},
   finalizer : BOOLEAN, deleting : BOOLEAN, status : StatusType]

ChainType ==
  [owner : Nat, spec : Specs \cup {NoSpec}, phase : {"", "Running", "Completed", "Error"},
   finalizer : BOOLEAN, deleting : BOOLEAN]

WorkType ==
  [owner : Nat, spec : Specs \cup {NoSpec}, state : {"none", "running", "succeeded", "failed"}]

RecType ==
  [pc : {"idle", "run", "commit"}, uid : Nat, generation : Nat, spec : Specs \cup {NoSpec},
   fresh : BOOLEAN, status : StatusType]

\* The types of the variables; an object that exists has a spec.
TypeOK ==
  /\ wf \in WorkflowType /\ (wf.exists => wf.spec \in Specs)
  /\ ready \subseteq Specs
  /\ chain \in ChainType /\ (chain.owner # 0 => chain.spec \in Specs)
  /\ work \in [Kinds -> WorkType]
  /\ \A k \in Kinds : work[k].owner # 0 => work[k].spec \in Specs
  /\ \A k \in Kinds : work[k].state = "running" => work[k].owner # 0
  /\ ran \subseteq [owner : Nat, spec : Specs]
  /\ replay \in [owner : Nat, run : Specs \cup {NoSpec}, late : BOOLEAN]
  /\ rec \in [Managers -> RecType]
  /\ \A m \in Managers : rec[m].pc # "idle" => rec[m].spec \in Specs
  /\ spent \in Nat

\* The operator can replay the spec and the run that is reported for it.
Replayable(spec, status) == spec \notin Julia /\ status.result \notin Julia

\* A Workflow whose status is Completed for its current generation reports a
\* run of the spec it has now, not of the spec before an edit that raced the
\* reconcile, nor of a chain left from an earlier spec, as long as the operator
\* replays the run (workflow_controller.go execute, completeFromChain).
CompletedIsCurrent ==
  wf.exists /\ Settled(wf) /\ Replayable(wf.spec, wf.status) =>
    wf.status.result = wf.spec

\* The replay ConfigMap holds the very run that the status refers to it for
\* (writeReplayLog, status.replayLogRef), however the managers interleave, but
\* in two cases: a reconcile whose copy had been overtaken wrote it last, or it
\* was found with an earlier Workflow as its owner and is collected with that.
ReplayMatches ==
  wf.exists /\ Settled(wf) /\ Replayable(wf.spec, wf.status) /\ wf.status.ref =>
    \/ replay.run = wf.status.result
    \/ replay.late
    \/ replay.owner = 0 /\ wf.uid > 1

\* A Workflow Completed for its generation is left alone until it is edited
\* or deleted: a reconcile that another manager still has in progress does not
\* overwrite its status (workflow_controller.go execute, the updates of a copy).
SettledStays ==
  [][wf.exists /\ Settled(wf) /\ wf'.uid = wf.uid /\ wf'.generation = wf.generation =>
       wf'.status = wf.status]_vars

\* The DominoChain of the Workflow is Completed only after containers of its
\* own ran its spec to the end, or after ones that an earlier Workflow of its
\* name left did, which it takes for its own (dominochain_controller.go
\* initChainComplete, ensurePod).
ChainRan ==
  wf.exists /\ chain.owner = wf.uid /\ chain.phase = "Completed" =>
    \E r \in ran : \/ r.owner = chain.owner /\ r.spec = chain.spec
                   \/ r.owner < chain.owner

ContainersFailed == \E k \in Kinds : work[k].owner = wf.uid /\ work[k].state = "failed"

ChainCannotFinish == chain.owner = wf.uid /\ chain.spec \in Remote

\* A Workflow that is not deleted ends Completed for its generation, whatever
\* was in the cluster under its chain's name before it and however the managers
\* refuse each other's updates, unless its own containers failed or its chain
\* has a snapshot that the replay of the chain loses (RequeueAfter and returned
\* errors of execute; dominoChainToWorkflow).
Converges == <>[](~wf.exists \/ Settled(wf) \/ ContainersFailed \/ ChainCannotFinish)
-----------------------------------------------------------------------------
\* What the documents say and the code does not do: the result in the status
\* of a Completed Workflow is one of its current spec, julia steps or not.
ReportsItsSpec == wf.exists /\ Settled(wf) => wf.status.result = wf.spec
=============================================================================
