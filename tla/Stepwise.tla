------------------------------ MODULE Stepwise ------------------------------
(***************************************************************************)
(* The stepwise path: standalone Domino resources executed one by one on a *)
(* sealed Snapshot, through the file store's service                       *)
(* (internal/controller/domino_controller.go, snapshot_controller.go,      *)
(* Engine.RunSingleFrom).                                                  *)
(*                                                                         *)
(* Every manager runs one worker per controller, and there are several     *)
(* managers when leader election is off, its default.  A worker reads a    *)
(* Domino, waits for its dependencies, marks it Running, reads the head of *)
(* the replay log, looks the memo up or executes, posts the result and     *)
(* reports it; the others act between any two of these.  A copy read from  *)
(* a lagging cache is refused at the Running update, before anything is    *)
(* stored, so reads are taken to be current and "fresh" records whether    *)
(* the resource has changed since.                                         *)
(*                                                                         *)
(* A client gives a request up after ten seconds, and a manager may die;   *)
(* the service may still serve such a request later.  One Snapshot is      *)
(* modelled, whose spec is not edited (SnapshotReconciler has the edits);  *)
(* the file it names is.                                                   *)
(***************************************************************************)
EXTENDS FileStore, FiniteSets

CONSTANTS
  Managers,       \* controller managers
  Steady,         \* those that stay up; the others may stop for good anywhere
  Takes,          \* the dominos each manager gets to take, all for Steady
  Dominos,        \* Domino resources
  Commands,       \* domino commands
  Julia,          \* those the operator has no interpreter for
  Command,        \* the command of each domino at the start
  DependsOn,      \* spec.dependsOn, a sequence per domino
  InputsOf,       \* spec.inputs: selectors, or Absent when there are none
  OutputValues,   \* what commands output
  Produces(_, _, _), \* Produces(c, v, o): command c may output o on input v
  Time,           \* the time slice of the Snapshot
  InitSource,     \* what the Snapshot's path yields at the start
  SourceWrites,   \* what it may become: payloads, or Absent
  CommandEdits,   \* the commands a user may edit a domino to
  MaxSealEvents,  \* bound: edits and faults until the Snapshot is sealed
  MaxRunEvents,   \* bound: edits and faults, those included, once it is
  MaxStray        \* bound: contents let in by failed reads of the snapshot

Selectors == Dominos \cup {"snapshot"}

ASSUME StepwiseAssumption ==
  /\ "snapshot" \notin Dominos
  /\ Absent \notin Dominos \cup Managers
  /\ Steady \subseteq Managers
  /\ Takes \in [Managers -> SUBSET Dominos]
  /\ \A m \in Steady : Takes[m] = Dominos
  /\ Absent \notin Seq(Selectors)
  /\ Command \in [Dominos -> Commands]
  /\ DependsOn \in [Dominos -> Seq(Dominos)]
  /\ InputsOf \in [Dominos -> Seq(Selectors) \cup {Absent}]
  /\ Time \in Times
  /\ InitSource \in Bytes \cup {Absent}
  /\ SourceWrites \subseteq Bytes \cup {Absent}
  /\ CommandEdits \subseteq Commands
  /\ MaxSealEvents \in Nat /\ MaxRunEvents \in Nat /\ MaxStray \in Nat
  /\ Absent \notin Contents

VARIABLES
  source,    \* what the path of the Snapshot currently yields
  snap,      \* Snapshot.status
  sealer,    \* the Snapshot reconcile of each manager
  domino,    \* the Domino resources
  worker,    \* the Domino reconcile of each manager
  late,      \* requests given up by their client that the service still has
  alone,     \* no reconcile has started while another was under way
  stray,     \* contents of the source that were run on after a failed read
  events     \* edits of users and faults so far

vars == <<fileVars, source, snap, sealer, domino, worker, late, alone, stray, events>>

\* Unsealed, Waiting and Parked are the phase Pending, with its message.
Phases ==
  {"", "Unsealed", "Waiting", "Parked", "Running", "Error", "Completed", "Cached"}

Complete == {"Completed", "Cached"}

IdleWorker ==
  [pc |-> "idle", d |-> Absent, gen |-> 0, cmd |-> Absent, fresh |-> FALSE,
   outs |-> <<>>, prev |-> Absent, read |-> Absent, row |-> Absent]

IdleSealer == [pc |-> "idle", id |-> Absent, data |-> Absent, fresh |-> FALSE]

Init ==
  /\ InitFiles
  /\ source = InitSource
  /\ snap = [phase |-> "", id |-> Absent]
  /\ sealer = [m \in Managers |-> IdleSealer]
  /\ domino = [d \in Dominos |-> [gen |-> 1, cmd |-> Command[d], phase |-> "",
                                  observed |-> 0, row |-> Absent]]
  /\ worker = [m \in Managers |-> IdleWorker]
  /\ late = {}
  /\ alone = TRUE
  /\ stray = {}
  /\ events = 0

-----------------------------------------------------------------------------
(* Status updates.  An update that changes nothing leaves other copies     *)
(* fresh; Error and completion carry the time, so they always change.      *)

SetDomino(m, d, new, next) ==
  LET changed == new # domino[d] \/ new.phase \in Complete \cup {"Error"}
  IN  /\ domino' = [domino EXCEPT ![d] = new]
      /\ worker' = [v \in Managers |->
           IF v = m THEN next
           ELSE [worker[v] EXCEPT !.fresh = @ /\ ~(changed /\ worker[v].d = d)]]

\* Status().Update with another phase only.
SetPhase(m, d, phase, next) ==
  SetDomino(m, d, [domino[d] EXCEPT !.phase = phase], next)

\* fail: phase Error from the copy at hand, a conflict ignored; the error
\* makes the work queue try again.
fail(m) ==
  IF worker[m].fresh THEN SetPhase(m, worker[m].d, "Error", IdleWorker)
  ELSE worker' = [worker EXCEPT ![m] = IdleWorker] /\ UNCHANGED domino

\* A conflict in any other update is returned as it is.
Conflict(m) == worker' = [worker EXCEPT ![m] = IdleWorker] /\ UNCHANGED domino

SetSnapshot(m, phase, id, next) ==
  LET changed == phase \in {"Sealed", "Error"} \/ snap.phase # phase \/ snap.id # id
  IN  /\ snap' = [phase |-> phase, id |-> id]
      /\ sealer' = [v \in Managers |->
           IF v = m THEN next ELSE [sealer[v] EXCEPT !.fresh = @ /\ ~changed]]

failSeal(m) ==
  IF sealer[m].fresh THEN SetSnapshot(m, "Error", snap.id, IdleSealer)
  ELSE sealer' = [sealer EXCEPT ![m] = IdleSealer] /\ UNCHANGED snap

-----------------------------------------------------------------------------
(* SnapshotReconciler.Reconcile through the service.                       *)

\* Mutant: a payload that is not JSON is stored as it was read.
RawBytes(raw) == raw

SealedBytes(raw) == IF raw \in JSON THEN raw ELSE Marshal[Parse[raw]]

SourceNotReady(m) ==
  /\ sealer[m].pc = "idle"
  /\ snap.phase # "Sealed"
  /\ source = Absent
  /\ SetSnapshot(m, "Pending", Absent, IdleSealer)
  /\ UNCHANGED <<fileVars, source, domino, worker, late, alone, stray, events>>

SealToBackend(m) ==
  /\ sealer[m].pc = "idle"
  /\ snap.phase # "Sealed"
  /\ source # Absent
  /\ sealer' = [sealer EXCEPT ![m] =
       [pc |-> "posted", id |-> SnapshotID(Time, Parse[source]),
        data |-> SealedBytes(source), fresh |-> TRUE]]
  /\ UNCHANGED <<fileVars, source, snap, domino, worker, late, alone, stray, events>>

SealReplied(m) ==
  /\ \/ sealer[m].pc = "refused" /\ failSeal(m)
     \/ /\ sealer[m].pc = "saved"
        /\ IF sealer[m].fresh THEN SetSnapshot(m, "Sealed", sealer[m].id, IdleSealer)
             ELSE sealer' = [sealer EXCEPT ![m] = IdleSealer] /\ UNCHANGED snap
  /\ UNCHANGED <<fileVars, source, domino, worker, late, alone, stray, events>>

-----------------------------------------------------------------------------
(* DominoReconciler.Reconcile.                                             *)

Finished(d) == domino[d].observed = domino[d].gen /\ domino[d].phase \in Complete

Others(m) == Managers \ {m}

\* No other reconcile is under way, at its manager or at the service.
Undisturbed(m) ==
  /\ \A v \in Others(m) : worker[v].pc = "idle"
  /\ \A r \in late : r.req.op # "result"

\* The reconcile ends at once, with a status that says what it waits for.
Postpone(m, d) ==
  /\ worker[m].pc = "idle"
  /\ ~Finished(d)
  /\ IF snap.phase # "Sealed" THEN SetPhase(m, d, "Unsealed", IdleWorker)
       ELSE domino[d].cmd \in Julia /\ SetPhase(m, d, "Parked", IdleWorker)
  /\ UNCHANGED <<fileVars, source, snap, sealer, late, alone, stray, events>>

Reconcile(m, d) ==
  /\ worker[m].pc = "idle"
  /\ ~Finished(d)
  /\ snap.phase = "Sealed"
  /\ domino[d].cmd \notin Julia
  /\ worker' = [worker EXCEPT ![m] =
       [IdleWorker EXCEPT !.pc = "deps", !.d = d, !.gen = domino[d].gen,
                          !.cmd = domino[d].cmd, !.fresh = TRUE]]
  /\ alone' = (alone /\ Undisturbed(m))
  /\ UNCHANGED <<fileVars, source, snap, sealer, domino, late, stray, events>>

\* The dependency whose output is loaded next.
NextDep(m) == DependsOn[worker[m].d][Len(worker[m].outs) + 1]

\* Mutant: a dependency whose output was reused does not count.
DependencyCompleted(dep) == domino[dep].phase = "Completed"

\* The phase of a dependency, whatever its generation.
DependencyReady(dep) == domino[dep].phase \in Complete

\* loadDependencyOutputs: is the next dependency ready?
CheckDependency(m) ==
  /\ worker[m].pc = "deps"
  /\ Len(worker[m].outs) < Len(DependsOn[worker[m].d])
  /\ IF DependencyReady(NextDep(m))
       THEN worker' = [worker EXCEPT ![m].pc = "output"] /\ UNCHANGED domino
     ELSE IF worker[m].fresh
       THEN SetPhase(m, worker[m].d, "Waiting", IdleWorker)
       ELSE Conflict(m)
  /\ UNCHANGED <<fileVars, source, snap, sealer, late, alone, stray, events>>

\* loadDependencyOutputs: GetDominoOutput, from the replay log.
LoadOutput(m) ==
  /\ worker[m].pc = "output"
  /\ IF ListReplayFails \/ RowsOf(NextDep(m)) = {} THEN fail(m)
     ELSE /\ worker' = [worker EXCEPT ![m].pc = "deps",
               ![m].outs = Append(@, LastSpineResult(NextDep(m)).output)]
          /\ UNCHANGED domino
  /\ UNCHANGED <<fileVars, source, snap, sealer, late, alone, stray, events>>

MarkRunning(m) ==
  /\ worker[m].pc = "deps"
  /\ Len(worker[m].outs) = Len(DependsOn[worker[m].d])
  /\ IF worker[m].fresh
       THEN SetPhase(m, worker[m].d, "Running", [worker[m] EXCEPT !.pc = "head"])
       ELSE Conflict(m)
  /\ UNCHANGED <<fileVars, source, snap, sealer, late, alone, stray, events>>

ReadHead(m) ==
  /\ worker[m].pc = "head"
  /\ IF ListReplayFails THEN fail(m)
       ELSE /\ worker' = [worker EXCEPT ![m].pc = "run", ![m].prev = SpineHead(snap.id)]
            /\ UNCHANGED domino
  /\ UNCHANGED <<fileVars, source, snap, sealer, late, alone, stray, events>>

-----------------------------------------------------------------------------
(* Engine.RunSingleFrom: resolve the inputs, look the memo up, execute.    *)

Atoms == Contents \cup OutputValues

Inputs == Atoms \cup Seq(Atoms)

\* Mutant: the source before the store.
SourceOrStored(id) == IF source # Absent THEN source ELSE GetSnapshotData(id)

\* ResolveEngineContentPreferStore: the stored payload, else whatever the
\* source yields now.
StoreOrSource(id) ==
  IF GetSnapshotData(id) # Absent THEN GetSnapshotData(id) ELSE source

\* A stored payload has to be JSON, a source only has to be there.
ContentResolves(id) ==
  IF GetSnapshotData(id) # Absent THEN GetSnapshotData(id) \in JSON
  ELSE source # Absent

\* The map of prior outputs has the dependencies only.
Dependencies(d) == {DependsOn[d][i] : i \in DOMAIN DependsOn[d]}

SelectorsResolve(d) ==
  InputsOf[d] # Absent =>
    \A i \in DOMAIN InputsOf[d] : InputsOf[d][i] \in Dependencies(d) \cup {"snapshot"}

\* A dependency listed twice is in the map once, with the later output.
PriorOutput(d, outs, dep) ==
  outs[CHOOSE i \in DOMAIN outs :
         /\ DependsOn[d][i] = dep
         /\ \A j \in DOMAIN outs : DependsOn[d][j] = dep => j <= i]

\* No inputs: the content.  One part: that part.  Otherwise: the list.
resolveInputs(d, content, outs) ==
  LET parts == [i \in DOMAIN InputsOf[d] |->
                  IF InputsOf[d][i] = "snapshot" THEN content
                  ELSE PriorOutput(d, outs, InputsOf[d][i])]
  IN  IF InputsOf[d] = Absent THEN content
      ELSE IF Len(InputsOf[d]) = 1 THEN parts[1] ELSE parts

\* The service answers 404 to a read of the snapshot that fails for whatever
\* reason, which is no error: the source is run on, its identity unchecked.
\* (With the sealed content in the source it is as if the read succeeded.)
ReadNotFound(m) ==
  /\ worker[m].pc = "run"
  /\ Cardinality(stray) < MaxStray
  /\ source # Absent
  /\ Parse[source] # snap.id[2]
  /\ worker' = [worker EXCEPT ![m].read = Parse[source]]
  /\ stray' = stray \cup {Parse[source]}
  /\ UNCHANGED <<fileVars, source, snap, sealer, domino, late, alone, events>>

Content(m) ==
  IF worker[m].read # Absent THEN worker[m].read ELSE Parse[StoreOrSource(snap.id)]

Resolvable(m) ==
  /\ worker[m].read # Absent \/ ContentResolves(snap.id)
  /\ SelectorsResolve(worker[m].d)

Input(m) == resolveInputs(worker[m].d, Content(m), worker[m].outs)

Key(m) == <<snap.id, worker[m].d, Input(m)>>

\* attachSpine, and the call of SaveResult.
Post(m, output, reused) ==
  worker' = [worker EXCEPT ![m].pc = "posted",
    ![m].row = [key |-> Key(m), output |-> output, reused |-> reused,
                prev |-> worker[m].prev,
                link |-> Link(worker[m].prev, Input(m), output)]]

Reuse(m) ==
  /\ worker[m].pc = "run"
  /\ Resolvable(m)
  /\ Key(m) \notin tornMemo
  /\ \E o \in LookupMemo(Key(m)) : Post(m, o, TRUE)
  /\ UNCHANGED <<fileVars, source, snap, sealer, domino, late, alone, stray, events>>

Execute(m) ==
  /\ worker[m].pc = "run"
  /\ Resolvable(m)
  /\ Key(m) \notin tornMemo
  /\ LookupMemo(Key(m)) = {}
  /\ \E o \in OutputValues : Produces(worker[m].cmd, Input(m), o) /\ Post(m, o, FALSE)
  /\ UNCHANGED <<fileVars, source, snap, sealer, domino, late, alone, stray, events>>

\* The content, an input, the memo or the command is an error.
CannotRun(m) ==
  /\ worker[m].pc = "run"
  /\ \/ ~Resolvable(m)
     \/ Key(m) \in tornMemo
     \/ /\ LookupMemo(Key(m)) = {}
        /\ \A o \in OutputValues : ~Produces(worker[m].cmd, Input(m), o)
  /\ fail(m)
  /\ UNCHANGED <<fileVars, source, snap, sealer, late, alone, stray, events>>

\* Mutant: the result is reported on whatever the resource is now.
ReportAnyway(m) ==
  LET w == worker[m]
  IN  /\ \/ w.pc = "refused" /\ fail(m)
         \/ /\ w.pc = "saved"
            /\ SetDomino(m, w.d, [domino[w.d] EXCEPT
                   !.phase = IF w.row.reused THEN "Cached" ELSE "Completed",
                   !.observed = domino[w.d].gen, !.row = w.row], IdleWorker)
      /\ UNCHANGED <<fileVars, source, snap, sealer, late, alone, stray, events>>

\* The answer to SaveResult: the final status, or fail.
Report(m) ==
  LET w == worker[m]
  IN  /\ \/ w.pc = "refused" /\ fail(m)
         \/ /\ w.pc = "saved"
            /\ IF w.fresh
                 THEN SetDomino(m, w.d, [domino[w.d] EXCEPT
                        !.phase = IF w.row.reused THEN "Cached" ELSE "Completed",
                        !.observed = w.gen, !.row = w.row], IdleWorker)
                 ELSE Conflict(m)
      /\ UNCHANGED <<fileVars, source, snap, sealer, late, alone, stray, events>>

-----------------------------------------------------------------------------
(* The service, and what goes wrong between it and its clients.            *)

SealRequest(m) == [op |-> "snapshot", id |-> sealer[m].id, data |-> sealer[m].data]

ResultRequest(m) == [op |-> "result", row |-> worker[m].row]

ServeSnapshot(m) ==
  /\ sealer[m].pc = "posted"
  /\ \/ Accepted(SealRequest(m)) /\ sealer' = [sealer EXCEPT ![m].pc = "saved"]
     \/ Refused(SealRequest(m)) /\ sealer' = [sealer EXCEPT ![m].pc = "refused"]
  /\ UNCHANGED <<source, snap, domino, worker, late, alone, stray, events>>

\* Mutant: the client takes any answer for success.
AnyAnswer(m) ==
  /\ worker[m].pc = "posted"
  /\ Accepted(ResultRequest(m)) \/ Refused(ResultRequest(m))
  /\ worker' = [worker EXCEPT ![m].pc = "saved"]
  /\ UNCHANGED <<source, snap, sealer, domino, late, alone, stray, events>>

ServeResult(m) ==
  /\ worker[m].pc = "posted"
  /\ \/ Accepted(ResultRequest(m)) /\ worker' = [worker EXCEPT ![m].pc = "saved"]
     \/ Refused(ResultRequest(m)) /\ worker' = [worker EXCEPT ![m].pc = "refused"]
  /\ UNCHANGED <<source, snap, sealer, domino, late, alone, stray, events>>

\* A request whose client is gone is served all the same.
ServeLate(r) ==
  /\ Accepted(r.req) \/ Refused(r.req)
  /\ late' = late \ {r}
  /\ UNCHANGED <<source, snap, sealer, domino, worker, alone, stray, events>>

\* Within the bounds on edits and faults.
Event ==
  /\ events < IF snap.phase = "Sealed" THEN MaxRunEvents ELSE MaxSealEvents
  /\ events' = events + 1

Fault == Event /\ UNCHANGED <<source, snap, alone, stray>>

\* The requests of one manager, given up and still at the service.
GivenUp(m) ==
  {[at |-> events, req |-> q] : q \in
     {r \in {SealRequest(m)} : sealer[m].pc = "posted"}
       \cup {r \in {ResultRequest(m)} : worker[m].pc = "posted"}}

\* The ten seconds of http.Client are over.
SealTimeout(m) ==
  /\ Fault
  /\ sealer[m].pc = "posted"
  /\ sealer' = [sealer EXCEPT ![m].pc = "refused"]
  /\ late' = late \cup {[at |-> events, req |-> SealRequest(m)]}
  /\ UNCHANGED <<fileVars, domino, worker>>

ResultTimeout(m) ==
  /\ Fault
  /\ worker[m].pc = "posted"
  /\ worker' = [worker EXCEPT ![m].pc = "refused"]
  /\ late' = late \cup {[at |-> events, req |-> ResultRequest(m)]}
  /\ UNCHANGED <<fileVars, sealer, domino>>

\* A manager dies and starts again.
ManagerCrash(m) ==
  /\ Fault
  /\ sealer[m].pc # "idle" \/ worker[m].pc # "idle"
  /\ sealer' = [sealer EXCEPT ![m] = IdleSealer]
  /\ worker' = [worker EXCEPT ![m] = IdleWorker]
  /\ late' = late \cup GivenUp(m)
  /\ UNCHANGED <<fileVars, domino>>

\* A read of the replay log or of the memo fails, or one of the snapshot does
\* when there is no source to fall back to.
CallFails(m) ==
  /\ Fault
  /\ worker[m].pc \in {"output", "head", "run"}
  /\ fail(m)
  /\ UNCHANGED <<fileVars, sealer, late>>

\* Writing a file fails half-way; the client gets the error.
SealWriteFails(m) ==
  /\ Fault
  /\ sealer[m].pc = "posted"
  /\ Cut(SealRequest(m))
  /\ sealer' = [sealer EXCEPT ![m].pc = "refused"]
  /\ UNCHANGED <<domino, worker, late>>

ResultWriteFails(m) ==
  /\ Fault
  /\ worker[m].pc = "posted"
  /\ Cut(ResultRequest(m))
  /\ worker' = [worker EXCEPT ![m].pc = "refused"]
  /\ UNCHANGED <<sealer, domino, late>>

\* The requests the service has.
InFlight ==
  {SealRequest(m) : m \in {v \in Managers : sealer[v].pc = "posted"}}
    \cup {ResultRequest(m) : m \in {v \in Managers : worker[v].pc = "posted"}}
    \cup {r.req : r \in late}

\* The service dies, perhaps while it writes, and starts again: whatever it
\* was asked is lost and whoever waits gets an error.
ServiceCrash ==
  /\ Fault
  /\ InFlight # {}
  /\ UNCHANGED fileVars \/ \E q \in InFlight : Cut(q)
  /\ sealer' = [m \in Managers |->
       [sealer[m] EXCEPT !.pc = IF @ = "posted" THEN "refused" ELSE @]]
  /\ worker' = [m \in Managers |->
       [worker[m] EXCEPT !.pc = IF @ = "posted" THEN "refused" ELSE @]]
  /\ late' = {}
  /\ UNCHANGED domino

-----------------------------------------------------------------------------
(* Users.                                                                  *)

\* Of the spec only the command is edited, not dependsOn, inputs, snapshotRef.
EditDomino(d) ==
  /\ Event
  /\ \E c \in CommandEdits \ {domino[d].cmd} :
       SetDomino(Absent, d, [domino[d] EXCEPT !.cmd = c, !.gen = @ + 1], IdleWorker)
  /\ UNCHANGED <<fileVars, source, snap, sealer, late, alone, stray>>

WriteSource ==
  /\ Event
  /\ source' \in SourceWrites \ {source}
  /\ UNCHANGED <<fileVars, snap, sealer, domino, worker, late, alone, stray>>

-----------------------------------------------------------------------------
Seal(m) == SourceNotReady(m) \/ SealToBackend(m) \/ SealReplied(m)

Work(m) ==
  \/ CheckDependency(m) \/ LoadOutput(m) \/ MarkRunning(m) \/ ReadHead(m)
  \/ Reuse(m) \/ Execute(m) \/ CannotRun(m) \/ Report(m)

Start(m, d) == Postpone(m, d) \/ Reconcile(m, d)

Serve ==
  \/ \E m \in Managers : ServeSnapshot(m) \/ ServeResult(m)
  \/ \E r \in late : ServeLate(r)

Faults ==
  \/ \E m \in Managers :
       \/ SealTimeout(m) \/ ResultTimeout(m) \/ ManagerCrash(m) \/ CallFails(m)
       \/ ReadNotFound(m)
       \/ SealWriteFails(m) \/ ResultWriteFails(m)
  \/ ServiceCrash

Users == WriteSource \/ \E d \in Dominos : EditDomino(d)

Next ==
  \/ \E m \in Steady : Seal(m)
  \/ \E m \in Managers : Work(m) \/ \E d \in Takes[m] : Start(m, d)
  \/ Serve \/ Faults \/ Users

Spec == Init /\ [][Next]_vars

(* A steady manager's two controllers keep taking what is queued, a failed *)
(* or postponed reconcile is queued again, the queue is served in turn so  *)
(* that no Domino is passed over for ever, and the service keeps serving.  *)
(* Nothing is asked of the other managers.                                 *)
FairSpec ==
  /\ Spec
  /\ \A m \in Steady :
       /\ WF_vars(Seal(m)) /\ WF_vars(ServeSnapshot(m))
       /\ WF_vars(Work(m)) /\ WF_vars(ServeResult(m))
       /\ \A d \in Dominos : SF_vars(Start(m, d))

-----------------------------------------------------------------------------
(* Invariants.                                                             *)

Links == SnapshotIDs \X Seq(Inputs \X OutputValues)

Keys == SnapshotIDs \X Dominos \X Inputs

Rows ==
  [key : Keys, output : OutputValues,
   reused : BOOLEAN, prev : Links, link : Links]

Requests ==
  [op : {"snapshot"}, id : SnapshotIDs, data : JSON] \cup [op : {"result"}, row : Rows]

Sealers ==
  [pc : {"idle", "posted", "saved", "refused"}, id : SnapshotIDs \cup {Absent},
   data : JSON \cup {Absent}, fresh : BOOLEAN]

Workers ==
  [pc : {"idle", "deps", "output", "head", "run", "posted", "saved", "refused"},
   d : Dominos \cup {Absent}, gen : Nat, cmd : Commands \cup {Absent}, fresh : BOOLEAN,
   outs : Seq(OutputValues), prev : Links \cup {Absent}, read : Contents \cup {Absent},
   row : Rows \cup {Absent}]

Objects ==
  [gen : Nat, cmd : Commands, phase : Phases, observed : Nat, row : Rows \cup {Absent}]

Statuses == [phase : {"", "Pending", "Error", "Sealed"}, id : SnapshotIDs \cup {Absent}]

(* The files, the resources and the reconciles in progress have the types  *)
(* of tsdb_engine.go's records and of the custom resources.                *)
TypeOK ==
  /\ meta \in [SnapshotIDs -> {"none", "torn", "sealed"}]
  /\ payload \in [SnapshotIDs -> Bytes \cup {Absent}]
  /\ memo \subseteq [key : Keys, output : OutputValues]
  /\ tornMemo \subseteq Keys
  /\ log \in Seq(Rows) /\ tornReplay \in BOOLEAN
  /\ source \in Bytes \cup {Absent}
  /\ snap \in Statuses
  /\ sealer \in [Managers -> Sealers]
  /\ domino \in [Dominos -> Objects]
  /\ worker \in [Managers -> Workers]
  /\ late \subseteq [at : Nat, req : Requests]
  /\ alone \in BOOLEAN /\ stray \subseteq Contents /\ events \in Nat

(* A Snapshot whose status says Sealed has its whole payload in the store, *)
(* and the payload is the content its identity names: whatever was cut     *)
(* short, given up, served late or sealed again from another source, a     *)
(* reply of success was never given for less.                              *)
SealedIsComplete ==
  snap.phase = "Sealed" =>
    /\ meta[snap.id] = "sealed"
    /\ payload[snap.id] \in JSON
    /\ Parse[payload[snap.id]] = snap.id[2]

(* A result a Domino reports is a row of the replay log, and the memo's    *)
(* output for its key: a status is never ahead of the store, and never     *)
(* keeps an output that lost the race for its key.                         *)
ReportedRecorded ==
  \A d \in Dominos : domino[d].phase \in Complete =>
    LET row == domino[d].row
    IN  /\ row \in {log[i] : i \in DOMAIN log}
        /\ row.key[2] = d
        /\ LookupMemo(row.key) = {row.output}

(* A Domino Completed for its generation was executed by the command of    *)
(* that generation, however the user's edits fell between the reconcile's  *)
(* read, its run and its status update.                                    *)
CompletedByCommand ==
  \A d \in Dominos : Finished(d) /\ domino[d].phase = "Completed" =>
    Produces(domino[d].cmd, domino[d].row.key[3], domino[d].row.output)

(* Every row's input is what outputs of earlier rows of its dependencies   *)
(* and the sealed content resolve to, or a content the source had at a     *)
(* moment when the service could not read the snapshot: nothing else lets  *)
(* a rewritten source in, nor a late or repeated dependency (ADR 0002 and  *)
(* the causal past, M23).                                                  *)
InputsFromSpine ==
  \A i \in DOMAIN log :
    LET d == log[i].key[2]
        past(dep) == {log[j].output : j \in {k \in 1..(i - 1) : log[k].key[2] = dep}}
    IN  \E outs \in [DOMAIN DependsOn[d] -> OutputValues], c \in stray \cup {snap.id[2]} :
          /\ \A k \in DOMAIN outs : outs[k] \in past(DependsOn[d][k])
          /\ log[i].key[3] = resolveInputs(d, c, outs)

(* Every row hangs on the identity or on an earlier row, and its link is   *)
(* the hash of its own line; while no two reconciles overlapped and no     *)
(* request was served late, the rows are one chain (M20).                  *)
SpineLinked ==
  \A i \in DOMAIN log :
    /\ log[i].link = Link(log[i].prev, log[i].key[3], log[i].output)
    /\ \/ log[i].prev = Root(snap.id)
       \/ \E j \in 1..(i - 1) : log[j].link = log[i].prev
    /\ alone => log[i].prev = IF i = 1 THEN Root(snap.id) ELSE log[i - 1].link

(* The file store, written by several managers and cut short at any file,  *)
(* is a worldline store: sealed payloads and memo outputs are never        *)
(* replaced, and the log grows by rows that agree with the memo.           *)
Abstract == INSTANCE WorldlineStore WITH
  sealed <- {id \in SnapshotIDs : /\ meta[id] = "sealed"
                                  /\ payload[id] \in JSON
                                  /\ Parse[payload[id]] = id[2]},
  results <- memo, Transactional <- FALSE

FileStoreRefinement == Abstract!Spec

-----------------------------------------------------------------------------
(* Liveness.                                                               *)

(* A Domino has its result, is left to the in-cluster runner, or waits for *)
(* one of its dependencies to have a result.                               *)
Settled(d) ==
  \/ Finished(d)
  \/ domino[d].phase = "Parked" /\ domino[d].cmd \in Julia
  \/ /\ domino[d].phase = "Waiting"
     /\ \E dep \in Dependencies(d) : domino[dep].phase \notin Complete

\* The Snapshot cannot be sealed: there is nothing to seal, or what there
\* is has the identity of a stored payload with other bytes, of a request
\* that was served and never answered (ErrSealedOverwrite on every retry).
CannotSeal ==
  /\ snap.phase # "Sealed"
  /\ \/ source = Absent
     \/ RefuseSnapshot(SnapshotID(Time, Parse[source]), SealedBytes(source))

(* Unless a file was damaged or the Snapshot cannot be sealed, every Domino *)
(* settles, whatever timed out, crashed, conflicted or lost a memo race.    *)
DominosSettle ==
  <>[](Damaged \/ CannotSeal \/ \A d \in Dominos : Settled(d))
=============================================================================
