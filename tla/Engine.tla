------------------------------- MODULE Engine -------------------------------
(***************************************************************************)
(* Engine.Run (controller/pkg/engine/engine.go): a domino chain executed   *)
(* on a sealed snapshot with memoization, by several processes that share  *)
(* one SQL store.  The Workflow and DominoChain reconcilers and the CLI    *)
(* each call Run on the store of a workflow, leader election is off by     *)
(* default, and a run that fails is started again by the work queue.       *)
(*                                                                         *)
(* A run is interrupted between any two store statements: "load" and       *)
(* "source" resolve the content, "check" and "write" are SaveSnapshot,     *)
(* "domino" resolves inputs, looks the memo up and executes, "recheck" and *)
(* "insert" are SaveResult.  An error and a crash both end the run; only   *)
(* the store and the custom resources survive.                             *)
(***************************************************************************)
EXTENDS SnapshotReconciler

CONSTANTS
  Runs,           \* invocations of Engine.Run that may overlap
  Workflows,      \* workflows they may be given
  WF,             \* the definition of each workflow, see WorkflowDefs
  Dominos,        \* domino names
  Commands,       \* domino commands
  Contract,       \* the commands of contract-grade regularity
  OutputValues,   \* what commands output
  Produces(_, _, _), \* Produces(c, v, o): command c may output o on input v
  MaxAttempts     \* bound: times a run is started again once it has recorded

(* A workflow names its snapshot and how the engine receives it: through a *)
(* SnapshotRef ("ref"), as an inline spec resolved by the controller       *)
(* ("inline") or from a file given to the CLI, without a status ("cli").   *)
(* An input selector is the name of a domino (fromDomino) or "snapshot"    *)
(* (fromSnapshot); inputs is Absent when the domino lists none, and an     *)
(* input that sets neither field adds no selector.  A name may be "".      *)
Names == Dominos \cup {""}

Selectors == Dominos \cup {"snapshot"}

WorkflowDefs ==
  [snap : Snaps, mode : {"ref", "inline", "cli"},
   catalog : Seq(Names), chain : Seq(Names),
   inputs : [Names -> Seq(Selectors) \cup {Absent}],
   dependsOn : [Names -> SUBSET (Selectors \cup {""})],
   command : [Names -> Commands],
   deterministic : BOOLEAN, isolated : BOOLEAN]

ASSUME WorkflowAssumption ==
  /\ WF \in [Workflows -> WorkflowDefs]
  /\ "" \notin Dominos /\ "snapshot" \notin Dominos
  /\ Absent \notin Seq(Selectors)
  /\ Contract \subseteq Commands
  /\ MaxAttempts \in Nat

VARIABLE run

vars == <<storeVars, snapVars, edits, faults, run>>

IdleRun ==
  [pc |-> "idle", wf |-> Absent, time |-> Absent, id |-> Absent,
   data |-> Absent, line |-> <<>>, entry |-> Absent, attempt |-> 0]

Init ==
  /\ InitStore
  /\ InitSnapshots
  /\ run = [r \in Runs |-> IdleRun]

-----------------------------------------------------------------------------
(* The checks of Run.                                                      *)

\* theory.UniqueNames.
UniqueNames(chain) ==
  /\ \A i \in DOMAIN chain : chain[i] # ""
  /\ \A i, j \in DOMAIN chain : chain[i] = chain[j] => i = j

\* Checked once, after the snapshot is saved and before any domino.
ChainAccepted(w) ==
  /\ UniqueNames(WF[w].catalog)
  /\ WF[w].chain # <<>>
  /\ UniqueNames(WF[w].chain)

\* theory.AllowDeterministic under SandboxPolicy.Isolated.
AllowDeterministic(w, d) ==
  WF[w].deterministic =>
    (WF[w].command[d] \in Contract => WF[w].isolated)

\* The dominos whose outputs a domino reads or that it depends on; the names
\* "snapshot" and "" are skipped.
Selected(w, d) ==
  IF WF[w].inputs[d] = Absent THEN {}
  ELSE {WF[w].inputs[d][i] : i \in DOMAIN WF[w].inputs[d]}

Reads(w, d) == (Selected(w, d) \cup WF[w].dependsOn[d]) \cap Dominos

\* Mutant: dependsOn is not looked at.
AllowedInputs(w, k) ==
  \A d \in Selected(w, WF[w].chain[k]) \cap Dominos :
    \E i \in 1..(k - 1) : WF[w].chain[i] = d

\* theory.AllowedReads: every read is strictly earlier in the chain.
AllowedReads(w, k) ==
  \A d \in Reads(w, WF[w].chain[k]) : \E i \in 1..(k - 1) : WF[w].chain[i] = d

\* Checked for each domino when its turn comes.
DominoAccepted(w, k) ==
  LET d == WF[w].chain[k]
  IN  /\ \E i \in DOMAIN WF[w].catalog : WF[w].catalog[i] = d
      /\ AllowDeterministic(w, d)
      /\ AllowedReads(w, k)

-----------------------------------------------------------------------------
(* resolveInputs.  The map of prior outputs is read off the worldline, the *)
(* entries appended so far.                                                *)

Atoms == Contents \cup OutputValues

Inputs == Atoms \cup Seq(Atoms)

Prefix(line, n) == [i \in 1..n |-> line[i]]

OutputOf(line, d) ==
  line[CHOOSE i \in DOMAIN line : line[i].domino = d].output

\* No inputs: the content.  One part: that part.  Otherwise: the list.
resolveInputs(w, k, content, prior) ==
  LET selectors == WF[w].inputs[WF[w].chain[k]]
      parts == [i \in DOMAIN selectors |-> IF selectors[i] = "snapshot"
                  THEN content ELSE OutputOf(prior, selectors[i])]
  IN  IF selectors = Absent THEN content
      ELSE IF Len(selectors) = 1 THEN parts[1] ELSE parts

\* Mutant: the source before the store, as the engine did before ADR 0018.
SourceOrStore(id, s) ==
  IF source[s] # Absent THEN source[s]
  ELSE IF GetSnapshot(id) # Absent THEN GetSnapshot(id).data ELSE Absent

\* ResolveEngineContentPreferStore when the identity is known: the stored
\* payload, else whatever the source yields now.
StoreOrSource(id, s) ==
  IF GetSnapshot(id) # Absent THEN GetSnapshot(id).data ELSE source[s]

\* Mutant: the content that was read is not compared with the identity.
AssertNothing(id, time, data) == TRUE

\* hash.AssertSnapshotID: the identity is that of the content and the time.
AssertSnapshotID(id, time, data) == id = SnapshotID(time, Parse[data])

-----------------------------------------------------------------------------
(* The steps of a run.                                                     *)

snapOf(r) == WF[run[r].wf].snap

position(r) == Len(run[r].line) + 1

\* Mutant: every entry is linked to the snapshot identity.
rootLink(r) == Root(run[r].id)

prevLink(r) ==
  IF run[r].line = <<>> THEN Root(run[r].id)
  ELSE run[r].line[Len(run[r].line)].link

memoKey(r) ==
  <<run[r].id, WF[run[r].wf].chain[position(r)], run[r].entry.input>>

Fail(r) == run' = [run EXCEPT ![r].pc = "failed"]

\* SaveSnapshot has returned without error.
SnapshotSaved(r) ==
  run' = [run EXCEPT ![r].pc =
            IF ChainAccepted(run[r].wf) THEN "domino" ELSE "failed"]

\* convert.resolveSnapshot, and the call of Run.  A reference is followed
\* only once sealed, without a look at the spec's time or at the generation
\* the status observed; an inline spec is validated and its source is read
\* to compute its identity.
Start(r, w) ==
  LET s == WF[w].snap
  IN  /\ \/ run[r].pc = "idle"
         \/ run[r].pc = "failed" /\ run[r].wf = w
      /\ run[r].line # <<>> => run[r].attempt < MaxAttempts
      /\ spec[s].sealed
      /\ WF[w].mode # "ref" => spec[s].time # Absent
      /\ WF[w].mode = "ref" => status[s].phase = "Sealed" /\ status[s].id # Absent
      /\ WF[w].mode = "inline" => source[s] # Absent
      /\ run' = [run EXCEPT ![r] =
           [IdleRun EXCEPT
              !.pc = "load", !.wf = w, !.time = spec[s].time,
              !.attempt = run[r].attempt + IF run[r].line = <<>> THEN 0 ELSE 1,
              !.id = CASE WF[w].mode = "ref"    -> status[s].id
                       [] WF[w].mode = "inline" -> SourceID(s, spec[s].time)
                       [] WF[w].mode = "cli"    -> Absent]]
      /\ UNCHANGED <<storeVars, snapVars, edits, faults>>

\* ResolveEngineContentPreferStore: the stored payload of a known identity,
\* which must be the identity of its content (hash.AssertSnapshotID).
Load(r) ==
  LET row == GetSnapshot(run[r].id)
  IN  /\ run[r].pc = "load"
      /\ IF run[r].id = Absent \/ row = Absent
           THEN run' = [run EXCEPT ![r].pc = "source"]
         ELSE IF AssertSnapshotID(run[r].id, run[r].time, row.data)
           THEN run' = [run EXCEPT ![r].pc = "check", ![r].data = row.data]
           ELSE Fail(r)
      /\ UNCHANGED <<storeVars, snapVars, edits, faults>>

\* ... else the source, parsed and encoded again, which may have changed
\* since the identity was computed from it.
ResolveSource(r) ==
  LET raw == source[snapOf(r)]
      id == IF run[r].id = Absent
              THEN SourceID(snapOf(r), run[r].time) ELSE run[r].id
  IN  /\ run[r].pc = "source"
      /\ IF raw # Absent /\ AssertSnapshotID(id, run[r].time, raw)
           THEN run' = [run EXCEPT ![r].pc = "check", ![r].id = id,
                          ![r].data = Marshal[Parse[raw]]]
           ELSE Fail(r)
      /\ UNCHANGED <<storeVars, snapVars, edits, faults>>

\* SaveSnapshot, first statement.
CheckSnapshot(r) ==
  LET existing == GetSnapshot(run[r].id)
  IN  /\ run[r].pc = "check"
      /\ IF refuseSealedMutation(existing, run[r].time, run[r].data) THEN Fail(r)
         ELSE IF existing # Absent THEN SnapshotSaved(r)
         ELSE run' = [run EXCEPT ![r].pc = "write"]
      /\ UNCHANGED <<storeVars, snapVars, edits, faults>>

\* SaveSnapshot, second statement.
WriteSnapshot(r) ==
  /\ run[r].pc = "write"
  /\ InsertOrReplaceSnapshot(run[r].id, run[r].time, run[r].data)
  /\ SnapshotSaved(r)
  /\ UNCHANGED <<memo, replay, snapVars, edits, faults>>

\* One turn of the loop up to SaveResult: gates, inputs, memo, execution.
Domino(r) ==
  LET w == run[r].wf
      k == position(r)
      d == WF[w].chain[k]
      data == StoreOrSource(run[r].id, snapOf(r))
      input == resolveInputs(w, k, Parse[data], run[r].line)
      hits == LookupMemo(<<run[r].id, d, input>>)
      made == {o \in OutputValues : Produces(WF[w].command[d], input, o)}
  IN  /\ run[r].pc = "domino"
      /\ IF ~DominoAccepted(w, k) \/ data = Absent THEN Fail(r)
         ELSE IF hits # {} THEN \E output \in hits :
           run' = [run EXCEPT ![r].pc = "insert", ![r].entry =
                     [input |-> input, output |-> output, memo |-> "reused"]]
         ELSE IF made # {} THEN \E output \in made :
           run' = [run EXCEPT ![r].pc = "recheck", ![r].entry =
                     [input |-> input, output |-> output, memo |-> "new"]]
         ELSE Fail(r)
      /\ UNCHANGED <<storeVars, snapVars, edits, faults>>

\* SaveResult of an executed output: the second look at the memo.
Recheck(r) ==
  /\ run[r].pc = "recheck"
  /\ IF refuseMemoConflict(memoKey(r), run[r].entry.output) THEN Fail(r)
     ELSE run' = [run EXCEPT ![r].pc = "insert", ![r].entry.memo =
            IF LookupMemo(memoKey(r)) = {} THEN "new" ELSE "found"]
  /\ UNCHANGED <<storeVars, snapVars, edits, faults>>

\* SaveResult: the transaction, then the entry joins the worldline.
Insert(r) ==
  LET entry == run[r].entry
      link == Link(prevLink(r), entry.input, entry.output)
      new == entry.memo = "new"
  IN  /\ run[r].pc = "insert"
      /\ IF new /\ UniqueViolation(memoKey(r))
           THEN Fail(r) /\ UNCHANGED <<memo, replay>>
           ELSE /\ CommitResult(
                     [key |-> memoKey(r), output |-> entry.output,
                      reused |-> entry.memo = "reused",
                      prev |-> prevLink(r), link |-> link], new)
                /\ run' = [run EXCEPT
                     ![r].pc = IF position(r) = Len(WF[run[r].wf].chain)
                                 THEN "done" ELSE "domino",
                     ![r].entry = Absent,
                     ![r].line = Append(run[r].line,
                       [domino |-> memoKey(r)[2], input |-> entry.input,
                        output |-> entry.output,
                        prev |-> prevLink(r), link |-> link])]
      /\ UNCHANGED <<snapshots, snapVars, edits, faults>>

\* A store call returns an error, a command fails, or the process dies.
RunFault(r) ==
  /\ run[r].pc \notin {"idle", "done", "failed"}
  /\ faults < MaxFaults
  /\ faults' = faults + 1
  /\ Fail(r)
  /\ UNCHANGED <<storeVars, snapVars, edits>>

RunStep(r) ==
  \/ Load(r) \/ ResolveSource(r) \/ CheckSnapshot(r) \/ WriteSnapshot(r)
  \/ Domino(r) \/ Recheck(r) \/ Insert(r)

Sealing(s) == ReconcileSnapshot(s) \/ SealFault(s) \/ EditSpec(s) \/ WriteSource(s)

Next ==
  \/ \E r \in Runs : RunStep(r) \/ RunFault(r) \/ \E w \in Workflows : Start(r, w)
  \/ \E s \in Snaps : Sealing(s) /\ UNCHANGED run

Spec == Init /\ [][Next]_vars

(* Fairness: a goroutine that is running a chain keeps running it, and the *)
(* work queue starts a failed reconcile again; edits and faults may stop.  *)
FairSpec ==
  /\ Spec
  /\ \A r \in Runs : WF_vars(RunStep(r)) /\ WF_vars(\E w \in Workflows : Start(r, w))
  /\ \A s \in Snaps : WF_vars(ReconcileSnapshot(s) /\ UNCHANGED run)

-----------------------------------------------------------------------------
(* Types.                                                                  *)

Keys == SnapshotIDs \X Names \X Inputs

Links == SnapshotIDs \X Seq(Inputs \X OutputValues)

Entries ==
  [domino : Names, input : Inputs, output : OutputValues,
   prev : Links, link : Links]

Pending ==
  [input : Inputs, output : OutputValues, memo : {"new", "found", "reused"}]

RunStates ==
  [pc : {"idle", "load", "source", "check", "write", "domino", "recheck",
         "insert", "done", "failed"},
   wf : Workflows \cup {Absent}, time : Times \cup {Absent},
   id : SnapshotIDs \cup {Absent}, data : Bytes \cup {Absent},
   line : Seq(Entries), entry : Pending \cup {Absent}, attempt : Nat]

MemoRows == [key : Keys, output : OutputValues]

ReplayRows ==
  [key : Keys, output : OutputValues, reused : BOOLEAN, prev : Links, link : Links]

\* Every variable has the type of the Go value or SQL row it stands for.
TypeOK ==
  /\ snapshots \in [SnapshotIDs -> SnapshotRows \cup {Absent}]
  /\ \A m \in memo : m \in MemoRows
  /\ replay \in Seq(ReplayRows)
  /\ source \in [Snaps -> Bytes \cup {Absent}]
  /\ spec \in [Snaps -> Specs]
  /\ status \in [Snaps -> Statuses]
  /\ sealer \in [Snaps -> Sealers]
  /\ run \in [Runs -> RunStates]
  /\ edits \in Nat /\ faults \in Nat

-----------------------------------------------------------------------------
(* Safety.                                                                 *)

(* Content address: the payload stored under an identity always parses to  *)
(* the content, and carries the time slice, the identity was hashed from,  *)
(* although SaveSnapshot is a check and a write that race with other       *)
(* writers and although specs and sources change while they are read.      *)
ContentAddressed ==
  \A id \in SnapshotIDs : snapshots[id] # Absent =>
    id = SnapshotID(snapshots[id].time, Parse[snapshots[id].data])

(* Snapshot isolation: every input a run hashed was resolved from the      *)
(* content its snapshot identity names and from outputs of its own earlier *)
(* entries, even when the source was rewritten while the chain ran.        *)
SnapshotIsolation ==
  \A r \in Runs : \A k \in 1..Len(run[r].line) :
    run[r].line[k].input =
      resolveInputs(run[r].wf, k, run[r].id[2], Prefix(run[r].line, k - 1))

(* Causal past: a recorded domino read, and depends on, only dominos that  *)
(* the same run recorded before it, and no domino is recorded twice, in    *)
(* whatever order a chain lists them and wherever the run was refused.     *)
CausalPast ==
  \A r \in Runs : \A k \in 1..Len(run[r].line) :
    LET earlier == {run[r].line[i].domino : i \in 1..(k - 1)}
    IN  /\ Reads(run[r].wf, run[r].line[k].domino) \subseteq earlier
        /\ run[r].line[k].domino \notin earlier

(* A Snapshot resource that reports Sealed names an identity whose payload *)
(* is in the store and, once its status observes the current generation,   *)
(* the time slice its spec asks for, in whatever order the store writes,   *)
(* spec edits and status updates of overlapping reconciles take effect.    *)
SealedMeansStored ==
  \A s \in Snaps : status[s].phase = "Sealed" =>
    /\ status[s].id # Absent
    /\ snapshots[status[s].id] # Absent
    /\ status[s].gen = spec[s].gen => status[s].id[1] = spec[s].time

(* Theorem D2 of docs/theory/formal-model.md, for overlapping, failed and  *)
(* retried runs and for commands that are not functions: two runs of the   *)
(* same chain on the same snapshot agree on every input, output and link   *)
(* they both have recorded.                                                *)
SameProgram(v, w) ==
  /\ WF[v].chain = WF[w].chain
  /\ WF[v].inputs = WF[w].inputs

UniqueWorldline ==
  \A q, r \in Runs :
    /\ run[q].id = run[r].id
    /\ run[q].line # <<>> /\ run[r].line # <<>>
    /\ SameProgram(run[q].wf, run[r].wf)
    => \A k \in 1..Len(run[q].line) :
         k <= Len(run[r].line) => run[q].line[k] = run[r].line[k]

(* M9 and M18: what a run has appended to its worldline is durable.  Each  *)
(* entry continues the hash chain from the snapshot identity, is the       *)
(* memo's output for its key, and has its row in the replay log.           *)
WorldlineRecorded ==
  \A r \in Runs : \A k \in 1..Len(run[r].line) :
    LET e == run[r].line[k]
        key == <<run[r].id, e.domino, e.input>>
    IN  /\ e.prev = IF k = 1 THEN Root(run[r].id) ELSE run[r].line[k - 1].link
        /\ e.link = Link(e.prev, e.input, e.output)
        /\ LookupMemo(key) = {e.output}
        /\ \E i \in DOMAIN replay :
             /\ replay[i].key = key /\ replay[i].output = e.output
             /\ replay[i].prev = e.prev /\ replay[i].link = e.link

(* The SQL store, used by any number of interleaved runs and sealers, is a *)
(* worldline store: first write wins in the memo, the log only grows, and  *)
(* no row belongs to a snapshot that is not sealed.                        *)
Abstract == INSTANCE WorldlineStore WITH
  sealed <- {id \in SnapshotIDs : snapshots[id] # Absent},
  results <- memo, log <- replay, Transactional <- TRUE

StoreRefinement == Abstract!Spec

-----------------------------------------------------------------------------
(* Liveness.                                                               *)

\* The Snapshot of run r cannot be sealed: a run of the same content stored
\* its own encoding first, so every reconcile meets ErrSealedOverwrite.
SealRefused(r) ==
  LET s == snapOf(r)
  IN  /\ run[r].pc = "failed" /\ WF[run[r].wf].mode = "ref" /\ ~Observed(s)
      /\ refuseSealedMutation(GetSnapshot(SourceID(s, spec[s].time)),
                              spec[s].time, SealedBytes(source[s]))

(* A run that lost a race (UNIQUE, ErrMemoConflict, ErrSealedOverwrite),   *)
(* met a fault or a status that an edit of the spec had outdated, and is   *)
(* retried, completes: the loser finds the winner's rows and reuses them,  *)
(* so retries do not chase each other.  Only a reference to a Snapshot     *)
(* that can never be sealed again is retried for ever.                     *)
RetriesConverge == \A r \in Runs : <>[](run[r].pc = "done" \/ SealRefused(r))

-----------------------------------------------------------------------------
(* What documents say of this component and the code does not do.          *)

(* Theorem M1 of docs/theory/formal-model.md: a memo hit yields the output *)
(* that executing the domino's command on the input would.                 *)
MemoObservational ==
  \A r \in Runs : \A k \in 1..Len(run[r].line) :
    LET e == run[r].line[k]
    IN  Produces(WF[run[r].wf].command[e.domino], e.input, e.output)
=============================================================================
