------------------------------- MODULE Handoff ------------------------------
(***************************************************************************)
(* Inside a DominoChain's Pod: how its containers hand their outputs on    *)
(* (cmd/domino-runner, pkg/dominochain) and what the reconciler concludes  *)
(* from their exit codes (internal/controller/dominochain_controller.go).  *)
(* WorkflowController has the chain's life over edits and deletions, and   *)
(* takes a Pod for a single thing that succeeds or fails.                  *)
(*                                                                         *)
(* Three layouts.  "init" and "volcano" run the steps as init containers,  *)
(* one after the other, over one file output.json; Volcano adds a last     *)
(* container that copies it.  "kruise" runs all the steps at once, each    *)
(* polling for the file of the one before.  A file appears when it is      *)
(* created, before anything is written to it, and a runner that reads it   *)
(* in between gets nothing or a part: Torn.  Some commands accept that.    *)
(*                                                                         *)
(* The operator reports what it gets when it replays the steps itself.     *)
(* It can do so only for a snapshot given inline in the spec, and only for *)
(* commands that need no sandbox; and it takes from the store the rows     *)
(* that an earlier chain of the same name left for the same steps, for     *)
(* the key of a row has no command in it.                                  *)
(*                                                                         *)
(* A value is the content it was computed from and the commands applied.   *)
(***************************************************************************)
EXTENDS Naturals, Sequences

CONSTANTS
  Contents,    \* snapshot contents
  Torn,        \* an empty or partial file
  Absent,      \* no file, nothing reported
  Layouts,     \* the runtimes to consider
  Plans,       \* the chains to consider: sequences of commands
  Lenient,     \* commands that may accept an empty or broken input
  Julia,       \* commands the operator has no interpreter for
  Contract,    \* commands that need a sandbox, which a replay never has
  Earlier,     \* commands an earlier chain of the name may have had
  MaxEvents    \* bound: faults, expiries and rewrites of the source

ASSUME HandoffAssumption ==
  /\ Torn \notin Contents /\ Absent \notin Contents
  /\ Layouts \subseteq {"init", "volcano", "kruise"}
  /\ \A p \in Plans : p \in Seq(STRING) /\ p # <<>>
  /\ \A p \in Earlier : p \in Seq(STRING)
  /\ MaxEvents \in Nat

VARIABLES
  layout,   \* spec.runtime
  plan,     \* spec.steps
  inline,   \* spec.snapshot.source is inline, not a path or an address
  earlier,  \* the commands whose rows for this content the store has
  source,   \* what spec.snapshot currently yields, Absent if nothing
  config,   \* the ConfigMap with snapshot.json
  pull,     \* the OpenKruise ImagePullJob
  pod,      \* the Pod exists
  file,     \* the files of the hand-over volume
  box,      \* the containers
  chain,    \* DominoChain.status, with what it reports
  rec,      \* where the reconcile in progress is
  events    \* faults and rewrites so far

vars == <<layout, plan, inline, earlier, source, config, pull, pod, file, box, chain, rec, events>>

Steps == 1..Len(plan)

\* The steps, and the chain-complete container of a Volcano Pod.
Boxes == 1..(Len(plan) + IF layout = "volcano" THEN 1 ELSE 0)

Raw(content) == [content |-> content, applied |-> <<>>]

Value(content, commands) == [content |-> content, applied |-> commands]

Init ==
  /\ layout \in Layouts
  /\ plan \in Plans
  /\ inline \in BOOLEAN
  /\ earlier \in Earlier
  /\ source \in Contents
  /\ config = Absent
  /\ pull = "none"
  /\ pod = FALSE
  /\ file = [i \in Boxes |-> Absent]
  /\ box = [i \in Boxes |-> [state |-> "none", value |-> Absent]]
  /\ chain = [phase |-> "", content |-> Absent, output |-> Absent]
  /\ rec = "idle"
  /\ events = 0

-----------------------------------------------------------------------------
(* The containers, as the builders lay them out.                           *)

\* KBL_OUTPUT: output.json for every init container, output-<i>.json for an
\* OpenKruise one, complete.json for chain-complete.
OutputFile(i) == IF layout = "kruise" \/ i > Len(plan) THEN i ELSE 1

\* KBL_INPUT: snapshot.json for the first step.
Input(i) ==
  IF i = 1 THEN Raw(config) ELSE file[OutputFile(i - 1)]

Command(i) == IF i > Len(plan) THEN "identity" ELSE plan[i]

\* Init containers, and then the others, run one after the other.
Turn(i) == layout # "kruise" => \A j \in 1..(i - 1) : box[j].state = "ok"

SetBox(i, state, value) == box' = [box EXCEPT ![i] = [state |-> state, value |-> value]]

StartBox(i) ==
  /\ pod
  /\ box[i].state = "none"
  /\ Turn(i)
  /\ SetBox(i, "started", Absent)
  /\ UNCHANGED <<layout, plan, inline, earlier, source, config, pull, pod, file, chain, rec, events>>

\* waitAndReadInput takes the file as soon as it is there.
ReadInput(i) ==
  /\ box[i].state = "started"
  /\ Input(i) # Absent
  /\ SetBox(i, "read", Input(i))
  /\ UNCHANGED <<layout, plan, inline, earlier, source, config, pull, pod, file, chain, rec, events>>

\* waitAndReadInput after fifteen minutes without a file.
WaitOver(i) ==
  /\ box[i].state = "started"
  /\ Input(i) = Absent
  /\ SetBox(i, "failed", Absent)
  /\ UNCHANGED <<layout, plan, inline, earlier, source, config, pull, pod, file, chain, rec, events>>

\* Mutant: no command parses its input.
AcceptsAll(command, value) == TRUE

\* identity passes on what is no JSON, coarsen counts no items in an empty
\* input; the others parse what they read.
Accepts(command, value) == value.content # Torn \/ command \in Lenient

\* executor.Execute, and os.WriteFile up to the creation of the file.  A part
\* of a file may be more than a lenient command accepts.
Compute(i) ==
  LET value == box[i].value
  IN  /\ box[i].state = "read"
      /\ \/ /\ Accepts(Command(i), value)
            /\ SetBox(i, "writing", [value EXCEPT !.applied = Append(@, Command(i))])
            /\ file' = [file EXCEPT ![OutputFile(i)] = Raw(Torn)]
         \/ /\ value.content = Torn
            /\ SetBox(i, "failed", Absent)
            /\ UNCHANGED file
      /\ UNCHANGED <<layout, plan, inline, earlier, source, config, pull, pod, chain, rec, events>>

WriteOutput(i) ==
  /\ box[i].state = "writing"
  /\ file' = [file EXCEPT ![OutputFile(i)] = box[i].value]
  /\ SetBox(i, "ok", Absent)
  /\ UNCHANGED <<layout, plan, inline, earlier, source, config, pull, pod, chain, rec, events>>

-----------------------------------------------------------------------------
(* The reconciler.                                                         *)

Goto(pc) == rec' = pc

\* failChain; the error brings the chain back to the work queue.
failChain == chain' = [chain EXCEPT !.phase = "Error"] /\ Goto("idle")

\* The status as far as it has come; the chain is looked at again later.
StillRunning == chain' = [chain EXCEPT !.phase = "Running"] /\ Goto("idle")

\* Mutant: the error of SnapshotJSON is not looked at.
StageAnything ==
  /\ rec = "idle"
  /\ chain.phase # "Completed"
  /\ config' = source
  /\ Goto(IF layout = "kruise" THEN "pull" ELSE "pod")
  /\ UNCHANGED <<layout, plan, inline, earlier, source, pull, pod, file, box, chain, events>>

\* Reconcile: the ConfigMap is written anew from the source every time.
Stage ==
  /\ rec = "idle"
  /\ chain.phase # "Completed"
  /\ IF source = Absent THEN failChain /\ UNCHANGED config
       ELSE /\ config' = source
            /\ Goto(IF layout = "kruise" THEN "pull" ELSE "pod")
            /\ UNCHANGED chain
  /\ UNCHANGED <<layout, plan, inline, earlier, source, pull, pod, file, box, events>>

\* Mutant: a job that was removed is not created again.
CreatedOnce == IF pull = "none" /\ chain.phase = "" THEN "pulling" ELSE pull

\* ensureImagePullJob: the job is created whenever there is none.
EnsuredPull == IF pull = "none" THEN "pulling" ELSE pull

\* The verdict on the job it found: a job that succeeded on some nodes
\* only is neither complete nor failed.
PullImages ==
  /\ rec = "pull"
  /\ pull' = EnsuredPull
  /\ CASE pull = "complete" -> Goto("pod") /\ UNCHANGED chain
       [] pull = "failed"   -> failChain
       [] OTHER             -> StillRunning
  /\ UNCHANGED <<layout, plan, inline, earlier, source, config, pod, file, box, events>>

\* ensurePod, or ensureVolcanoJob and the Pod Volcano makes.
EnsurePod ==
  /\ rec = "pod"
  /\ pod' = TRUE
  /\ Goto("look")
  /\ UNCHANGED <<layout, plan, inline, earlier, source, config, pull, file, box, chain, events>>

\* The first container in order that has not exited with 0.
FirstNotOk == CHOOSE i \in Boxes : box[i].state # "ok" /\ \A j \in 1..(i - 1) : box[j].state = "ok"

\* Mutant: an exit code of 0 of the last step is enough.
LastStepOk == box[Len(plan)].state = "ok"

\* initChainComplete and openKruiseSlotsComplete: every step exited with 0.
StepsComplete == \A i \in Steps : box[i].state = "ok"

\* Volcano marks a Job failed when its last container fails.
JobFailed == layout = "volcano" /\ box[Len(plan) + 1].state = "failed"

HasJulia == \E i \in Steps : plan[i] \in Julia

\* dominoChainToWorkflow copies the inline source and no other, and asks for
\* a deterministic run without a sandbox.
CanReplay == inline /\ \A i \in Steps : plan[i] \notin Contract

\* Engine.Run over the chain's store: a step whose row is there is not run.
Replayed ==
  Value(source, [i \in Steps |-> IF i <= Len(earlier) THEN earlier[i] ELSE plan[i]])

Completes(output) ==
  /\ chain' = [phase |-> "Completed", content |-> source, output |-> output]
  /\ Goto("idle")

\* completeChain.  A chain with a julia step is reported from the runner, which
\* resolves the source once more; any other is replayed by the operator.
completeChain ==
  IF HasJulia
  THEN IF source = Absent THEN failChain ELSE Completes(Absent)
  ELSE IF CanReplay THEN Completes(Replayed) ELSE failChain

Look ==
  /\ rec = "look"
  /\ IF StepsComplete /\ ~JobFailed THEN completeChain
     ELSE IF box[FirstNotOk].state = "failed" THEN failChain
     ELSE StillRunning
  /\ UNCHANGED <<layout, plan, inline, earlier, source, config, pull, pod, file, box, events>>

-----------------------------------------------------------------------------
(* The cluster and the outside world.                                      *)

\* kruise-daemon has pulled the images on every node.
PullCompletes ==
  /\ pull = "pulling"
  /\ pull' = "complete"
  /\ UNCHANGED <<layout, plan, inline, earlier, source, config, pod, file, box, chain, rec, events>>

\* The time to live of a job that did not get through is over.
PullExpires ==
  /\ pull \in {"partial", "failed"}
  /\ pull' = "none"
  /\ UNCHANGED <<layout, plan, inline, earlier, source, config, pod, file, box, chain, rec, events>>

Event == events < MaxEvents /\ events' = events + 1

\* The time to live of a complete job is over, and the chain is not: the next
\* reconcile creates the job again and waits for it.  Ten minutes pass between
\* one expiry and the next, and seconds between two reconciles.
PullForgotten ==
  /\ Event
  /\ pull = "complete"
  /\ pull' = "none"
  /\ UNCHANGED <<layout, plan, inline, earlier, source, config, pod, file, box, chain, rec>>

\* Some nodes, or all, could not pull an image.
PullBreaksOff ==
  /\ Event
  /\ pull = "pulling"
  /\ pull' \in {"partial", "failed"}
  /\ UNCHANGED <<layout, plan, inline, earlier, source, config, pod, file, box, chain, rec>>

\* A container is killed.
BoxDies(i) ==
  /\ Event
  /\ box[i].state \in {"started", "read", "writing"}
  /\ SetBox(i, "failed", Absent)
  /\ UNCHANGED <<layout, plan, inline, earlier, source, config, pull, pod, file, chain, rec>>

\* The file or the address of a chain yields something else; an inline source
\* is part of its spec.
WriteSource ==
  /\ Event
  /\ ~inline
  /\ source' \in (Contents \cup {Absent}) \ {source}
  /\ UNCHANGED <<layout, plan, inline, earlier, config, pull, pod, file, box, chain, rec>>

-----------------------------------------------------------------------------
Runner(i) ==
  StartBox(i) \/ ReadInput(i) \/ WaitOver(i) \/ Compute(i) \/ WriteOutput(i)

Reconcile == Stage \/ PullImages \/ EnsurePod \/ Look

Cluster == PullCompletes \/ PullExpires

Next ==
  \/ \E i \in Boxes : Runner(i) \/ BoxDies(i)
  \/ Reconcile \/ Cluster \/ PullForgotten \/ PullBreaksOff \/ WriteSource

Spec == Init /\ [][Next]_vars

(* A container that can go on does, a chain that is not complete is        *)
(* reconciled again, and OpenKruise finishes and removes its jobs.         *)
FairSpec ==
  /\ Spec
  /\ WF_vars(Reconcile) /\ WF_vars(Cluster)
  /\ WF_vars(\E i \in Boxes : Runner(i))

-----------------------------------------------------------------------------
Commands ==
  {plan[i] : i \in Steps} \cup {earlier[i] : i \in 1..Len(earlier)} \cup {"identity"}

Values == [content : Contents \cup {Torn}, applied : Seq(Commands)]

Verdicts ==
  [phase : {"", "Running", "Completed", "Error"}, content : Contents \cup {Absent},
   output : Values \cup {Absent}]

BoxStates == {"none", "started", "read", "writing", "ok", "failed"}

(* The chain, its resources, its containers and its files have the types   *)
(* the builders and the reconciler give them.                              *)
TypeOK ==
  /\ layout \in Layouts /\ plan \in Plans
  /\ inline \in BOOLEAN /\ earlier \in Earlier
  /\ source \in Contents \cup {Absent} /\ config \in Contents \cup {Absent}
  /\ pull \in {"none", "pulling", "partial", "failed", "complete"}
  /\ pod \in BOOLEAN
  /\ file \in [Boxes -> Values \cup {Absent}]
  /\ box \in [Boxes -> [state : BoxStates, value : Values \cup {Absent}]]
  /\ \A i \in Boxes : box[i].state \in {"read", "writing"} => box[i].value \in Values
  /\ chain \in Verdicts
  /\ rec \in {"idle", "pull", "pod", "look"}
  /\ events \in Nat

\* A step other than the first that accepts a broken input.
Fragile == layout = "kruise" /\ \E i \in Steps \ {1} : plan[i] \in Lenient

(* When all the containers of a chain have exited with 0, the last file    *)
(* holds the result of every step, in order, on one content: sequential    *)
(* containers never see each other's half-written files, and concurrent    *)
(* ones that do fail.  The one exception is a step that accepts whatever   *)
(* it reads, and then what the last file holds comes from a torn one.      *)
HandoffFaithful ==
  (\A i \in Steps : box[i].state = "ok") =>
    LET out == file[OutputFile(Len(plan))]
    IN  \/ \E c \in Contents : out = Value(c, plan)
        \/ Fragile /\ out.content = Torn

\* The rows the store has of the chain's steps come from the same commands.
SameCommands == \A i \in Steps : i <= Len(earlier) => earlier[i] = plan[i]

(* A chain is Completed only after every one of its steps exited with 0.   *)
(* What the operator reports of a chain it replays is what its containers  *)
(* computed, unless the store has rows of other commands for its steps, or *)
(* the containers handed on a torn file.                                   *)
CompletedRan ==
  chain.phase = "Completed" =>
    /\ \A i \in Steps : box[i].state = "ok"
    /\ chain.output # Absent /\ SameCommands =>
         LET out == file[OutputFile(Len(plan))]
         IN  out = chain.output \/ (Fragile /\ out.content = Torn)

(* A chain ends: it completes, or stays in Error for a container that      *)
(* failed, for a source that is gone, or, its containers done, for a       *)
(* replay the operator cannot make; it does not wait for ever, neither for *)
(* images that were pulled on some nodes nor for a file nobody writes.     *)
ChainSettles ==
  <>[](\/ chain.phase = "Completed"
       \/ chain.phase = "Error" /\ (\E i \in Boxes : box[i].state = "failed")
       \/ chain.phase = "Error" /\ StepsComplete /\ ~HasJulia /\ ~CanReplay
       \/ source = Absent)
=============================================================================
