---------------------------- MODULE ComputeWheel ----------------------------
(***************************************************************************)
(* The ComputeWheel reconciler                                             *)
(* (internal/controller/computewheel_controller.go) and the rotation it    *)
(* runs on (pkg/wheel): one Workflow per slot, a slot being a context and  *)
(* a time slice, each slot when the one before it has completed.           *)
(*                                                                         *)
(* A reconcile reads the wheel, then the slot's Workflow, may create       *)
(* Workflows, and ends in one update of the wheel's status, which the API  *)
(* server refuses when the wheel changed since it was read.  Several       *)
(* reconcilers run at once: leader election is off by default, and a read  *)
(* from an informer's cache that lags is a read that was made earlier.     *)
(***************************************************************************)
EXTENDS Naturals, Sequences

CONSTANTS
  Reconcilers,       \* reconciles of the wheel that may overlap
  Contexts,          \* spec.contexts
  Interval,          \* spec.timeSliceInterval, in seconds
  Start,             \* the first time slice
  MaxRotations,      \* the values a user may give spec.maxRotations, 0: no limit
  PreProvisionNext,  \* spec.preProvisionNext
  MaxSlots,          \* bound: slots processed in a behaviour
  MaxEdits,          \* bound: edits of the wheel in a behaviour
  MaxFaults          \* bound: failed calls and crashes in a behaviour

ASSUME WheelAssumption ==
  /\ Contexts \in Seq(STRING) /\ Contexts # <<>>
  /\ Interval \in Nat /\ Start \in Nat
  /\ MaxRotations \subseteq Nat
  /\ PreProvisionNext \in BOOLEAN
  /\ MaxSlots \in Nat /\ MaxEdits \in Nat /\ MaxFaults \in Nat

VARIABLES
  spec,       \* the ComputeWheel's metadata and spec
  status,     \* the ComputeWheel's status
  workflows,  \* slot -> status.phase, for the Workflows that exist
  rec,        \* the reconcile each reconciler has in progress
  edits,      \* edits made so far
  faults      \* faults met so far

vars == <<spec, status, workflows, rec, edits, faults>>

Positions == [time : Nat, index : Nat, rotations : Nat]

Slots == [context : STRING, time : Nat]

\* valid: there are contexts, the interval parses, the window has its size.
Specs == [life : {"new", "live", "deleting", "gone"}, valid : BOOLEAN, max : Nat]

\* started: status.currentTimeSlice is set.
Statuses ==
  [started : BOOLEAN, at : Positions, processed : Seq(Slots),
   phase : {"", "Idle", "Rotating", "Processing", "Error"}]

\* status and max are the copy of the wheel that the reconcile works on;
\* fresh: the wheel has not been written since that copy was read.
Reconciles ==
  [pc : {"idle", "lookup", "create", "mark", "ahead", "act"},
   status : Statuses, max : Nat, seen : {"", "Completed", "Error"},
   fresh : BOOLEAN]

InitialState == [time |-> Start, index |-> 0, rotations |-> 0]

NoStatus == [started |-> FALSE, at |-> InitialState, processed |-> <<>>, phase |-> ""]

IdleReconcile ==
  [pc |-> "idle", status |-> NoStatus, max |-> 0, seen |-> "", fresh |-> FALSE]

Init ==
  /\ spec \in [life : {"new"}, valid : {TRUE}, max : MaxRotations]
  /\ status = NoStatus
  /\ workflows = <<>>
  /\ rec = [c \in Reconcilers |-> IdleReconcile]
  /\ edits = 0
  /\ faults = 0

-----------------------------------------------------------------------------
(* pkg/wheel.                                                              *)

Slot(at) == [context |-> Contexts[at.index + 1], time |-> at.time]

\* AdvanceAfterCompletion: the next context, or the first one a slice later.
Successor(at) ==
  IF at.index + 1 < Len(Contexts)
    THEN [at EXCEPT !.index = @ + 1]
    ELSE [time |-> at.time + Interval, index |-> 0, rotations |-> at.rotations + 1]

\* Mutant: the limit is met one rotation late.
DoneLate(at, max) ==
  /\ at.index + 1 = Len(Contexts)
  /\ max > 0 /\ at.rotations >= max

\* ... and whether maxRotations is reached by it.
Done(at, max) ==
  /\ at.index + 1 = Len(Contexts)
  /\ max > 0 /\ at.rotations + 1 >= max

\* Mutant: the look-ahead skips a slot.
LookaheadTwo(at) == Slot(Successor(Successor(at)))

\* Lookahead, as preProvisionNext calls it, with maxRotations 0.
Lookahead(at) == Slot(Successor(at))

-----------------------------------------------------------------------------
(* Calls to the API server.                                                *)

\* Get and then Create: a Workflow that exists is left as it is.
CreateWorkflow(slot) ==
  workflows' = [s \in DOMAIN workflows \cup {slot} |->
                  IF s \in DOMAIN workflows THEN workflows[s] ELSE ""]

\* After a write of the wheel every copy read before is stale.
AllStale == rec' = [c \in Reconcilers |-> [rec[c] EXCEPT !.fresh = FALSE]]

\* The reconcile of c is over and its write has been accepted.
EndWritten(c) ==
  rec' = [d \in Reconcilers |-> IF d = c THEN IdleReconcile
                                 ELSE [rec[d] EXCEPT !.fresh = FALSE]]

End(c) == rec' = [rec EXCEPT ![c] = IdleReconcile]

\* Mutant: the update is not conditional on the version that was read.
ForceStatus(c, st) == status' = st /\ EndWritten(c)

\* Mutant: a patch, which appends to the list the server has now.
PatchStatus(c, st) ==
  /\ status' = [st EXCEPT !.processed =
       status.processed \o SubSeq(@, Len(rec[c].status.processed) + 1, Len(@))]
  /\ EndWritten(c)

\* Status().Update, the last call of a reconcile: refused on a conflict.
UpdateStatus(c, st) ==
  \/ rec[c].fresh /\ status' = st /\ EndWritten(c)
  \/ ~rec[c].fresh /\ End(c) /\ UNCHANGED status

failWheel(c) == UpdateStatus(c, [rec[c].status EXCEPT !.phase = "Error"])

-----------------------------------------------------------------------------
(* Reconcile, one action per call it makes.                                *)

\* A wheel without a finalizer, and finalizeWheel.
Finalizer ==
  /\ \/ spec.life = "new" /\ spec' = [spec EXCEPT !.life = "live"]
     \/ spec.life = "deleting" /\ spec' = [spec EXCEPT !.life = "gone"]
  /\ AllStale
  /\ UNCHANGED <<status, workflows, edits, faults>>

\* A spec that does not pass the checks that come before the stop.
RejectSpec ==
  /\ spec.life = "live" /\ ~spec.valid
  /\ status' = [status EXCEPT !.phase = "Error"]
  /\ AllStale
  /\ UNCHANGED <<spec, workflows, edits, faults>>

Stopped ==
  /\ status.phase = "Idle"
  /\ spec.max > 0 /\ status.at.rotations >= spec.max

\* The status that Reconcile goes on with: the first one sets and saves it.
StartedStatus ==
  IF status.started THEN status
  ELSE [status EXCEPT !.started = TRUE, !.at = InitialState, !.phase = "Rotating"]

ReadCopy(st, max) ==
  [pc |-> "lookup", status |-> st, max |-> max, seen |-> "", fresh |-> TRUE]

\* Up to the read of the slot's Workflow.
Begin(c) ==
  /\ rec[c].pc = "idle"
  /\ spec.life = "live" /\ spec.valid
  /\ ~Stopped
  /\ Len(status.processed) < MaxSlots
  /\ status' = StartedStatus
  /\ rec' = [d \in Reconcilers |->
       IF d = c THEN ReadCopy(StartedStatus, spec.max)
       ELSE [rec[d] EXCEPT !.fresh = @ /\ status.started]]
  /\ UNCHANGED <<spec, workflows, edits, faults>>

Lookup(c) ==
  LET slot == Slot(rec[c].status.at)
  IN  /\ rec[c].pc = "lookup"
      /\ \/ /\ slot \notin DOMAIN workflows
            /\ rec' = [rec EXCEPT ![c].pc = "create"]
         \/ /\ slot \in DOMAIN workflows
            /\ rec' = [rec EXCEPT ![c].pc = IF PreProvisionNext THEN "ahead" ELSE "act",
                                  ![c].seen = workflows[slot]]
      /\ UNCHANGED <<spec, status, workflows, edits, faults>>

\* The Create of the slot's Workflow; another reconcile may have been faster.
Create(c) ==
  LET slot == Slot(rec[c].status.at)
  IN  /\ rec[c].pc = "create"
      /\ \/ /\ slot \in DOMAIN workflows
            /\ failWheel(c) /\ UNCHANGED workflows
         \/ /\ slot \notin DOMAIN workflows
            /\ CreateWorkflow(slot)
            /\ rec' = [rec EXCEPT ![c].pc = "mark"]
            /\ UNCHANGED status
      /\ UNCHANGED <<spec, edits, faults>>

Mark(c) ==
  /\ rec[c].pc = "mark"
  /\ UpdateStatus(c, [rec[c].status EXCEPT !.phase = "Processing"])
  /\ UNCHANGED <<spec, workflows, edits, faults>>

\* preProvisionNext.
Ahead(c) ==
  /\ rec[c].pc = "ahead"
  /\ CreateWorkflow(Lookahead(rec[c].status.at))
  /\ rec' = [rec EXCEPT ![c].pc = "act"]
  /\ UNCHANGED <<spec, status, edits, faults>>

\* advance: what it makes of the copy r works on.
Advanced(r) ==
  [r.status EXCEPT
     !.processed = Append(@, Slot(r.status.at)),
     !.at = Successor(r.status.at),
     !.phase = IF Done(r.status.at, r.max) THEN "Idle" ELSE "Rotating"]

\* Mutant: any Workflow that has not failed counts as completed.
OutcomeUnlessError(r) ==
  IF r.seen = "Error" THEN [r.status EXCEPT !.phase = "Error"] ELSE Advanced(r)

\* The switch on the phase the Workflow was seen in.
Outcome(r) ==
  CASE r.seen = "Completed" -> Advanced(r)
    [] r.seen = "Error" -> [r.status EXCEPT !.phase = "Error"]
    [] OTHER -> [r.status EXCEPT !.phase = "Processing"]

Act(c) ==
  /\ rec[c].pc = "act"
  /\ UpdateStatus(c, Outcome(rec[c]))
  /\ UNCHANGED <<spec, workflows, edits, faults>>

(* What may go wrong in a reconcile: an error before the Create fails the  *)
(* wheel; the cache may not show a Workflow that exists; an error of       *)
(* preProvisionNext is only logged; any other error, or a crash, ends the  *)
(* reconcile.                                                              *)
Fault(c) ==
  /\ rec[c].pc # "idle"
  /\ faults < MaxFaults
  /\ faults' = faults + 1
  /\ \/ rec[c].pc \in {"lookup", "create"} /\ failWheel(c)
     \/ rec[c].pc = "lookup" /\ rec' = [rec EXCEPT ![c].pc = "create"] /\ UNCHANGED status
     \/ rec[c].pc = "ahead" /\ rec' = [rec EXCEPT ![c].pc = "act"] /\ UNCHANGED status
     \/ End(c) /\ UNCHANGED status
  /\ UNCHANGED <<spec, workflows, edits>>

ReconcileStep(c) ==
  Begin(c) \/ Lookup(c) \/ Create(c) \/ Mark(c) \/ Ahead(c) \/ Act(c)

-----------------------------------------------------------------------------
(* The environment: the Workflow controller, which runs a Workflow again   *)
(* until it has completed and then leaves it alone, and users.             *)

Complete(slot) ==
  /\ workflows[slot] # "Completed"
  /\ workflows' = [workflows EXCEPT ![slot] = "Completed"]
  /\ UNCHANGED <<spec, status, rec, edits, faults>>

FailWorkflow(slot) ==
  /\ workflows[slot] = ""
  /\ faults < MaxFaults
  /\ faults' = faults + 1
  /\ workflows' = [workflows EXCEPT ![slot] = "Error"]
  /\ UNCHANGED <<spec, status, rec, edits>>

\* A user breaks or mends the spec, changes maxRotations or deletes the wheel.
EditWheel ==
  /\ spec.life \in {"new", "live"}
  /\ edits < MaxEdits
  /\ edits' = edits + 1
  /\ \/ spec' = [spec EXCEPT !.valid = ~@]
     \/ \E m \in MaxRotations \ {spec.max} : spec' = [spec EXCEPT !.max = m]
     \/ spec' = [spec EXCEPT !.life = IF @ = "new" THEN "gone" ELSE "deleting"]
  /\ AllStale
  /\ UNCHANGED <<status, workflows, faults>>

Next ==
  \/ \E c \in Reconcilers : ReconcileStep(c) \/ Fault(c)
  \/ Finalizer \/ RejectSpec \/ EditWheel
  \/ \E slot \in DOMAIN workflows : Complete(slot) \/ FailWorkflow(slot)

Spec == Init /\ [][Next]_vars

(* Fairness: the work queue keeps reconciling a wheel that is not stopped, *)
(* and the Workflow controller retries a Workflow until it completes.      *)
FairSpec ==
  /\ Spec
  /\ WF_vars(Finalizer)
  /\ \A c \in Reconcilers : WF_vars(ReconcileStep(c))
  /\ WF_vars(\E slot \in DOMAIN workflows : Complete(slot))

-----------------------------------------------------------------------------
(* Properties.                                                             *)

\* Every variable has the type of the resource field it stands for.
TypeOK ==
  /\ spec \in Specs /\ status \in Statuses
  /\ \A slot \in DOMAIN workflows :
       slot \in Slots /\ workflows[slot] \in {"", "Completed", "Error"}
  /\ rec \in [Reconcilers -> Reconciles]
  /\ edits \in Nat /\ faults \in Nat

(* The slot that is i-th in the schedule: all contexts in order, slice by  *)
(* slice.                                                                  *)
Scheduled(i, slot) ==
  \E r \in 0..i : \E k \in 1..Len(Contexts) :
    /\ i = r * Len(Contexts) + k
    /\ slot = [context |-> Contexts[k], time |-> Start + r * Interval]

(* Theorem W1 of docs/theory/formal-model.md for the reconciler and not    *)
(* only for the pure function: with overlapping and stale reconciles,      *)
(* crashes and lost updates no slot is skipped, repeated or recorded out   *)
(* of order, and the position the status shows is the next one due.        *)
ScheduleFollowed ==
  /\ \A i \in DOMAIN status.processed : Scheduled(i, status.processed[i])
  /\ status.started => Scheduled(Len(status.processed) + 1, Slot(status.at))
  /\ Len(status.processed) = status.at.rotations * Len(Contexts) + status.at.index

(* A slot is recorded as processed only if its Workflow completed, though  *)
(* the phase was read some steps before the status was written.            *)
ProcessedCompleted ==
  \A i \in DOMAIN status.processed :
    /\ status.processed[i] \in DOMAIN workflows
    /\ workflows[status.processed[i]] = "Completed"

\* Slots that may have a Workflow beyond the processed ones.
Reach == IF PreProvisionNext THEN 2 ELSE 1

(* No Workflow is created before its turn: the slots that have one are the *)
(* processed ones, the current one and, with preProvisionNext, the one     *)
(* after it, whatever a stale reconcile still does.                        *)
OneSlotAhead ==
  \A slot \in DOMAIN workflows :
    \E i \in 1..(Len(status.processed) + Reach) : Scheduled(i, slot)

Schedule == INSTANCE WheelSchedule WITH processed <- status.processed

(* The reconciler, with its stale copies, refused updates, crashes and     *)
(* edits, implements the schedule: every step records the one slot that is *)
(* due and complete, creates a Workflow within reach that did not exist,   *)
(* finishes one, or changes nothing a user of the wheel relies on.  No     *)
(* update is lost, whichever of the overlapping reconciles writes last.    *)
RefinesSchedule == Schedule!Spec

(* The wheel turns: if Workflows complete, all rotations up to             *)
(* maxRotations are processed and the wheel goes idle, although            *)
(* overlapping reconciles refuse each other's updates; a wheel nobody      *)
(* edits processes exactly these.                                          *)
WheelCompletes ==
  <>[](spec.life = "live" /\ spec.valid =>
         /\ status.phase = "Idle"
         /\ Len(status.processed) >= spec.max * Len(Contexts)
         /\ edits = 0 => Len(status.processed) = spec.max * Len(Contexts))
=============================================================================
