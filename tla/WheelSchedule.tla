---------------------------- MODULE WheelSchedule ---------------------------
(***************************************************************************)
(* What a ComputeWheel promises (Theorem W1 of docs/theory/formal-model.md *)
(* and the comment of ComputeWheelSpec): the slots, all contexts of a time *)
(* slice and then those of the next, each get one Workflow, are recorded   *)
(* as processed one by one in this order, when their Workflow is complete, *)
(* and get their Workflow at most Reach slots ahead of the record.         *)
(*                                                                         *)
(* There is one wheel here, no copies of it, and no position: the slot     *)
(* that is due follows from how many are recorded.                         *)
(***************************************************************************)
EXTENDS Integers, Sequences

CONSTANTS Contexts, Interval, Start, Reach

VARIABLES
  processed,   \* status.slotsProcessed
  workflows    \* slot -> phase, for the Workflows that exist

vars == <<processed, workflows>>

\* The i-th slot of the schedule, from 1.
Due(i) ==
  [context |-> Contexts[((i - 1) % Len(Contexts)) + 1],
   time    |-> Start + ((i - 1) \div Len(Contexts)) * Interval]

Init == processed = <<>> /\ workflows = <<>>

\* A slot gets its Workflow.
Create(i) ==
  /\ Due(i) \notin DOMAIN workflows
  /\ workflows' = [s \in DOMAIN workflows \cup {Due(i)} |->
                     IF s \in DOMAIN workflows THEN workflows[s] ELSE ""]
  /\ UNCHANGED processed

\* A Workflow fails, and may still complete; a completed one stays so.
Finish(slot, phase) ==
  /\ workflows[slot] # "Completed"
  /\ workflows' = [workflows EXCEPT ![slot] = phase]
  /\ UNCHANGED processed

\* The slot that is due is recorded, if its Workflow has completed.
Record ==
  LET slot == Due(Len(processed) + 1)
  IN  /\ slot \in DOMAIN workflows /\ workflows[slot] = "Completed"
      /\ processed' = Append(processed, slot)
      /\ UNCHANGED workflows

Next ==
  \/ \E i \in 1..(Len(processed) + Reach) : Create(i)
  \/ \E slot \in DOMAIN workflows, phase \in {"Completed", "Error"} : Finish(slot, phase)
  \/ Record

Spec == Init /\ [][Next]_vars
=============================================================================
