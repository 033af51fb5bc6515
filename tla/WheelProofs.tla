----------------------------- MODULE WheelProofs -----------------------------
(***************************************************************************)
(* Theorems about ComputeWheel, for any number of overlapping reconciles,  *)
(* any list of contexts, interval and limit, and any number of edits and   *)
(* faults.                                                                 *)
(*                                                                         *)
(* The argument: a status is well placed when its position is the one that *)
(* its list of processed slots leads to.  The status of the wheel and the  *)
(* copy of every reconcile are well placed; a copy never knows more slots  *)
(* than the wheel, and is the wheel's status as long as it is fresh.       *)
(***************************************************************************)
EXTENDS ComputeWheel, TLAPS

\* The position of a status is the one after the slots it has recorded.
Placed(st) ==
  /\ st.at.index < Len(Contexts)
  /\ st.at.time = Start + st.at.rotations * Interval
  /\ Len(st.processed) = st.at.rotations * Len(Contexts) + st.at.index
  /\ \A i \in DOMAIN st.processed : Scheduled(i, st.processed[i])

\* What holds of the copy a reconcile works on.
CopyOK(r) ==
  /\ Placed(r.status)
  /\ Len(r.status.processed) <= Len(status.processed)
  /\ r.fresh => r.status = status
  /\ r.pc = "ahead" => PreProvisionNext
  /\ r.pc # "idle" => r.status.started

PlaceInv ==
  /\ TypeOK
  /\ Placed(status)
  /\ ~status.started => status.processed = <<>>
  /\ \A c \in Reconcilers : CopyOK(rec[c])

-----------------------------------------------------------------------------
(* Arithmetic of the schedule.                                             *)

\* One more rotation is one more round of contexts.
LEMMA Distribute == \A r, n \in Nat : r * n \in Nat /\ (r + 1) * n = r * n + n
OBVIOUS

\* Every rotation has at least one slot.
LEMMA AtLeast == \A r \in Nat : \A n \in Nat \ {0} : r * n \in Nat /\ r <= r * n
OBVIOUS

\* The number of contexts is positive, and every context has a name.
LEMMA ContextCount ==
  /\ Len(Contexts) \in Nat \ {0}
  /\ \A k \in 1..Len(Contexts) : Contexts[k] \in STRING
  /\ Interval \in Nat /\ Start \in Nat
BY WheelAssumption

\* Slot at a position inside the list of contexts is a slot.
LEMMA SlotType ==
  ASSUME NEW at \in Positions, at.index < Len(Contexts)
  PROVE  Slot(at) \in Slots
BY ContextCount DEF Slot, Slots, Positions

\* Lists of processed slots have a length.
LEMMA ProcessedLen ==
  ASSUME NEW st \in Statuses
  PROVE  st.processed \in Seq(Slots) /\ Len(st.processed) \in Nat
<1>1. st.processed \in Seq(Slots)
  BY DEF Statuses
<1> QED BY <1>1

\* A position that l slots lead to is the one after the l-th slot.
LEMMA PositionDue ==
  ASSUME NEW at \in Positions, NEW l \in Nat, at.index < Len(Contexts),
         at.time = Start + at.rotations * Interval,
         l = at.rotations * Len(Contexts) + at.index
  PROVE  Scheduled(l + 1, Slot(at))
<1> DEFINE p == at.rotations * Len(Contexts)
<1>1. at.rotations \in Nat /\ at.index \in Nat
  BY DEF Positions
<1>2. p \in Nat /\ at.rotations <= p /\ l = p + at.index
  BY <1>1, ContextCount, AtLeast
<1> HIDE DEF p
<1>3. l + 1 = p + (at.index + 1) /\ at.rotations \in 0..(l + 1)
  BY <1>1, <1>2
<1>4. at.index + 1 \in 1..Len(Contexts)
  BY <1>1, ContextCount
<1>5. Slot(at) = [context |-> Contexts[at.index + 1],
                  time |-> Start + at.rotations * Interval]
  BY DEF Slot
<1> QED
  BY <1>3, <1>4, <1>5 DEF Scheduled, p

\* A well placed status points at the slot that is due next.
LEMMA NextDue ==
  ASSUME NEW st \in Statuses, Placed(st)
  PROVE  Scheduled(Len(st.processed) + 1, Slot(st.at))
<1>1. st.at \in Positions /\ Len(st.processed) \in Nat
  BY ProcessedLen DEF Statuses
<1>2. /\ st.at.index < Len(Contexts)
      /\ st.at.time = Start + st.at.rotations * Interval
      /\ Len(st.processed) = st.at.rotations * Len(Contexts) + st.at.index
  BY DEF Placed
<1> QED BY <1>1, <1>2, PositionDue

\* Successor stays in the list of contexts and adds one to the slot number.
LEMMA SuccessorPlace ==
  ASSUME NEW st \in Statuses, Placed(st)
  PROVE  LET at == Successor(st.at)
         IN  /\ at \in Positions
             /\ at.index < Len(Contexts)
             /\ at.time = Start + at.rotations * Interval
             /\ Len(st.processed) + 1 = at.rotations * Len(Contexts) + at.index
<1> DEFINE at == Successor(st.at)
           n == Len(Contexts)
           p == st.at.rotations * n
           q == st.at.rotations * Interval
<1>1. /\ st.at \in Positions
      /\ st.at.rotations \in Nat /\ st.at.index \in Nat /\ st.at.time \in Nat
      /\ st.at.index < n
      /\ st.at.time = Start + q
      /\ Len(st.processed) = p + st.at.index
  BY DEF Placed, Statuses, Positions
<1>2. n \in Nat \ {0} /\ p \in Nat /\ q \in Nat /\ Start \in Nat /\ Interval \in Nat
  BY <1>1, ContextCount, Distribute
<1>3. CASE st.at.index + 1 < n
  <2>1. at = [st.at EXCEPT !.index = st.at.index + 1]
    BY <1>3 DEF Successor
  <2>2. /\ at \in Positions /\ at.index = st.at.index + 1
        /\ at.time = st.at.time /\ at.rotations = st.at.rotations
    BY <2>1, <1>1 DEF Positions
  <2>3. at.rotations * n = p /\ at.rotations * Interval = q
    BY <2>2
  <2>4. at.time = Start + at.rotations * Interval
    BY <2>2, <2>3, <1>1
  <2>5. Len(st.processed) + 1 = p + at.index
    <3>1. at.index = st.at.index + 1 /\ Len(st.processed) = p + st.at.index
      BY <2>2, <1>1
    <3> HIDE DEF p, n, at
    <3> QED BY <3>1, <1>1, <1>2
  <2> QED BY <2>2, <2>3, <2>4, <2>5, <1>3
<1>4. CASE ~(st.at.index + 1 < n)
  <2>1. at = [time |-> st.at.time + Interval, index |-> 0, rotations |-> st.at.rotations + 1]
    BY <1>4 DEF Successor
  <2>2. /\ at \in Positions /\ at.index = 0
        /\ at.time = st.at.time + Interval /\ at.rotations = st.at.rotations + 1
    <3>1. st.at.time + Interval \in Nat /\ st.at.rotations + 1 \in Nat
      <4> HIDE DEF p, q, n, at
      <4> QED BY <1>1, <1>2
    <3> QED BY <2>1, <3>1 DEF Positions
  <2>3. at.rotations * n = p + n /\ at.rotations * Interval = q + Interval
    <3>1. (st.at.rotations + 1) * n = p + n
      BY <1>1, <1>2, Distribute
    <3>2. (st.at.rotations + 1) * Interval = q + Interval
      BY <1>1, <1>2, Distribute
    <3> QED BY <2>2, <3>1, <3>2
  <2>4. at.time = Start + (q + Interval)
    <3>1. at.time = st.at.time + Interval /\ st.at.time = Start + q
      BY <2>2, <1>1
    <3> HIDE DEF p, q, n, at
    <3> QED BY <3>1, <1>1, <1>2
  <2>5. Len(st.processed) + 1 = (p + n) + at.index
    <3>1. /\ at.index = 0 /\ Len(st.processed) = p + st.at.index
          /\ ~(st.at.index + 1 < n) /\ st.at.index < n
      BY <2>2, <1>1, <1>4
    <3> HIDE DEF p, q, n, at
    <3>2. st.at.index + 1 = n
      BY <3>1, <1>1, <1>2
    <3> QED BY <3>1, <3>2, <1>1, <1>2
  <2>6. at.index < n
    BY <2>2, <1>2
  <2> QED BY <2>2, <2>3, <2>4, <2>5, <2>6
<1> QED BY <1>3, <1>4

\* advance leaves a status well placed and one slot longer.
LEMMA AdvancePlaced ==
  ASSUME NEW r \in Reconciles, Placed(r.status)
  PROVE  /\ Advanced(r) \in Statuses
         /\ Placed(Advanced(r))
         /\ Advanced(r).processed = Append(r.status.processed, Slot(r.status.at))
         /\ Advanced(r).at = Successor(r.status.at)
         /\ Advanced(r).started = r.status.started
<1> DEFINE st == r.status
           adv == Advanced(r)
<1>1. st \in Statuses /\ st.at \in Positions /\ st.processed \in Seq(Slots)
      /\ st.at.index < Len(Contexts)
  BY DEF Reconciles, Statuses, Placed
<1>2. Slot(st.at) \in Slots
  BY <1>1, SlotType
<1>3. Successor(st.at) \in Positions
  BY <1>1, SuccessorPlace
<1>4. /\ adv \in Statuses
      /\ adv.processed = Append(st.processed, Slot(st.at))
      /\ adv.at = Successor(st.at)
      /\ adv.started = st.started
  <2> DEFINE ph == IF Done(st.at, r.max) THEN "Idle" ELSE "Rotating"
  <2>1. Append(st.processed, Slot(st.at)) \in Seq(Slots)
    BY <1>1, <1>2
  <2>2. adv = [st EXCEPT !.processed = Append(st.processed, Slot(st.at)),
                         !.at = Successor(st.at), !.phase = ph]
    BY DEF Advanced
  <2>3. ph \in {"Idle", "Rotating"}
    OBVIOUS
  <2> HIDE DEF ph, adv
  <2> QED BY <1>1, <1>3, <2>1, <2>2, <2>3 DEF Statuses
<1>5. Len(adv.processed) = Len(st.processed) + 1
  BY <1>4, <1>1, <1>2
<1>6. \A i \in DOMAIN adv.processed : Scheduled(i, adv.processed[i])
  <2>1. Scheduled(Len(st.processed) + 1, Slot(st.at))
    BY <1>1, NextDue
  <2>2. \A i \in DOMAIN st.processed : Scheduled(i, st.processed[i])
    BY DEF Placed
  <2>3. \A i \in DOMAIN adv.processed :
          \/ i \in DOMAIN st.processed /\ adv.processed[i] = st.processed[i]
          \/ i = Len(st.processed) + 1 /\ adv.processed[i] = Slot(st.at)
    BY <1>4, <1>1, <1>2
  <2> QED BY <2>1, <2>2, <2>3
<1>7. /\ adv.at.index < Len(Contexts)
      /\ adv.at.time = Start + adv.at.rotations * Interval
      /\ Len(adv.processed) = adv.at.rotations * Len(Contexts) + adv.at.index
  BY <1>1, <1>4, <1>5, SuccessorPlace
<1>8. Placed(adv)
  BY <1>6, <1>7 DEF Placed
<1> QED BY <1>4, <1>8

\* The empty status is well placed: the first slot is due.
LEMMA NoStatusPlaced ==
  /\ IdleReconcile.status = NoStatus /\ IdleReconcile.pc = "idle"
  /\ ~IdleReconcile.fresh /\ IdleReconcile.seen = ""
  /\ NoStatus.processed = <<>> /\ Len(NoStatus.processed) = 0
  /\ IdleReconcile \in Reconciles
  /\ NoStatus \in Statuses
  /\ Placed(NoStatus)
<1>1. InitialState \in Positions
  BY ContextCount DEF InitialState, Positions
<1>2. NoStatus \in Statuses
  BY <1>1 DEF NoStatus, Statuses
<1>3. IdleReconcile \in Reconciles
  BY <1>2 DEF IdleReconcile, Reconciles
<1>4. Placed(NoStatus)
  BY ContextCount DEF Placed, NoStatus, InitialState
<1>5. /\ IdleReconcile.status = NoStatus /\ IdleReconcile.pc = "idle"
      /\ ~IdleReconcile.fresh /\ IdleReconcile.seen = ""
      /\ NoStatus.processed = <<>> /\ Len(NoStatus.processed) = 0
  BY DEF IdleReconcile, NoStatus
<1> QED BY <1>2, <1>3, <1>4, <1>5

\* An idle reconcile has a copy that is in order.
LEMMA IdleCopy ==
  ASSUME status \in Statuses
  PROVE  CopyOK(IdleReconcile)
<1>1. Len(NoStatus.processed) <= Len(status.processed)
  <2>1. Len(status.processed) \in Nat
    BY ProcessedLen
  <2>2. Len(NoStatus.processed) = 0
    BY NoStatusPlaced
  <2> QED BY <2>1, <2>2
<1> QED BY <1>1, NoStatusPlaced DEF CopyOK

\* A change of phase keeps the place.
LEMMA PhaseOnly ==
  ASSUME NEW st \in Statuses, Placed(st),
         NEW phase \in {"", "Idle", "Rotating", "Processing", "Error"}
  PROVE  LET new == [st EXCEPT !.phase = phase]
         IN  /\ new \in Statuses
             /\ Placed(new)
             /\ new.processed = st.processed /\ new.at = st.at
             /\ new.started = st.started
<1> DEFINE new == [st EXCEPT !.phase = phase]
<1>1. /\ new \in Statuses
      /\ new.processed = st.processed /\ new.at = st.at /\ new.started = st.started
  BY DEF Statuses
<1>2. Placed(new)
  BY <1>1 DEF Placed
<1> QED BY <1>1, <1>2

-----------------------------------------------------------------------------
(* Each step preserves PlaceInv.                                           *)

\* The type of workflows.
WorkflowsOK ==
  \A slot \in DOMAIN workflows :
    slot \in Slots /\ workflows[slot] \in {"", "Completed", "Error"}

\* A status update, accepted or refused.
LEMMA UpdatePlaced ==
  ASSUME PlaceInv, NEW c \in Reconcilers,
         NEW st \in Statuses, Placed(st),
         Len(rec[c].status.processed) <= Len(st.processed), st.started,
         UpdateStatus(c, st), WorkflowsOK',
         spec' = spec, edits' \in Nat, faults' \in Nat
  PROVE  PlaceInv'
<1>0. /\ rec \in [Reconcilers -> Reconciles] /\ spec \in Specs /\ status \in Statuses
      /\ \A d \in Reconcilers : rec[d] \in Reconciles /\ CopyOK(rec[d])
      /\ Placed(status)
  BY DEF PlaceInv, TypeOK
<1>1. CASE rec[c].fresh /\ status' = st /\ EndWritten(c)
  <2>1. Len(status.processed) <= Len(st.processed)
    BY <1>0, <1>1 DEF CopyOK
  <2>2. \A d \in Reconcilers :
          rec'[d] = IF d = c THEN IdleReconcile ELSE [rec[d] EXCEPT !.fresh = FALSE]
    BY <1>1 DEF EndWritten
  <2>3. rec' \in [Reconcilers -> Reconciles]
    BY <1>0, <1>1, NoStatusPlaced DEF EndWritten, Reconciles
  <2>4. \A d \in Reconcilers : CopyOK(rec[d])'
    <3> SUFFICES ASSUME NEW d \in Reconcilers PROVE CopyOK(rec[d])'
      OBVIOUS
    <3>1. CASE d = c
      <4>1. rec'[d] = IdleReconcile
        BY <3>1, <2>2
      <4>2. status' \in Statuses /\ Len(NoStatus.processed) <= Len(status'.processed)
        <5>1. Len(status'.processed) \in Nat /\ status' \in Statuses
          BY <1>1, ProcessedLen
        <5>2. Len(NoStatus.processed) = 0
          BY NoStatusPlaced
        <5> QED BY <5>1, <5>2
      <4> QED BY <4>1, <4>2, NoStatusPlaced DEF CopyOK, Placed
    <3>2. CASE d # c
      <4>1. /\ rec'[d].status = rec[d].status /\ rec'[d].pc = rec[d].pc
            /\ rec'[d].fresh = FALSE
        BY <3>2, <2>2, <1>0 DEF Reconciles
      <4>2. Len(rec[d].status.processed) <= Len(status'.processed)
        <5>1. /\ Len(rec[d].status.processed) \in Nat /\ Len(status.processed) \in Nat
              /\ Len(st.processed) \in Nat
          <6>1. rec[d].status \in Statuses
            BY <1>0 DEF Reconciles
          <6> QED BY <6>1, <1>0, ProcessedLen
        <5> QED BY <5>1, <2>1, <1>0, <1>1 DEF CopyOK
      <4> QED BY <4>1, <4>2, <1>0 DEF CopyOK, Placed
    <3> QED BY <3>1, <3>2
  <2>5. TypeOK'
    BY <1>0, <1>1, <2>3 DEF TypeOK, WorkflowsOK
  <2>6. Placed(status)'
    BY <1>1 DEF Placed
  <2> QED BY <1>1, <2>4, <2>5, <2>6 DEF PlaceInv
<1>2. CASE ~rec[c].fresh /\ End(c) /\ UNCHANGED status
  <2>1. rec' \in [Reconcilers -> Reconciles]
    BY <1>0, <1>2, NoStatusPlaced DEF End
  <2>2. \A d \in Reconcilers : CopyOK(rec[d])'
    <3> SUFFICES ASSUME NEW d \in Reconcilers PROVE CopyOK(rec[d])'
      OBVIOUS
    <3>1. CASE d = c
      <4>1. rec'[d] = IdleReconcile
        BY <3>1, <1>0, <1>2 DEF End
      <4>2. CopyOK(IdleReconcile)
        BY <1>0, IdleCopy
      <4> QED BY <4>1, <4>2, <1>2 DEF CopyOK, Placed
    <3>2. CASE d # c
      <4>1. rec'[d] = rec[d]
        BY <3>2, <1>0, <1>2 DEF End
      <4> QED BY <4>1, <1>0, <1>2 DEF CopyOK, Placed
    <3> QED BY <3>1, <3>2
  <2>3. TypeOK'
    BY <1>0, <1>2, <2>1 DEF TypeOK, WorkflowsOK
  <2> QED BY <2>2, <2>3, <1>0, <1>2 DEF PlaceInv, Placed
<1> QED BY <1>1, <1>2 DEF UpdateStatus

\* A step of one reconcile that leaves the wheel alone.
LEMMA LocalPlaced ==
  ASSUME PlaceInv, NEW c \in Reconcilers, NEW r \in Reconciles,
         rec' = [rec EXCEPT ![c] = r],
         r.status = rec[c].status, r.fresh = rec[c].fresh,
         r.pc = "ahead" => PreProvisionNext, rec[c].pc # "idle",
         WorkflowsOK', UNCHANGED <<spec, status>>, edits' \in Nat, faults' \in Nat
  PROVE  PlaceInv'
<1>0. /\ rec \in [Reconcilers -> Reconciles] /\ spec \in Specs /\ status \in Statuses
      /\ \A d \in Reconcilers : CopyOK(rec[d])
      /\ Placed(status)
  BY DEF PlaceInv, TypeOK
<1>1. rec' \in [Reconcilers -> Reconciles]
  BY <1>0
<1>2. \A d \in Reconcilers : CopyOK(rec[d])'
  <2> SUFFICES ASSUME NEW d \in Reconcilers PROVE CopyOK(rec[d])'
    OBVIOUS
  <2>1. CASE d = c
    <3>1. rec'[d] = r /\ CopyOK(rec[c])
      BY <2>1, <1>0
    <3> QED BY <3>1 DEF CopyOK, Placed
  <2>2. CASE d # c
    <3>1. rec'[d] = rec[d] /\ CopyOK(rec[d])
      BY <2>2, <1>0
    <3> QED BY <3>1 DEF CopyOK, Placed
  <2> QED BY <2>1, <2>2
<1>3. TypeOK'
  BY <1>0, <1>1 DEF TypeOK, WorkflowsOK
<1> QED BY <1>0, <1>2, <1>3 DEF PlaceInv, Placed

\* A write of the spec, or of the phase by a reconcile that is one step.
LEMMA StalePlaced ==
  ASSUME PlaceInv, AllStale, spec' \in Specs, status' \in Statuses,
         status'.processed = status.processed, status'.at = status.at,
         status'.started = status.started,
         UNCHANGED workflows, edits' \in Nat, faults' \in Nat
  PROVE  PlaceInv'
<1>0. /\ rec \in [Reconcilers -> Reconciles]
      /\ \A d \in Reconcilers : CopyOK(rec[d])
      /\ Placed(status)
  BY DEF PlaceInv, TypeOK
<1>1. rec' \in [Reconcilers -> Reconciles]
  BY <1>0 DEF AllStale, Reconciles
<1>2. \A d \in Reconcilers : CopyOK(rec[d])'
  <2> SUFFICES ASSUME NEW d \in Reconcilers PROVE CopyOK(rec[d])'
    OBVIOUS
  <2>1. /\ rec'[d].status = rec[d].status /\ rec'[d].pc = rec[d].pc
        /\ ~rec'[d].fresh
    BY <1>0 DEF AllStale, Reconciles
  <2>2. CopyOK(rec[d])
    BY <1>0
  <2> QED BY <2>1, <2>2 DEF CopyOK, Placed
<1>3. TypeOK'
  BY <1>1 DEF TypeOK, PlaceInv
<1>4. Placed(status)'
  BY <1>0 DEF Placed
<1> QED BY <1>2, <1>3, <1>4 DEF PlaceInv

\* A new Workflow has the type of one.
LEMMA CreateTyped ==
  ASSUME WorkflowsOK, NEW slot \in Slots, CreateWorkflow(slot)
  PROVE  WorkflowsOK'
BY DEF WorkflowsOK, CreateWorkflow

\* The copy a reconcile starts with.
LEMMA ReadCopyFields ==
  ASSUME NEW st \in Statuses, NEW max \in Nat
  PROVE  /\ ReadCopy(st, max) \in Reconciles
         /\ ReadCopy(st, max).status = st
         /\ ReadCopy(st, max).pc = "lookup"
         /\ ReadCopy(st, max).seen = ""
BY DEF ReadCopy, Reconciles

\* The reading of the wheel.
LEMMA BeginPlaced ==
  ASSUME PlaceInv, NEW c \in Reconcilers, Begin(c)
  PROVE  PlaceInv'
<1>0. /\ rec \in [Reconcilers -> Reconciles] /\ spec \in Specs /\ status \in Statuses
      /\ \A d \in Reconcilers : CopyOK(rec[d])
      /\ Placed(status)
  BY DEF PlaceInv, TypeOK
<1>1. /\ status' = StartedStatus /\ UNCHANGED <<spec, workflows, edits, faults>>
      /\ rec'[c] = ReadCopy(status', spec.max)
      /\ \A d \in Reconcilers : d # c =>
           rec'[d] = [rec[d] EXCEPT !.fresh = rec[d].fresh /\ status.started]
      /\ rec' = [d \in Reconcilers |-> rec'[d]]
  BY DEF Begin
<1>2. /\ status' \in Statuses /\ Placed(status)' /\ status'.started
      /\ status'.processed = status.processed
      /\ status.started => status' = status
  <2>1. CASE status.started
    BY <2>1, <1>0, <1>1 DEF StartedStatus, Placed
  <2>2. CASE ~status.started
    <3>1. /\ status' = [status EXCEPT !.started = TRUE, !.at = InitialState,
                                      !.phase = "Rotating"]
          /\ status.processed = <<>>
      BY <2>2, <1>1 DEF StartedStatus, PlaceInv
    <3>2. InitialState \in Positions
      BY ContextCount DEF InitialState, Positions
    <3>3. /\ status' \in Statuses /\ status'.started
          /\ status'.processed = NoStatus.processed /\ status'.at = NoStatus.at
      BY <3>1, <3>2, <1>0 DEF Statuses, NoStatus
    <3>4. Placed(status)'
      BY <3>3, NoStatusPlaced DEF Placed
    <3> QED BY <3>1, <3>3, <3>4, <2>2, NoStatusPlaced
  <2> QED BY <2>1, <2>2
<1>3. rec' \in [Reconcilers -> Reconciles]
  <2>1. \A d \in Reconcilers : rec'[d] \in Reconciles
    <3> SUFFICES ASSUME NEW d \in Reconcilers PROVE rec'[d] \in Reconciles
      OBVIOUS
    <3>1. CASE d = c
      <4>1. spec.max \in Nat
        BY <1>0 DEF Specs
      <4>2. rec'[c] = ReadCopy(status', spec.max) /\ status' \in Statuses
        BY <1>1, <1>2
      <4> QED BY <3>1, <4>1, <4>2, ReadCopyFields
    <3>2. CASE d # c
      <4>1. rec[d] \in Reconciles /\ rec[d].fresh \in BOOLEAN /\ status.started \in BOOLEAN
        BY <1>0 DEF Reconciles, Statuses
      <4> QED BY <3>2, <4>1, <1>1 DEF Reconciles
    <3> QED BY <3>1, <3>2
  <2> QED BY <2>1, <1>1
<1>4. \A d \in Reconcilers : CopyOK(rec[d])'
  <2> SUFFICES ASSUME NEW d \in Reconcilers PROVE CopyOK(rec[d])'
    OBVIOUS
  <2>1. CASE d = c
    <3>1. rec'[d].status = status' /\ rec'[d].pc = "lookup"
      <4>1. rec'[c] = ReadCopy(status', spec.max) /\ spec.max \in Nat
        BY <1>0, <1>1 DEF Specs
      <4>2. status' \in Statuses
        BY <1>2
      <4>3. ReadCopy(status', spec.max).status = status' /\ ReadCopy(status', spec.max).pc = "lookup"
        BY <4>1, <4>2, ReadCopyFields
      <4> QED BY <2>1, <4>1, <4>3
    <3>2. Len(status'.processed) \in Nat
      BY <1>2, ProcessedLen
    <3> QED BY <3>1, <3>2, <1>2 DEF CopyOK, Placed
  <2>2. CASE d # c
    <3>1. /\ rec'[d].status = rec[d].status /\ rec'[d].pc = rec[d].pc
          /\ rec'[d].fresh = (rec[d].fresh /\ status.started)
      <4>1. rec'[d] = [rec[d] EXCEPT !.fresh = rec[d].fresh /\ status.started]
        BY <2>2, <1>1
      <4>2. rec[d] \in Reconciles
        BY <1>0
      <4> QED BY <4>1, <4>2 DEF Reconciles
    <3>2. CopyOK(rec[d])
      BY <1>0
    <3> QED BY <3>1, <3>2, <1>2 DEF CopyOK, Placed
  <2> QED BY <2>1, <2>2
<1>5. TypeOK'
  BY <1>1, <1>2, <1>3 DEF TypeOK, PlaceInv
<1> QED BY <1>2, <1>4, <1>5 DEF PlaceInv

\* What a reconcile past its read knows of its own copy.
LEMMA InProgress ==
  ASSUME PlaceInv, NEW c \in Reconcilers, rec[c].pc # "idle"
  PROVE  /\ rec[c] \in Reconciles /\ rec[c].status \in Statuses
         /\ Placed(rec[c].status) /\ rec[c].status.started
         /\ WorkflowsOK /\ edits \in Nat /\ faults \in Nat
         /\ Slot(rec[c].status.at) \in Slots
<1>1. /\ rec[c] \in Reconciles /\ CopyOK(rec[c])
      /\ WorkflowsOK /\ edits \in Nat /\ faults \in Nat
  BY DEF PlaceInv, TypeOK, WorkflowsOK
<1>2. /\ rec[c].status \in Statuses /\ Placed(rec[c].status) /\ rec[c].status.started
  BY <1>1 DEF CopyOK, Reconciles
<1>3. rec[c].status.at \in Positions /\ rec[c].status.at.index < Len(Contexts)
  BY <1>2 DEF Statuses, Placed
<1> QED BY <1>1, <1>2, <1>3, SlotType

LEMMA Reflexive == \A n \in Nat : n <= n
OBVIOUS

\* A reconcile that ends by setting the phase.
LEMMA PhasePlaced ==
  ASSUME PlaceInv, NEW c \in Reconcilers, rec[c].pc # "idle",
         NEW phase \in {"", "Idle", "Rotating", "Processing", "Error"},
         UpdateStatus(c, [rec[c].status EXCEPT !.phase = phase]),
         UNCHANGED <<spec, workflows>>, edits' \in Nat, faults' \in Nat
  PROVE  PlaceInv'
<1> DEFINE st == [rec[c].status EXCEPT !.phase = phase]
<1>1. rec[c].status \in Statuses /\ Placed(rec[c].status) /\ rec[c].status.started /\ WorkflowsOK
  BY InProgress
<1>2. st \in Statuses /\ Placed(st) /\ st.processed = rec[c].status.processed /\ st.started
  BY <1>1, PhaseOnly
<1>3. Len(rec[c].status.processed) <= Len(st.processed)
  <2>1. Len(st.processed) \in Nat
    BY <1>2, ProcessedLen
  <2>2. st.processed = rec[c].status.processed
    BY <1>2
  <2> HIDE DEF st
  <2> QED BY <2>1, <2>2, Reflexive, Zenon
<1>4. WorkflowsOK'
  BY <1>1 DEF WorkflowsOK
<1> HIDE DEF st
<1>5. UpdateStatus(c, st) /\ spec' = spec
  BY DEF st
<1> QED BY <1>2, <1>3, <1>4, <1>5, UpdatePlaced

\* Lookup.
LEMMA LookupPlaced ==
  ASSUME PlaceInv, NEW c \in Reconcilers, Lookup(c)
  PROVE  PlaceInv'
<1>1. rec[c].pc = "lookup" /\ UNCHANGED <<spec, status, workflows, edits, faults>>
  BY DEF Lookup
<1>2. /\ rec[c] \in Reconciles /\ WorkflowsOK /\ edits \in Nat /\ faults \in Nat
      /\ rec \in [Reconcilers -> Reconciles]
  BY <1>1, InProgress DEF PlaceInv, TypeOK
<1>3. WorkflowsOK' /\ edits' \in Nat /\ faults' \in Nat
  BY <1>1, <1>2 DEF WorkflowsOK
<1>4. CASE rec' = [rec EXCEPT ![c].pc = "create"]
  <2> DEFINE r == [rec[c] EXCEPT !.pc = "create"]
  <2>1. /\ r \in Reconciles /\ r.status = rec[c].status /\ r.fresh = rec[c].fresh
        /\ r.pc # "ahead"
    BY <1>2 DEF Reconciles
  <2>2. rec' = [rec EXCEPT ![c] = r]
    BY <1>4
  <2> HIDE DEF r
  <2> QED BY <1>1, <1>3, <2>1, <2>2, LocalPlaced
<1>5. ASSUME Slot(rec[c].status.at) \in DOMAIN workflows,
             rec' = [rec EXCEPT ![c].pc = IF PreProvisionNext THEN "ahead" ELSE "act",
                                ![c].seen = workflows[Slot(rec[c].status.at)]]
      PROVE  PlaceInv'
  <2> DEFINE pc == IF PreProvisionNext THEN "ahead" ELSE "act"
             seen == workflows[Slot(rec[c].status.at)]
             r == [rec[c] EXCEPT !.pc = pc, !.seen = seen]
  <2>1. pc \in {"ahead", "act"} /\ (pc = "ahead" => PreProvisionNext)
    OBVIOUS
  <2>2. seen \in {"", "Completed", "Error"}
    BY <1>2, <1>5 DEF WorkflowsOK
  <2>3. rec' = [rec EXCEPT ![c] = r]
    BY <1>5, <1>2 DEF Reconciles
  <2> HIDE DEF pc, seen
  <2>4. /\ r \in Reconciles /\ r.status = rec[c].status /\ r.fresh = rec[c].fresh
        /\ r.pc = pc
    BY <1>2, <2>1, <2>2 DEF Reconciles
  <2> HIDE DEF r
  <2> QED BY <1>1, <1>3, <2>1, <2>3, <2>4, LocalPlaced
<1> QED BY <1>4, <1>5 DEF Lookup

\* Create.
LEMMA CreatePlaced ==
  ASSUME PlaceInv, NEW c \in Reconcilers, Create(c)
  PROVE  PlaceInv'
<1>1. rec[c].pc = "create" /\ UNCHANGED <<spec, edits, faults>>
  BY DEF Create
<1>2. /\ rec[c] \in Reconciles /\ WorkflowsOK /\ edits' \in Nat /\ faults' \in Nat
      /\ Slot(rec[c].status.at) \in Slots
      /\ rec \in [Reconcilers -> Reconciles]
  BY <1>1, InProgress DEF PlaceInv, TypeOK
<1>3. CASE failWheel(c) /\ UNCHANGED workflows
  BY <1>1, <1>2, <1>3, PhasePlaced DEF failWheel
<1>4. CASE CreateWorkflow(Slot(rec[c].status.at)) /\ rec' = [rec EXCEPT ![c].pc = "mark"]
           /\ UNCHANGED status
  <2> DEFINE r == [rec[c] EXCEPT !.pc = "mark"]
  <2>1. /\ r \in Reconciles /\ r.status = rec[c].status /\ r.fresh = rec[c].fresh
        /\ r.pc # "ahead"
    BY <1>2 DEF Reconciles
  <2>2. rec' = [rec EXCEPT ![c] = r]
    BY <1>4
  <2>3. WorkflowsOK'
    BY <1>2, <1>4, CreateTyped
  <2> HIDE DEF r
  <2> QED BY <1>1, <1>2, <1>4, <2>1, <2>2, <2>3, LocalPlaced
<1> QED BY <1>3, <1>4 DEF Create

\* Ahead, and the fault in which preProvisionNext returns an error.
LEMMA AheadPlaced ==
  ASSUME PlaceInv, NEW c \in Reconcilers, rec[c].pc = "ahead",
         rec' = [rec EXCEPT ![c].pc = "act"],
         WorkflowsOK', UNCHANGED <<spec, status>>, edits' \in Nat, faults' \in Nat
  PROVE  PlaceInv'
<1>1. rec[c] \in Reconciles /\ rec \in [Reconcilers -> Reconciles]
  BY InProgress DEF PlaceInv, TypeOK
<1> DEFINE r == [rec[c] EXCEPT !.pc = "act"]
<1>2. /\ r \in Reconciles /\ r.status = rec[c].status /\ r.fresh = rec[c].fresh
      /\ r.pc # "ahead"
  BY <1>1 DEF Reconciles
<1>3. rec' = [rec EXCEPT ![c] = r]
  OBVIOUS
<1> HIDE DEF r
<1> QED BY <1>2, <1>3, LocalPlaced

\* Lookahead of a well placed status is a slot, the one after the next.
LEMMA LookaheadDue ==
  ASSUME NEW st \in Statuses, Placed(st)
  PROVE  Lookahead(st.at) \in Slots /\ Scheduled((Len(st.processed) + 1) + 1, Lookahead(st.at))
<1> DEFINE at == Successor(st.at)
<1>1. /\ at \in Positions
      /\ at.index < Len(Contexts)
      /\ at.time = Start + at.rotations * Interval
      /\ Len(st.processed) + 1 = at.rotations * Len(Contexts) + at.index
  BY SuccessorPlace
<1>2. Len(st.processed) + 1 \in Nat
  <2>1. Len(st.processed) \in Nat
    BY ProcessedLen
  <2> QED BY <2>1
<1> HIDE DEF at
<1>3. Slot(at) \in Slots /\ Scheduled((Len(st.processed) + 1) + 1, Slot(at))
  BY <1>1, <1>2, SlotType, PositionDue
<1> QED BY <1>3 DEF Lookahead, at

\* Act.
LEMMA ActPlaced ==
  ASSUME PlaceInv, NEW c \in Reconcilers, Act(c)
  PROVE  PlaceInv'
<1>1. /\ rec[c].pc = "act" /\ UNCHANGED <<spec, workflows, edits, faults>>
      /\ UpdateStatus(c, Outcome(rec[c]))
  BY DEF Act
<1>2. /\ rec[c] \in Reconciles /\ rec[c].status \in Statuses /\ Placed(rec[c].status)
      /\ rec[c].status.started /\ edits' \in Nat /\ faults' \in Nat /\ WorkflowsOK
  BY <1>1, InProgress
<1>3. CASE rec[c].seen = "Completed"
  <2> DEFINE st == Advanced(rec[c])
  <2>1. /\ st \in Statuses /\ Placed(st) /\ st.started
        /\ st.processed = Append(rec[c].status.processed, Slot(rec[c].status.at))
    BY <1>2, AdvancePlaced
  <2>2. UpdateStatus(c, st)
    BY <1>1, <1>3 DEF Outcome
  <2>3. Len(rec[c].status.processed) <= Len(st.processed)
    <3>1. /\ rec[c].status.processed \in Seq(Slots) /\ Len(rec[c].status.processed) \in Nat
          /\ Slot(rec[c].status.at) \in Slots
      BY <1>1, <1>2, ProcessedLen, InProgress
    <3>2. Len(st.processed) = Len(rec[c].status.processed) + 1
      BY <2>1, <3>1
    <3> HIDE DEF st
    <3> QED BY <3>1, <3>2
  <2>4. WorkflowsOK'
    BY <1>1, <1>2 DEF WorkflowsOK
  <2> HIDE DEF st
  <2> QED BY <1>1, <1>2, <2>1, <2>2, <2>3, <2>4, UpdatePlaced
<1>4. CASE rec[c].seen = "Error"
  <2>1. UpdateStatus(c, [rec[c].status EXCEPT !.phase = "Error"])
    BY <1>1, <1>4 DEF Outcome
  <2> QED BY <1>1, <1>2, <2>1, PhasePlaced
<1>5. CASE rec[c].seen \notin {"Completed", "Error"}
  <2>1. UpdateStatus(c, [rec[c].status EXCEPT !.phase = "Processing"])
    BY <1>1, <1>5 DEF Outcome
  <2> QED BY <1>1, <1>2, <2>1, PhasePlaced
<1> QED BY <1>3, <1>4, <1>5

\* End.
LEMMA EndPlaced ==
  ASSUME PlaceInv, NEW c \in Reconcilers, End(c),
         UNCHANGED <<spec, status, workflows>>, edits' \in Nat, faults' \in Nat
  PROVE  PlaceInv'
<1>0. /\ rec \in [Reconcilers -> Reconciles] /\ status \in Statuses
      /\ \A d \in Reconcilers : CopyOK(rec[d])
  BY DEF PlaceInv, TypeOK
<1>1. rec' \in [Reconcilers -> Reconciles]
  BY <1>0, NoStatusPlaced DEF End
<1>2. \A d \in Reconcilers : CopyOK(rec[d])'
  <2> SUFFICES ASSUME NEW d \in Reconcilers PROVE CopyOK(rec[d])'
    OBVIOUS
  <2>1. rec'[d] = IdleReconcile \/ rec'[d] = rec[d]
    BY <1>0 DEF End
  <2>2. CopyOK(IdleReconcile) /\ CopyOK(rec[d])
    BY <1>0, IdleCopy
  <2> QED BY <2>1, <2>2 DEF CopyOK, Placed
<1>3. TypeOK'
  BY <1>1 DEF TypeOK, PlaceInv
<1> QED BY <1>2, <1>3 DEF PlaceInv, Placed

\* Fault.
LEMMA FaultPlaced ==
  ASSUME PlaceInv, NEW c \in Reconcilers, Fault(c)
  PROVE  PlaceInv'
<1>1. /\ rec[c].pc # "idle" /\ UNCHANGED <<spec, workflows, edits>>
      /\ faults' = faults + 1
  BY DEF Fault
<1>2. /\ rec[c] \in Reconciles /\ edits' \in Nat /\ faults' \in Nat /\ WorkflowsOK'
      /\ rec \in [Reconcilers -> Reconciles]
  <2>1. rec[c] \in Reconciles /\ edits \in Nat /\ faults \in Nat /\ WorkflowsOK
    BY <1>1, InProgress
  <2>2. faults' \in Nat
    <3>1. faults \in Nat
      BY <2>1
    <3> QED BY <1>1, <3>1
  <2>3. WorkflowsOK' /\ edits' \in Nat
    BY <1>1, <2>1 DEF WorkflowsOK
  <2>4. rec \in [Reconcilers -> Reconciles]
    BY DEF PlaceInv, TypeOK
  <2> QED BY <2>1, <2>2, <2>3, <2>4
<1>3. CASE failWheel(c)
  BY <1>1, <1>2, <1>3, PhasePlaced DEF failWheel
<1>4. CASE rec[c].pc = "lookup" /\ rec' = [rec EXCEPT ![c].pc = "create"] /\ UNCHANGED status
  <2> DEFINE r == [rec[c] EXCEPT !.pc = "create"]
  <2>1. /\ r \in Reconciles /\ r.status = rec[c].status /\ r.fresh = rec[c].fresh
        /\ r.pc # "ahead"
    BY <1>2 DEF Reconciles
  <2>2. rec' = [rec EXCEPT ![c] = r]
    BY <1>4
  <2> HIDE DEF r
  <2> QED BY <1>1, <1>2, <1>4, <2>1, <2>2, LocalPlaced
<1>5. CASE rec[c].pc = "ahead" /\ rec' = [rec EXCEPT ![c].pc = "act"] /\ UNCHANGED status
  BY <1>1, <1>2, <1>5, AheadPlaced
<1>6. CASE End(c) /\ UNCHANGED status
  BY <1>1, <1>2, <1>6, EndPlaced
<1> QED BY <1>3, <1>4, <1>5, <1>6 DEF Fault

\* The steps of the environment leave the copies alone.
LEMMA WorkflowPlaced ==
  ASSUME PlaceInv, NEW slot \in DOMAIN workflows, NEW phase \in {"Completed", "Error"},
         workflows' = [workflows EXCEPT ![slot] = phase],
         UNCHANGED <<spec, status, rec>>, edits' \in Nat, faults' \in Nat
  PROVE  PlaceInv'
<1>1. WorkflowsOK'
  BY DEF PlaceInv, TypeOK, WorkflowsOK
<1>2. TypeOK'
  BY <1>1 DEF PlaceInv, TypeOK, WorkflowsOK
<1>3. \A c \in Reconcilers : CopyOK(rec[c])'
  BY DEF PlaceInv, CopyOK, Placed
<1> QED BY <1>2, <1>3 DEF PlaceInv, Placed

LEMMA EnvironmentPlaced ==
  ASSUME PlaceInv, Finalizer \/ RejectSpec \/ EditWheel
  PROVE  PlaceInv'
<1>0. spec \in Specs /\ status \in Statuses /\ edits \in Nat /\ faults \in Nat
      /\ Placed(status)
  BY DEF PlaceInv, TypeOK
<1>1. CASE Finalizer
  <2>1. spec' \in Specs
    BY <1>0, <1>1 DEF Finalizer, Specs
  <2> QED BY <1>0, <1>1, <2>1, StalePlaced DEF Finalizer
<1>2. CASE RejectSpec
  <2>1. /\ status' \in Statuses /\ status'.processed = status.processed
        /\ status'.at = status.at /\ status'.started = status.started
    BY <1>0, <1>2, PhaseOnly DEF RejectSpec
  <2> QED BY <1>0, <1>2, <2>1, StalePlaced DEF RejectSpec
<1>3. CASE EditWheel
  <2>1. spec' \in Specs
    BY <1>0, <1>3, WheelAssumption DEF EditWheel, Specs
  <2>2. edits' \in Nat
    BY <1>0, <1>3 DEF EditWheel
  <2> QED BY <1>0, <1>3, <2>1, <2>2, StalePlaced DEF EditWheel
<1> QED BY <1>1, <1>2, <1>3

-----------------------------------------------------------------------------
(* PlaceInv is an invariant of the wheel.                                  *)

LEMMA PlaceInit == Init => PlaceInv
<1> SUFFICES ASSUME Init PROVE PlaceInv
  OBVIOUS
<1>1. /\ status = NoStatus /\ workflows = <<>> /\ edits = 0 /\ faults = 0
      /\ rec = [c \in Reconcilers |-> IdleReconcile]
  BY DEF Init
<1>2. spec \in Specs
  BY WheelAssumption DEF Init, Specs
<1>3. TypeOK
  <2>1. DOMAIN workflows = {}
    BY <1>1
  <2>2. rec \in [Reconcilers -> Reconciles] /\ status \in Statuses
    BY <1>1, NoStatusPlaced
  <2>3. edits \in Nat /\ faults \in Nat
    BY <1>1
  <2> QED BY <1>2, <2>1, <2>2, <2>3 DEF TypeOK
<1>4. \A c \in Reconcilers : CopyOK(rec[c])
  BY <1>1, NoStatusPlaced, IdleCopy
<1> QED BY <1>1, <1>3, <1>4, NoStatusPlaced DEF PlaceInv

LEMMA PlaceNext == PlaceInv /\ [Next]_vars => PlaceInv'
<1> SUFFICES ASSUME PlaceInv, [Next]_vars PROVE PlaceInv'
  OBVIOUS
<1>1. edits \in Nat /\ faults \in Nat /\ WorkflowsOK
  BY DEF PlaceInv, TypeOK, WorkflowsOK
<1>2. ASSUME NEW c \in Reconcilers, ReconcileStep(c) PROVE PlaceInv'
  <2>1. CASE Begin(c)
    BY <2>1, BeginPlaced
  <2>2. CASE Lookup(c)
    BY <2>2, LookupPlaced
  <2>3. CASE Create(c)
    BY <2>3, CreatePlaced
  <2>4. CASE Mark(c)
    BY <2>4, <1>1, PhasePlaced DEF Mark
  <2>5. CASE Ahead(c)
    <3>1. Lookahead(rec[c].status.at) \in Slots
      BY <2>5, InProgress, LookaheadDue DEF Ahead
    <3>2. WorkflowsOK'
      BY <2>5, <3>1, <1>1, CreateTyped DEF Ahead
    <3> QED BY <2>5, <3>2, <1>1, AheadPlaced DEF Ahead
  <2>6. CASE Act(c)
    BY <2>6, ActPlaced
  <2> QED BY <1>2, <2>1, <2>2, <2>3, <2>4, <2>5, <2>6 DEF ReconcileStep
<1>3. ASSUME NEW slot \in DOMAIN workflows, Complete(slot) PROVE PlaceInv'
  BY <1>1, <1>3, WorkflowPlaced DEF Complete
<1>4. ASSUME NEW slot \in DOMAIN workflows, FailWorkflow(slot) PROVE PlaceInv'
  <2>1. faults' \in Nat
    <3>1. faults \in Nat /\ faults' = faults + 1
      BY <1>1, <1>4 DEF FailWorkflow
    <3> QED BY <3>1
  <2> QED BY <1>1, <1>4, <2>1, WorkflowPlaced DEF FailWorkflow
<1>5. CASE UNCHANGED vars
  BY <1>5 DEF vars, PlaceInv, TypeOK, Placed, CopyOK
<1> QED
  BY <1>2, <1>3, <1>4, <1>5, FaultPlaced, EnvironmentPlaced DEF Next

\* The inductive invariant holds in every state of every wheel.
THEOREM PlaceInvariant == Spec => []PlaceInv
<1> QED BY PlaceInit, PlaceNext, PTL DEF Spec

(* The theorems.                                                           *)

\* Every field of the wheel, of its Workflows and of the copies that
\* reconciles hold keeps its type.
THEOREM TypeCorrect == Spec => []TypeOK
<1>1. PlaceInv => TypeOK
  BY DEF PlaceInv
<1> QED BY <1>1, PlaceInvariant, PTL

\* Theorem W1 for the reconciler: however reconciles overlap, crash and
\* lose updates, the slots are recorded in the order of the schedule.
THEOREM RotationFollowsSchedule == Spec => []ScheduleFollowed
<1>1. PlaceInv => ScheduleFollowed
  BY NextDue DEF PlaceInv, TypeOK, ScheduleFollowed, Placed
<1> QED BY <1>1, PlaceInvariant, PTL

\* What a step does to the list of processed slots: nothing, or it records
\* the slot that is due, whose Workflow a reconcile has seen completed.
Recorded ==
  /\ status'.processed = Append(status.processed, Slot(status.at))
  /\ \E c \in Reconcilers : rec[c].seen = "Completed" /\ rec[c].status = status

Kept == status'.processed = status.processed

LEMMA UpdateKept ==
  ASSUME PlaceInv, NEW c \in Reconcilers, NEW st, UpdateStatus(c, st),
         st.processed = rec[c].status.processed
  PROVE  Kept
<1>1. rec[c].fresh => rec[c].status = status
  BY DEF PlaceInv, CopyOK
<1> QED BY <1>1 DEF UpdateStatus, Kept

LEMMA PhaseKept ==
  ASSUME PlaceInv, NEW c \in Reconcilers, rec[c].pc # "idle", NEW phase,
         UpdateStatus(c, [rec[c].status EXCEPT !.phase = phase])
  PROVE  Kept
<1>1. rec[c].status \in Statuses
  BY InProgress
<1>2. [rec[c].status EXCEPT !.phase = phase].processed = rec[c].status.processed
  BY <1>1 DEF Statuses
<1> QED BY <1>2, UpdateKept

LEMMA ActRecords ==
  ASSUME PlaceInv, NEW c \in Reconcilers, Act(c)
  PROVE  Kept \/ Recorded
<1>1. rec[c].pc # "idle" /\ UpdateStatus(c, Outcome(rec[c]))
  BY DEF Act
<1>2. CASE rec[c].seen = "Completed"
  <2>1. rec[c] \in Reconciles /\ Placed(rec[c].status)
    BY <1>1, InProgress
  <2>2. Advanced(rec[c]).processed = Append(rec[c].status.processed, Slot(rec[c].status.at))
    BY <2>1, AdvancePlaced
  <2>3. UpdateStatus(c, Advanced(rec[c]))
    BY <1>1, <1>2 DEF Outcome
  <2>4. rec[c].fresh => rec[c].status = status
    BY DEF PlaceInv, CopyOK
  <2>5. \/ rec[c].fresh /\ status' = Advanced(rec[c])
        \/ UNCHANGED status
    BY <2>3 DEF UpdateStatus
  <2> QED BY <1>2, <2>2, <2>4, <2>5 DEF Kept, Recorded
<1>3. CASE rec[c].seen # "Completed"
  <2>1. \/ UpdateStatus(c, [rec[c].status EXCEPT !.phase = "Error"])
        \/ UpdateStatus(c, [rec[c].status EXCEPT !.phase = "Processing"])
    BY <1>1, <1>3 DEF Outcome
  <2> QED BY <1>1, <2>1, PhaseKept
<1> QED BY <1>2, <1>3

LEMMA StepRecords ==
  ASSUME PlaceInv, [Next]_vars
  PROVE  Kept \/ Recorded
<1>1. ASSUME NEW c \in Reconcilers, ReconcileStep(c) \/ Fault(c) PROVE Kept \/ Recorded
  <2>1. CASE Begin(c)
    <3>1. status \in Statuses /\ status' = StartedStatus
      BY <2>1 DEF Begin, PlaceInv, TypeOK
    <3> QED BY <3>1 DEF StartedStatus, Statuses, Kept
  <2>2. CASE Lookup(c) \/ Ahead(c)
    BY <2>2 DEF Lookup, Ahead, Kept
  <2>3. CASE Create(c) \/ Fault(c)
    <3>1. rec[c].pc # "idle" /\ (failWheel(c) \/ UNCHANGED status)
      BY <2>3 DEF Create, Fault
    <3>2. CASE UNCHANGED status
      BY <3>2 DEF Kept
    <3> QED BY <3>1, <3>2, PhaseKept DEF failWheel
  <2>4. CASE Mark(c)
    BY <2>4, PhaseKept DEF Mark
  <2>5. CASE Act(c)
    BY <2>5, ActRecords
  <2> QED BY <1>1, <2>1, <2>2, <2>3, <2>4, <2>5 DEF ReconcileStep
<1>2. CASE Finalizer \/ EditWheel \/ UNCHANGED vars
  BY <1>2 DEF Finalizer, EditWheel, vars, Kept
<1>3. CASE RejectSpec
  <2>1. status \in Statuses
    BY DEF PlaceInv, TypeOK
  <2> QED BY <1>3, <2>1 DEF RejectSpec, Statuses, Kept
<1>4. ASSUME NEW slot \in DOMAIN workflows, Complete(slot) \/ FailWorkflow(slot)
      PROVE  Kept
  BY <1>4 DEF Complete, FailWorkflow, Kept
<1> QED BY <1>1, <1>2, <1>3, <1>4 DEF Next

(* No update is lost: what is recorded as processed stays recorded, and    *)
(* one step records at most one slot more, whichever of the overlapping    *)
(* reconciles writes last.                                                 *)
NothingLost ==
  [][\/ status'.processed = status.processed
     \/ status'.processed = Append(status.processed, Slot(status.at))]_vars

\* A step records at most the slot that is due, and forgets none.
THEOREM NoUpdateLost == Spec => NothingLost
<1> DEFINE Step == \/ status'.processed = status.processed
                   \/ status'.processed = Append(status.processed, Slot(status.at))
<1>1. PlaceInv /\ [Next]_vars => [Step]_vars
  BY StepRecords DEF Kept, Recorded
<1> QED BY <1>1, PlaceInvariant, PTL DEF Spec, NothingLost

-----------------------------------------------------------------------------
(* What is recorded had completed: a completed Workflow stays completed.   *)

Completed(slot) == slot \in DOMAIN workflows /\ workflows[slot] = "Completed"

AllCompleted(st) == \A i \in DOMAIN st.processed : Completed(st.processed[i])

CompletedInv ==
  /\ AllCompleted(status)
  /\ \A c \in Reconcilers :
       /\ AllCompleted(rec[c].status)
       /\ rec[c].seen = "Completed" => Completed(Slot(rec[c].status.at))

\* No step takes a completed Workflow back.
LEMMA CompletedStays ==
  ASSUME [Next]_vars, NEW slot, Completed(slot)
  PROVE  Completed(slot)'
<1>1. ASSUME NEW s, CreateWorkflow(s) PROVE Completed(slot)'
  BY <1>1 DEF CreateWorkflow, Completed
<1>2. ASSUME NEW c \in Reconcilers, ReconcileStep(c) \/ Fault(c) PROVE Completed(slot)'
  <2>1. CASE UNCHANGED workflows
    BY <2>1 DEF Completed
  <2>2. UNCHANGED workflows \/ \E s : CreateWorkflow(s)
    BY <1>2 DEF ReconcileStep, Begin, Lookup, Create, Mark, Ahead, Act, Fault
  <2> QED BY <1>1, <2>1, <2>2
<1>3. ASSUME NEW s \in DOMAIN workflows, Complete(s) \/ FailWorkflow(s) PROVE Completed(slot)'
  BY <1>3 DEF Complete, FailWorkflow, Completed
<1>4. CASE UNCHANGED workflows
  BY <1>4 DEF Completed
<1>5. UNCHANGED vars \/ Finalizer \/ RejectSpec \/ EditWheel => UNCHANGED workflows
  BY DEF vars, Finalizer, RejectSpec, EditWheel
<1> QED BY <1>2, <1>3, <1>4, <1>5 DEF Next

\* What a step makes of the copies: one is kept, dropped or read anew, and
\* what it has seen of its Workflow was there.
CopyKept(c) == rec'[c].status = rec[c].status /\ rec'[c].seen = rec[c].seen

CopyDropped(c) == rec'[c] = IdleReconcile

CopyRead(c) == rec'[c].status.processed = status.processed /\ rec'[c].seen = ""

CopyLooked(c) ==
  /\ rec'[c].status = rec[c].status
  /\ rec'[c].seen = "Completed" => Completed(Slot(rec[c].status.at))

LEMMA UpdateCopies ==
  ASSUME PlaceInv, NEW c \in Reconcilers, NEW st, UpdateStatus(c, st)
  PROVE  \A d \in Reconcilers : CopyKept(d) \/ CopyDropped(d)
<1> SUFFICES ASSUME NEW d \in Reconcilers PROVE CopyKept(d) \/ CopyDropped(d)
  OBVIOUS
<1>1. rec \in [Reconcilers -> Reconciles] /\ rec[d] \in Reconciles
  BY DEF PlaceInv, TypeOK
<1>2. CASE d = c
  BY <1>1, <1>2 DEF UpdateStatus, EndWritten, End, CopyDropped
<1>3. CASE d # c
  <2>1. rec'[d] = [rec[d] EXCEPT !.fresh = FALSE] \/ rec'[d] = rec[d]
    BY <1>1, <1>3 DEF UpdateStatus, EndWritten, End
  <2> QED BY <1>1, <2>1 DEF CopyKept, Reconciles
<1> QED BY <1>2, <1>3

LEMMA StaleCopies ==
  ASSUME PlaceInv, AllStale
  PROVE  \A d \in Reconcilers : CopyKept(d)
<1> SUFFICES ASSUME NEW d \in Reconcilers PROVE CopyKept(d)
  OBVIOUS
<1>1. rec[d] \in Reconciles /\ rec'[d] = [rec[d] EXCEPT !.fresh = FALSE]
  BY DEF PlaceInv, TypeOK, AllStale
<1> QED BY <1>1 DEF CopyKept, Reconciles

\* A change of a copy's pc.
LEMMA PcCopies ==
  ASSUME PlaceInv, NEW c \in Reconcilers, NEW pc, rec' = [rec EXCEPT ![c].pc = pc]
  PROVE  \A d \in Reconcilers : CopyKept(d)
<1> SUFFICES ASSUME NEW d \in Reconcilers PROVE CopyKept(d)
  OBVIOUS
<1>1. rec \in [Reconcilers -> Reconciles] /\ rec[d] \in Reconciles
  BY DEF PlaceInv, TypeOK
<1>2. rec'[d] = rec[d] \/ rec'[d] = [rec[d] EXCEPT !.pc = pc]
  BY <1>1
<1> QED BY <1>1, <1>2 DEF CopyKept, Reconciles

LEMMA Copies ==
  ASSUME PlaceInv, [Next]_vars, NEW d \in Reconcilers
  PROVE  CopyKept(d) \/ CopyDropped(d) \/ CopyRead(d) \/ CopyLooked(d)
<1> DEFINE Goal == CopyKept(d) \/ CopyDropped(d) \/ CopyRead(d) \/ CopyLooked(d)
<1>0. rec \in [Reconcilers -> Reconciles] /\ rec[d] \in Reconciles
      /\ spec \in Specs /\ status \in Statuses
  BY DEF PlaceInv, TypeOK
<1>1. ASSUME NEW c \in Reconcilers, ReconcileStep(c) \/ Fault(c) PROVE Goal
  <2>1. CASE Begin(c)
    <3>1. CASE d = c
      <4>1. rec'[d] = ReadCopy(StartedStatus, spec.max)
        BY <1>0, <2>1, <3>1 DEF Begin
      <4>2. StartedStatus \in Statuses /\ StartedStatus.processed = status.processed
        <5>1. InitialState \in Positions
          BY ContextCount DEF InitialState, Positions
        <5> QED BY <1>0, <5>1 DEF StartedStatus, Statuses
      <4>3. spec.max \in Nat
        BY <1>0 DEF Specs
      <4>4. /\ ReadCopy(StartedStatus, spec.max).status = StartedStatus
            /\ ReadCopy(StartedStatus, spec.max).seen = ""
        BY <4>2, <4>3, ReadCopyFields
      <4> QED BY <4>1, <4>2, <4>4 DEF CopyRead
    <3>2. CASE d # c
      <4>1. rec'[d] = [rec[d] EXCEPT !.fresh = rec[d].fresh /\ status.started]
        BY <2>1, <3>2 DEF Begin
      <4> QED BY <1>0, <4>1 DEF CopyKept, Reconciles
    <3> QED BY <3>1, <3>2
  <2>2. CASE Lookup(c)
    <3>1. CASE d # c
      <4>1. rec'[d] = rec[d]
        BY <1>0, <2>2, <3>1 DEF Lookup
      <4> QED BY <4>1 DEF CopyKept
    <3>2. CASE d = c
      <4>1. CASE rec' = [rec EXCEPT ![c].pc = "create"]
        BY <4>1, PcCopies
      <4>2. ASSUME Slot(rec[c].status.at) \in DOMAIN workflows,
                   rec' = [rec EXCEPT ![c].pc = IF PreProvisionNext THEN "ahead" ELSE "act",
                                      ![c].seen = workflows[Slot(rec[c].status.at)]]
            PROVE  Goal
        <5>1. /\ rec'[c].status = rec[c].status
              /\ rec'[c].seen = workflows[Slot(rec[c].status.at)]
          BY <1>0, <3>2, <4>2 DEF Reconciles
        <5> QED BY <3>2, <4>2, <5>1 DEF CopyLooked, Completed
      <4> QED BY <2>2, <4>1, <4>2 DEF Lookup
    <3> QED BY <3>1, <3>2
  <2>3. CASE Create(c)
    <3>1. failWheel(c) \/ rec' = [rec EXCEPT ![c].pc = "mark"]
      BY <2>3 DEF Create
    <3> QED BY <3>1, UpdateCopies, PcCopies DEF failWheel
  <2>4. CASE Mark(c)
    BY <2>4, UpdateCopies DEF Mark
  <2>5. CASE Ahead(c)
    BY <2>5, PcCopies DEF Ahead
  <2>6. CASE Act(c)
    BY <2>6, UpdateCopies DEF Act
  <2>7. CASE Fault(c)
    <3>1. \/ failWheel(c) \/ End(c)
          \/ rec' = [rec EXCEPT ![c].pc = "create"] \/ rec' = [rec EXCEPT ![c].pc = "act"]
      BY <2>7 DEF Fault
    <3>2. CASE End(c)
      <4>1. rec'[d] = IdleReconcile \/ rec'[d] = rec[d]
        BY <1>0, <3>2 DEF End
      <4> QED BY <4>1 DEF CopyKept, CopyDropped
    <3> QED BY <3>1, <3>2, UpdateCopies, PcCopies DEF failWheel
  <2> QED BY <1>1, <2>1, <2>2, <2>3, <2>4, <2>5, <2>6, <2>7 DEF ReconcileStep
<1>2. ASSUME NEW s \in DOMAIN workflows, Complete(s) \/ FailWorkflow(s) PROVE Goal
  BY <1>2 DEF Complete, FailWorkflow, CopyKept
<1>3. CASE Finalizer \/ RejectSpec \/ EditWheel
  BY <1>3, StaleCopies DEF Finalizer, RejectSpec, EditWheel
<1>4. CASE UNCHANGED vars
  BY <1>4 DEF vars, CopyKept
<1> QED BY <1>1, <1>2, <1>3, <1>4 DEF Next

LEMMA NothingProcessed == DOMAIN NoStatus.processed = {}
BY DEF NoStatus

LEMMA CompletedNext == PlaceInv /\ CompletedInv /\ [Next]_vars => CompletedInv'
<1> SUFFICES ASSUME PlaceInv, CompletedInv, [Next]_vars PROVE CompletedInv'
  OBVIOUS
<1>1. \A slot : Completed(slot) => Completed(slot)'
  BY CompletedStays
<1>2. AllCompleted(status)'
  <2>1. CASE Kept
    BY <1>1, <2>1 DEF Kept, AllCompleted, CompletedInv
  <2>2. CASE Recorded
    <3>1. Completed(Slot(status.at))
      BY <2>2 DEF Recorded, CompletedInv
    <3>2. status.processed \in Seq(Slots) /\ Slot(status.at) \in Slots
      <4>1. status \in Statuses /\ Placed(status)
        BY DEF PlaceInv, TypeOK
      <4>2. status.at \in Positions /\ status.at.index < Len(Contexts)
        BY <4>1 DEF Statuses, Placed
      <4> QED BY <4>1, <4>2, ProcessedLen, SlotType
    <3>3. \A i \in DOMAIN status'.processed :
            \/ i \in DOMAIN status.processed /\ status'.processed[i] = status.processed[i]
            \/ status'.processed[i] = Slot(status.at)
      BY <2>2, <3>2 DEF Recorded
    <3> QED BY <1>1, <3>1, <3>3 DEF AllCompleted, CompletedInv
  <2> QED BY <2>1, <2>2, StepRecords
<1>3. ASSUME NEW c \in Reconcilers
      PROVE  /\ AllCompleted(rec[c].status)'
             /\ (rec[c].seen = "Completed" => Completed(Slot(rec[c].status.at)))'
  <2>0. /\ AllCompleted(status) /\ AllCompleted(rec[c].status)
        /\ rec[c].seen = "Completed" => Completed(Slot(rec[c].status.at))
    BY DEF CompletedInv
  <2>1. CASE CopyKept(c) \/ CopyLooked(c)
    BY <1>1, <2>0, <2>1 DEF CopyKept, CopyLooked, AllCompleted
  <2>2. CASE CopyDropped(c)
    <3>1. rec'[c].status = NoStatus /\ rec'[c].seen = ""
      BY <2>2, NoStatusPlaced DEF CopyDropped
    <3> QED BY <3>1, NothingProcessed DEF AllCompleted
  <2>3. CASE CopyRead(c)
    BY <1>1, <2>0, <2>3 DEF CopyRead, AllCompleted
  <2> QED BY <2>1, <2>2, <2>3, Copies
<1> QED BY <1>2, <1>3 DEF CompletedInv

LEMMA CompletedAlways == Spec => [](PlaceInv /\ CompletedInv)
<1>1. Init => CompletedInv
  <2> SUFFICES ASSUME Init PROVE CompletedInv
    OBVIOUS
  <2>1. status = NoStatus /\ \A c \in Reconcilers : rec[c] = IdleReconcile
    BY DEF Init
  <2>2. \A c \in Reconcilers : rec[c].status = NoStatus /\ rec[c].seen = ""
    BY <2>1, NoStatusPlaced
  <2> QED BY <2>1, <2>2, NothingProcessed DEF CompletedInv, AllCompleted
<1> QED BY <1>1, CompletedNext, PlaceInvariant, PTL DEF Spec

\* A slot is recorded as processed only when its Workflow has completed,
\* and stays so.
THEOREM OnlyCompletedRecorded == Spec => []ProcessedCompleted
<1>1. CompletedInv => ProcessedCompleted
  BY DEF CompletedInv, AllCompleted, Completed, ProcessedCompleted
<1> QED BY <1>1, CompletedAlways, PTL

-----------------------------------------------------------------------------
(* Workflows are created no more than one slot ahead.                      *)

\* What a stale copy takes for the next slots has come or is still to come.
LEMMA DueForCopy ==
  ASSUME PlaceInv, NEW c \in Reconcilers, rec[c].pc # "idle",
         NEW k \in 1..Reach, NEW slot, Scheduled(Len(rec[c].status.processed) + k, slot)
  PROVE  \E i \in 1..(Len(status.processed) + Reach) : Scheduled(i, slot)
<1>1. /\ Len(rec[c].status.processed) <= Len(status.processed)
      /\ Len(rec[c].status.processed) \in Nat /\ Len(status.processed) \in Nat
  <2>1. CopyOK(rec[c]) /\ status \in Statuses /\ rec[c].status \in Statuses
    BY InProgress DEF PlaceInv, TypeOK
  <2> QED BY <2>1, ProcessedLen DEF CopyOK
<1>2. Reach \in Nat
  BY DEF Reach
<1>3. Len(rec[c].status.processed) + k \in 1..(Len(status.processed) + Reach)
  BY <1>1, <1>2
<1> QED BY <1>3

\* A step creates a Workflow only for the slot its copy points at, or for
\* the one after it when preProvisionNext is set.
LEMMA CreatesDue ==
  ASSUME PlaceInv, [Next]_vars, NEW slot, slot \in DOMAIN workflows'
  PROVE  \/ slot \in DOMAIN workflows
         \/ \E i \in 1..(Len(status.processed) + Reach) : Scheduled(i, slot)
<1> DEFINE Due == \E i \in 1..(Len(status.processed) + Reach) : Scheduled(i, slot)
<1>1. ASSUME NEW s, CreateWorkflow(s) PROVE slot \in DOMAIN workflows \/ slot = s
  BY <1>1 DEF CreateWorkflow
<1>2. ASSUME NEW c \in Reconcilers, Create(c) PROVE slot \in DOMAIN workflows \/ Due
  <2>1. rec[c].pc # "idle"
    BY <1>2 DEF Create
  <2>2. Scheduled(Len(rec[c].status.processed) + 1, Slot(rec[c].status.at))
    BY <2>1, InProgress, NextDue
  <2>3. 1 \in 1..Reach
    BY DEF Reach
  <2>4. slot \in DOMAIN workflows \/ slot = Slot(rec[c].status.at)
    BY <1>1, <1>2 DEF Create
  <2> QED BY <2>1, <2>2, <2>3, <2>4, DueForCopy
<1>3. ASSUME NEW c \in Reconcilers, Ahead(c) PROVE slot \in DOMAIN workflows \/ Due
  <2>1. rec[c].pc = "ahead"
    BY <1>3 DEF Ahead
  <2>2. rec[c].status \in Statuses /\ Placed(rec[c].status) /\ PreProvisionNext
    BY <2>1, InProgress DEF PlaceInv, CopyOK
  <2>3. Scheduled(Len(rec[c].status.processed) + 2, Lookahead(rec[c].status.at))
    <3>1. Len(rec[c].status.processed) \in Nat
      BY <2>2, ProcessedLen
    <3>2. (Len(rec[c].status.processed) + 1) + 1 = Len(rec[c].status.processed) + 2
      BY <3>1
    <3> QED BY <2>2, <3>2, LookaheadDue
  <2>4. 2 \in 1..Reach
    BY <2>2 DEF Reach
  <2>5. slot \in DOMAIN workflows \/ slot = Lookahead(rec[c].status.at)
    BY <1>1, <1>3 DEF Ahead
  <2> QED BY <2>1, <2>3, <2>4, <2>5, DueForCopy
<1>4. ASSUME NEW c \in Reconcilers, Begin(c) \/ Lookup(c) \/ Mark(c) \/ Act(c) \/ Fault(c)
      PROVE  slot \in DOMAIN workflows
  BY <1>4 DEF Begin, Lookup, Mark, Act, Fault
<1>5. ASSUME NEW s \in DOMAIN workflows, Complete(s) \/ FailWorkflow(s)
      PROVE  slot \in DOMAIN workflows
  BY <1>5 DEF Complete, FailWorkflow
<1>6. CASE Finalizer \/ RejectSpec \/ EditWheel \/ UNCHANGED vars
  BY <1>6 DEF Finalizer, RejectSpec, EditWheel, vars
<1> QED BY <1>2, <1>3, <1>4, <1>5, <1>6 DEF Next, ReconcileStep

\* Whatever overlapping and stale reconciles do, no Workflow is created
\* more than one slot ahead of the list of processed slots.
THEOREM NeverTwoAhead == Spec => []OneSlotAhead
<1>1. Init => OneSlotAhead
  BY DEF Init, OneSlotAhead
<1>2. PlaceInv /\ OneSlotAhead /\ PlaceInv' /\ [Next]_vars => OneSlotAhead'
  <2> SUFFICES ASSUME PlaceInv, PlaceInv', OneSlotAhead, [Next]_vars PROVE OneSlotAhead'
    OBVIOUS
  <2>1. /\ Len(status.processed) \in Nat /\ Len(status'.processed) \in Nat
        /\ Len(status.processed) <= Len(status'.processed)
    <3>1. status \in Statuses /\ status' \in Statuses /\ Placed(status)
      BY DEF PlaceInv, TypeOK
    <3>2. /\ status.processed \in Seq(Slots) /\ Len(status.processed) \in Nat
          /\ Len(status'.processed) \in Nat
      BY <3>1, ProcessedLen
    <3>3. CASE Kept
      BY <3>2, <3>3 DEF Kept
    <3>4. CASE Recorded
      <4>1. status.at \in Positions /\ status.at.index < Len(Contexts)
        BY <3>1 DEF Statuses, Placed
      <4>2. Slot(status.at) \in Slots
        BY <4>1, SlotType
      <4>3. Len(status'.processed) = Len(status.processed) + 1
        BY <3>2, <3>4, <4>2 DEF Recorded
      <4> QED BY <3>2, <4>3
    <3> QED BY <3>3, <3>4, StepRecords
  <2>2. Reach \in Nat
    BY DEF Reach
  <2>3. \A i \in 1..(Len(status.processed) + Reach) : i \in 1..(Len(status'.processed) + Reach)
    BY <2>1, <2>2
  <2>4. \A slot \in DOMAIN workflows :
          \E i \in 1..(Len(status.processed) + Reach) : Scheduled(i, slot)
    BY DEF OneSlotAhead, Reach
  <2>5. \A slot \in DOMAIN workflows' :
          \E i \in 1..(Len(status'.processed) + Reach) : Scheduled(i, slot)
    BY <2>3, <2>4, CreatesDue
  <2> QED BY <2>5 DEF OneSlotAhead, Reach, Scheduled
<1> QED BY <1>1, <1>2, PlaceInvariant, PTL DEF Spec

-----------------------------------------------------------------------------
(* The reconciler implements the schedule.                                 *)

\* Quotient and remainder of a slot's number are its slice and its context.
LEMMA Division ==
  ASSUME NEW r \in Nat, NEW n \in Nat \ {0}, NEW k \in 0..(n - 1)
  PROVE  (r * n + k) \div n = r /\ (r * n + k) % n = k
OBVIOUS

\* Scheduled is the schedule of WheelSchedule.
LEMMA ScheduledIsDue ==
  ASSUME NEW i \in Nat, NEW slot, Scheduled(i, slot)
  PROVE  slot = Schedule!Due(i)
<1> DEFINE n == Len(Contexts)
<1>1. PICK r \in 0..i, k \in 1..n :
        /\ i = r * n + k
        /\ slot = [context |-> Contexts[k], time |-> Start + r * Interval]
  BY DEF Scheduled
<1>2. n \in Nat \ {0} /\ r \in Nat /\ k - 1 \in 0..(n - 1) /\ r * n \in Nat
  BY ContextCount, Distribute
<1>3. (r * n + (k - 1)) \div n = r /\ (r * n + (k - 1)) % n = k - 1
  BY <1>2, Division
<1>4. i - 1 = r * n + (k - 1) /\ (k - 1) + 1 = k
  <2> HIDE DEF n
  <2> QED BY <1>1, <1>2
<1>5. (i - 1) \div n = r /\ ((i - 1) % n) + 1 = k
  BY <1>3, <1>4
<1> QED BY <1>1, <1>5 DEF Schedule!Due

\* The Workflows are a map from slots to phases.
WorkflowMap == workflows = [s \in DOMAIN workflows |-> workflows[s]]

\* What a step does to the Workflows.
LEMMA WorkflowMoves ==
  ASSUME [Next]_vars
  PROVE  \/ UNCHANGED workflows
         \/ UNCHANGED status /\ \E slot : CreateWorkflow(slot)
         \/ \E slot \in DOMAIN workflows : Complete(slot) \/ FailWorkflow(slot)
<1>1. ASSUME NEW c \in Reconcilers, ReconcileStep(c) \/ Fault(c)
      PROVE  UNCHANGED workflows \/ (UNCHANGED status /\ \E slot : CreateWorkflow(slot))
  BY <1>1 DEF ReconcileStep, Begin, Lookup, Create, Mark, Ahead, Act, Fault
<1>2. UNCHANGED vars \/ Finalizer \/ RejectSpec \/ EditWheel => UNCHANGED workflows
  BY DEF vars, Finalizer, RejectSpec, EditWheel
<1> QED BY <1>1, <1>2 DEF Next

LEMMA MapInit == Init => WorkflowMap
<1>1. <<>> = [s \in DOMAIN <<>> |-> <<>>[s]]
  OBVIOUS
<1> QED BY <1>1 DEF Init, WorkflowMap

LEMMA MapNext == WorkflowMap /\ [Next]_vars => WorkflowMap'
<1> SUFFICES ASSUME WorkflowMap, [Next]_vars PROVE WorkflowMap'
  OBVIOUS
<1>1. CASE UNCHANGED workflows
  BY <1>1 DEF WorkflowMap
<1>2. ASSUME NEW slot, CreateWorkflow(slot) PROVE WorkflowMap'
  BY <1>2 DEF CreateWorkflow, WorkflowMap
<1>3. ASSUME NEW slot \in DOMAIN workflows, Complete(slot) \/ FailWorkflow(slot)
      PROVE  WorkflowMap'
  BY <1>3 DEF Complete, FailWorkflow, WorkflowMap
<1> QED BY <1>1, <1>2, <1>3, WorkflowMoves

LEMMA RecordRefines ==
  ASSUME PlaceInv, CompletedInv, Recorded, UNCHANGED workflows
  PROVE  Schedule!Record
<1>1. status \in Statuses /\ Placed(status)
  BY DEF PlaceInv, TypeOK
<1>2. Len(status.processed) + 1 \in Nat
  BY <1>1, ProcessedLen
<1>3. Slot(status.at) = Schedule!Due(Len(status.processed) + 1)
  BY <1>1, <1>2, NextDue, ScheduledIsDue
<1>4. Completed(Slot(status.at))
  BY DEF Recorded, CompletedInv
<1> QED BY <1>3, <1>4 DEF Schedule!Record, Recorded, Completed

LEMMA CreateRefines ==
  ASSUME PlaceInv, WorkflowMap, [Next]_vars, UNCHANGED status, NEW slot, CreateWorkflow(slot)
  PROVE  [Schedule!Next]_(Schedule!vars)
<1>1. CASE slot \in DOMAIN workflows
  <2>1. DOMAIN workflows \cup {slot} = DOMAIN workflows
    BY <1>1
  <2>2. workflows' = [s \in DOMAIN workflows |-> workflows[s]]
    BY <2>1 DEF CreateWorkflow
  <2>3. UNCHANGED workflows
    BY <2>2 DEF WorkflowMap
  <2> QED BY <2>3 DEF Schedule!vars
<1>2. CASE slot \notin DOMAIN workflows
  <2>1. slot \in DOMAIN workflows'
    BY DEF CreateWorkflow
  <2>2. PICK i \in 1..(Len(status.processed) + Reach) : Scheduled(i, slot)
    BY <1>2, <2>1, CreatesDue
  <2>3. slot = Schedule!Due(i)
    BY <2>2, ScheduledIsDue
  <2>4. Schedule!Create(i)
    BY <1>2, <2>3 DEF Schedule!Create, CreateWorkflow
  <2> QED BY <2>4 DEF Schedule!Next
<1> QED BY <1>1, <1>2

LEMMA FinishRefines ==
  ASSUME NEW slot \in DOMAIN workflows, Complete(slot) \/ FailWorkflow(slot)
  PROVE  Schedule!Next
<1>1. UNCHANGED status.processed
  BY DEF Complete, FailWorkflow
<1>2. CASE Complete(slot)
  <2>1. Schedule!Finish(slot, "Completed")
    BY <1>1, <1>2 DEF Complete, Schedule!Finish
  <2> QED BY <2>1 DEF Schedule!Next
<1>3. CASE FailWorkflow(slot)
  <2>1. Schedule!Finish(slot, "Error")
    BY <1>1, <1>3 DEF FailWorkflow, Schedule!Finish
  <2> QED BY <2>1 DEF Schedule!Next
<1> QED BY <1>2, <1>3

\* For any contexts, interval, limits and number of overlapping reconciles,
\* the reconciler implements the schedule: each step maps to a step of
\* WheelSchedule or leaves what it speaks of unchanged.
THEOREM WheelImplements == Spec => RefinesSchedule
<1>1. Init => Schedule!Init
  <2>1. NoStatus.processed = <<>>
    BY DEF NoStatus
  <2>2. Init => status = NoStatus /\ workflows = <<>>
    BY DEF Init
  <2> QED BY <2>1, <2>2 DEF Schedule!Init
<1>2. PlaceInv /\ CompletedInv /\ WorkflowMap /\ [Next]_vars
        => [Schedule!Next]_(Schedule!vars)
  <2> SUFFICES ASSUME PlaceInv, CompletedInv, WorkflowMap, [Next]_vars
               PROVE  [Schedule!Next]_(Schedule!vars)
    OBVIOUS
  <2>1. CASE UNCHANGED workflows
    <3>1. CASE Kept
      BY <2>1, <3>1 DEF Kept, Schedule!vars
    <3>2. CASE Recorded
      BY <2>1, <3>2, RecordRefines DEF Schedule!Next
    <3> QED BY <3>1, <3>2, StepRecords
  <2>2. CASE UNCHANGED status /\ \E slot : CreateWorkflow(slot)
    BY <2>2, CreateRefines
  <2>3. CASE \E slot \in DOMAIN workflows : Complete(slot) \/ FailWorkflow(slot)
    BY <2>3, FinishRefines
  <2> QED BY <2>1, <2>2, <2>3, WorkflowMoves
<1>3. Spec => []WorkflowMap
  BY MapInit, MapNext, PTL DEF Spec
<1> QED BY <1>1, <1>2, <1>3, CompletedAlways, PTL DEF Spec, Schedule!Spec, RefinesSchedule
=============================================================================
