---------------------------- MODULE WorkflowProofs ----------------------------
(***************************************************************************)
(* Proofs about WorkflowController, for any number of managers.  The       *)
(* argument: a reconcile whose copy the API server would still accept has  *)
(* the Workflow in being, marked Running and as its copy says (Held), so   *)
(* nobody holds such a copy of a Workflow that is Completed, and what a    *)
(* reconcile concludes about its copy (Concluded) is true of the Workflow  *)
(* at the moment the last update is accepted.                              *)
(***************************************************************************)
EXTENDS WorkflowController, TLAPS

USE DEF Runtimes, Kinds

-----------------------------------------------------------------------------
\* The record constructors build records of their types.
LEMMA StatusTyped ==
  ASSUME NEW p \in {"", "Pending", "Running", "Completed", "Error"}, NEW o \in Nat,
         NEW r \in Specs \cup {NoSpec}, NEW f \in BOOLEAN
  PROVE  /\ Status(p, o, r, f) \in StatusType
         /\ Status(p, o, r, f).phase = p /\ Status(p, o, r, f).observed = o
         /\ Status(p, o, r, f).result = r /\ Status(p, o, r, f).ref = f
BY DEF Status, StatusType

\* The constants of Init are typed.
LEMMA InitialTyped ==
  /\ NewStatus \in StatusType
  /\ \A u \in Nat : Gone(u) \in WorkflowType /\ ~Gone(u).exists /\ Gone(u).uid = u
                    /\ Gone(u).generation = 0 /\ Gone(u).status = NewStatus
  /\ NoChain \in ChainType /\ NoChain.owner = 0 /\ NoChain.phase = "" /\ ~NoChain.deleting
  /\ NoWork \in WorkType /\ NoWork.owner = 0 /\ NoWork.state = "none"
  /\ Idle \in RecType /\ Idle.pc = "idle"
  /\ NoReplay \in [owner : Nat, run : Specs \cup {NoSpec}, late : BOOLEAN] /\ NoReplay.owner = 0
  /\ NewStatus.phase = "" /\ NewStatus.observed = 0
BY DEF NewStatus, Gone, NoChain, NoWork, Idle, Status, StatusType, Workflow, WorkflowType,
       Chain, ChainType, Work, WorkType, Reconcile, RecType, NoReplay, Replay

-----------------------------------------------------------------------------
\* What the operators shared by several actions keep.

\* A turn is counted.
LEMMA TurnTyped ==
  ASSUME TypeOK, Turn
  PROVE  spent' \in Nat
BY DEF TypeOK, Turn

\* Manager m alone goes on.
Only(m) ==
  /\ rec' \in [Managers -> RecType]
  /\ \A n \in Managers : n # m => rec'[n] = rec[n]

\* What every outcome of a reconcile leaves of its copy.
Concludes(m) ==
  /\ Only(m) /\ rec[m].pc = "run" /\ rec'[m].pc = "commit" /\ rec'[m].spec \in Specs
  /\ rec'[m].uid = rec[m].uid /\ rec'[m].generation = rec[m].generation
  /\ rec'[m].spec = rec[m].spec /\ rec'[m].fresh = rec[m].fresh

\* The reconcile after Conclude.
LEMMA ConcludeTyped ==
  ASSUME TypeOK, NEW m \in Managers, rec[m].pc = "run",
         NEW p \in {"Pending", "Running", "Completed", "Error"},
         NEW o \in Nat, NEW r \in Specs \cup {NoSpec}, NEW f \in BOOLEAN,
         Conclude(m, p, o, r, f)
  PROVE  /\ Concludes(m)
         /\ rec'[m].status.phase = p /\ rec'[m].status.observed = o
         /\ rec'[m].status.result = r /\ rec'[m].status.ref = f
<1>2. PICK t : t = Status(p, o, r, f)
  OBVIOUS
<1>1. /\ t \in StatusType /\ t.phase = p /\ t.observed = o /\ t.result = r /\ t.ref = f
  BY <1>2 DEF Status, StatusType
<1>3. PICK c : c = Reconcile("commit", rec[m].uid, rec[m].generation, rec[m].spec, rec[m].fresh, t)
  OBVIOUS
<1>4. rec \in [Managers -> RecType] /\ rec[m] \in RecType /\ rec[m].spec \in Specs
  BY DEF TypeOK
<1>5. /\ c \in RecType /\ c.pc = "commit" /\ c.uid = rec[m].uid
      /\ c.generation = rec[m].generation /\ c.spec = rec[m].spec
      /\ c.fresh = rec[m].fresh /\ c.status = t
  BY <1>1, <1>3, <1>4 DEF Reconcile, RecType
<1>6. rec' = [rec EXCEPT ![m] = c]
  BY <1>2, <1>3 DEF Conclude
<1>7. rec'[m] = c /\ Only(m)
  BY <1>4, <1>5, <1>6 DEF Only
<1> QED
  BY <1>1, <1>4, <1>5, <1>7 DEF Concludes

\* The reconcile after Keep: only the phase of its copy changed.
LEMMA KeepTyped ==
  ASSUME TypeOK, NEW m \in Managers, rec[m].pc = "run",
         NEW p \in {"Pending", "Running", "Error"}, Keep(m, p)
  PROVE  /\ Concludes(m) /\ rec'[m].status.phase = p
         /\ rec'[m].status.observed = rec[m].status.observed
<1>0. rec[m] \in RecType
  BY DEF TypeOK
<1>1. /\ rec[m].status.observed \in Nat /\ rec[m].status.result \in Specs \cup {NoSpec}
      /\ rec[m].status.ref \in BOOLEAN
  BY <1>0 DEF RecType, StatusType
<1>2. Conclude(m, p, rec[m].status.observed, rec[m].status.result, rec[m].status.ref)
  BY DEF Keep
<1> QED
  BY <1>1, <1>2, ConcludeTyped

\* A completed run: the outcome, and what became of the replay log.
LEMMA CompleteTyped ==
  ASSUME TypeOK, NEW m \in Managers, rec[m].pc = "run", NEW run \in Specs, complete(m, run)
  PROVE  /\ Concludes(m)
         /\ rec'[m].status.observed = rec[m].generation /\ rec'[m].status.result = run
         /\ replay' \in [owner : Nat, run : Specs \cup {NoSpec}, late : BOOLEAN]
         /\ \/ /\ replay'.run = run /\ replay'.late = ~rec[m].fresh
               /\ replay'.owner = IF replay.owner = 0 THEN rec[m].uid ELSE replay.owner
            \/ replay' = replay /\ ~rec'[m].status.ref
         /\ spent' \in Nat
<1>0. rec[m] \in RecType
  BY DEF TypeOK
<1>1. rec[m].generation \in Nat /\ rec[m].uid \in Nat /\ rec[m].fresh \in BOOLEAN
  BY <1>0 DEF RecType
<1>2. CASE /\ writeReplayLog(m, run)
           /\ Conclude(m, "Completed", rec[m].generation, run, TRUE)
           /\ UNCHANGED spent
  <2>1. PICK o, l : /\ o = IF replay.owner = 0 THEN rec[m].uid ELSE replay.owner
                    /\ l = ~rec[m].fresh
    OBVIOUS
  <2>2. o \in Nat /\ l \in BOOLEAN
    BY <1>1, <2>1 DEF TypeOK
  <2>3. replay' = [owner |-> o, run |-> run, late |-> l]
    BY <1>2, <2>1 DEF writeReplayLog, Replay
  <2>4. spent' \in Nat
    BY <1>2 DEF TypeOK
  <2> QED
    BY <1>1, <1>2, <2>1, <2>2, <2>3, <2>4, ConcludeTyped
<1>3. CASE /\ Fault
           /\ Conclude(m, "Completed", rec[m].generation, run, FALSE)
           /\ UNCHANGED replay
  <2>1. replay' \in [owner : Nat, run : Specs \cup {NoSpec}, late : BOOLEAN] /\ replay' = replay
    BY <1>3 DEF TypeOK
  <2> QED
    BY <1>1, <1>3, <2>1, ConcludeTyped, TurnTyped DEF Fault
<1> QED
  BY <1>2, <1>3 DEF complete

\* Every copy that is held is overtaken, and is otherwise what it was.
LEMMA OvertakeTyped ==
  ASSUME TypeOK, Overtake
  PROVE  /\ rec' \in [Managers -> RecType]
         /\ \A m \in Managers :
              /\ rec'[m].pc = rec[m].pc /\ rec'[m].uid = rec[m].uid
              /\ rec'[m].generation = rec[m].generation /\ rec'[m].spec = rec[m].spec
              /\ rec'[m].status = rec[m].status /\ rec'[m].fresh = FALSE
<1>1. \A m \in Managers : rec[m] \in RecType
  BY DEF TypeOK
<1>2. rec' = [m \in Managers |-> [rec[m] EXCEPT !.fresh = FALSE]]
  BY DEF Overtake
<1>3. ASSUME NEW m \in Managers
      PROVE  /\ rec'[m] \in RecType
             /\ rec'[m].pc = rec[m].pc /\ rec'[m].uid = rec[m].uid
             /\ rec'[m].generation = rec[m].generation /\ rec'[m].spec = rec[m].spec
             /\ rec'[m].status = rec[m].status /\ rec'[m].fresh = FALSE
  BY <1>1, <1>2 DEF RecType
<1> QED
  BY <1>2, <1>3

\* The Workflow after an edit.
LEMMA EditedTyped ==
  ASSUME NEW w \in WorkflowType, NEW v, NEW s \in Specs,
         v = [w EXCEPT !.spec = s, !.generation = @ + 1]
  PROVE  /\ v \in WorkflowType /\ v.spec = s /\ v.generation = w.generation + 1
         /\ v.exists = w.exists /\ v.uid = w.uid /\ v.finalizer = w.finalizer
         /\ v.status = w.status
<1>1. PICK g \in Nat : g = w.generation + 1
  BY DEF WorkflowType
<1>2. v = [[w EXCEPT !.spec = s] EXCEPT !.generation = g]
  BY <1>1 DEF WorkflowType
<1> QED
  BY <1>1, <1>2 DEF WorkflowType

\* The Workflow after the start of a deletion.
LEMMA DeletingTyped ==
  ASSUME NEW w \in WorkflowType, NEW v,
         v = [w EXCEPT !.deleting = TRUE, !.generation = @ + 1]
  PROVE  /\ v \in WorkflowType /\ v.spec = w.spec /\ v.generation = w.generation + 1
         /\ v.exists = w.exists /\ v.uid = w.uid /\ v.finalizer = w.finalizer
         /\ v.status = w.status
<1>1. PICK g \in Nat : g = w.generation + 1
  BY DEF WorkflowType
<1>2. v = [[w EXCEPT !.deleting = TRUE] EXCEPT !.generation = g]
  BY <1>1 DEF WorkflowType
<1> QED
  BY <1>1, <1>2 DEF WorkflowType

\* The objects a chain owns after ensure.
LEMMA EnsureTyped ==
  ASSUME NEW ws \in [Kinds -> WorkType], NEW k \in Kinds, chain \in ChainType,
         chain.owner # 0, chain.spec \in Specs,
         \A j \in Kinds : ws[j].owner # 0 => ws[j].spec \in Specs,
         \A j \in Kinds : ws[j].state = "running" => ws[j].owner # 0
  PROVE  /\ ensure(k, ws) \in [Kinds -> WorkType]
         /\ \A j \in Kinds : ensure(k, ws)[j].owner # 0 => ensure(k, ws)[j].spec \in Specs
         /\ \A j \in Kinds : ensure(k, ws)[j].state = "running" => ensure(k, ws)[j].owner # 0
<1>1. PICK w : w = Work(chain.owner, chain.spec, "running")
  OBVIOUS
<1>2. w \in WorkType /\ w.owner = chain.owner /\ w.spec = chain.spec /\ w.state = "running"
  BY <1>1 DEF Work, WorkType, ChainType
<1>3. ensure(k, ws) = IF ws[k].owner # 0 THEN ws ELSE [ws EXCEPT ![k] = w]
  BY <1>1 DEF ensure
<1> QED
  BY <1>2, <1>3

\* A verdict changes the phase of a chain and nothing else.
LEMMA FinishTyped ==
  ASSUME TypeOK, chain.owner # 0, NEW state, finishChain(state)
  PROVE  /\ chain' \in ChainType /\ chain'.owner = chain.owner /\ chain'.spec = chain.spec
         /\ chain'.deleting = chain.deleting /\ chain'.phase = Verdict(state)
<1>1. Verdict(state) \in {"Running", "Completed", "Error"}
  BY DEF Verdict
<1>2. PICK p : p = Verdict(state)
  OBVIOUS
<1>3. chain' = Chain(chain.owner, chain.spec, p, chain.finalizer, chain.deleting)
  BY <1>2 DEF finishChain
<1>4. chain \in ChainType
  BY DEF TypeOK
<1> QED
  BY <1>1, <1>2, <1>3, <1>4 DEF Chain, ChainType

-----------------------------------------------------------------------------
\* The initial state is typed.
LEMMA InitTyped == Init => TypeOK
<1> SUFFICES ASSUME Init PROVE TypeOK
  OBVIOUS
<1>1. wf \in WorkflowType /\ ~wf.exists
  BY InitialTyped DEF Init
<1>2. /\ chain \in ChainType /\ chain.owner = 0
      /\ rec \in [Managers -> RecType] /\ \A m \in Managers : rec[m].pc = "idle"
  BY InitialTyped DEF Init
<1>3. work \in [Kinds -> WorkType] /\ \A k \in Kinds : work[k].owner = 0 /\ work[k].state = "none"
  BY InitialTyped DEF Init
<1>4. replay \in [owner : Nat, run : Specs \cup {NoSpec}, late : BOOLEAN] /\ spent \in Nat
  BY InitialTyped DEF Init
<1> QED
  BY <1>1, <1>2, <1>3, <1>4, SpecAssumption DEF Init, TypeOK

\* Steps of users keep the types.
LEMMA UserTyped == TypeOK /\ User => TypeOK'
<1> SUFFICES ASSUME TypeOK, User PROVE TypeOK'
  OBVIOUS
<1>1. CASE Create
  <2>1. PICK s \in Specs : wf' = Workflow(TRUE, wf.uid + 1, 1, s, FALSE, FALSE, NewStatus)
    BY <1>1 DEF Create
  <2>4. wf.uid + 1 \in Nat
    BY DEF TypeOK, WorkflowType
  <2>2. wf.uid + 1 \in Nat /\ NewStatus \in StatusType
    BY <2>4, InitialTyped
  <2>3. wf' \in WorkflowType /\ wf'.spec = s
    BY <2>1, <2>2 DEF Workflow, WorkflowType
  <2>5. spent' \in Nat
    BY <1>1, TurnTyped DEF Create, TypeOK
  <2> QED
    BY <1>1, <2>3, <2>5 DEF Create, TypeOK
<1>2. CASE Edit
  <2>4. PICK s \in Specs : wf' = [wf EXCEPT !.spec = s, !.generation = @ + 1]
    BY <1>2 DEF Edit
  <2>5. wf \in WorkflowType
    BY DEF TypeOK
  <2>1. wf' \in WorkflowType /\ wf'.spec \in Specs
    BY <2>4, <2>5, EditedTyped
  <2>2. /\ rec' \in [Managers -> RecType]
        /\ \A m \in Managers : rec'[m].pc # "idle" => rec'[m].spec \in Specs
    BY <1>2, OvertakeTyped DEF Edit, TypeOK
  <2>3. spent' \in Nat
    BY <1>2, TurnTyped DEF Edit
  <2> QED
    BY <1>2, <2>1, <2>2, <2>3 DEF Edit, TypeOK
<1>3. CASE Delete
  <2>3. wf \in WorkflowType /\ wf.spec \in Specs
    BY <1>3 DEF Delete, TypeOK
  <2>4. wf.uid \in Nat
    BY <2>3 DEF WorkflowType
  <2>5. ASSUME wf' = Gone(wf.uid) PROVE wf' \in WorkflowType /\ ~wf'.exists
    BY <2>4, <2>5, InitialTyped
  <2>6. ASSUME wf' = [wf EXCEPT !.deleting = TRUE, !.generation = @ + 1]
        PROVE  wf' \in WorkflowType /\ wf'.spec \in Specs
    BY <2>3, <2>6, DeletingTyped
  <2>1. wf' \in WorkflowType /\ (wf'.exists => wf'.spec \in Specs)
    BY <1>3, <2>5, <2>6 DEF Delete
  <2>2. /\ rec' \in [Managers -> RecType]
        /\ \A m \in Managers : rec'[m].pc # "idle" => rec'[m].spec \in Specs
    BY <1>3, OvertakeTyped DEF Delete, TypeOK
  <2>7. spent' \in Nat
    BY <1>3, TurnTyped DEF Delete
  <2> QED
    BY <1>3, <2>1, <2>2, <2>7 DEF Delete, TypeOK
<1> QED
  BY <1>1, <1>2, <1>3 DEF User

\* Steps of the cluster keep the types.
LEMMA ClusterTyped == TypeOK /\ Cluster => TypeOK'
<1> SUFFICES ASSUME TypeOK, Cluster PROVE TypeOK'
  OBVIOUS
<1>1. ASSUME NEW s \in Specs, Seal(s) PROVE TypeOK'
  BY <1>1 DEF Seal, TypeOK
<1>2. ASSUME NEW k \in Kinds, WorkSucceeds(k) \/ WorkFails(k) PROVE TypeOK'
  <2>1. PICK t \in {"succeeded", "failed"} :
          work' = [work EXCEPT ![k] = Work(work[k].owner, work[k].spec, t)]
    BY <1>2 DEF WorkSucceeds, WorkFails
  <2>2. PICK w : w = Work(work[k].owner, work[k].spec, t)
    OBVIOUS
  <2>3. work[k] \in WorkType /\ work[k].owner # 0 /\ work[k].spec \in Specs
    BY <1>2 DEF TypeOK, WorkSucceeds, WorkFails
  <2>4. w \in WorkType /\ w.owner = work[k].owner /\ w.spec = work[k].spec /\ w.state = t
    BY <2>2, <2>3 DEF Work, WorkType
  <2>5. work' = [work EXCEPT ![k] = w]
    BY <2>1, <2>2
  <2>6. /\ work' \in [Kinds -> WorkType]
        /\ \A j \in Kinds : work'[j].owner # 0 => work'[j].spec \in Specs
        /\ \A j \in Kinds : work'[j].state = "running" => work'[j].owner # 0
    BY <2>3, <2>4, <2>5 DEF TypeOK
  <2>7. ran' \subseteq [owner : Nat, spec : Specs] /\ spent' \in Nat
    BY <1>2, <2>3, TurnTyped DEF WorkSucceeds, WorkFails, Fault, TypeOK, WorkType
  <2>8. UNCHANGED <<wf, ready, chain, replay, rec>>
    BY <1>2 DEF WorkSucceeds, WorkFails
  <2> QED
    BY <2>6, <2>7, <2>8 DEF TypeOK
<1>3. ASSUME NEW k \in Kinds, CollectWork(k) PROVE TypeOK'
  <2>1. /\ work' \in [Kinds -> WorkType]
        /\ \A j \in Kinds : work'[j].owner # 0 => work'[j].spec \in Specs
        /\ \A j \in Kinds : work'[j].state = "running" => work'[j].owner # 0
    BY <1>3, InitialTyped DEF CollectWork, TypeOK
  <2> QED
    BY <1>3, <2>1 DEF CollectWork, TypeOK
<1>4. CASE CollectChain
  <2>1. chain' \in ChainType /\ (chain'.owner # 0 => chain'.spec \in Specs)
    BY <1>4, InitialTyped DEF CollectChain, TypeOK, ChainType
  <2> QED
    BY <1>4, <2>1 DEF CollectChain, TypeOK
<1>5. CASE CollectReplay
  BY <1>5, InitialTyped DEF CollectReplay, TypeOK
<1> QED
  BY <1>1, <1>2, <1>3, <1>4, <1>5 DEF Cluster

\* Steps of the DominoChain reconciler keep the types.
LEMMA ChainReconcilerTyped == TypeOK /\ ChainReconciler => TypeOK'
<1> SUFFICES ASSUME TypeOK, ChainReconciler PROVE TypeOK'
  OBVIOUS
<1>1. CASE AddChainFinalizer
  <2>1. chain' \in ChainType /\ chain'.spec \in Specs
    BY <1>1 DEF AddChainFinalizer, TypeOK, ChainType
  <2> QED
    BY <1>1, <2>1 DEF AddChainFinalizer, TypeOK
<1>2. CASE finalizeChain
  BY <1>2, InitialTyped DEF finalizeChain, TypeOK
<1>3. CASE failChain
  <2>1. chain' \in ChainType /\ chain'.spec \in Specs
    BY <1>3 DEF failChain, Active, TypeOK, ChainType
  <2> QED
    BY <1>3, <2>1, TurnTyped DEF failChain, Fault, TypeOK
<1>4. CASE ReconcileChain
  <2>1. /\ chain \in ChainType /\ chain.owner # 0 /\ chain.spec \in Specs
        /\ work \in [Kinds -> WorkType]
        /\ \A j \in Kinds : work[j].owner # 0 => work[j].spec \in Specs
        /\ \A j \in Kinds : work[j].state = "running" => work[j].owner # 0
    BY <1>4 DEF ReconcileChain, Active, TypeOK
  <2>2. \E state : finishChain(state)
    BY <1>4 DEF ReconcileChain, reconcileInitChain, reconcileVolcano, reconcileOpenKruise
  <2>3. chain' \in ChainType /\ chain'.spec \in Specs
    BY <2>1, <2>2, FinishTyped
  <2>4. PICK ws : ws = ensure("pull", work)
    OBVIOUS
  <2>5. /\ ws \in [Kinds -> WorkType]
        /\ \A j \in Kinds : ws[j].owner # 0 => ws[j].spec \in Specs
        /\ \A j \in Kinds : ws[j].state = "running" => ws[j].owner # 0
    BY <2>1, <2>4, EnsureTyped
  <2>6. work' \in {ensure("pod", work), ensure("job", work), ws, ensure("pod", ws)}
    BY <1>4, <2>4 DEF ReconcileChain, reconcileInitChain, reconcileVolcano, reconcileOpenKruise
  <2>7. /\ work' \in [Kinds -> WorkType]
        /\ \A j \in Kinds : work'[j].owner # 0 => work'[j].spec \in Specs
        /\ \A j \in Kinds : work'[j].state = "running" => work'[j].owner # 0
    <3>1. CASE work' = ensure("pod", work)
      BY <2>1, <3>1, EnsureTyped
    <3>2. CASE work' = ensure("job", work)
      BY <2>1, <3>2, EnsureTyped
    <3>3. CASE work' = ws
      BY <2>5, <3>3
    <3>4. CASE work' = ensure("pod", ws)
      BY <2>1, <2>5, <3>4, EnsureTyped
    <3> QED
      BY <2>6, <3>1, <3>2, <3>3, <3>4
  <2>8. UNCHANGED <<wf, ready, ran, replay, rec, spent>>
    BY <1>4 DEF ReconcileChain
  <2> QED
    BY <2>3, <2>7, <2>8 DEF TypeOK
<1> QED
  BY <1>1, <1>2, <1>3, <1>4 DEF ChainReconciler

\* A manager that goes on alone keeps the types of the reconciles.
LEMMA OnlyTyped ==
  ASSUME TypeOK, NEW m \in Managers, Only(m), rec'[m].pc # "idle" => rec'[m].spec \in Specs
  PROVE  /\ rec' \in [Managers -> RecType]
         /\ \A n \in Managers : rec'[n].pc # "idle" => rec'[n].spec \in Specs
BY DEF TypeOK, Only

\* A reconcile that ends leaves those of the other managers alone.
LEMMA EndTyped ==
  ASSUME TypeOK, NEW m \in Managers, rec' = [rec EXCEPT ![m] = Idle]
  PROVE  Only(m) /\ rec'[m].pc = "idle"
BY InitialTyped DEF TypeOK, Only

\* The outcomes of a reconcile keep the types.
LEMMA RunTyped ==
  ASSUME TypeOK, NEW m \in Managers, Run(m) \/ fail(m)
  PROVE  TypeOK' /\ Concludes(m) /\ UNCHANGED wf
<1>0. rec[m] \in RecType /\ (rec[m].pc # "idle" => rec[m].spec \in Specs)
  BY DEF TypeOK
<1>1. CASE execute(m) \/ completeFromChain(m)
  <2>1. rec[m].pc = "run" /\ rec[m].spec \in Specs /\ complete(m, rec[m].spec)
    BY <1>0, <1>1 DEF execute, completeFromChain, Running
  <2>2. UNCHANGED <<wf, ready, chain, work, ran>>
    BY <1>1 DEF execute, completeFromChain
  <2>3. /\ Concludes(m) /\ spent' \in Nat
        /\ replay' \in [owner : Nat, run : Specs \cup {NoSpec}, late : BOOLEAN]
    BY <2>1, CompleteTyped
  <2> QED
    BY <2>2, <2>3, OnlyTyped DEF TypeOK, Concludes
<1>2. CASE isSnapshotNotReady(m) \/ awaitChain(m) \/ failFromChain(m)
  <2>1. rec[m].pc = "run" /\ (Keep(m, "Pending") \/ Keep(m, "Running") \/ Keep(m, "Error"))
    BY <1>2 DEF isSnapshotNotReady, awaitChain, failFromChain, Running
  <2>2. UNCHANGED <<wf, ready, chain, work, ran, replay, spent>>
    BY <1>2 DEF isSnapshotNotReady, awaitChain, failFromChain
  <2>3. Concludes(m)
    BY <2>1, KeepTyped
  <2> QED
    BY <2>2, <2>3, OnlyTyped DEF TypeOK, Concludes
<1>3. CASE createChain(m)
  <2>1. rec[m].pc = "run" /\ Keep(m, "Running") /\ rec[m].uid \in Nat /\ rec[m].spec \in Specs
    BY <1>0, <1>3 DEF createChain, Running, RecType
  <2>2. chain' \in ChainType /\ chain'.spec \in Specs
    BY <1>3, <2>1 DEF createChain, Chain, ChainType
  <2>3. Concludes(m)
    BY <2>1, KeepTyped
  <2>4. UNCHANGED <<wf, ready, work, ran, replay, spent>>
    BY <1>3 DEF createChain
  <2> QED
    BY <2>2, <2>3, <2>4, OnlyTyped DEF TypeOK, Concludes
<1>4. CASE completeFromChainStatus(m)
  <2>1. /\ rec[m].pc = "run" /\ rec[m].generation \in Nat /\ rec[m].status.ref \in BOOLEAN
        /\ chain.spec \in Specs
    BY <1>0, <1>4 DEF completeFromChainStatus, Running, TypeOK, RecType, StatusType
  <2>2. Concludes(m)
    BY <1>4, <2>1, ConcludeTyped DEF completeFromChainStatus
  <2>3. UNCHANGED <<wf, ready, chain, work, ran, replay, spent>>
    BY <1>4 DEF completeFromChainStatus
  <2> QED
    BY <2>2, <2>3, OnlyTyped DEF TypeOK, Concludes
<1>5. CASE fail(m)
  <2>1. Concludes(m)
    BY <1>5, KeepTyped DEF fail
  <2>2. UNCHANGED <<wf, ready, chain, work, ran, replay>> /\ spent' \in Nat
    BY <1>5, TurnTyped DEF fail, Fault
  <2> QED
    BY <2>1, <2>2, OnlyTyped DEF TypeOK, Concludes
<1> QED
  BY <1>1, <1>2, <1>3, <1>4, <1>5 DEF Run

\* What Begin makes of the Workflow and of the reconcile.
LEMMA BeginFrame ==
  ASSUME TypeOK, NEW m \in Managers, Begin(m)
  PROVE  /\ Only(m) /\ wf' \in WorkflowType /\ UNCHANGED <<ready, chain, work, ran, replay, spent>>
         /\ wf.exists /\ wf'.exists /\ wf'.uid = wf.uid /\ wf'.generation = wf.generation
         /\ wf'.spec = wf.spec /\ wf.spec \in Specs /\ ~wf'.deleting /\ wf'.status = rec'[m].status
         /\ rec'[m].uid = wf.uid /\ rec'[m].generation = wf.generation /\ rec'[m].spec = wf.spec
         /\ rec'[m].pc = "run" /\ rec'[m].status.phase = "Running"
         /\ rec'[m].status.observed = wf.status.observed
         /\ ~Settled(wf)
<1>1. PICK running : running = Status("Running", wf.status.observed, wf.status.result, wf.status.ref)
  OBVIOUS
<1>0. wf.status \in StatusType
  BY DEF TypeOK, WorkflowType
<1>2. running \in StatusType /\ running.phase = "Running" /\ running.observed = wf.status.observed
  BY <1>0, <1>1 DEF Status, StatusType
<1>3. PICK c : c = Reconcile("run", wf.uid, wf.generation, wf.spec, TRUE, running)
  OBVIOUS
<1>4. /\ wf' = Workflow(TRUE, wf.uid, wf.generation, wf.spec, TRUE, FALSE, running)
      /\ rec' = [rec EXCEPT ![m] = c] /\ wf.exists /\ ~Settled(wf)
      /\ UNCHANGED <<ready, chain, work, ran, replay, spent>>
  BY <1>1, <1>3 DEF Begin, Runnable
<1>5. wf \in WorkflowType /\ wf.spec \in Specs /\ rec \in [Managers -> RecType]
  BY <1>4 DEF TypeOK
<1>6. /\ wf' \in WorkflowType /\ wf'.exists /\ wf'.uid = wf.uid
      /\ wf'.generation = wf.generation /\ wf'.spec = wf.spec /\ ~wf'.deleting
      /\ wf'.status = running
  BY <1>2, <1>4, <1>5 DEF Workflow, WorkflowType
<1>7. /\ c \in RecType /\ c.uid = wf.uid /\ c.generation = wf.generation /\ c.spec = wf.spec
      /\ c.pc = "run" /\ c.status = running
  BY <1>2, <1>3, <1>5 DEF Reconcile, RecType, WorkflowType
<1>8. Only(m) /\ rec'[m] = c
  BY <1>4, <1>5, <1>7 DEF Only
<1> QED
  BY <1>2, <1>4, <1>5, <1>6, <1>7, <1>8

\* What Commit makes of the Workflow and of the copies the others hold.
LEMMA CommitFrame ==
  ASSUME TypeOK, NEW m \in Managers, Commit(m)
  PROVE  /\ wf' \in WorkflowType /\ UNCHANGED <<ready, chain, work, ran, replay, spent>>
         /\ wf'.exists = wf.exists /\ wf'.uid = wf.uid /\ wf'.generation = wf.generation
         /\ wf'.spec = wf.spec /\ rec[m].pc = "commit"
         /\ rec' \in [Managers -> RecType] /\ rec'[m].pc = "idle"
         /\ \A n \in Managers : n # m =>
              /\ rec'[n].pc = rec[n].pc /\ rec'[n].uid = rec[n].uid
              /\ rec'[n].generation = rec[n].generation /\ rec'[n].spec = rec[n].spec
              /\ rec'[n].status = rec[n].status
         /\ \/ ~rec[m].fresh /\ wf' = wf /\ \A n \in Managers : n # m => rec'[n] = rec[n]
            \/ /\ rec[m].fresh /\ wf'.status = rec[m].status
               /\ \A n \in Managers : n # m => rec'[n].fresh = FALSE
<1>1. wf \in WorkflowType /\ rec \in [Managers -> RecType] /\ \A n \in Managers : rec[n] \in RecType
  BY DEF TypeOK
<1>2. rec[m].status \in StatusType
  BY <1>1 DEF RecType
<1>3. rec[m].pc = "commit" /\ UNCHANGED <<ready, chain, work, ran, replay, spent>>
  BY DEF Commit
<1>4. CASE Refused(m)
  <2>1. ~rec[m].fresh /\ wf' = wf /\ rec' = [rec EXCEPT ![m] = Idle]
    BY <1>4 DEF Refused
  <2>2. Only(m) /\ rec'[m].pc = "idle"
    BY <2>1, EndTyped
  <2> QED
    BY <1>1, <1>3, <2>1, <2>2 DEF Only
<1>5. CASE rec[m].fresh /\ Accepted(m)
  <2>1. /\ wf' = [wf EXCEPT !.status = rec[m].status]
        /\ rec' = [n \in Managers |-> IF n = m THEN Idle ELSE [rec[n] EXCEPT !.fresh = FALSE]]
    BY <1>5 DEF Accepted
  <2>2. /\ wf' \in WorkflowType /\ wf'.exists = wf.exists /\ wf'.uid = wf.uid
        /\ wf'.generation = wf.generation /\ wf'.spec = wf.spec /\ wf'.status = rec[m].status
    BY <1>1, <1>2, <2>1 DEF WorkflowType
  <2>3. rec'[m] = Idle /\ Idle \in RecType /\ Idle.pc = "idle"
    BY <2>1, InitialTyped
  <2>4. ASSUME NEW n \in Managers, n # m
        PROVE  /\ rec'[n] \in RecType
               /\ rec'[n].pc = rec[n].pc /\ rec'[n].uid = rec[n].uid
               /\ rec'[n].generation = rec[n].generation /\ rec'[n].spec = rec[n].spec
               /\ rec'[n].status = rec[n].status /\ rec'[n].fresh = FALSE
    BY <1>1, <2>1, <2>4 DEF RecType
  <2>5. rec' \in [Managers -> RecType]
    BY <2>1, <2>3, <2>4
  <2> QED
    BY <1>3, <1>5, <2>2, <2>3, <2>4, <2>5
<1> QED
  BY <1>4, <1>5 DEF Commit

\* The other steps of the Workflow reconciler keep the types.
LEMMA RestTyped ==
  ASSUME TypeOK, NEW m \in Managers,
         AddFinalizer(m) \/ finalize(m) \/ Begin(m) \/ Commit(m) \/ Abandon(m)
  PROVE  TypeOK'
<1>1. CASE AddFinalizer(m)
  <2>1. wf' \in WorkflowType /\ wf'.spec = wf.spec /\ wf'.exists = wf.exists
    BY <1>1 DEF AddFinalizer, TypeOK, WorkflowType
  <2> QED
    BY <1>1, <2>1 DEF AddFinalizer, TypeOK
<1>2. CASE finalize(m)
  <2>1. wf' \in WorkflowType /\ ~wf'.exists
    BY <1>2, InitialTyped DEF finalize, TypeOK, WorkflowType
  <2> QED
    BY <1>2, <2>1 DEF finalize, TypeOK
<1>3. CASE Begin(m)
  BY <1>3, BeginFrame, OnlyTyped DEF TypeOK
<1>4. CASE Commit(m)
  <2>1. \A n \in Managers : rec'[n].pc # "idle" => rec'[n].spec \in Specs
    BY <1>4, CommitFrame DEF TypeOK
  <2> QED
    BY <1>4, <2>1, CommitFrame DEF TypeOK
<1>5. CASE Abandon(m)
  <2>1. Only(m) /\ rec'[m].pc = "idle"
    BY <1>5, EndTyped DEF Abandon
  <2> QED
    BY <1>5, <2>1, OnlyTyped, TurnTyped DEF Abandon, Fault, TypeOK
<1> QED
  BY <1>1, <1>2, <1>3, <1>4, <1>5

\* TypeOK is inductive.
LEMMA NextTyped == TypeOK /\ [Next]_vars => TypeOK'
<1>1. TypeOK /\ UNCHANGED vars => TypeOK'
  BY DEF vars, TypeOK
<1>2. ASSUME TypeOK, NEW m \in Managers, WorkflowReconciler(m) PROVE TypeOK'
  BY <1>2, RunTyped, RestTyped DEF WorkflowReconciler
<1> QED
  BY <1>1, <1>2, UserTyped, ClusterTyped, ChainReconcilerTyped DEF Next

\* TypeOK holds in every state: the objects, the copies the reconciles hold and
\* what they are about to write are well formed, and every object has a spec.
THEOREM TypeCorrect == Spec => []TypeOK
BY InitTyped, NextTyped, PTL DEF Spec

-----------------------------------------------------------------------------
\* A reconcile in progress whose copy would be accepted: the Workflow is there,
\* marked Running, and has the copy's spec and generation.
HeldBy(m) ==
  rec[m].pc # "idle" =>
    /\ rec[m].uid <= wf.uid /\ rec[m].status.observed <= rec[m].generation
    /\ rec[m].fresh => /\ wf.exists /\ ~wf.deleting /\ wf.uid = rec[m].uid
                       /\ wf.status.phase = "Running"
                       /\ wf.spec = rec[m].spec /\ wf.generation = rec[m].generation

Held == \A m \in Managers : HeldBy(m)

\* status.observedGeneration never runs ahead of the Workflow.
Behind ==
  wf.exists => wf.uid > 0 /\ wf.generation > 0 /\ wf.status.observed <= wf.generation

\* What the outcomes of a reconcile make of the generation its copy reports.
LEMMA RunFrame ==
  ASSUME TypeOK, NEW m \in Managers, Run(m) \/ fail(m)
  PROVE  rec'[m].status.observed \in {rec[m].status.observed, rec[m].generation}
<1>0. rec[m] \in RecType /\ (rec[m].pc # "idle" => rec[m].spec \in Specs)
  BY DEF TypeOK
<1>1. CASE execute(m) \/ completeFromChain(m)
  <2>1. rec[m].pc = "run" /\ rec[m].spec \in Specs /\ complete(m, rec[m].spec)
    BY <1>0, <1>1 DEF execute, completeFromChain, Running
  <2> QED
    BY <2>1, CompleteTyped
<1>2. CASE \/ isSnapshotNotReady(m) \/ awaitChain(m) \/ failFromChain(m) \/ createChain(m)
           \/ fail(m)
  <2>1. rec[m].pc = "run" /\ (Keep(m, "Pending") \/ Keep(m, "Running") \/ Keep(m, "Error"))
    BY <1>2 DEF isSnapshotNotReady, awaitChain, failFromChain, createChain, fail, Running
  <2> QED
    BY <2>1, KeepTyped
<1>3. CASE completeFromChainStatus(m)
  <2>1. /\ rec[m].pc = "run" /\ rec[m].generation \in Nat /\ rec[m].status.ref \in BOOLEAN
        /\ chain.spec \in Specs
    BY <1>0, <1>3 DEF completeFromChainStatus, Running, TypeOK, RecType, StatusType
  <2> QED
    BY <1>3, <2>1, ConcludeTyped DEF completeFromChainStatus
<1> QED
  BY <1>1, <1>2, <1>3 DEF Run

\* Held and Behind are inductive, given the types.
LEMMA HeldStep == TypeOK /\ Held /\ Behind /\ [Next]_vars => Held' /\ Behind'
<1> SUFFICES ASSUME TypeOK, Held, Behind, [Next]_vars PROVE Held' /\ Behind'
  OBVIOUS
<1>0. /\ wf \in WorkflowType /\ wf.generation \in Nat /\ wf.uid \in Nat
      /\ wf.status.observed \in Nat
      /\ \A m \in Managers : /\ rec[m].uid \in Nat /\ rec[m].generation \in Nat
                             /\ rec[m].status.observed \in Nat
  BY DEF TypeOK, WorkflowType, RecType, StatusType
<1>1. CASE UNCHANGED <<wf, rec>>
  BY <1>1 DEF Held, HeldBy, Behind
<1>2. CASE Create
  <2>1. PICK s \in Specs : wf' = Workflow(TRUE, wf.uid + 1, 1, s, FALSE, FALSE, NewStatus)
    BY <1>2 DEF Create
  <2>2. wf'.uid = wf.uid + 1 /\ wf'.generation = 1 /\ wf'.status = NewStatus
    BY <2>1 DEF Workflow
  <2>3. ~wf.exists /\ UNCHANGED rec
    BY <1>2 DEF Create
  <2>4. NewStatus.observed = 0
    BY InitialTyped
  <2> QED
    BY <1>0, <2>2, <2>3, <2>4 DEF Held, HeldBy, Behind
<1>3. CASE Edit
  <2>1. PICK s \in Specs : wf' = [wf EXCEPT !.spec = s, !.generation = @ + 1]
    BY <1>3 DEF Edit
  <2>3. /\ wf'.exists = wf.exists /\ wf'.uid = wf.uid /\ wf'.status = wf.status
        /\ wf'.generation = wf.generation + 1
    BY <1>0, <2>1, EditedTyped
  <2>2. Overtake
    BY <1>3 DEF Edit
  <2>4. Held'
    BY <1>0, <2>2, <2>3, OvertakeTyped DEF Held, HeldBy
  <2>5. Behind'
    BY <1>0, <2>3 DEF Behind
  <2> QED
    BY <2>4, <2>5
<1>4. CASE Delete
  <2>1. wf.exists /\ Overtake
    BY <1>4 DEF Delete
  <2>3. CASE wf.finalizer
    <3>1. wf' = [wf EXCEPT !.deleting = TRUE, !.generation = @ + 1]
      BY <1>4, <2>3 DEF Delete
    <3>2. /\ wf'.exists = wf.exists /\ wf'.uid = wf.uid /\ wf'.status = wf.status
          /\ wf'.generation = wf.generation + 1
      BY <1>0, <3>1, DeletingTyped
    <3>4. Held'
      BY <1>0, <2>1, <3>2, OvertakeTyped DEF Held, HeldBy
    <3>5. Behind'
      BY <1>0, <3>2 DEF Behind
    <3> QED
      BY <3>4, <3>5
  <2>4. CASE ~wf.finalizer
    <3>1. wf' = Gone(wf.uid)
      BY <1>4, <2>4 DEF Delete
    <3>2. ~wf'.exists /\ wf'.uid = wf.uid
      BY <1>0, <3>1, InitialTyped
    <3> QED
      BY <1>0, <2>1, <3>2, OvertakeTyped DEF Held, HeldBy, Behind
  <2> QED
    BY <2>3, <2>4
<1>14. CASE User
  BY <1>2, <1>3, <1>4, <1>14 DEF User
<1>15. ASSUME NEW m \in Managers, WorkflowReconciler(m) PROVE Held' /\ Behind'
  <2>5. CASE AddFinalizer(m)
    <3>2. /\ wf'.exists = wf.exists /\ wf'.uid = wf.uid /\ wf'.status = wf.status
          /\ wf'.generation = wf.generation /\ wf'.spec = wf.spec
          /\ wf'.deleting = wf.deleting /\ UNCHANGED rec
      BY <1>0, <2>5 DEF AddFinalizer, WorkflowType
    <3> QED
      BY <3>2 DEF Held, HeldBy, Behind
  <2>6. CASE finalize(m)
    <3>1. ~wf'.exists /\ wf'.uid = wf.uid
      BY <1>0, <2>6, InitialTyped DEF finalize
    <3>2. UNCHANGED rec /\ wf.deleting
      BY <2>6 DEF finalize
    <3> QED
      BY <3>1, <3>2 DEF Held, HeldBy, Behind
  <2>7. CASE Begin(m)
    <3>1. ASSUME NEW n \in Managers PROVE HeldBy(n)'
      <4>1. CASE n = m
        BY <1>0, <2>7, <4>1, BeginFrame DEF HeldBy, Behind
      <4>2. CASE n # m
        <5>1. rec'[n] = rec[n] /\ HeldBy(n)
          BY <2>7, <4>2, BeginFrame DEF Only, Held
        <5> QED
          BY <2>7, <5>1, BeginFrame DEF HeldBy
      <4> QED
        BY <4>1, <4>2
    <3> QED
      BY <2>7, <3>1, BeginFrame DEF Held, HeldBy, Behind
  <2>8. CASE Run(m) \/ fail(m)
    <3>1. Concludes(m) /\ UNCHANGED wf
      BY <2>8, RunTyped
    <3>2. rec'[m].status.observed \in {rec[m].status.observed, rec[m].generation}
      BY <2>8, RunFrame
    <3> QED
      BY <1>0, <3>1, <3>2 DEF Held, HeldBy, Behind, Concludes, Only
  <2>9. CASE Commit(m)
    <3>1. ASSUME NEW n \in Managers PROVE HeldBy(n)'
      <4>1. CASE n = m
        BY <2>9, <4>1, CommitFrame DEF HeldBy
      <4>2. CASE n # m
        <5>1. HeldBy(n)
          BY DEF Held
        <5> QED
          BY <2>9, <4>2, <5>1, CommitFrame DEF HeldBy
      <4> QED
        BY <4>1, <4>2
    <3>2. HeldBy(m)
      BY DEF Held
    <3>3. Behind'
      <4>1. CASE wf' = wf
        BY <4>1 DEF Behind
      <4>2. CASE rec[m].fresh /\ wf'.status = rec[m].status
        <5>1. /\ wf'.exists = wf.exists /\ wf'.uid = wf.uid /\ wf'.generation = wf.generation
              /\ rec[m].pc = "commit"
          BY <2>9, CommitFrame
        <5>2. rec[m].status.observed <= wf.generation
          BY <3>2, <4>2, <5>1 DEF HeldBy
        <5> QED
          BY <4>2, <5>1, <5>2 DEF Behind
      <4> QED
        BY <2>9, <4>1, <4>2, CommitFrame
    <3> QED
      BY <3>1, <3>3 DEF Held, HeldBy
  <2>10. CASE Abandon(m)
    <3>1. Only(m) /\ rec'[m].pc = "idle" /\ UNCHANGED wf
      BY <2>10, EndTyped DEF Abandon
    <3> QED
      BY <3>1 DEF Held, HeldBy, Behind, Only
  <2> QED
    BY <1>15, <2>5, <2>6, <2>7, <2>8, <2>9, <2>10 DEF WorkflowReconciler
<1>11. CASE Cluster
  <2>1. UNCHANGED <<wf, rec>>
    BY <1>11 DEF Cluster, Seal, WorkSucceeds, WorkFails, CollectWork, CollectChain, CollectReplay
  <2> QED
    BY <1>1, <2>1
<1>12. CASE ChainReconciler
  <2>1. UNCHANGED <<wf, rec>>
    BY <1>12 DEF ChainReconciler, AddChainFinalizer, finalizeChain, ReconcileChain, failChain
  <2> QED
    BY <1>1, <2>1
<1>13. CASE UNCHANGED vars
  BY <1>1, <1>13 DEF vars
<1> QED
  BY <1>11, <1>12, <1>13, <1>14, <1>15 DEF Next

\* ... and so hold in every state.
LEMMA HeldInvariant == Spec => [](TypeOK /\ Held /\ Behind)
<1>1. Init => Held /\ Behind
  <2> SUFFICES ASSUME Init PROVE Held /\ Behind
    OBVIOUS
  <2>1. ~wf.exists /\ \A m \in Managers : rec[m].pc = "idle"
    BY InitialTyped DEF Init
  <2> QED
    BY <2>1 DEF Held, HeldBy, Behind
<1> QED
  BY <1>1, InitTyped, NextTyped, HeldStep, PTL DEF Spec

-----------------------------------------------------------------------------
\* SettledStays: whoever holds a copy that would be accepted holds one of a
\* Workflow marked Running, so one that is Completed for its generation has no
\* writer but its users, however many reconciles are still in progress.
THEOREM SettledWorkflowsStay == Spec => SettledStays
<1>1. TypeOK /\ Held /\ Behind /\ [Next]_vars =>
        [wf.exists /\ Settled(wf) /\ wf'.uid = wf.uid /\ wf'.generation = wf.generation =>
           wf'.status = wf.status]_vars
  <2> SUFFICES ASSUME TypeOK, Held, Behind, [Next]_vars, wf.exists, Settled(wf),
                      wf'.uid = wf.uid, wf'.generation = wf.generation
               PROVE  wf'.status = wf.status
    OBVIOUS
  <2>0. wf.generation \in Nat /\ wf.uid \in Nat /\ wf \in WorkflowType /\ wf.generation > 0
    BY DEF TypeOK, WorkflowType, Behind
  <2>1. \A m \in Managers : rec[m].pc # "idle" => ~rec[m].fresh
    BY DEF Held, HeldBy, Settled
  <2>2. CASE Edit
    <3>1. PICK s \in Specs : wf' = [wf EXCEPT !.spec = s, !.generation = @ + 1]
      BY <2>2 DEF Edit
    <3> QED
      BY <2>0, <3>1, EditedTyped
  <2>3. CASE Delete
    <3>1. CASE wf' = [wf EXCEPT !.deleting = TRUE, !.generation = @ + 1]
      BY <2>0, <3>1, DeletingTyped
    <3>2. CASE wf' = Gone(wf.uid)
      <4>1. Gone(wf.uid).generation = 0
        BY <2>0, InitialTyped
      <4> QED
        BY <2>0, <3>2, <4>1
    <3> QED
      BY <2>3, <3>1, <3>2 DEF Delete
  <2>4. ~Create
    BY DEF Create
  <2>5. ASSUME NEW m \in Managers, WorkflowReconciler(m) PROVE wf'.status = wf.status
    <3>1. CASE AddFinalizer(m)
      BY <2>0, <3>1 DEF AddFinalizer, WorkflowType
    <3>2. CASE finalize(m)
      <4>1. wf' = Gone(wf.uid)
        BY <3>2 DEF finalize
      <4>2. Gone(wf.uid).generation = 0
        BY <2>0, InitialTyped
      <4> QED
        BY <2>0, <4>1, <4>2
    <3>3. ~Begin(m)
      BY DEF Begin
    <3>4. CASE Run(m) \/ fail(m)
      BY <3>4, RunTyped
    <3>5. CASE Commit(m)
      <4>1. ~rec[m].fresh
        BY <2>1, <3>5, CommitFrame
      <4> QED
        BY <3>5, <4>1, CommitFrame
    <3>6. CASE Abandon(m)
      BY <3>6 DEF Abandon
    <3> QED
      BY <2>5, <3>1, <3>2, <3>3, <3>4, <3>5, <3>6 DEF WorkflowReconciler
  <2>6. CASE Cluster
    BY <2>6 DEF Cluster, Seal, WorkSucceeds, WorkFails, CollectWork, CollectChain, CollectReplay
  <2>7. CASE ChainReconciler
    BY <2>7 DEF ChainReconciler, AddChainFinalizer, finalizeChain, ReconcileChain, failChain
  <2>8. CASE UNCHANGED vars
    BY <2>8 DEF vars
  <2> QED
    BY <2>2, <2>3, <2>4, <2>5, <2>6, <2>7, <2>8 DEF Next, User
<1> QED
  BY <1>1, HeldInvariant, PTL DEF Spec, SettledStays

-----------------------------------------------------------------------------
\* The replay log holds the run, or is one of the two exceptions.
Logged(run) == replay.run = run \/ replay.late \/ (replay.owner = 0 /\ wf.uid > 1)

\* A reconcile that is about to report Completed, and whose report would be
\* accepted, ran its copy's spec, and the replay log holds that run if it is
\* referred to.
ConcludedBy(m) ==
  /\ rec[m].pc = "commit" /\ rec[m].fresh
  /\ rec[m].status.phase = "Completed" /\ Replayable(rec[m].spec, rec[m].status)
  => /\ rec[m].status.observed = rec[m].generation /\ rec[m].status.result = rec[m].spec
     /\ rec[m].status.ref => Logged(rec[m].spec)

Concluded == \A m \in Managers : ConcludedBy(m)

ReportInv == Concluded /\ replay.owner <= wf.uid /\ CompletedIsCurrent /\ ReplayMatches

\* A report is a matter of the Workflow, the replay log and the reconcile.
LEMMA ConcludedKept ==
  ASSUME NEW m \in Managers, ConcludedBy(m), UNCHANGED replay, wf'.uid = wf.uid,
         rec'[m] = rec[m]
  PROVE  ConcludedBy(m)'
BY DEF ConcludedBy, Logged, Replayable

\* Every outcome that is Completed is a run of the copy, or has julia steps;
\* whoever writes the replay log runs the spec of the Workflow, or is late.
LEMMA RunConcluded ==
  ASSUME TypeOK, Held, Behind, ReportInv, NEW m \in Managers, Run(m) \/ fail(m)
  PROVE  ReportInv'
<1>0. Concludes(m) /\ UNCHANGED wf
  BY RunTyped
<1>1. CompletedIsCurrent'
  BY <1>0 DEF ReportInv, CompletedIsCurrent, Settled, Replayable
<1>2. /\ rec[m] \in RecType /\ rec[m].pc = "run" /\ rec[m].spec \in Specs
      /\ wf.uid \in Nat /\ replay.owner \in Nat /\ rec[m].uid \in Nat
  BY <1>0 DEF TypeOK, RecType, WorkflowType, Concludes
<1>3. HeldBy(m) /\ \A n \in Managers : HeldBy(n) /\ ConcludedBy(n)
  BY DEF Held, ReportInv, Concluded
<1>4. ASSUME UNCHANGED replay, ConcludedBy(m)' PROVE ReportInv'
  <2>1. ASSUME NEW n \in Managers PROVE ConcludedBy(n)'
    BY <1>0, <1>3, <1>4, ConcludedKept DEF Concludes, Only
  <2>2. Concluded'
    BY <2>1 DEF Concluded, ConcludedBy, Logged, Replayable
  <2>3. ReplayMatches' /\ replay'.owner <= wf'.uid
    BY <1>0, <1>4 DEF ReportInv, ReplayMatches, Settled, Replayable
  <2> QED
    BY <1>1, <2>2, <2>3 DEF ReportInv
<1>5. CASE execute(m) \/ completeFromChain(m)
  <2>1. complete(m, rec[m].spec)
    BY <1>5 DEF execute, completeFromChain
  <2>2. rec'[m].status.observed = rec[m].generation /\ rec'[m].status.result = rec[m].spec
    BY <1>2, <2>1, CompleteTyped
  <2>3. CASE replay' = replay /\ ~rec'[m].status.ref
    <3>1. ConcludedBy(m)'
      BY <1>0, <2>2, <2>3 DEF ConcludedBy, Concludes
    <3> QED
      BY <1>4, <2>3, <3>1
  <2>4. CASE /\ replay'.run = rec[m].spec /\ replay'.late = ~rec[m].fresh
             /\ replay'.owner = IF replay.owner = 0 THEN rec[m].uid ELSE replay.owner
    <3>1. ASSUME NEW n \in Managers PROVE ConcludedBy(n)'
      <4>1. CASE n = m
        BY <1>0, <2>2, <2>4, <4>1 DEF ConcludedBy, Concludes, Logged
      <4>2. CASE n # m /\ ~rec[m].fresh
        <5>1. rec'[n] = rec[n] /\ replay'.late
          BY <1>0, <2>4, <4>2 DEF Concludes, Only
        <5> QED
          BY <1>3, <5>1 DEF ConcludedBy, Logged, Replayable
      <4>3. CASE n # m /\ rec[m].fresh
        <5>1. rec'[n] = rec[n]
          BY <1>0, <4>3 DEF Concludes, Only
        <5>2. rec[n].pc = "commit" /\ rec[n].fresh => replay'.run = rec[n].spec
          BY <1>2, <1>3, <2>4, <4>3 DEF HeldBy
        <5> QED
          BY <1>3, <5>1, <5>2 DEF ConcludedBy, Logged, Replayable
      <4> QED
        BY <4>1, <4>2, <4>3
    <3>2. Concluded'
      BY <3>1 DEF Concluded, ConcludedBy, Logged, Replayable
    <3>3. replay'.owner <= wf'.uid
      BY <1>0, <1>2, <1>3, <2>4 DEF HeldBy, ReportInv
    <3>4. ReplayMatches'
      <4>1. CASE ~rec[m].fresh
        BY <2>4, <4>1 DEF ReplayMatches
      <4>2. CASE rec[m].fresh
        <5>1. wf.status.phase = "Running"
          BY <1>2, <1>3, <4>2 DEF HeldBy
        <5> QED
          BY <1>0, <5>1 DEF ReplayMatches, Settled
      <4> QED
        BY <4>1, <4>2
    <3> QED
      BY <1>1, <3>2, <3>3, <3>4 DEF ReportInv
  <2> QED
    BY <1>2, <2>1, <2>3, <2>4, CompleteTyped
<1>6. CASE \/ isSnapshotNotReady(m) \/ awaitChain(m) \/ failFromChain(m) \/ createChain(m)
           \/ fail(m)
  <2>1. /\ Keep(m, "Pending") \/ Keep(m, "Running") \/ Keep(m, "Error")
        /\ UNCHANGED replay
    BY <1>6 DEF isSnapshotNotReady, awaitChain, failFromChain, createChain, fail
  <2>2. rec'[m].status.phase \in {"Pending", "Running", "Error"}
    BY <1>2, <2>1, KeepTyped
  <2>3. ConcludedBy(m)'
    BY <2>2 DEF ConcludedBy
  <2> QED
    BY <1>4, <2>1, <2>3
<1>7. CASE completeFromChainStatus(m)
  <2>1. /\ skipJuliaOperatorReplay(m) /\ UNCHANGED replay
        /\ Conclude(m, "Completed", rec[m].generation, chain.spec, rec[m].status.ref)
        /\ rec[m].generation \in Nat /\ rec[m].status.ref \in BOOLEAN /\ chain.spec \in Specs
    BY <1>2, <1>7 DEF completeFromChainStatus, TypeOK, RecType, StatusType
  <2>2. rec'[m].spec = rec[m].spec /\ rec'[m].status.result = chain.spec
    BY <1>2, <2>1, ConcludeTyped DEF Concludes
  <2>3. ConcludedBy(m)'
    BY <2>1, <2>2 DEF ConcludedBy, Replayable, skipJuliaOperatorReplay
  <2> QED
    BY <1>4, <2>1, <2>3
<1> QED
  BY <1>5, <1>6, <1>7 DEF Run

\* A step after which no copy would be accepted and the Workflow is not
\* Completed for its generation.
LEMMA NothingReported ==
  ASSUME ReportInv, UNCHANGED replay, wf.uid \in Nat, wf'.uid \in Nat, replay.owner \in Nat,
         wf.uid <= wf'.uid, ~wf'.exists \/ ~Settled(wf'),
         \A m \in Managers : rec'[m].pc # "idle" => ~rec'[m].fresh
  PROVE  ReportInv'
<1>1. Concluded'
  BY DEF Concluded, ConcludedBy
<1>2. replay'.owner <= wf'.uid
  BY DEF ReportInv
<1>3. CompletedIsCurrent' /\ ReplayMatches'
  BY DEF CompletedIsCurrent, ReplayMatches
<1> QED
  BY <1>1, <1>2, <1>3 DEF ReportInv

\* ReportInv is inductive, given the types and Held.
LEMMA ReportStep ==
  ASSUME TypeOK, Held, Behind, ReportInv, [Next]_vars
  PROVE  ReportInv'
<1>0. /\ wf.generation \in Nat /\ wf.uid \in Nat /\ wf \in WorkflowType
      /\ wf.status.observed \in Nat /\ replay.owner \in Nat
  BY DEF TypeOK, WorkflowType, StatusType
<1>1. CASE UNCHANGED <<wf, rec, replay>>
  BY <1>1 DEF ReportInv, Concluded, ConcludedBy, Logged, CompletedIsCurrent, ReplayMatches,
              Settled, Replayable
<1>2. CASE User
  <2>1. UNCHANGED replay
    BY <1>2 DEF User, Create, Edit, Delete
  <2>2. CASE Create
    <3>1. PICK s \in Specs : wf' = Workflow(TRUE, wf.uid + 1, 1, s, FALSE, FALSE, NewStatus)
      BY <2>2 DEF Create
    <3>2. wf'.status = NewStatus /\ wf'.uid = wf.uid + 1
      BY <3>1 DEF Workflow
    <3>3. NewStatus.phase = ""
      BY InitialTyped
    <3>4. ~Settled(wf')
      BY <3>2, <3>3 DEF Settled
    <3>5. \A m \in Managers : rec'[m].pc # "idle" => ~rec'[m].fresh
      BY <2>2 DEF Create, Held, HeldBy
    <3> QED
      BY <1>0, <2>1, <3>2, <3>4, <3>5, NothingReported
  <2>3. CASE Edit
    <3>1. PICK s \in Specs : wf' = [wf EXCEPT !.spec = s, !.generation = @ + 1]
      BY <2>3 DEF Edit
    <3>2. /\ wf'.generation = wf.generation + 1 /\ wf'.status = wf.status /\ wf'.uid = wf.uid
          /\ wf.exists
      BY <1>0, <2>3, <3>1, EditedTyped DEF Edit
    <3>3. ~Settled(wf')
      BY <1>0, <3>2 DEF Settled, Behind
    <3>4. Overtake
      BY <2>3 DEF Edit
    <3>5. \A m \in Managers : rec'[m].pc # "idle" => ~rec'[m].fresh
      BY <3>4, OvertakeTyped
    <3> QED
      BY <1>0, <2>1, <3>2, <3>3, <3>5, NothingReported
  <2>4. CASE Delete
    <3>1. wf.exists /\ Overtake
      BY <2>4 DEF Delete
    <3>2. ASSUME wf' = [wf EXCEPT !.deleting = TRUE, !.generation = @ + 1]
          PROVE  ~Settled(wf') /\ wf'.uid = wf.uid
      <4>1. wf'.generation = wf.generation + 1 /\ wf'.status = wf.status /\ wf'.uid = wf.uid
        BY <1>0, <3>2, DeletingTyped
      <4> QED
        BY <1>0, <3>1, <4>1 DEF Settled, Behind
    <3>3. ASSUME wf' = Gone(wf.uid) PROVE ~wf'.exists /\ wf'.uid = wf.uid
      BY <1>0, <3>3, InitialTyped
    <3>4. (~wf'.exists \/ ~Settled(wf')) /\ wf'.uid = wf.uid
      BY <2>4, <3>2, <3>3 DEF Delete
    <3>5. \A m \in Managers : rec'[m].pc # "idle" => ~rec'[m].fresh
      BY <3>1, OvertakeTyped
    <3> QED
      BY <1>0, <2>1, <3>4, <3>5, NothingReported
  <2> QED
    BY <1>2, <2>2, <2>3, <2>4 DEF User
<1>3. CASE CollectReplay
  <2>1. UNCHANGED <<wf, rec>> /\ replay'.owner = 0
    BY <1>3, InitialTyped DEF CollectReplay
  <2>2. wf.exists => wf.uid > 1
    BY <1>0, <1>3 DEF CollectReplay, Orphan, ReportInv
  <2>3. ASSUME NEW m \in Managers PROVE ConcludedBy(m)'
    <3>1. ConcludedBy(m) /\ HeldBy(m)
      BY DEF ReportInv, Concluded, Held
    <3> QED
      BY <2>1, <2>2, <3>1 DEF ConcludedBy, HeldBy, Logged, Replayable
  <2>4. Concluded'
    BY <2>3 DEF Concluded, ConcludedBy, Logged, Replayable
  <2>5. CompletedIsCurrent' /\ ReplayMatches'
    BY <2>1, <2>2 DEF ReportInv, CompletedIsCurrent, ReplayMatches, Settled, Replayable
  <2> QED
    BY <1>0, <2>1, <2>4, <2>5 DEF ReportInv
<1>4. CASE Cluster
  <2>1. CASE ~CollectReplay
    <3>1. UNCHANGED <<wf, rec, replay>>
      BY <1>4, <2>1 DEF Cluster, Seal, WorkSucceeds, WorkFails, CollectWork, CollectChain
    <3> QED
      BY <1>1, <3>1
  <2> QED
    BY <1>3, <2>1
<1>5. CASE ChainReconciler
  <2>1. UNCHANGED <<wf, rec, replay>>
    BY <1>5 DEF ChainReconciler, AddChainFinalizer, finalizeChain, ReconcileChain, failChain
  <2> QED
    BY <1>1, <2>1
<1>6. ASSUME NEW m \in Managers, WorkflowReconciler(m) PROVE ReportInv'
  <2>0. \A n \in Managers : ConcludedBy(n) /\ HeldBy(n)
    BY DEF ReportInv, Concluded, Held
  <2>1. CASE AddFinalizer(m)
    <3>1. /\ wf'.exists = wf.exists /\ wf'.uid = wf.uid /\ wf'.status = wf.status
          /\ wf'.generation = wf.generation /\ wf'.spec = wf.spec
          /\ UNCHANGED rec /\ UNCHANGED replay
      BY <1>0, <2>1 DEF AddFinalizer, WorkflowType
    <3> QED
      BY <3>1 DEF ReportInv, Concluded, ConcludedBy, Logged, CompletedIsCurrent, ReplayMatches,
                  Settled, Replayable
  <2>2. CASE finalize(m)
    <3>1. ~wf'.exists /\ wf'.uid = wf.uid
      BY <1>0, <2>2, InitialTyped DEF finalize
    <3>2. UNCHANGED <<rec, replay>> /\ wf.deleting
      BY <2>2 DEF finalize
    <3>3. \A n \in Managers : rec'[n].pc # "idle" => ~rec'[n].fresh
      BY <2>0, <3>2 DEF HeldBy
    <3> QED
      BY <1>0, <3>1, <3>2, <3>3, NothingReported
  <2>3. CASE Begin(m)
    <3>1. ASSUME NEW n \in Managers PROVE ConcludedBy(n)'
      <4>1. CASE n = m
        <5>1. rec'[m].pc = "run"
          BY <2>3, BeginFrame
        <5> QED
          BY <4>1, <5>1 DEF ConcludedBy
      <4>2. CASE n # m
        <5>1. UNCHANGED replay /\ wf'.uid = wf.uid /\ rec'[n] = rec[n]
          BY <2>3, <4>2, BeginFrame DEF Only
        <5> QED
          BY <2>0, <5>1, ConcludedKept
      <4> QED
        BY <4>1, <4>2
    <3>2. Concluded'
      BY <3>1 DEF Concluded, ConcludedBy, Logged, Replayable
    <3>3. wf'.status.phase = "Running" /\ wf'.uid = wf.uid /\ UNCHANGED replay
      BY <2>3, BeginFrame
    <3> QED
      BY <3>2, <3>3 DEF ReportInv, CompletedIsCurrent, ReplayMatches, Settled
  <2>4. CASE Run(m) \/ fail(m)
    BY <2>4, RunConcluded
  <2>5. CASE Commit(m)
    <3>1. /\ UNCHANGED replay /\ wf'.exists = wf.exists /\ wf'.uid = wf.uid
          /\ wf'.generation = wf.generation /\ wf'.spec = wf.spec /\ rec[m].pc = "commit"
          /\ rec'[m].pc = "idle"
      BY <2>5, CommitFrame
    <3>2. CASE /\ ~rec[m].fresh /\ wf' = wf
               /\ \A n \in Managers : n # m => rec'[n] = rec[n]
      <4>1. ASSUME NEW n \in Managers PROVE ConcludedBy(n)'
        <5>1. CASE n = m
          BY <3>1, <5>1 DEF ConcludedBy
        <5>2. CASE n # m
          BY <2>0, <3>1, <3>2, <5>2, ConcludedKept
        <5> QED
          BY <5>1, <5>2
      <4>2. Concluded'
        BY <4>1 DEF Concluded, ConcludedBy, Logged, Replayable
      <4> QED
        BY <3>1, <3>2, <4>2 DEF ReportInv, CompletedIsCurrent, ReplayMatches, Settled, Replayable
    <3>3. CASE /\ rec[m].fresh /\ wf'.status = rec[m].status
               /\ \A n \in Managers : n # m => rec'[n].fresh = FALSE
      <4>1. Concluded'
        BY <3>1, <3>3 DEF Concluded, ConcludedBy
      <4>2. wf.spec = rec[m].spec /\ wf.generation = rec[m].generation
        BY <2>0, <3>1, <3>3 DEF HeldBy
      <4>3. CompletedIsCurrent'
        BY <2>0, <3>1, <3>3, <4>2 DEF ConcludedBy, CompletedIsCurrent, Settled, Replayable
      <4>4. ReplayMatches'
        BY <2>0, <3>1, <3>3, <4>2 DEF ConcludedBy, ReplayMatches, Settled, Replayable, Logged
      <4> QED
        BY <3>1, <4>1, <4>3, <4>4 DEF ReportInv
    <3> QED
      BY <2>5, <3>2, <3>3, CommitFrame
  <2>6. CASE Abandon(m)
    <3>1. Only(m) /\ rec'[m].pc = "idle" /\ UNCHANGED <<wf, replay>>
      BY <2>6, EndTyped DEF Abandon
    <3>2. ASSUME NEW n \in Managers PROVE ConcludedBy(n)'
      <4>1. CASE n = m
        BY <3>1, <4>1 DEF ConcludedBy
      <4>2. CASE n # m
        BY <2>0, <3>1, <4>2, ConcludedKept DEF Only
      <4> QED
        BY <4>1, <4>2
    <3>3. Concluded'
      BY <3>2 DEF Concluded, ConcludedBy, Logged, Replayable
    <3> QED
      BY <3>1, <3>3 DEF ReportInv, CompletedIsCurrent, ReplayMatches, Settled, Replayable
  <2> QED
    BY <1>6, <2>1, <2>2, <2>3, <2>4, <2>5, <2>6 DEF WorkflowReconciler
<1>7. CASE UNCHANGED vars
  BY <1>1, <1>7 DEF vars
<1> QED
  BY <1>2, <1>4, <1>5, <1>6, <1>7 DEF Next

\* ... and so holds in every state.
LEMMA ReportInvariant == Spec => []ReportInv
<1>1. Init => ReportInv
  <2> SUFFICES ASSUME Init PROVE ReportInv
    OBVIOUS
  <2>1. /\ \A m \in Managers : rec[m].pc = "idle"
        /\ ~wf.exists /\ wf.uid = 0 /\ replay.owner = 0
    BY InitialTyped DEF Init
  <2> QED
    BY <2>1 DEF ReportInv, Concluded, ConcludedBy, CompletedIsCurrent, ReplayMatches
<1>2. TypeOK /\ Held /\ Behind /\ ReportInv /\ [Next]_vars => ReportInv'
  BY ReportStep
<1> QED
  BY <1>1, <1>2, HeldInvariant, PTL DEF Spec

\* CompletedIsCurrent: a Completed Workflow reports its current spec.
THEOREM CompletedReportsCurrentSpec == Spec => []CompletedIsCurrent
<1>1. ReportInv => CompletedIsCurrent
  BY DEF ReportInv
<1> QED
  BY <1>1, ReportInvariant, PTL

\* ReplayMatches: the replay log is that of the run the status refers to, or
\* was last written by a reconcile that had been overtaken, or is gone with an
\* earlier Workflow.
THEOREM ReplayLogMatches == Spec => []ReplayMatches
<1>1. ReportInv => ReplayMatches
  BY DEF ReportInv
<1> QED
  BY <1>1, ReportInvariant, PTL

-----------------------------------------------------------------------------
\* There is a live Workflow whose uid is the owner's.
Live(owner) == wf.exists /\ wf.uid = owner

\* Owners are Workflows there have been.
Owned ==
  /\ chain.owner <= wf.uid
  /\ \A k \in Kinds : work[k].owner <= wf.uid
  /\ chain.deleting => chain.owner # 0 /\ ~Live(chain.owner)

\* What belongs to the Workflow there is belongs to its chain, with its spec.
WorkOf ==
  \A k \in Kinds : work[k].owner # 0 /\ Live(work[k].owner) =>
    work[k].owner = chain.owner /\ work[k].spec = chain.spec

\* The containers of the object w have been counted.
Counted(w, k) ==
  w.state = "succeeded" =>
    w.owner # 0 /\ (k # "pull" => \E r \in ran : r.owner = w.owner /\ r.spec = w.spec)

Finished == \A k \in Kinds : Counted(work[k], k)

RanInv == Owned /\ WorkOf /\ Finished /\ ChainRan

\* How steps that leave the chain and its objects alone change the Workflow.
LEMMA UserFrame ==
  ASSUME TypeOK, User
  PROVE  /\ UNCHANGED <<chain, work, ran>>
         /\ \/ wf'.uid = wf.uid /\ (wf'.exists => wf.exists)
            \/ wf'.uid = wf.uid + 1
<1>0. wf.uid \in Nat /\ wf \in WorkflowType
  BY DEF TypeOK, WorkflowType
<1>1. UNCHANGED <<chain, work, ran>>
  BY DEF User, Create, Edit, Delete
<1>2. CASE Create
  <2>1. wf'.uid = wf.uid + 1
    BY <1>2 DEF Create, Workflow
  <2> QED
    BY <1>1, <2>1
<1>3. CASE Edit
  <2>1. PICK s \in Specs : wf' = [wf EXCEPT !.spec = s, !.generation = @ + 1]
    BY <1>3 DEF Edit
  <2> QED
    BY <1>0, <1>1, <2>1, EditedTyped
<1>4. CASE Delete
  <2>1. ASSUME wf' = [wf EXCEPT !.deleting = TRUE, !.generation = @ + 1]
        PROVE  wf'.uid = wf.uid /\ wf'.exists = wf.exists
    BY <1>0, <2>1, DeletingTyped
  <2>2. ASSUME wf' = Gone(wf.uid) PROVE wf'.uid = wf.uid /\ ~wf'.exists
    BY <1>0, <2>2, InitialTyped
  <2> QED
    BY <1>1, <1>4, <2>1, <2>2 DEF Delete
<1> QED
  BY <1>2, <1>3, <1>4 DEF User

\* ... and those of a manager.
LEMMA WorkflowFrame ==
  ASSUME TypeOK, NEW m \in Managers,
         \/ AddFinalizer(m) \/ finalize(m) \/ Begin(m) \/ Commit(m) \/ Abandon(m)
         \/ fail(m) \/ (Run(m) /\ ~createChain(m))
  PROVE  UNCHANGED <<chain, work, ran>> /\ wf'.uid = wf.uid /\ (wf'.exists => wf.exists)
<1>0. wf.uid \in Nat /\ wf \in WorkflowType
  BY DEF TypeOK, WorkflowType
<1>1. UNCHANGED <<chain, work, ran>>
  BY DEF AddFinalizer, finalize, Begin, Commit, Abandon, fail, Run,
         execute, isSnapshotNotReady, awaitChain, completeFromChain,
         completeFromChainStatus, failFromChain
<1>2. CASE AddFinalizer(m)
  BY <1>0, <1>1, <1>2 DEF AddFinalizer, WorkflowType
<1>3. CASE finalize(m)
  <2>1. wf' = Gone(wf.uid)
    BY <1>3 DEF finalize
  <2> QED
    BY <1>0, <1>1, <2>1, InitialTyped
<1>4. CASE Begin(m)
  BY <1>1, <1>4, BeginFrame
<1>5. CASE Commit(m)
  BY <1>1, <1>5, CommitFrame
<1>6. CASE Abandon(m)
  BY <1>1, <1>6 DEF Abandon
<1>7. CASE Run(m) \/ fail(m)
  BY <1>1, <1>7, RunTyped
<1> QED
  BY <1>2, <1>3, <1>4, <1>5, <1>6, <1>7

\* The objects of a chain, and those that earlier chains of its name left.
Found(ws) ==
  /\ ws \in [Kinds -> WorkType]
  /\ \A j \in Kinds : /\ ws[j].owner <= wf.uid
                      /\ ws[j].owner # 0 /\ Live(ws[j].owner) =>
                           ws[j].owner = chain.owner /\ ws[j].spec = chain.spec
                      /\ Counted(ws[j], j)

\* ensure creates the objects of the chain and no other.
LEMMA EnsureOwned ==
  ASSUME NEW ws, NEW k \in Kinds, Found(ws), chain \in ChainType, chain.owner <= wf.uid
  PROVE  Found(ensure(k, ws))
<1>1. PICK w : w = Work(chain.owner, chain.spec, "running")
  OBVIOUS
<1>2. w \in WorkType /\ w.owner = chain.owner /\ w.spec = chain.spec /\ w.state = "running"
  BY <1>1 DEF Work, WorkType, ChainType
<1>3. ensure(k, ws) = IF ws[k].owner # 0 THEN ws ELSE [ws EXCEPT ![k] = w]
  BY <1>1 DEF ensure
<1>4. Counted(w, k)
  BY <1>2 DEF Counted
<1> QED
  BY <1>2, <1>3, <1>4 DEF Found

\* A reconcile of the chain keeps RanInv: it completes on containers that
\* succeeded, which are its own or were left by an earlier chain.
LEMMA ReconcileChainRan ==
  ASSUME TypeOK, RanInv, ReconcileChain
  PROVE  RanInv'
<1>1. /\ chain.owner # 0 /\ ~chain.deleting /\ UNCHANGED <<wf, ran>>
      /\ chain \in ChainType /\ work \in [Kinds -> WorkType]
      /\ wf.uid \in Nat /\ chain.owner \in Nat /\ chain.owner <= wf.uid
  BY DEF ReconcileChain, Active, TypeOK, ChainType, WorkflowType, RanInv, Owned
<1>2. Found(work)
  BY <1>1 DEF RanInv, Owned, WorkOf, Finished, Found
<1>3. PICK ws : ws = ensure("pull", work)
  OBVIOUS
<1>4. Found(ws)
  BY <1>1, <1>2, <1>3, EnsureOwned DEF Kinds
<1>5. work' \in {ensure("pod", work), ensure("job", work), ws, ensure("pod", ws)}
  BY <1>3 DEF ReconcileChain, reconcileInitChain, reconcileVolcano, reconcileOpenKruise
<1>6. Found(work')
  <2>1. CASE work' = ensure("pod", work)
    BY <1>1, <1>2, <2>1, EnsureOwned DEF Kinds
  <2>2. CASE work' = ensure("job", work)
    BY <1>1, <1>2, <2>2, EnsureOwned DEF Kinds
  <2>3. CASE work' = ws
    BY <1>4, <2>3
  <2>4. CASE work' = ensure("pod", ws)
    BY <1>1, <1>4, <2>4, EnsureOwned DEF Kinds
  <2> QED
    BY <1>5, <2>1, <2>2, <2>3, <2>4
<1>7. PICK state : finishChain(state) /\ (state = "succeeded" =>
        \E j \in {"pod", "job"} : work'[j].state = "succeeded")
  <2>1. CASE reconcileInitChain
    BY <2>1 DEF reconcileInitChain
  <2>2. CASE reconcileVolcano
    BY <2>2 DEF reconcileVolcano
  <2>3. CASE reconcileOpenKruise
    BY <2>3 DEF reconcileOpenKruise, openKruiseSlotsComplete
  <2> QED
    BY <2>1, <2>2, <2>3 DEF ReconcileChain
<1>8. /\ chain'.owner = chain.owner /\ chain'.spec = chain.spec
      /\ chain'.deleting = chain.deleting /\ chain'.phase = Verdict(state)
  BY <1>1, <1>7, FinishTyped
<1>9. ChainRan'
  <2> SUFFICES ASSUME wf.exists, chain.owner = wf.uid, chain'.phase = "Completed"
               PROVE  \E r \in ran : \/ r.owner = chain.owner /\ r.spec = chain.spec
                                     \/ r.owner < chain.owner
    BY <1>1, <1>8 DEF ChainRan
  <2>1. state = "succeeded"
    BY <1>8 DEF Verdict
  <2>2. PICK j \in {"pod", "job"} : work'[j].state = "succeeded"
    BY <1>7, <2>1
  <2>3. /\ work'[j].owner # 0
        /\ \E r \in ran : r.owner = work'[j].owner /\ r.spec = work'[j].spec
    BY <1>6, <2>2 DEF Found, Counted, Kinds
  <2>4. PICK r \in ran : r.owner = work'[j].owner /\ r.spec = work'[j].spec
    BY <2>3
  <2>5. /\ work'[j].owner \in Nat /\ work'[j].owner <= wf.uid
        /\ work'[j].owner = wf.uid => work'[j].spec = chain.spec
    BY <1>6, <2>3 DEF Found, Kinds, WorkType, Live
  <2> QED
    BY <1>1, <2>4, <2>5
<1>10. Owned'
  BY <1>1, <1>6, <1>8 DEF RanInv, Owned, Found, Live
<1>11. WorkOf'
  BY <1>1, <1>6, <1>8 DEF WorkOf, Found, Live
<1>12. Finished'
  BY <1>1, <1>6 DEF Finished, Found, Counted
<1> QED
  BY <1>9, <1>10, <1>11, <1>12 DEF RanInv

\* RanInv is inductive, however often the name is used.
LEMMA RanStep ==
  ASSUME TypeOK, Held, Behind, RanInv, [Next]_vars
  PROVE  RanInv'
<1>0. /\ wf.uid \in Nat /\ chain \in ChainType /\ work \in [Kinds -> WorkType]
      /\ chain.owner \in Nat /\ \A k \in Kinds : work[k].owner \in Nat
  BY DEF TypeOK, WorkflowType, ChainType, WorkType
<1>1. CASE UNCHANGED <<wf, chain, work, ran>>
  BY <1>1 DEF RanInv, Owned, WorkOf, Finished, ChainRan, Counted, Live
<1>2. ASSUME UNCHANGED <<chain, work, ran>>,
             \/ wf'.uid = wf.uid /\ (wf'.exists => wf.exists)
             \/ wf'.uid = wf.uid + 1
      PROVE  RanInv'
  <2>2. wf.uid <= wf'.uid /\ wf'.uid \in Nat
    BY <1>0, <1>2
  <2>3. ASSUME NEW n \in Nat, n <= wf.uid PROVE n <= wf'.uid /\ (~Live(n) => ~Live(n)')
    BY <1>0, <1>2, <2>2, <2>3 DEF Live
  <2>4. Owned'
    BY <1>0, <1>2, <2>3 DEF RanInv, Owned, Live
  <2>5. WorkOf'
    BY <1>0, <1>2, <2>3 DEF RanInv, Owned, WorkOf, Live
  <2>6. ChainRan'
    BY <1>0, <1>2 DEF RanInv, Owned, ChainRan
  <2> QED
    BY <1>2, <2>4, <2>5, <2>6 DEF RanInv, Finished, Counted
<1>3. ASSUME NEW m \in Managers, createChain(m) PROVE RanInv'
  <2>0. rec[m] \in RecType /\ HeldBy(m)
    BY DEF TypeOK, Held
  <2>1. /\ chain.owner = 0 /\ rec[m].pc = "run" /\ UNCHANGED <<wf, work, ran>>
        /\ chain' = Chain(rec[m].uid, rec[m].spec, "", FALSE, FALSE)
    BY <1>3 DEF createChain, Running
  <2>2. chain'.owner = rec[m].uid /\ chain'.phase = "" /\ ~chain'.deleting
    BY <2>1 DEF Chain
  <2>3. rec[m].uid <= wf.uid
    BY <2>0, <2>1 DEF HeldBy
  <2>4. \A k \in Kinds : work[k].owner # 0 => ~Live(work[k].owner)
    BY <2>1 DEF RanInv, WorkOf
  <2>5. Owned'
    BY <2>1, <2>2, <2>3 DEF RanInv, Owned
  <2>6. WorkOf'
    BY <2>1, <2>4 DEF WorkOf, Live
  <2> QED
    BY <2>1, <2>2, <2>5, <2>6 DEF RanInv, Finished, ChainRan, Counted
<1>4. ASSUME NEW s \in Specs, Seal(s) PROVE RanInv'
  BY <1>1, <1>4 DEF Seal
<1>5. ASSUME NEW k \in Kinds, WorkSucceeds(k) \/ WorkFails(k) PROVE RanInv'
  <2>1. PICK t \in {"succeeded", "failed"} :
          work' = [work EXCEPT ![k] = Work(work[k].owner, work[k].spec, t)]
    BY <1>5 DEF WorkSucceeds, WorkFails
  <2>2. PICK w : w = Work(work[k].owner, work[k].spec, t)
    OBVIOUS
  <2>3. work[k].owner # 0
    BY <1>5 DEF TypeOK, WorkSucceeds, WorkFails
  <2>4. w.owner = work[k].owner /\ w.spec = work[k].spec /\ w.state = t
    BY <2>2 DEF Work
  <2>5. work' = [work EXCEPT ![k] = w]
    BY <2>1, <2>2
  <2>6. ran \subseteq ran' /\ UNCHANGED <<wf, chain>>
    BY <1>5 DEF WorkSucceeds, WorkFails
  <2>7. t = "succeeded" /\ k # "pull" =>
          \E r \in ran' : r.owner = work[k].owner /\ r.spec = work[k].spec
    <3>1. WorkFails(k) => t = "failed"
      <4>1. ASSUME WorkFails(k) PROVE t = "failed"
        <5>1. PICK v : v = Work(work[k].owner, work[k].spec, "failed")
          OBVIOUS
        <5>2. work' = [work EXCEPT ![k] = v]
          BY <4>1, <5>1 DEF WorkFails
        <5>3. v = w
          BY <1>0, <2>5, <5>2
        <5>4. v.state = "failed"
          BY <5>1 DEF Work
        <5> QED
          BY <2>4, <5>3, <5>4
      <4> QED
        BY <4>1
    <3>2. ASSUME WorkSucceeds(k), k # "pull"
          PROVE  \E r \in ran' : r.owner = work[k].owner /\ r.spec = work[k].spec
      <4>1. PICK r : r = [owner |-> work[k].owner, spec |-> work[k].spec]
        OBVIOUS
      <4>2. r \in ran'
        BY <3>2, <4>1 DEF WorkSucceeds
      <4> QED
        BY <4>1, <4>2
    <3> QED
      BY <1>5, <3>1, <3>2
  <2>8. Finished'
    <3>1. ASSUME NEW j \in Kinds PROVE Counted(work[j], j)'
      <4>1. CASE j = k
        BY <1>0, <2>3, <2>4, <2>5, <2>7, <4>1 DEF Counted
      <4>2. CASE j # k
        <5>1. work'[j] = work[j] /\ Counted(work[j], j)
          BY <1>0, <2>5, <4>2 DEF RanInv, Finished
        <5> QED
          BY <2>6, <5>1 DEF Counted
      <4> QED
        BY <4>1, <4>2
    <3> QED
      BY <3>1 DEF Finished, Counted
  <2>9. \A j \in Kinds : work'[j].owner = work[j].owner /\ work'[j].spec = work[j].spec
    BY <1>0, <2>4, <2>5
  <2>10. Owned' /\ WorkOf'
    BY <2>6, <2>9 DEF RanInv, Owned, WorkOf, Live
  <2> QED
    BY <2>6, <2>8, <2>10 DEF RanInv, ChainRan
<1>6. ASSUME NEW k \in Kinds, CollectWork(k) PROVE RanInv'
  <2>1. /\ work' = [work EXCEPT ![k] = NoWork] /\ UNCHANGED <<wf, chain, ran>>
        /\ NoWork.owner = 0 /\ NoWork.state = "none"
    BY <1>6, InitialTyped DEF CollectWork
  <2>2. \A j \in Kinds : \/ work'[j] = work[j]
                         \/ work'[j].owner = 0 /\ work'[j].state = "none"
    BY <1>0, <2>1
  <2>3. Owned'
    BY <1>0, <2>1, <2>2 DEF RanInv, Owned, Live
  <2> QED
    BY <2>1, <2>2, <2>3 DEF RanInv, WorkOf, Finished, ChainRan, Counted, Live
<1>7. ASSUME chain' = NoChain, ~Live(chain.owner), UNCHANGED <<wf, work, ran>>
      PROVE  RanInv'
  <2>1. chain'.owner = 0 /\ ~chain'.deleting
    BY <1>7, InitialTyped
  <2>4. chain'.phase # "Completed"
    BY <1>7, InitialTyped
  <2>2. Owned'
    BY <1>0, <1>7, <2>1 DEF RanInv, Owned
  <2>3. WorkOf'
    BY <1>7, <2>1 DEF RanInv, WorkOf, Live
  <2> QED
    BY <1>7, <2>2, <2>3, <2>4 DEF RanInv, Finished, ChainRan, Counted
<1>8. CASE CollectChain
  <2>1. chain.owner # 0 /\ ~Live(chain.owner) /\ UNCHANGED <<wf, work, ran>>
    BY <1>8 DEF CollectChain, Orphan, Live
  <2>2. CASE chain' = [chain EXCEPT !.deleting = TRUE]
    <3>1. chain'.owner = chain.owner /\ chain'.spec = chain.spec /\ chain'.phase = chain.phase
      BY <1>0, <2>2 DEF ChainType
    <3> QED
      BY <2>1, <3>1 DEF RanInv, Owned, WorkOf, Finished, ChainRan, Counted, Live
  <2> QED
    BY <1>7, <1>8, <2>1, <2>2 DEF CollectChain
<1>9. CASE CollectReplay
  BY <1>1, <1>9 DEF CollectReplay
<1>10. CASE Cluster
  BY <1>4, <1>5, <1>6, <1>8, <1>9, <1>10 DEF Cluster
<1>11. CASE AddChainFinalizer \/ failChain
  <2>1. /\ UNCHANGED <<wf, work, ran>> /\ chain'.owner = chain.owner
        /\ chain'.spec = chain.spec /\ chain'.deleting = chain.deleting
        /\ chain'.phase \in {chain.phase, "Error"}
    BY <1>0, <1>11 DEF AddChainFinalizer, failChain, ChainType
  <2> QED
    BY <2>1 DEF RanInv, Owned, WorkOf, Finished, ChainRan, Counted, Live
<1>12. CASE finalizeChain
  BY <1>7, <1>12 DEF finalizeChain, RanInv, Owned
<1>13. CASE ChainReconciler
  BY <1>11, <1>12, <1>13, ReconcileChainRan DEF ChainReconciler
<1>14. ASSUME NEW m \in Managers, WorkflowReconciler(m) PROVE RanInv'
  <2>1. CASE createChain(m)
    BY <1>3, <2>1
  <2>2. CASE ~createChain(m)
    <3>1. \/ AddFinalizer(m) \/ finalize(m) \/ Begin(m) \/ Commit(m) \/ Abandon(m)
          \/ fail(m) \/ (Run(m) /\ ~createChain(m))
      BY <1>14, <2>2 DEF WorkflowReconciler
    <3> QED
      BY <1>2, <3>1, WorkflowFrame
  <2> QED
    BY <2>1, <2>2
<1>16. CASE User
  BY <1>2, <1>16, UserFrame
<1>15. CASE UNCHANGED vars
  BY <1>1, <1>15 DEF vars
<1> QED
  BY <1>10, <1>13, <1>14, <1>15, <1>16 DEF Next

\* ChainRan: the containers that a chain finds, and completes on, are its own
\* or were left by a chain of an earlier Workflow.
THEOREM ChainsRunTheirSpec == Spec => []ChainRan
<1>1. Init => RanInv
  <2> SUFFICES ASSUME Init PROVE RanInv
    OBVIOUS
  <2>1. wf.uid = 0 /\ chain.owner = 0 /\ ~chain.deleting
    BY InitialTyped DEF Init
  <2>3. ~wf.exists
    BY InitialTyped DEF Init
  <2>2. \A k \in Kinds : work[k].owner = 0 /\ work[k].state = "none"
    BY InitialTyped DEF Init
  <2> QED
    BY <2>1, <2>2, <2>3 DEF RanInv, Owned, WorkOf, Finished, ChainRan, Counted
<1>2. TypeOK /\ Held /\ Behind /\ RanInv /\ [Next]_vars => RanInv'
  BY RanStep
<1>3. RanInv => ChainRan
  BY DEF RanInv
<1> QED
  BY <1>1, <1>2, <1>3, HeldInvariant, PTL DEF Spec
=============================================================================
