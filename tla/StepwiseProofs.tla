--------------------------- MODULE StepwiseProofs ---------------------------
(***************************************************************************)
(* Proofs about Stepwise, for any managers, dominos, payloads and bounds.  *)
(*                                                                         *)
(* Files change only by serving, or by cutting short, a request that is in *)
(* flight (FileStep), and a result request enters the flight only from a   *)
(* worker that has resolved its input (NewRequest).  The invariants are    *)
(* therefore facts about the files, carried along with the same facts      *)
(* about the requests in flight, whose senders may be gone.                *)
(***************************************************************************)
EXTENDS Stepwise, WellFoundedInduction, TLAPS

-----------------------------------------------------------------------------
(* What a reconcile has established at each point, given Snapshot.status.  *)

WorkerAt(w, s) ==
  /\ w.pc # "idle" => w.d \in Dominos /\ w.cmd \in Commands /\ s.phase = "Sealed"
  /\ w.pc = "deps" => Len(w.outs) <= Len(DependsOn[w.d])
  /\ w.pc = "output" => Len(w.outs) < Len(DependsOn[w.d])
  /\ w.pc \in {"head", "run"} => Len(w.outs) = Len(DependsOn[w.d])
  /\ w.pc = "run" => w.prev \in Links
  /\ w.pc \in {"posted", "saved"} =>
       w.row \in Rows /\ w.row.key[1] = s.id /\ w.row.key[2] = w.d

SealerAt(x, s) ==
  /\ x.fresh => s.phase # "Sealed"
  /\ x.pc \in {"posted", "saved"} =>
       x.id \in SnapshotIDs /\ x.data \in JSON /\ Parse[x.data] = x.id[2]

RequestAt(q, s) ==
  /\ q.op = "snapshot" => Parse[q.data] = q.id[2]
  /\ q.op = "result" => s.phase = "Sealed" /\ q.row.key[1] = s.id

FileTypes ==
  /\ meta \in [SnapshotIDs -> {"none", "torn", "sealed"}]
  /\ payload \in [SnapshotIDs -> Bytes \cup {Absent}]
  /\ memo \subseteq [key : Keys, output : OutputValues]
  /\ tornMemo \subseteq Keys
  /\ log \in Seq(Rows) /\ tornReplay \in BOOLEAN

WorkerInv ==
  /\ worker \in [Managers -> Workers]
  /\ \A m \in Managers : WorkerAt(worker[m], snap)

SealerInv ==
  /\ sealer \in [Managers -> Sealers]
  /\ \A m \in Managers : SealerAt(sealer[m], snap)

LateInv ==
  /\ late \subseteq [at : Nat, req : Requests]
  /\ \A r \in late : RequestAt(r.req, snap)

SnapInv ==
  /\ snap \in Statuses
  /\ snap.phase = "Sealed" => snap.id \in SnapshotIDs

DominoTypes == domino \in [Dominos -> Objects]

RestTypes ==
  /\ source \in Bytes \cup {Absent}
  /\ alone \in BOOLEAN /\ stray \subseteq Contents /\ events \in Nat

TypeInv ==
  FileTypes /\ WorkerInv /\ SealerInv /\ LateInv /\ SnapInv /\ DominoTypes /\ RestTypes

LEMMA TypeInvType == ASSUME TypeInv PROVE TypeOK
BY DEF TypeInv, TypeOK, FileTypes, WorkerInv, SealerInv, LateInv, SnapInv,
       DominoTypes, RestTypes

-----------------------------------------------------------------------------
(* Records.                                                                *)

LEMMA IdleTyped ==
  /\ IdleWorker \in Workers /\ IdleWorker.pc = "idle" /\ ~IdleWorker.fresh
  /\ IdleWorker.read = Absent
  /\ IdleSealer \in Sealers /\ IdleSealer.pc = "idle" /\ ~IdleSealer.fresh
<1>1. <<>> \in Seq(OutputValues)
  OBVIOUS
<1> QED
  BY <1>1 DEF IdleWorker, IdleSealer, Workers, Sealers

LEMMA IdleAt ==
  ASSUME NEW s
  PROVE  WorkerAt(IdleWorker, s) /\ SealerAt(IdleSealer, s)
BY IdleTyped DEF WorkerAt, SealerAt

\* A copy that is outdated by somebody else's update is otherwise the same.
LEMMA StaleWorker ==
  ASSUME NEW w \in Workers, NEW b \in BOOLEAN
  PROVE  LET v == [w EXCEPT !.fresh = b]
         IN  /\ v \in Workers /\ v.fresh = b /\ v.pc = w.pc /\ v.d = w.d /\ v.gen = w.gen
             /\ v.cmd = w.cmd /\ v.outs = w.outs /\ v.prev = w.prev /\ v.row = w.row /\ v.read = w.read
BY DEF Workers

LEMMA StaleSealer ==
  ASSUME NEW x \in Sealers, NEW b \in BOOLEAN
  PROVE  LET y == [x EXCEPT !.fresh = b]
         IN  /\ y \in Sealers /\ y.fresh = b /\ y.pc = x.pc /\ y.id = x.id /\ y.data = x.data
BY DEF Sealers

LEMMA PcWorker ==
  ASSUME NEW w \in Workers,
         NEW p \in {"idle", "deps", "output", "head", "run", "posted", "saved", "refused"}
  PROVE  LET v == [w EXCEPT !.pc = p]
         IN  /\ v \in Workers /\ v.fresh = w.fresh /\ v.pc = p /\ v.d = w.d /\ v.gen = w.gen
             /\ v.cmd = w.cmd /\ v.outs = w.outs /\ v.prev = w.prev /\ v.row = w.row /\ v.read = w.read
BY DEF Workers

LEMMA PcSealer ==
  ASSUME NEW x \in Sealers, NEW p \in {"idle", "posted", "saved", "refused"}
  PROVE  LET y == [x EXCEPT !.pc = p]
         IN  /\ y \in Sealers /\ y.fresh = x.fresh /\ y.pc = p /\ y.id = x.id /\ y.data = x.data
BY DEF Sealers

LEMMA PhaseTyped ==
  ASSUME NEW x \in Objects, NEW p \in Phases
  PROVE  /\ [x EXCEPT !.phase = p] \in Objects
         /\ [x EXCEPT !.phase = p].gen = x.gen /\ [x EXCEPT !.phase = p].cmd = x.cmd
         /\ [x EXCEPT !.phase = p].observed = x.observed
         /\ [x EXCEPT !.phase = p].row = x.row /\ [x EXCEPT !.phase = p].phase = p
BY DEF Objects

\* What a reconcile posts is a well-formed request.
LEMMA RequestTyped ==
  ASSUME NEW m \in Managers, SealerInv, WorkerInv
  PROVE  /\ sealer[m].pc = "posted" =>
              SealRequest(m) \in Requests /\ RequestAt(SealRequest(m), snap)
         /\ worker[m].pc = "posted" =>
              ResultRequest(m) \in Requests /\ RequestAt(ResultRequest(m), snap)
<1>1. SealerAt(sealer[m], snap) /\ WorkerAt(worker[m], snap)
  BY DEF SealerInv, WorkerInv
<1>2. ASSUME sealer[m].pc = "posted"
      PROVE  SealRequest(m) \in Requests /\ RequestAt(SealRequest(m), snap)
  BY <1>1, <1>2 DEF SealerAt, SealRequest, Requests, RequestAt
<1>3. ASSUME worker[m].pc = "posted"
      PROVE  ResultRequest(m) \in Requests /\ RequestAt(ResultRequest(m), snap)
  BY <1>1, <1>3 DEF WorkerAt, ResultRequest, Requests, RequestAt
<1> QED
  BY <1>2, <1>3

\* Whatever the service is asked is well-formed.
LEMMA FlightTyped ==
  ASSUME SealerInv, WorkerInv, LateInv
  PROVE  \A q \in InFlight : q \in Requests /\ RequestAt(q, snap)
<1>1. \A r \in late : r.req \in Requests /\ RequestAt(r.req, snap)
  BY DEF LateInv
<1> QED
  BY <1>1, RequestTyped DEF InFlight

-----------------------------------------------------------------------------
(* Files.                                                                  *)

\* Files change by a request in flight, served or cut short.
LEMMA FileStep ==
  ASSUME [Next]_vars
  PROVE  UNCHANGED fileVars \/ \E q \in InFlight : Accepted(q) \/ Cut(q)
<1>1. CASE \E m \in Managers : ServeSnapshot(m) \/ SealWriteFails(m)
  BY <1>1 DEF ServeSnapshot, SealWriteFails, Refused, InFlight
<1>2. CASE \E m \in Managers : ServeResult(m) \/ ResultWriteFails(m)
  BY <1>2 DEF ServeResult, ResultWriteFails, Refused, InFlight
<1>3. CASE \E r \in late : ServeLate(r)
  BY <1>3 DEF ServeLate, Refused, InFlight
<1>4. CASE ServiceCrash
  BY <1>4 DEF ServiceCrash
<1>5. CASE \E m \in Managers : \/ SealTimeout(m) \/ ResultTimeout(m) \/ ManagerCrash(m)
                              \/ CallFails(m) \/ ReadNotFound(m)
  BY <1>5 DEF SealTimeout, ResultTimeout, ManagerCrash, CallFails, ReadNotFound
<1>6. CASE Users
  BY <1>6 DEF Users, EditDomino, WriteSource
<1>7. CASE \E m \in Steady : Seal(m)
  BY <1>7 DEF Seal, SourceNotReady, SealToBackend, SealReplied
<1>8. CASE \E m \in Managers : Work(m) \/ \E d \in Takes[m] : Start(m, d)
  BY <1>8 DEF Work, Start, Postpone, Reconcile, CheckDependency, LoadOutput, MarkRunning,
              ReadHead, Reuse, Execute, CannotRun, Report
<1>9. CASE UNCHANGED vars
  BY <1>9 DEF vars
<1> QED
  BY <1>1, <1>2, <1>3, <1>4, <1>5, <1>6, <1>7, <1>8, <1>9 DEF Next, Serve, Faults

LEMMA ResultTyped ==
  ASSUME NEW row \in Rows
  PROVE  Result(row) \in [key : Keys, output : OutputValues] /\ row.key \in Keys
BY DEF Rows, Result

LEMMA RequestsTyped ==
  ASSUME FileTypes, NEW q \in Requests, Accepted(q) \/ Cut(q)
  PROVE  FileTypes'
<1>1. CASE q.op = "snapshot"
  <2>1. q.id \in SnapshotIDs /\ q.data \in JSON /\ q.data \in Bytes
    BY <1>1, EncodingAssumption DEF Requests
  <2>2. Prefixes[q.data] \subseteq Bytes
    BY <2>1, PrefixAssumption
  <2>3. CASE SaveSnapshot(q.id, q.data)
    BY <2>1, <2>3 DEF SaveSnapshot, FileTypes
  <2>4. CASE CutSnapshot(q.id, q.data)
    <3>1. PICK m \in {"torn", "sealed"} : meta' = [meta EXCEPT ![q.id] = m]
      BY <2>4 DEF CutSnapshot
    <3>2. payload' = payload \/ \E cut \in Bytes \cup {Absent} : payload' = [payload EXCEPT ![q.id] = cut]
      BY <2>2, <2>4 DEF CutSnapshot
    <3>3. meta' \in [SnapshotIDs -> {"none", "torn", "sealed"}]
      BY <2>1, <3>1 DEF FileTypes
    <3>4. payload' \in [SnapshotIDs -> Bytes \cup {Absent}]
      BY <2>1, <3>2 DEF FileTypes
    <3> QED
      BY <2>4, <3>3, <3>4 DEF FileTypes, CutSnapshot
  <2> QED
    BY <1>1, <2>3, <2>4 DEF Accepted, Cut
<1>2. CASE q.op = "result"
  <2>1. q.row \in Rows
    BY <1>2 DEF Requests
  <2>2. NewMemo(q.row) \subseteq [key : Keys, output : OutputValues]
    BY <2>1, ResultTyped DEF NewMemo, FileTypes
  <2>3. CASE SaveResult(q.row)
    BY <2>1, <2>2, <2>3 DEF SaveResult, FileTypes
  <2>4. CASE CutResult(q.row)
    <3>0. q.row.key \in Keys
      BY <2>1, ResultTyped
    <3>1. tornMemo' \subseteq Keys
      BY <2>4, <3>0 DEF CutResult, FileTypes
    <3>2. memo' \subseteq [key : Keys, output : OutputValues]
      BY <2>2, <2>4 DEF CutResult, FileTypes
    <3>3. tornReplay' \in BOOLEAN
      BY <2>4 DEF CutResult, FileTypes
    <3> QED
      BY <2>4, <3>1, <3>2, <3>3 DEF CutResult, FileTypes
  <2> QED
    BY <1>2, <2>3, <2>4 DEF Accepted, Cut
<1> QED
  BY <1>1, <1>2 DEF Requests

LEMMA FilesTyped ==
  ASSUME TypeInv, [Next]_vars
  PROVE  FileTypes'
<1>1. CASE UNCHANGED fileVars
  BY <1>1 DEF fileVars, TypeInv, FileTypes
<1>2. CASE \E q \in InFlight : Accepted(q) \/ Cut(q)
  BY <1>2, FlightTyped, RequestsTyped DEF TypeInv
<1> QED
  BY <1>1, <1>2, FileStep

-----------------------------------------------------------------------------
(* Types of the resources and of the reconciles.                           *)

\* The same reconcile, whose copy somebody else's update may have outdated.
Aged(v, w) == \E b \in BOOLEAN : v = [w EXCEPT !.fresh = b] /\ (b => w.fresh)

LEMMA AgedFields ==
  ASSUME NEW w \in Workers, NEW v, Aged(v, w)
  PROVE  /\ v \in Workers /\ v.pc = w.pc /\ v.d = w.d /\ v.gen = w.gen
         /\ v.cmd = w.cmd /\ v.outs = w.outs /\ v.prev = w.prev /\ v.row = w.row /\ v.read = w.read
         /\ v.fresh => w.fresh
<1>1. PICK b \in BOOLEAN : v = [w EXCEPT !.fresh = b] /\ (b => w.fresh)
  BY DEF Aged
<1> QED
  BY <1>1, StaleWorker

LEMMA AgedAt ==
  ASSUME NEW w \in Workers, NEW v, Aged(v, w), NEW s, WorkerAt(w, s)
  PROVE  WorkerAt(v, s)
BY AgedFields DEF WorkerAt

\* Status().Update of a Domino: the updater goes on as next, every other
\* copy of the resource is at most outdated.
LEMMA UpdateDomino ==
  ASSUME WorkerInv, DominoTypes, NEW m, NEW d \in Dominos, NEW new \in Objects,
         NEW next \in Workers, SetDomino(m, d, new, next)
  PROVE  /\ domino' = [domino EXCEPT ![d] = new]
         /\ domino' \in [Dominos -> Objects]
         /\ worker' \in [Managers -> Workers]
         /\ m \in Managers => worker'[m] = next
         /\ \A v \in Managers \ {m} : Aged(worker'[v], worker[v])
         /\ \A v \in Managers \ {m} : worker'[v].fresh /\ worker[v].d = d =>
              new = domino[d] /\ new.phase \notin Complete \cup {"Error"}
<1> DEFINE changed == new # domino[d] \/ new.phase \in Complete \cup {"Error"}
           b(v) == worker[v].fresh /\ ~(changed /\ worker[v].d = d)
<1>1. domino' = [domino EXCEPT ![d] = new]
  BY DEF SetDomino
<1>2. domino' \in [Dominos -> Objects]
  BY <1>1 DEF DominoTypes
<1>3. \A v \in Managers : worker[v] \in Workers /\ worker[v].fresh \in BOOLEAN /\ b(v) \in BOOLEAN
  BY DEF WorkerInv, Workers
<1>4. worker' = [v \in Managers |-> IF v = m THEN next ELSE [worker[v] EXCEPT !.fresh = b(v)]]
  BY <1>3 DEF SetDomino
<1> HIDE DEF changed, b
<1>5. worker' \in [Managers -> Workers]
  BY <1>3, <1>4, StaleWorker
<1>6. m \in Managers => worker'[m] = next
  BY <1>4
<1>7. ASSUME NEW v \in Managers \ {m}
      PROVE  /\ Aged(worker'[v], worker[v])
             /\ worker'[v].fresh /\ worker[v].d = d =>
                  new = domino[d] /\ new.phase \notin Complete \cup {"Error"}
  <2>1. worker'[v] = [worker[v] EXCEPT !.fresh = b(v)]
    BY <1>4
  <2>2. b(v) => worker[v].fresh /\ (worker[v].d = d =>
                    new = domino[d] /\ new.phase \notin Complete \cup {"Error"})
    BY DEF b, changed
  <2>3. worker'[v].fresh = b(v)
    BY <1>3, <2>1, StaleWorker
  <2> QED
    BY <1>3, <2>1, <2>2, <2>3 DEF Aged
<1> QED
  BY <1>1, <1>2, <1>5, <1>6, <1>7

LEMMA WorkersAt ==
  ASSUME worker' \in [Managers -> Workers], \A v \in Managers : WorkerAt(worker'[v], snap')
  PROVE  WorkerInv'
<1> SUFFICES ASSUME NEW v \in Managers
             PROVE  WorkerAt(worker[v], snap)'
  BY DEF WorkerInv
<1> QED
  BY DEF WorkerAt

LEMMA UpdateTyped ==
  ASSUME WorkerInv, DominoTypes, NEW m, NEW d \in Dominos, NEW new \in Objects,
         NEW next \in Workers, WorkerAt(next, snap), SetDomino(m, d, new, next),
         snap' = snap
  PROVE  WorkerInv' /\ DominoTypes'
<1>1. /\ \A v \in Managers \ {m} : Aged(worker'[v], worker[v])
      /\ m \in Managers => worker'[m] = next
      /\ worker' \in [Managers -> Workers] /\ domino' \in [Dominos -> Objects]
  BY UpdateDomino
<1>2. \A v \in Managers : worker[v] \in Workers /\ WorkerAt(worker[v], snap)
  BY DEF WorkerInv
<1>3. \A v \in Managers : WorkerAt(worker'[v], snap)
  BY <1>1, <1>2, AgedAt
<1> QED
  BY <1>1, <1>3, WorkersAt DEF DominoTypes

\* A worker moves on by itself.
LEMMA MoveTyped ==
  ASSUME WorkerInv, NEW m \in Managers, NEW next \in Workers, WorkerAt(next, snap),
         worker' = [worker EXCEPT ![m] = next], snap' = snap
  PROVE  WorkerInv'
<1>1. /\ worker' \in [Managers -> Workers]
      /\ \A v \in Managers : WorkerAt(worker'[v], snap)
  BY DEF WorkerInv
<1> QED
  BY <1>1, WorkersAt

LEMMA PhaseStep ==
  ASSUME WorkerInv, DominoTypes, NEW m, NEW d \in Dominos, NEW p \in Phases,
         NEW next \in Workers, WorkerAt(next, snap), SetPhase(m, d, p, next),
         snap' = snap
  PROVE  WorkerInv' /\ DominoTypes'
<1>1. [domino[d] EXCEPT !.phase = p] \in Objects
  BY PhaseTyped DEF DominoTypes
<1> QED
  BY <1>1, UpdateTyped DEF SetPhase

LEMMA ConflictTyped ==
  ASSUME WorkerInv, DominoTypes, NEW m \in Managers, Conflict(m),
         snap' = snap
  PROVE  WorkerInv' /\ DominoTypes'
BY IdleTyped, IdleAt, MoveTyped DEF Conflict, DominoTypes

LEMMA FailTyped ==
  ASSUME WorkerInv, DominoTypes, NEW m \in Managers, worker[m].pc # "idle", fail(m),
         snap' = snap
  PROVE  WorkerInv' /\ DominoTypes'
<1>1. worker[m].d \in Dominos
  BY DEF WorkerInv, WorkerAt
<1>2. CASE worker[m].fresh
  <2>1. SetPhase(m, worker[m].d, "Error", IdleWorker)
    BY <1>2 DEF fail
  <2>2. "Error" \in Phases
    BY DEF Phases
  <2> QED
    BY <1>1, <2>1, <2>2, IdleTyped, IdleAt, PhaseStep
<1>3. CASE ~worker[m].fresh
  BY <1>3, ConflictTyped DEF fail, Conflict
<1> QED
  BY <1>2, <1>3

-----------------------------------------------------------------------------
(* What a run resolves.                                                    *)

\* A nonempty set of positions has a last one.
LEMMA LastPosition ==
  ASSUME NEW n \in Nat, NEW T, T \subseteq 1..n, T # {}
  PROVE  \E i \in T : \A j \in T : j <= i
<1> DEFINE U == {n - i : i \in T}
<1>1. U \subseteq Nat /\ U # {}
  <2>1. \A i \in T : n - i \in Nat
    OBVIOUS
  <2>2. PICK i \in T : TRUE
    OBVIOUS
  <2>3. n - i \in U
    OBVIOUS
  <2> QED
    BY <2>1, <2>3
<1>2. PICK k \in U : \A j \in U : ~(<<j, k>> \in OpToRel(<, Nat))
  BY <1>1, WFMin, NatLessThanWellFounded
<1>3. \A j \in U : ~(j < k)
  BY <1>1, <1>2 DEF OpToRel
<1>4. PICK i \in T : k = n - i
  OBVIOUS
<1>5. ASSUME NEW j \in T PROVE j <= i
  <2>1. n - j \in U
    OBVIOUS
  <2> QED
    BY <1>3, <1>4, <2>1
<1> QED
  BY <1>5

\* GetDominoOutput is the output of some row of the dependency.
LEMMA LastRow ==
  ASSUME log \in Seq(Rows), NEW d, RowsOf(d) # {}
  PROVE  \E i \in RowsOf(d) : LastSpineResult(d) = log[i]
<1>0. Len(log) \in Nat /\ RowsOf(d) \subseteq 1..Len(log)
  BY DEF RowsOf
<1>1. \E i \in RowsOf(d) : \A j \in RowsOf(d) : j <= i
  BY <1>0, LastPosition
<1> QED
  BY <1>1 DEF LastSpineResult

LEMMA OutputLoaded ==
  ASSUME log \in Seq(Rows), NEW d, RowsOf(d) # {}
  PROVE  LastSpineResult(d).output \in OutputValues
<1>1. PICK i \in RowsOf(d) : LastSpineResult(d) = log[i]
  BY LastRow
<1>2. log[i] \in Rows
  BY DEF RowsOf
<1> QED
  BY <1>1, <1>2 DEF Rows

\* The output of a dependency is the one loaded at one of its positions.
LEMMA PriorOutputAt ==
  ASSUME NEW d \in Dominos, NEW dep \in Dependencies(d), NEW outs,
         DOMAIN outs = DOMAIN DependsOn[d]
  PROVE  \E i \in DOMAIN outs : DependsOn[d][i] = dep /\ PriorOutput(d, outs, dep) = outs[i]
<1> DEFINE T == {i \in DOMAIN outs : DependsOn[d][i] = dep}
<1>1. DependsOn[d] \in Seq(Dominos)
  BY StepwiseAssumption
<1>2. T \subseteq 1..Len(DependsOn[d]) /\ T # {}
  BY <1>1 DEF Dependencies
<1> HIDE DEF T
<1>3. \E i \in T : \A j \in T : j <= i
  <2>1. Len(DependsOn[d]) \in Nat
    BY <1>1
  <2> QED
    BY <1>2, <2>1, LastPosition
<1> USE DEF T
<1>4. \E i \in DOMAIN outs :
         /\ DependsOn[d][i] = dep
         /\ \A j \in DOMAIN outs : DependsOn[d][j] = dep => j <= i
  BY <1>3
<1> QED
  BY <1>4 DEF PriorOutput

LEMMA ContentTyped ==
  ASSUME FileTypes, source \in Bytes \cup {Absent}, NEW id \in SnapshotIDs, ContentResolves(id)
  PROVE  Parse[StoreOrSource(id)] \in Contents
<1>1. payload[id] \in Bytes \cup {Absent}
  BY DEF FileTypes
<1>2. StoreOrSource(id) \in Bytes
  BY <1>1, EncodingAssumption, PrefixAssumption DEF ContentResolves, StoreOrSource, GetSnapshotData
<1> QED
  BY <1>2, EncodingAssumption

LEMMA ResolvedTyped ==
  ASSUME NEW d \in Dominos, SelectorsResolve(d), NEW content \in Contents,
         NEW outs \in Seq(OutputValues), Len(outs) = Len(DependsOn[d])
  PROVE  resolveInputs(d, content, outs) \in Inputs
<1> DEFINE parts == [i \in DOMAIN InputsOf[d] |->
                       IF InputsOf[d][i] = "snapshot" THEN content
                       ELSE PriorOutput(d, outs, InputsOf[d][i])]
<1>1. DependsOn[d] \in Seq(Dominos) /\ DOMAIN outs = DOMAIN DependsOn[d]
  BY StepwiseAssumption
<1>2. CASE InputsOf[d] = Absent
  BY <1>2 DEF resolveInputs, Inputs, Atoms
<1>3. CASE InputsOf[d] # Absent
  <2>1. InputsOf[d] \in Seq(Selectors)
    BY <1>3, StepwiseAssumption
  <2>2. ASSUME NEW i \in DOMAIN InputsOf[d] PROVE parts[i] \in Atoms
    <3>1. CASE InputsOf[d][i] = "snapshot"
      BY <3>1 DEF Atoms
    <3>2. CASE InputsOf[d][i] # "snapshot"
      <4>1. InputsOf[d][i] \in Dependencies(d)
        BY <1>3, <3>2 DEF SelectorsResolve
      <4>2. PICK k \in DOMAIN outs : PriorOutput(d, outs, InputsOf[d][i]) = outs[k]
        BY <1>1, <4>1, PriorOutputAt
      <4>3. outs[k] \in OutputValues
        OBVIOUS
      <4> QED
        BY <3>2, <4>2, <4>3 DEF Atoms
    <3> QED
      BY <3>1, <3>2
  <2>3. parts \in Seq(Atoms)
    <3>1. DOMAIN InputsOf[d] = 1..Len(InputsOf[d]) /\ Len(InputsOf[d]) \in Nat
      BY <2>1
    <3>2. parts \in [1..Len(InputsOf[d]) -> Atoms]
      BY <2>2, <3>1
    <3> HIDE DEF parts
    <3> QED
      BY <3>1, <3>2
  <2>4. resolveInputs(d, content, outs) = IF Len(InputsOf[d]) = 1 THEN parts[1] ELSE parts
    BY <1>3 DEF resolveInputs
  <2> QED
    BY <2>1, <2>2, <2>3, <2>4 DEF Inputs
<1> QED
  BY <1>2, <1>3

-----------------------------------------------------------------------------
(* Types of the Domino reconciles, action by action.                       *)

PostedRow(m, output, reused) ==
  [key |-> Key(m), output |-> output, reused |-> reused, prev |-> worker[m].prev,
   link |-> Link(worker[m].prev, Input(m), output)]

LEMMA InputTyped ==
  ASSUME FileTypes, WorkerInv, SnapInv, RestTypes, NEW m \in Managers,
         worker[m].pc = "run", Resolvable(m)
  PROVE  Input(m) \in Inputs
<1>1. /\ worker[m] \in Workers /\ worker[m].d \in Dominos /\ snap.phase = "Sealed"
      /\ Len(worker[m].outs) = Len(DependsOn[worker[m].d])
  BY DEF WorkerInv, WorkerAt
<1>2. worker[m].outs \in Seq(OutputValues)
  BY <1>1 DEF Workers
<1>3. Content(m) \in Contents
  <2>1. worker[m].read \in Contents \cup {Absent}
    BY <1>1 DEF Workers
  <2>2. CASE worker[m].read # Absent
    BY <2>1, <2>2 DEF Content
  <2>3. CASE worker[m].read = Absent
    BY <1>1, <2>3, ContentTyped DEF Content, SnapInv, RestTypes, Resolvable
  <2> QED
    BY <2>2, <2>3
<1> QED
  BY <1>1, <1>2, <1>3, ResolvedTyped DEF Input, Resolvable

LEMMA LinkTyped ==
  ASSUME NEW prev \in Links, NEW v \in Inputs, NEW o \in OutputValues
  PROVE  Link(prev, v, o) \in Links
<1>1. prev[1] \in SnapshotIDs /\ prev[2] \in Seq(Inputs \X OutputValues)
  BY DEF Links
<1>2. Append(prev[2], <<v, o>>) \in Seq(Inputs \X OutputValues)
  BY <1>1
<1> QED
  BY <1>1, <1>2 DEF Links, Link

LEMMA PostedTyped ==
  ASSUME FileTypes, WorkerInv, SnapInv, RestTypes, NEW m \in Managers,
         worker[m].pc = "run", Resolvable(m), NEW o \in OutputValues, NEW b \in BOOLEAN
  PROVE  /\ PostedRow(m, o, b) \in Rows
         /\ PostedRow(m, o, b).key[1] = snap.id
         /\ PostedRow(m, o, b).key[2] = worker[m].d
         /\ PostedRow(m, o, b).key[3] = Input(m)
<1>1. worker[m].prev \in Links /\ worker[m].d \in Dominos /\ snap.id \in SnapshotIDs
  BY DEF WorkerInv, WorkerAt, SnapInv
<1>2. Input(m) \in Inputs
  BY InputTyped
<1>3. Key(m) \in Keys /\ Key(m)[1] = snap.id /\ Key(m)[2] = worker[m].d /\ Key(m)[3] = Input(m)
  BY <1>1, <1>2 DEF Key, Keys
<1>4. Link(worker[m].prev, Input(m), o) \in Links
  BY <1>1, <1>2, LinkTyped
<1> QED
  BY <1>1, <1>3, <1>4 DEF PostedRow, Rows

LEMMA RowWorker ==
  ASSUME NEW w \in Workers, NEW row \in Rows
  PROVE  LET v == [w EXCEPT !.pc = "posted", !.row = row]
         IN  /\ v \in Workers /\ v.fresh = w.fresh /\ v.pc = "posted" /\ v.d = w.d
             /\ v.gen = w.gen /\ v.cmd = w.cmd /\ v.outs = w.outs /\ v.prev = w.prev
             /\ v.row = row /\ v.read = w.read
BY DEF Workers

LEMMA PostMove ==
  ASSUME worker \in [Managers -> Workers], NEW m \in Managers, NEW o, NEW b, Post(m, o, b)
  PROVE  worker' = [worker EXCEPT ![m] =
           [worker[m] EXCEPT !.pc = "posted", !.row = PostedRow(m, o, b)]]
BY DEF Post, PostedRow

LEMMA PostTyped ==
  ASSUME FileTypes, WorkerInv, SnapInv, RestTypes, NEW m \in Managers, snap' = snap,
         worker[m].pc = "run", Resolvable(m), NEW o \in OutputValues, NEW b \in BOOLEAN,
         Post(m, o, b)
  PROVE  WorkerInv'
<1> DEFINE row == PostedRow(m, o, b)
           next == [worker[m] EXCEPT !.pc = "posted", !.row = row]
<1>1. row \in Rows /\ row.key[1] = snap.id /\ row.key[2] = worker[m].d
  BY PostedTyped
<1>2. worker[m] \in Workers /\ WorkerAt(worker[m], snap)
  BY DEF WorkerInv
<1> HIDE DEF row
<1>3. /\ next \in Workers /\ next.pc = "posted" /\ next.d = worker[m].d
      /\ next.cmd = worker[m].cmd /\ next.row = row
  BY <1>1, <1>2, RowWorker
<1>4. worker' = [worker EXCEPT ![m] = next]
  BY PostMove DEF WorkerInv, row
<1> HIDE DEF next
<1>5. WorkerAt(next, snap)
  BY <1>1, <1>2, <1>3 DEF WorkerAt
<1> QED
  BY <1>3, <1>4, <1>5, MoveTyped

\* A reconcile goes on to its next point with nothing else changed.
LEMMA PcMove ==
  ASSUME WorkerInv, NEW m \in Managers, snap' = snap, NEW p,
         worker' = [worker EXCEPT ![m].pc = p],
         \/ worker[m].pc = "posted" /\ p \in {"saved", "refused"}
         \/ /\ worker[m].pc = "deps" /\ p = "output"
            /\ Len(worker[m].outs) < Len(DependsOn[worker[m].d])
  PROVE  WorkerInv'
<1> DEFINE next == [worker[m] EXCEPT !.pc = p]
<1>1. worker[m] \in Workers /\ WorkerAt(worker[m], snap)
  BY DEF WorkerInv
<1>0. p \in {"output", "saved", "refused"}
  OBVIOUS
<1>2. /\ next \in Workers /\ next.pc = p /\ next.d = worker[m].d /\ next.row = worker[m].row
      /\ next.cmd = worker[m].cmd /\ next.outs = worker[m].outs
  BY <1>0, <1>1 DEF Workers
<1>3. worker' = [worker EXCEPT ![m] = next]
  BY DEF WorkerInv
<1> HIDE DEF next
<1>4. WorkerAt(next, snap)
  BY <1>1, <1>2 DEF WorkerAt
<1> QED
  BY <1>2, <1>3, <1>4, MoveTyped

LEMMA StartTyped ==
  ASSUME WorkerInv, DominoTypes, NEW m \in Managers, NEW d \in Dominos, Start(m, d)
  PROVE  WorkerInv' /\ DominoTypes'
<1>1. CASE Postpone(m, d)
  <2>1. PICK p \in {"Unsealed", "Parked"} : SetPhase(m, d, p, IdleWorker)
    BY <1>1 DEF Postpone
  <2>2. p \in Phases
    BY DEF Phases
  <2> QED
    BY <1>1, <2>1, <2>2, IdleTyped, IdleAt, PhaseStep DEF Postpone
<1>2. CASE Reconcile(m, d)
  <2> DEFINE next == [IdleWorker EXCEPT !.pc = "deps", !.d = d, !.gen = domino[d].gen,
                                        !.cmd = domino[d].cmd, !.fresh = TRUE]
  <2>1. domino[d].gen \in Nat /\ domino[d].cmd \in Commands
    BY DEF DominoTypes, Objects
  <2>2. <<>> \in Seq(OutputValues) /\ Len(<<>>) = 0
    OBVIOUS
  <2>3. Len(DependsOn[d]) \in Nat
    BY StepwiseAssumption
  <2>4. /\ next \in Workers /\ next.pc = "deps" /\ next.d = d
        /\ next.cmd = domino[d].cmd /\ next.outs = <<>>
    BY <2>1, <2>2 DEF IdleWorker, Workers
  <2>5. worker' = [worker EXCEPT ![m] = next] /\ snap.phase = "Sealed" /\ snap' = snap /\ domino' = domino
    BY <1>2 DEF Reconcile
  <2> HIDE DEF next
  <2>6. WorkerAt(next, snap)
    BY <2>1, <2>2, <2>3, <2>4, <2>5 DEF WorkerAt
  <2> QED
    BY <2>4, <2>5, <2>6, MoveTyped DEF DominoTypes
<1> QED
  BY <1>1, <1>2 DEF Start

LEMMA CheckTyped ==
  ASSUME WorkerInv, DominoTypes, NEW m \in Managers, CheckDependency(m)
  PROVE  WorkerInv' /\ DominoTypes'
<1>1. worker[m].d \in Dominos /\ snap' = snap
  BY DEF WorkerInv, WorkerAt, CheckDependency
<1>2. CASE worker' = [worker EXCEPT ![m].pc = "output"] /\ UNCHANGED domino
  BY <1>1, <1>2, PcMove DEF CheckDependency, DominoTypes
<1>3. CASE SetPhase(m, worker[m].d, "Waiting", IdleWorker)
  <2>1. "Waiting" \in Phases
    BY DEF Phases
  <2> QED
    BY <1>1, <1>3, <2>1, IdleTyped, IdleAt, PhaseStep
<1>4. CASE Conflict(m)
  BY <1>1, <1>4, ConflictTyped
<1> QED
  BY <1>2, <1>3, <1>4 DEF CheckDependency

LEMMA LoadTyped ==
  ASSUME FileTypes, WorkerInv, DominoTypes, NEW m \in Managers, LoadOutput(m)
  PROVE  WorkerInv' /\ DominoTypes'
<1>1. CASE fail(m)
  BY <1>1, FailTyped DEF LoadOutput
<1>2. CASE ~fail(m)
  <2> DEFINE out == LastSpineResult(NextDep(m)).output
             next == [worker[m] EXCEPT !.pc = "deps", !.outs = Append(@, out)]
  <2>1. /\ worker[m] \in Workers /\ WorkerAt(worker[m], snap)
        /\ worker[m].pc = "output" /\ snap' = snap /\ domino' = domino
    BY <1>2 DEF WorkerInv, LoadOutput
  <2>2. out \in OutputValues
    BY <1>2, OutputLoaded DEF LoadOutput, FileTypes
  <2>3. worker' = [worker EXCEPT ![m] = next]
    BY <1>2 DEF LoadOutput, WorkerInv
  <2> HIDE DEF out
  <2>4. worker[m].outs \in Seq(OutputValues) /\ Len(DependsOn[worker[m].d]) \in Nat
    BY <2>1, StepwiseAssumption DEF Workers, WorkerAt
  <2>5. /\ Append(worker[m].outs, out) \in Seq(OutputValues)
        /\ Len(Append(worker[m].outs, out)) = Len(worker[m].outs) + 1
    BY <2>2, <2>4
  <2>6. /\ next \in Workers /\ next.pc = "deps" /\ next.d = worker[m].d
        /\ next.cmd = worker[m].cmd /\ next.outs = Append(worker[m].outs, out)
    BY <2>1, <2>5 DEF Workers
  <2> HIDE DEF next
  <2>7. Len(next.outs) <= Len(DependsOn[next.d])
    BY <2>1, <2>4, <2>5, <2>6 DEF WorkerAt
  <2>8. WorkerAt(next, snap)
    BY <2>1, <2>6, <2>7 DEF WorkerAt
  <2> QED
    BY <2>1, <2>3, <2>6, <2>8, MoveTyped DEF DominoTypes
<1> QED
  BY <1>1, <1>2

LEMMA RunningTyped ==
  ASSUME WorkerInv, DominoTypes, NEW m \in Managers, MarkRunning(m)
  PROVE  WorkerInv' /\ DominoTypes'
<1>1. CASE worker[m].fresh
  <2> DEFINE next == [worker[m] EXCEPT !.pc = "head"]
  <2>1. /\ worker[m] \in Workers /\ WorkerAt(worker[m], snap)
        /\ worker[m].pc = "deps" /\ snap' = snap
    BY DEF WorkerInv, MarkRunning
  <2>2. /\ next \in Workers /\ next.pc = "head" /\ next.d = worker[m].d
        /\ next.cmd = worker[m].cmd /\ next.outs = worker[m].outs
    BY <2>1, PcWorker
  <2>3. SetPhase(m, worker[m].d, "Running", next)
    BY <1>1 DEF MarkRunning
  <2> HIDE DEF next
  <2>4. WorkerAt(next, snap) /\ worker[m].d \in Dominos /\ "Running" \in Phases
    BY <2>1, <2>2 DEF WorkerAt, MarkRunning, Phases
  <2> QED
    BY <2>1, <2>2, <2>3, <2>4, PhaseStep
<1>2. CASE ~worker[m].fresh
  BY <1>2, ConflictTyped DEF MarkRunning
<1> QED
  BY <1>1, <1>2

LEMMA RootTyped ==
  ASSUME NEW id \in SnapshotIDs
  PROVE  Root(id) \in Links
<1>1. <<>> \in Seq(Inputs \X OutputValues)
  OBVIOUS
<1> QED
  BY <1>1 DEF Root, Links

LEMMA HeadTyped ==
  ASSUME FileTypes, NEW id \in SnapshotIDs
  PROVE  SpineHead(id) \in Links
<1>1. CASE log = <<>>
  BY <1>1, RootTyped DEF SpineHead
<1>2. CASE log # <<>>
  <2>1. log[Len(log)] \in Rows
    BY <1>2 DEF FileTypes
  <2> QED
    BY <1>2, <2>1 DEF SpineHead, Rows
<1> QED
  BY <1>1, <1>2

LEMMA ReadHeadTyped ==
  ASSUME FileTypes, WorkerInv, DominoTypes, SnapInv, NEW m \in Managers, ReadHead(m)
  PROVE  WorkerInv' /\ DominoTypes'
<1>1. CASE fail(m)
  BY <1>1, FailTyped DEF ReadHead
<1>2. CASE ~fail(m)
  <2> DEFINE head == SpineHead(snap.id)
             next == [worker[m] EXCEPT !.pc = "run", !.prev = head]
  <2>1. /\ worker[m] \in Workers /\ WorkerAt(worker[m], snap)
        /\ worker[m].pc = "head" /\ snap' = snap /\ domino' = domino
    BY <1>2 DEF WorkerInv, ReadHead
  <2>2. head \in Links
    BY <2>1, HeadTyped DEF WorkerAt, SnapInv
  <2>3. worker' = [worker EXCEPT ![m] = next]
    BY <1>2 DEF ReadHead, WorkerInv
  <2> HIDE DEF head
  <2>4. /\ next \in Workers /\ next.pc = "run" /\ next.d = worker[m].d /\ next.prev = head
        /\ next.cmd = worker[m].cmd /\ next.outs = worker[m].outs
    BY <2>1, <2>2 DEF Workers
  <2> HIDE DEF next
  <2>5. WorkerAt(next, snap)
    BY <2>1, <2>2, <2>4 DEF WorkerAt
  <2> QED
    BY <2>1, <2>3, <2>4, <2>5, MoveTyped DEF DominoTypes
<1> QED
  BY <1>1, <1>2

LEMMA OutputOfMemo ==
  ASSUME FileTypes, NEW key, NEW o \in LookupMemo(key)
  PROVE  o \in OutputValues
BY DEF FileTypes, LookupMemo

LEMMA RunTyped ==
  ASSUME FileTypes, WorkerInv, DominoTypes, SnapInv, RestTypes, NEW m \in Managers,
         Reuse(m) \/ Execute(m) \/ CannotRun(m)
  PROVE  WorkerInv' /\ DominoTypes'
<1>1. CASE Reuse(m)
  <2>1. PICK o \in LookupMemo(Key(m)) : Post(m, o, TRUE)
    BY <1>1 DEF Reuse
  <2>2. o \in OutputValues
    BY OutputOfMemo
  <2> QED
    BY <1>1, <2>1, <2>2, PostTyped DEF Reuse, DominoTypes
<1>2. CASE Execute(m)
  BY <1>2, PostTyped DEF Execute, DominoTypes
<1>3. CASE CannotRun(m)
  BY <1>3, FailTyped DEF CannotRun
<1> QED
  BY <1>1, <1>2, <1>3

\* The status Report writes.
ReportedObject(m) ==
  LET w == worker[m]
  IN  [domino[w.d] EXCEPT !.phase = IF w.row.reused THEN "Cached" ELSE "Completed",
                          !.observed = w.gen, !.row = w.row]

LEMMA ReportedFields ==
  ASSUME WorkerInv, DominoTypes, NEW m \in Managers, worker[m].pc = "saved"
  PROVE  /\ ReportedObject(m) \in Objects
         /\ ReportedObject(m).gen = domino[worker[m].d].gen
         /\ ReportedObject(m).cmd = domino[worker[m].d].cmd
         /\ ReportedObject(m).observed = worker[m].gen
         /\ ReportedObject(m).row = worker[m].row
         /\ ReportedObject(m).phase = IF worker[m].row.reused THEN "Cached" ELSE "Completed"
<1>1. worker[m] \in Workers /\ worker[m].d \in Dominos /\ worker[m].row \in Rows
  BY DEF WorkerInv, WorkerAt
<1>2. worker[m].gen \in Nat /\ domino[worker[m].d] \in Objects
  BY <1>1 DEF Workers, DominoTypes
<1>3. (IF worker[m].row.reused THEN "Cached" ELSE "Completed") \in Phases
  BY DEF Phases
<1> QED
  BY <1>1, <1>2, <1>3 DEF ReportedObject, Objects

LEMMA ReportTyped ==
  ASSUME WorkerInv, DominoTypes, NEW m \in Managers, Report(m)
  PROVE  WorkerInv' /\ DominoTypes'
<1>1. worker[m].d \in Dominos /\ snap' = snap
  BY DEF Report, WorkerInv, WorkerAt
<1>2. CASE worker[m].pc = "refused"
  BY <1>2, <1>1, FailTyped DEF Report
<1>3. CASE worker[m].pc = "saved" /\ worker[m].fresh
  <2>1. SetDomino(m, worker[m].d, ReportedObject(m), IdleWorker)
    BY <1>3 DEF Report, ReportedObject
  <2> QED
    BY <1>1, <1>3, <2>1, ReportedFields, UpdateTyped, IdleTyped, IdleAt
<1>4. CASE worker[m].pc = "saved" /\ ~worker[m].fresh
  BY <1>1, <1>4, ConflictTyped DEF Report
<1> QED
  BY <1>2, <1>3, <1>4 DEF Report

LEMMA CrashedWorkers ==
  ASSUME WorkerInv, ServiceCrash
  PROVE  /\ worker' \in [Managers -> Workers]
         /\ \A m \in Managers :
              /\ worker'[m].pc = IF worker[m].pc = "posted" THEN "refused" ELSE worker[m].pc
              /\ worker'[m].d = worker[m].d /\ worker'[m].gen = worker[m].gen
              /\ worker'[m].cmd = worker[m].cmd /\ worker'[m].outs = worker[m].outs
              /\ worker'[m].prev = worker[m].prev /\ worker'[m].row = worker[m].row
              /\ worker'[m].fresh = worker[m].fresh /\ worker'[m].read = worker[m].read
<1> DEFINE p(m) == IF worker[m].pc = "posted" THEN "refused" ELSE worker[m].pc
<1>1. \A m \in Managers : worker[m] \in Workers
  BY DEF WorkerInv
<1>2. \A m \in Managers :
        p(m) \in {"idle", "deps", "output", "head", "run", "posted", "saved", "refused"}
  BY <1>1 DEF Workers
<1>3. worker' = [m \in Managers |-> [worker[m] EXCEPT !.pc = p(m)]]
  BY <1>1 DEF ServiceCrash, Workers
<1> HIDE DEF p
<1>4. ASSUME NEW m \in Managers
      PROVE  /\ worker'[m] \in Workers /\ worker'[m].pc = p(m)
             /\ worker'[m].d = worker[m].d /\ worker'[m].gen = worker[m].gen
             /\ worker'[m].cmd = worker[m].cmd /\ worker'[m].outs = worker[m].outs
             /\ worker'[m].prev = worker[m].prev /\ worker'[m].row = worker[m].row
             /\ worker'[m].fresh = worker[m].fresh /\ worker'[m].read = worker[m].read
  <2>1. worker'[m] = [worker[m] EXCEPT !.pc = p(m)]
    BY <1>3
  <2> QED
    BY <1>1, <1>2, <2>1 DEF Workers
<1>5. worker' \in [Managers -> Workers]
  BY <1>3, <1>4
<1> QED
  BY <1>4, <1>5 DEF p

\* The resource a user's edit leaves.
EditedObject(d, c) == [domino[d] EXCEPT !.cmd = c, !.gen = @ + 1]

LEMMA EditedFields ==
  ASSUME DominoTypes, NEW d \in Dominos, NEW c \in CommandEdits
  PROVE  /\ EditedObject(d, c) \in Objects
         /\ EditedObject(d, c).gen = domino[d].gen + 1
         /\ EditedObject(d, c).phase = domino[d].phase
         /\ EditedObject(d, c).observed = domino[d].observed
         /\ EditedObject(d, c).row = domino[d].row
<1>1. domino[d] \in Objects
  BY DEF DominoTypes
<1>2. c \in Commands /\ domino[d].gen + 1 \in Nat
  BY <1>1, StepwiseAssumption DEF Objects
<1>3. EditedObject(d, c) = [domino[d] EXCEPT !.cmd = c, !.gen = domino[d].gen + 1]
  BY <1>1 DEF EditedObject, Objects
<1> QED
  BY <1>1, <1>2, <1>3 DEF Objects

Same(v, w) ==
  /\ v.d = w.d /\ v.gen = w.gen /\ v.cmd = w.cmd
  /\ v.outs = w.outs /\ v.prev = w.prev /\ v.row = w.row

\* The worker after a snapshot read answered 404.
LEMMA ReadWorker ==
  ASSUME NEW w \in Workers, NEW c \in Contents
  PROVE  LET v == [w EXCEPT !.read = c]
         IN  /\ v \in Workers /\ v.fresh = w.fresh /\ v.pc = w.pc /\ v.d = w.d /\ v.gen = w.gen
             /\ v.cmd = w.cmd /\ v.outs = w.outs /\ v.prev = w.prev /\ v.row = w.row /\ v.read = c
BY DEF Workers

LEMMA NotFoundMove ==
  ASSUME WorkerInv, RestTypes, NEW m \in Managers, ReadNotFound(m)
  PROVE  LET next == [worker[m] EXCEPT !.read = Parse[source]]
         IN  /\ worker' = [worker EXCEPT ![m] = next] /\ next \in Workers
             /\ next.fresh = worker[m].fresh /\ next.pc = "run" /\ worker[m].pc = "run"
             /\ Same(next, worker[m]) /\ next.read \in stray' /\ WorkerAt(next, snap)
<1> DEFINE next == [worker[m] EXCEPT !.read = Parse[source]]
<1>1. Parse[source] \in Contents /\ worker[m] \in Workers /\ WorkerAt(worker[m], snap)
  BY EncodingAssumption DEF ReadNotFound, RestTypes, WorkerInv
<1>2. worker' = [worker EXCEPT ![m] = next] /\ Parse[source] \in stray' /\ worker[m].pc = "run"
  BY DEF ReadNotFound, WorkerInv
<1>3. /\ next \in Workers /\ next.fresh = worker[m].fresh /\ next.pc = worker[m].pc
      /\ Same(next, worker[m]) /\ next.read = Parse[source]
  BY <1>1, ReadWorker DEF Same
<1> HIDE DEF next
<1>4. WorkerAt(next, snap)
  BY <1>1, <1>2, <1>3 DEF WorkerAt, Same
<1>5. /\ worker' = [worker EXCEPT ![m] = next] /\ next \in Workers
      /\ next.fresh = worker[m].fresh /\ next.pc = "run" /\ worker[m].pc = "run"
      /\ Same(next, worker[m]) /\ next.read \in stray' /\ WorkerAt(next, snap)
  BY <1>2, <1>3, <1>4
<1> QED
  BY <1>5 DEF next

\* What faults and users do to the Domino reconciles.
LEMMA WorkerFaultTyped ==
  ASSUME WorkerInv, DominoTypes, RestTypes,
         \/ \E m \in Managers : \/ ServeResult(m) \/ ResultTimeout(m) \/ ManagerCrash(m)
                                \/ CallFails(m) \/ ReadNotFound(m) \/ ResultWriteFails(m)
         \/ ServiceCrash \/ \E d \in Dominos : EditDomino(d)
  PROVE  WorkerInv' /\ DominoTypes'
<1>1. ASSUME NEW m \in Managers, ServeResult(m) \/ ResultTimeout(m) \/ ResultWriteFails(m)
      PROVE  WorkerInv' /\ DominoTypes'
  <2>1. PICK p \in {"saved", "refused"} : worker' = [worker EXCEPT ![m].pc = p]
    BY <1>1 DEF ServeResult, ResultTimeout, ResultWriteFails
  <2>2. worker[m].pc = "posted" /\ snap' = snap /\ domino' = domino
    BY <1>1 DEF ServeResult, ResultTimeout, ResultWriteFails, Fault
  <2> QED
    BY <2>1, <2>2, PcMove DEF DominoTypes
<1>2. ASSUME NEW m \in Managers, ManagerCrash(m)
      PROVE  WorkerInv' /\ DominoTypes'
  BY <1>2, IdleTyped, IdleAt, MoveTyped DEF ManagerCrash, Fault, DominoTypes
<1>3. ASSUME NEW m \in Managers, CallFails(m)
      PROVE  WorkerInv' /\ DominoTypes'
  BY <1>3, FailTyped DEF CallFails, Fault
<1>6. ASSUME NEW m \in Managers, ReadNotFound(m)
      PROVE  WorkerInv' /\ DominoTypes'
  BY <1>6, NotFoundMove, MoveTyped DEF ReadNotFound, DominoTypes
<1>4. CASE ServiceCrash
  <2>1. \A m \in Managers : WorkerAt(worker'[m], snap)
    BY <1>4, CrashedWorkers DEF WorkerInv, WorkerAt
  <2> QED
    BY <1>4, <2>1, CrashedWorkers, WorkersAt DEF ServiceCrash, Fault, DominoTypes
<1>5. ASSUME NEW d \in Dominos, EditDomino(d)
      PROVE  WorkerInv' /\ DominoTypes'
  <2>1. PICK c \in CommandEdits :
          SetDomino(Absent, d, [domino[d] EXCEPT !.cmd = c, !.gen = @ + 1], IdleWorker)
    BY <1>5 DEF EditDomino
  <2>2. EditedObject(d, c) \in Objects
    BY EditedFields
  <2> QED
    BY <1>5, <2>1, <2>2, UpdateTyped, IdleTyped, IdleAt DEF EditDomino, EditedObject
<1> QED
  BY <1>1, <1>2, <1>3, <1>4, <1>5, <1>6

-----------------------------------------------------------------------------
(* Types of Snapshot.status and of the Snapshot reconciles.                *)

LEMMA SealersAt ==
  ASSUME sealer' \in [Managers -> Sealers], \A v \in Managers : SealerAt(sealer'[v], snap')
  PROVE  SealerInv'
<1> SUFFICES ASSUME NEW v \in Managers
             PROVE  SealerAt(sealer[v], snap)'
  BY DEF SealerInv
<1> QED
  BY DEF SealerAt

LEMMA UpdateSnapshot ==
  ASSUME SealerInv, SnapInv, NEW m \in Managers, NEW phase \in {"Pending", "Error", "Sealed"},
         NEW id \in SnapshotIDs \cup {Absent}, phase = "Sealed" => id \in SnapshotIDs,
         NEW next \in Sealers, ~next.fresh, next.pc = "idle", SetSnapshot(m, phase, id, next)
  PROVE  SealerInv' /\ SnapInv'
<1> DEFINE changed == phase \in {"Sealed", "Error"} \/ snap.phase # phase \/ snap.id # id
           b(v) == sealer[v].fresh /\ ~changed
<1>1. snap' = [phase |-> phase, id |-> id]
  BY DEF SetSnapshot
<1>2. snap'.phase = phase /\ snap'.id = id /\ snap' \in Statuses
  BY <1>1 DEF Statuses
<1>3. \A v \in Managers : sealer[v] \in Sealers /\ SealerAt(sealer[v], snap) /\ b(v) \in BOOLEAN
  BY DEF SealerInv, Sealers
<1>4. sealer' = [v \in Managers |-> IF v = m THEN next ELSE [sealer[v] EXCEPT !.fresh = b(v)]]
  BY <1>3 DEF SetSnapshot, Sealers
<1>5. \A v \in Managers : b(v) => sealer[v].fresh /\ snap'.phase # "Sealed"
  BY <1>2
<1> HIDE DEF changed, b
<1>6. ASSUME NEW v \in Managers
      PROVE  sealer'[v] \in Sealers /\ SealerAt(sealer'[v], snap')
  <2>1. CASE v = m
    BY <1>4, <2>1 DEF SealerAt
  <2>2. CASE v # m
    <3>1. sealer'[v] = [sealer[v] EXCEPT !.fresh = b(v)]
      BY <1>4, <2>2
    <3>2. /\ sealer'[v] \in Sealers /\ sealer'[v].fresh = b(v) /\ sealer'[v].pc = sealer[v].pc
          /\ sealer'[v].id = sealer[v].id /\ sealer'[v].data = sealer[v].data
      BY <1>3, <3>1, StaleSealer
    <3> QED
      BY <1>3, <1>5, <3>2 DEF SealerAt
  <2> QED
    BY <2>1, <2>2
<1>7. sealer' \in [Managers -> Sealers]
  BY <1>4, <1>6
<1> QED
  BY <1>2, <1>6, <1>7, SealersAt DEF SnapInv

LEMMA MoveSealer ==
  ASSUME SealerInv, NEW m \in Managers, NEW next \in Sealers, SealerAt(next, snap),
         sealer' = [sealer EXCEPT ![m] = next], snap' = snap
  PROVE  SealerInv'
<1>1. /\ sealer' \in [Managers -> Sealers]
      /\ \A v \in Managers : SealerAt(sealer'[v], snap)
  BY DEF SealerInv
<1> QED
  BY <1>1, SealersAt

LEMMA SealedBytesOf ==
  ASSUME NEW raw \in Bytes
  PROVE  SealedBytes(raw) \in JSON /\ Parse[SealedBytes(raw)] = Parse[raw]
BY EncodingAssumption DEF SealedBytes

LEMMA SealTyped ==
  ASSUME SealerInv, SnapInv, RestTypes, NEW m \in Managers, Seal(m)
  PROVE  /\ SealerInv' /\ SnapInv' /\ (snap.phase = "Sealed" => snap' = snap)
         /\ snap' # snap /\ snap'.phase = "Sealed" =>
              sealer[m].pc = "saved" /\ snap'.id = sealer[m].id
<1>0. sealer[m] \in Sealers /\ SealerAt(sealer[m], snap)
  BY DEF SealerInv
<1>1. CASE SourceNotReady(m)
  <2>1. snap.phase # "Sealed" /\ SetSnapshot(m, "Pending", Absent, IdleSealer)
    BY <1>1 DEF SourceNotReady
  <2>2. snap'.phase = "Pending"
    BY <2>1 DEF SetSnapshot
  <2> QED
    BY <2>1, <2>2, IdleTyped, UpdateSnapshot
<1>2. CASE SealToBackend(m)
  <2> DEFINE next == [pc |-> "posted", id |-> SnapshotID(Time, Parse[source]),
                      data |-> SealedBytes(source), fresh |-> TRUE]
  <2>1. source \in Bytes /\ Parse[source] \in Contents
    BY <1>2, EncodingAssumption DEF SealToBackend, RestTypes
  <2>2. SnapshotID(Time, Parse[source]) \in SnapshotIDs /\ SnapshotID(Time, Parse[source])[2] = Parse[source]
    BY <2>1, StepwiseAssumption DEF SnapshotID, SnapshotIDs
  <2>3. SealedBytes(source) \in JSON /\ Parse[SealedBytes(source)] = Parse[source]
    BY <2>1, SealedBytesOf
  <2>4. next \in Sealers
    BY <2>2, <2>3 DEF Sealers
  <2>5. SealerAt(next, snap)
    BY <1>2, <2>2, <2>3 DEF SealerAt, SealToBackend
  <2>6. sealer' = [sealer EXCEPT ![m] = next] /\ snap' = snap
    BY <1>2 DEF SealToBackend
  <2> HIDE DEF next
  <2> QED
    BY <2>4, <2>5, <2>6, MoveSealer DEF SnapInv
<1>3. CASE SealReplied(m)
  <2>1. CASE snap' = snap /\ sealer' = [sealer EXCEPT ![m] = IdleSealer]
    BY <2>1, MoveSealer, IdleTyped, IdleAt DEF SnapInv
  <2>2. CASE sealer[m].fresh /\ SetSnapshot(m, "Error", snap.id, IdleSealer)
    <3>1. snap.id \in SnapshotIDs \cup {Absent}
      BY DEF SnapInv, Statuses
    <3>2. snap.phase # "Sealed" /\ snap'.phase = "Error"
      BY <1>0, <2>2 DEF SealerAt, SetSnapshot
    <3> QED
      BY <2>2, <3>1, <3>2, IdleTyped, UpdateSnapshot
  <2>3. CASE /\ sealer[m].fresh /\ sealer[m].pc = "saved"
             /\ SetSnapshot(m, "Sealed", sealer[m].id, IdleSealer)
    <3>1. sealer[m].id \in SnapshotIDs
      BY <1>0, <2>3 DEF SealerAt
    <3>2. snap.phase # "Sealed" /\ snap'.id = sealer[m].id
      BY <1>0, <2>3 DEF SealerAt, SetSnapshot
    <3> QED
      BY <2>3, <3>1, <3>2, IdleTyped, UpdateSnapshot
  <2> QED
    BY <1>3, <2>1, <2>2, <2>3 DEF SealReplied, failSeal
<1> QED
  BY <1>1, <1>2, <1>3 DEF Seal

LEMMA SealerPc ==
  ASSUME SealerInv, NEW m \in Managers, sealer[m].pc = "posted", NEW p \in {"saved", "refused"},
         sealer' = [sealer EXCEPT ![m].pc = p], snap' = snap
  PROVE  SealerInv'
<1> DEFINE next == [sealer[m] EXCEPT !.pc = p]
<1>1. sealer[m] \in Sealers /\ SealerAt(sealer[m], snap)
  BY DEF SealerInv
<1>2. /\ next \in Sealers /\ next.pc = p /\ next.fresh = sealer[m].fresh
      /\ next.id = sealer[m].id /\ next.data = sealer[m].data
  BY <1>1 DEF Sealers
<1>3. sealer' = [sealer EXCEPT ![m] = next]
  BY DEF SealerInv
<1> HIDE DEF next
<1>4. SealerAt(next, snap)
  BY <1>1, <1>2 DEF SealerAt
<1> QED
  BY <1>2, <1>3, <1>4, MoveSealer

LEMMA CrashedSealers ==
  ASSUME SealerInv, ServiceCrash
  PROVE  SealerInv'
<1> DEFINE p(m) == IF sealer[m].pc = "posted" THEN "refused" ELSE sealer[m].pc
<1>1. \A m \in Managers : sealer[m] \in Sealers /\ SealerAt(sealer[m], snap)
  BY DEF SealerInv
<1>2. \A m \in Managers : /\ p(m) \in {"idle", "saved", "refused"}
                          /\ p(m) \in {"posted", "saved"} => sealer[m].pc = p(m)
  BY <1>1 DEF Sealers
<1>3. sealer' = [m \in Managers |-> [sealer[m] EXCEPT !.pc = p(m)]]
  BY <1>1 DEF ServiceCrash, Sealers
<1> HIDE DEF p
<1>4. ASSUME NEW m \in Managers
      PROVE  sealer'[m] \in Sealers /\ SealerAt(sealer'[m], snap)
  <2>1. sealer'[m] = [sealer[m] EXCEPT !.pc = p(m)]
    BY <1>3
  <2>2. /\ sealer'[m] \in Sealers /\ sealer'[m].pc = p(m) /\ sealer'[m].fresh = sealer[m].fresh
        /\ sealer'[m].id = sealer[m].id /\ sealer'[m].data = sealer[m].data
    BY <1>1, <1>2, <2>1 DEF Sealers
  <2> QED
    BY <1>1, <1>2, <2>2 DEF SealerAt
<1>5. sealer' \in [Managers -> Sealers]
  BY <1>3, <1>4
<1> QED
  BY <1>4, <1>5, SealersAt DEF ServiceCrash, Fault

\* Only a Snapshot reconcile changes Snapshot.status.
LEMMA SnapStep ==
  ASSUME [Next]_vars
  PROVE  snap' = snap \/ \E m \in Managers : Seal(m)
<1>1. CASE \E m \in Steady : Seal(m)
  BY <1>1, StepwiseAssumption
<1>2. CASE \E m \in Managers : Work(m) \/ \E d \in Takes[m] : Start(m, d)
  BY <1>2 DEF Work, Start, Postpone, Reconcile, CheckDependency, LoadOutput, MarkRunning,
              ReadHead, Reuse, Execute, CannotRun, Report
<1>3. CASE Serve
  BY <1>3 DEF Serve, ServeSnapshot, ServeResult, ServeLate
<1>4. CASE Faults
  BY <1>4 DEF Faults, SealTimeout, ResultTimeout, ManagerCrash, CallFails, ReadNotFound,
              SealWriteFails, ResultWriteFails, ServiceCrash, Fault
<1>5. CASE Users
  BY <1>5 DEF Users, EditDomino, WriteSource
<1>6. CASE UNCHANGED vars
  BY <1>6 DEF vars
<1> QED
  BY <1>1, <1>2, <1>3, <1>4, <1>5, <1>6 DEF Next

LEMMA SnapTyped ==
  ASSUME TypeInv, [Next]_vars
  PROVE  SnapInv' /\ (snap.phase = "Sealed" => snap' = snap)
<1>1. CASE snap' = snap
  BY <1>1 DEF TypeInv, SnapInv
<1>2. CASE \E m \in Managers : Seal(m)
  BY <1>2, SealTyped DEF TypeInv
<1> QED
  BY <1>1, <1>2, SnapStep

LEMMA SealersTyped ==
  ASSUME TypeInv, [Next]_vars
  PROVE  SealerInv'
<1> USE DEF TypeInv
<1>1. CASE \E m \in Steady : Seal(m)
  BY <1>1, SealTyped, StepwiseAssumption
<1>2. CASE UNCHANGED <<sealer, snap>>
  BY <1>2, SealersAt DEF SealerInv
<1>3. ASSUME NEW m \in Managers, ServeSnapshot(m) \/ SealTimeout(m) \/ SealWriteFails(m)
      PROVE  SealerInv'
  <2>1. PICK p \in {"saved", "refused"} : sealer' = [sealer EXCEPT ![m].pc = p]
    BY <1>3 DEF ServeSnapshot, SealTimeout, SealWriteFails
  <2> QED
    BY <1>3, <2>1, SealerPc DEF ServeSnapshot, SealTimeout, SealWriteFails, Fault
<1>4. ASSUME NEW m \in Managers, ManagerCrash(m)
      PROVE  SealerInv'
  BY <1>4, IdleTyped, IdleAt, MoveSealer DEF ManagerCrash, Fault
<1>5. CASE ServiceCrash
  BY <1>5, CrashedSealers
<1>6. CASE \E m \in Managers : Work(m) \/ \E d \in Takes[m] : Start(m, d)
  BY <1>2, <1>6 DEF Work, Start, Postpone, Reconcile, CheckDependency, LoadOutput, MarkRunning,
              ReadHead, Reuse, Execute, CannotRun, Report
<1>7. CASE Serve
  BY <1>2, <1>3, <1>7 DEF Serve, ServeResult, ServeLate
<1>8. CASE Faults
  BY <1>2, <1>3, <1>4, <1>5, <1>8 DEF Faults, ResultTimeout, CallFails, ReadNotFound,
                                  ResultWriteFails, Fault
<1>9. CASE Users
  BY <1>2, <1>9 DEF Users, EditDomino, WriteSource
<1>10. CASE UNCHANGED vars
  BY <1>2, <1>10 DEF vars
<1> QED
  BY <1>1, <1>6, <1>7, <1>8, <1>9, <1>10 DEF Next

LEMMA WorkersTyped ==
  ASSUME TypeInv, [Next]_vars
  PROVE  WorkerInv' /\ DominoTypes'
<1> USE DEF TypeInv
<1>1. CASE UNCHANGED <<worker, domino>>
  <2>1. \A m \in Managers : WorkerAt(worker[m], snap')
    BY SnapTyped DEF WorkerInv, WorkerAt
  <2> QED
    BY <1>1, <2>1, WorkersAt DEF WorkerInv, DominoTypes
<1>2. CASE \E m \in Managers : Work(m) \/ \E d \in Takes[m] : Start(m, d)
  <2>1. ASSUME NEW m \in Managers, NEW d \in Takes[m], Start(m, d)
        PROVE  WorkerInv' /\ DominoTypes'
    BY <2>1, StartTyped, StepwiseAssumption
  <2>2. ASSUME NEW m \in Managers, Work(m)
        PROVE  WorkerInv' /\ DominoTypes'
    BY <2>2, CheckTyped, LoadTyped, RunningTyped, ReadHeadTyped, RunTyped, ReportTyped DEF Work
  <2> QED
    BY <1>2, <2>1, <2>2
<1>3. CASE \E m \in Steady : Seal(m)
  BY <1>1, <1>3 DEF Seal, SourceNotReady, SealToBackend, SealReplied
<1>4. CASE Serve
  BY <1>1, <1>4, WorkerFaultTyped DEF Serve, ServeSnapshot, ServeLate
<1>5. CASE Faults
  BY <1>1, <1>5, WorkerFaultTyped DEF Faults, SealTimeout, SealWriteFails
<1>6. CASE Users
  BY <1>1, <1>6, WorkerFaultTyped DEF Users, WriteSource
<1>7. CASE UNCHANGED vars
  BY <1>1, <1>7 DEF vars
<1> QED
  BY <1>2, <1>3, <1>4, <1>5, <1>6, <1>7 DEF Next

\* A request is late when its client, which posted it, gave it up.
LEMMA LateStep ==
  ASSUME [Next]_vars
  PROVE  \A r \in late' : r \in late \/ \E q \in InFlight : r = [at |-> events, req |-> q]
<1>1. CASE late' \subseteq late
  BY <1>1
<1>2. ASSUME NEW m \in Managers, SealTimeout(m) \/ ResultTimeout(m)
      PROVE  \A r \in late' : r \in late \/ \E q \in InFlight : r = [at |-> events, req |-> q]
  BY <1>2 DEF SealTimeout, ResultTimeout, InFlight
<1>3. ASSUME NEW m \in Managers, ManagerCrash(m)
      PROVE  \A r \in late' : r \in late \/ \E q \in InFlight : r = [at |-> events, req |-> q]
  BY <1>3 DEF ManagerCrash, GivenUp, InFlight
<1>4. CASE Serve
  BY <1>1, <1>4 DEF Serve, ServeSnapshot, ServeResult, ServeLate
<1>5. CASE Faults
  BY <1>1, <1>2, <1>3, <1>5 DEF Faults, CallFails, ReadNotFound, SealWriteFails,
                             ResultWriteFails, ServiceCrash
<1>6. CASE Users
  BY <1>1, <1>6 DEF Users, EditDomino, WriteSource
<1>7. CASE \E m \in Steady : Seal(m)
  BY <1>1, <1>7 DEF Seal, SourceNotReady, SealToBackend, SealReplied
<1>8. CASE \E m \in Managers : Work(m) \/ \E d \in Takes[m] : Start(m, d)
  BY <1>1, <1>8 DEF Work, Start, Postpone, Reconcile, CheckDependency, LoadOutput, MarkRunning,
              ReadHead, Reuse, Execute, CannotRun, Report
<1>9. CASE UNCHANGED vars
  BY <1>1, <1>9 DEF vars
<1> QED
  BY <1>4, <1>5, <1>6, <1>7, <1>8, <1>9 DEF Next

LEMMA RequestStays ==
  ASSUME NEW q, RequestAt(q, snap), snap.phase = "Sealed" => snap' = snap
  PROVE  RequestAt(q, snap')
BY DEF RequestAt

LEMMA LateTyped ==
  ASSUME TypeInv, [Next]_vars
  PROVE  LateInv'
<1>1. \A q \in InFlight : q \in Requests /\ RequestAt(q, snap)
  BY FlightTyped DEF TypeInv
<1>2. ASSUME NEW r \in late'
      PROVE  r \in [at : Nat, req : Requests] /\ RequestAt(r.req, snap')
  <2>1. CASE r \in late
    BY <2>1, SnapTyped, RequestStays DEF TypeInv, LateInv
  <2>2. CASE \E q \in InFlight : r = [at |-> events, req |-> q]
    <3>1. PICK q \in InFlight : r = [at |-> events, req |-> q]
      BY <2>2
    <3>2. r.req = q /\ r.at = events
      BY <3>1
    <3>3. RequestAt(r.req, snap')
      BY <1>1, <3>2, SnapTyped, RequestStays
    <3> QED
      BY <1>1, <3>1, <3>3 DEF TypeInv, RestTypes
  <2> QED
    BY <2>1, <2>2, LateStep
<1> SUFFICES ASSUME NEW r \in late'
             PROVE  RequestAt(r.req, snap')
  BY <1>2 DEF LateInv, RequestAt
<1> QED
  BY <1>2

LEMMA RestTyped ==
  ASSUME TypeInv, [Next]_vars
  PROVE  RestTypes'
<1> USE DEF TypeInv, RestTypes
<1>1. CASE UNCHANGED <<source, alone, stray, events>>
  BY <1>1
<1>2. CASE Event /\ UNCHANGED <<source, alone, stray>>
  BY <1>2 DEF Event
<1>3. CASE \E m \in Managers : Work(m) \/ \E d \in Takes[m] : Start(m, d)
  <2>1. ASSUME NEW m \in Managers, NEW d, Reconcile(m, d)
        PROVE  RestTypes'
    BY <2>1 DEF Reconcile
  <2> QED
    BY <1>1, <1>3, <2>1 DEF Work, Start, Postpone, CheckDependency, LoadOutput, MarkRunning,
                ReadHead, Reuse, Execute, CannotRun, Report
<1>4. CASE \E m \in Steady : Seal(m)
  BY <1>1, <1>4 DEF Seal, SourceNotReady, SealToBackend, SealReplied
<1>5. CASE Serve
  BY <1>1, <1>5 DEF Serve, ServeSnapshot, ServeResult, ServeLate
<1>6. CASE Faults
  <2>1. ASSUME NEW m \in Managers, ReadNotFound(m)
        PROVE  RestTypes'
    <3>1. Parse[source] \in Contents
      BY <2>1, EncodingAssumption DEF ReadNotFound
    <3> QED
      BY <2>1, <3>1 DEF ReadNotFound
  <2> QED
    BY <1>2, <1>6, <2>1 DEF Faults, SealTimeout, ResultTimeout, ManagerCrash, CallFails,
                SealWriteFails, ResultWriteFails, ServiceCrash, Fault
<1>7. CASE Users
  <2>1. ASSUME WriteSource
        PROVE  RestTypes'
    <3>1. source' \in Bytes \cup {Absent} /\ alone' = alone /\ stray' = stray
      BY <2>1, StepwiseAssumption DEF WriteSource
    <3>2. events' \in Nat
      BY <2>1 DEF WriteSource, Event
    <3> QED
      BY <3>1, <3>2
  <2> QED
    BY <1>2, <1>7, <2>1 DEF Users, EditDomino
<1>8. CASE UNCHANGED vars
  BY <1>1, <1>8 DEF vars
<1> QED
  BY <1>3, <1>4, <1>5, <1>6, <1>7, <1>8 DEF Next

LEMMA TypeInit ==
  ASSUME Init
  PROVE  TypeInv
<1>1. FileTypes
  <2>1. <<>> \in Seq(Rows)
    OBVIOUS
  <2> QED
    BY <2>1 DEF Init, InitFiles, FileTypes
<1>2. WorkerInv /\ SealerInv
  BY IdleTyped, IdleAt DEF Init, WorkerInv, SealerInv
<1>3. DominoTypes
  <2>1. \A d \in Dominos : Command[d] \in Commands
    BY StepwiseAssumption
  <2> QED
    BY <2>1 DEF Init, DominoTypes, Objects, Phases
<1>4. SnapInv /\ LateInv /\ RestTypes
  BY StepwiseAssumption DEF Init, SnapInv, LateInv, RestTypes, Statuses
<1> QED
  BY <1>1, <1>2, <1>3, <1>4 DEF TypeInv

LEMMA TypeStep ==
  ASSUME TypeInv, [Next]_vars
  PROVE  TypeInv'
BY FilesTyped, WorkersTyped, SealersTyped, LateTyped, SnapTyped, RestTyped DEF TypeInv

LEMMA TypeAlways == Spec => []TypeInv
BY TypeInit, TypeStep, PTL DEF Spec

(* Files, resources and reconciles keep the types of tsdb_engine.go's      *)
(* records and of the custom resources, whatever is cut short or served    *)
(* late.                                                                   *)
THEOREM TypeCorrect == Spec => []TypeOK
BY TypeAlways, TypeInvType, PTL

-----------------------------------------------------------------------------
(* A sealed status has its payload.                                        *)

Whole(id) ==
  /\ meta[id] = "sealed"
  /\ payload[id] \in JSON
  /\ Parse[payload[id]] = id[2]

SealInv ==
  /\ snap.phase = "Sealed" => Whole(snap.id)
  /\ \A m \in Managers : sealer[m].pc = "saved" => Whole(sealer[m].id)

\* No request touches the files of a whole snapshot.
LEMMA WholeStays ==
  ASSUME TypeInv, [Next]_vars, NEW id \in SnapshotIDs, Whole(id)
  PROVE  Whole(id)'
<1>1. CASE UNCHANGED fileVars
  BY <1>1 DEF fileVars, Whole
<1>2. ASSUME NEW q \in InFlight, Accepted(q) \/ Cut(q)
      PROVE  Whole(id)'
  <2>1. q \in Requests
    BY FlightTyped DEF TypeInv
  <2>2. CASE q.op = "snapshot"
    <3>1. meta'[id] = meta[id] /\ payload'[id] = payload[id]
      BY <1>2, <2>2 DEF Accepted, Cut, SaveSnapshot, CutSnapshot, Whole, TypeInv, FileTypes
    <3> QED
      BY <3>1 DEF Whole
  <2>3. CASE q.op = "result"
    BY <1>2, <2>3 DEF Accepted, Cut, SaveResult, CutResult, Whole
  <2> QED
    BY <2>1, <2>2, <2>3 DEF Requests
<1> QED
  BY <1>1, <1>2, FileStep

\* The files after a reply of success.
LEMMA SavedFiles ==
  ASSUME TypeInv, NEW m \in Managers, sealer[m].pc = "posted", Accepted(SealRequest(m))
  PROVE  /\ meta'[sealer[m].id] = "sealed"
         /\ payload'[sealer[m].id] = sealer[m].data
<1> DEFINE id == sealer[m].id
           data == sealer[m].data
<1>1. id \in SnapshotIDs
  BY DEF TypeInv, SealerInv, SealerAt
<1>2. SaveSnapshot(id, data)
  BY DEF Accepted, SealRequest
<1> HIDE DEF id, data
<1>3. meta'[id] = "sealed" /\ payload'[id] = data
  BY <1>1, <1>2 DEF SaveSnapshot, RefuseSnapshot, TypeInv, FileTypes
<1> QED
  BY <1>3 DEF id, data

LEMMA SavedSealer ==
  ASSUME TypeInv, [Next]_vars, NEW m \in Managers, sealer'[m].pc = "saved"
  PROVE  /\ sealer'[m].id = sealer[m].id
         /\ \/ sealer[m].pc = "saved"
            \/ /\ sealer[m].pc = "posted" /\ meta'[sealer[m].id] = "sealed"
               /\ payload'[sealer[m].id] = sealer[m].data
<1> DEFINE Goal == /\ sealer'[m].id = sealer[m].id
                   /\ \/ sealer[m].pc = "saved"
                      \/ /\ sealer[m].pc = "posted" /\ meta'[sealer[m].id] = "sealed"
                         /\ payload'[sealer[m].id] = sealer[m].data
<1> SUFFICES Goal
  OBVIOUS
<1> HIDE DEF Goal
<1>0. \A v \in Managers : sealer[v] \in Sealers
  BY DEF TypeInv, SealerInv
<1>1. CASE sealer' = sealer
  BY <1>1 DEF Goal
<1>2. ASSUME NEW v \in Managers, NEW phase, NEW id, SetSnapshot(v, phase, id, IdleSealer)
      PROVE  Goal
  <2>1. PICK b \in BOOLEAN : v # m => sealer'[m] = [sealer[m] EXCEPT !.fresh = b]
    BY <1>0, <1>2 DEF SetSnapshot, Sealers
  <2>2. v = m => sealer'[m] = IdleSealer
    BY <1>2 DEF SetSnapshot
  <2>3. v # m
    BY <2>2, IdleTyped
  <2>4. sealer'[m].id = sealer[m].id /\ sealer'[m].pc = sealer[m].pc
    BY <1>0, <2>1, <2>3 DEF Sealers
  <2> QED
    BY <2>4 DEF Goal
<1>3. ASSUME NEW v \in Managers, NEW next, next.pc # "saved", sealer' = [sealer EXCEPT ![v] = next]
      PROVE  Goal
  BY <1>3 DEF Goal, TypeInv, SealerInv
<1>4. ASSUME NEW v \in Managers, Seal(v)
      PROVE  Goal
  BY <1>2, <1>3, <1>4, IdleTyped DEF Seal, SourceNotReady, SealToBackend, SealReplied, failSeal
<1>5. ASSUME NEW v \in Managers, ServeSnapshot(v)
      PROVE  Goal
  <2>1. \/ sealer' = [sealer EXCEPT ![v].pc = "saved"] /\ Accepted(SealRequest(v))
        \/ sealer' = [sealer EXCEPT ![v].pc = "refused"]
    BY <1>5 DEF ServeSnapshot
  <2>2. CASE sealer' = [sealer EXCEPT ![v].pc = "refused"]
    <3>1. sealer' = [sealer EXCEPT ![v] = [sealer[v] EXCEPT !.pc = "refused"]]
      BY <2>2 DEF TypeInv, SealerInv
    <3>2. [sealer[v] EXCEPT !.pc = "refused"].pc = "refused"
      BY <1>0 DEF Sealers
    <3> QED
      BY <1>3, <3>1, <3>2
  <2>3. CASE sealer' = [sealer EXCEPT ![v].pc = "saved"] /\ Accepted(SealRequest(v))
    <3>1. sealer'[v] = [sealer[v] EXCEPT !.pc = "saved"] /\ (v # m => sealer'[m] = sealer[m])
      BY <2>3 DEF TypeInv, SealerInv
    <3>2. sealer'[v].id = sealer[v].id
      BY <1>0, <3>1 DEF Sealers
    <3>3. /\ sealer[v].pc = "posted" /\ meta'[sealer[v].id] = "sealed"
          /\ payload'[sealer[v].id] = sealer[v].data
      BY <1>5, <2>3, SavedFiles DEF ServeSnapshot
    <3> QED
      BY <3>1, <3>2, <3>3 DEF Goal
  <2> QED
    BY <2>1, <2>2, <2>3
<1>6. ASSUME NEW v \in Managers, SealTimeout(v) \/ SealWriteFails(v)
      PROVE  Goal
  <2>1. sealer' = [sealer EXCEPT ![v] = [sealer[v] EXCEPT !.pc = "refused"]]
    BY <1>6 DEF SealTimeout, SealWriteFails, TypeInv, SealerInv
  <2>2. [sealer[v] EXCEPT !.pc = "refused"].pc = "refused"
    BY <1>0 DEF Sealers
  <2> QED
    BY <1>3, <2>1, <2>2
<1>7. ASSUME NEW v \in Managers, ManagerCrash(v)
      PROVE  Goal
  BY <1>3, <1>7, IdleTyped DEF ManagerCrash
<1>8. CASE ServiceCrash
  <2>1. PICK p : sealer'[m] = [sealer[m] EXCEPT !.pc = p] /\ (p = "saved" => sealer[m].pc = "saved")
    BY <1>0, <1>8 DEF ServiceCrash, Sealers
  <2>2. sealer'[m].pc = p /\ sealer'[m].id = sealer[m].id
    BY <1>0, <2>1 DEF Sealers
  <2> QED
    BY <2>1, <2>2 DEF Goal
<1>9. CASE \E v \in Steady : Seal(v)
  BY <1>4, <1>9, StepwiseAssumption
<1>10. CASE \E v \in Managers : Work(v) \/ \E d \in Takes[v] : Start(v, d)
  BY <1>1, <1>10 DEF Work, Start, Postpone, Reconcile, CheckDependency, LoadOutput, MarkRunning,
              ReadHead, Reuse, Execute, CannotRun, Report
<1>11. CASE Serve
  BY <1>1, <1>5, <1>11 DEF Serve, ServeResult, ServeLate
<1>12. CASE Faults
  BY <1>1, <1>6, <1>7, <1>8, <1>12 DEF Faults, ResultTimeout, CallFails, ReadNotFound,
                                   ResultWriteFails
<1>13. CASE Users
  BY <1>1, <1>13 DEF Users, EditDomino, WriteSource
<1>14. CASE UNCHANGED vars
  BY <1>1, <1>14 DEF vars
<1> QED
  BY <1>9, <1>10, <1>11, <1>12, <1>13, <1>14 DEF Next

LEMMA SealStep ==
  ASSUME TypeInv, SealInv, [Next]_vars
  PROVE  SealInv'
<1>1. ASSUME snap'.phase = "Sealed"
      PROVE  Whole(snap.id)'
  <2>1. PICK id \in SnapshotIDs : id = snap'.id
    BY <1>1, SnapTyped DEF SnapInv
  <2>2. CASE snap' = snap
    BY <1>1, <2>1, <2>2, WholeStays DEF SealInv, Whole
  <2>3. CASE snap' # snap
    <3>1. PICK m \in Managers : sealer[m].pc = "saved" /\ snap'.id = sealer[m].id
      BY <1>1, <2>3, SnapStep, SealTyped DEF TypeInv
    <3>2. Whole(id)
      BY <2>1, <3>1 DEF SealInv
    <3>3. Whole(id)'
      BY <3>2, WholeStays
    <3> QED
      BY <2>1, <3>3 DEF Whole
  <2> QED
    BY <2>2, <2>3
<1>2. ASSUME NEW m \in Managers, sealer'[m].pc = "saved"
      PROVE  Whole(sealer[m].id)'
  <2>1. sealer'[m].id = sealer[m].id /\ sealer[m].pc \in {"saved", "posted"}
    BY <1>2, SavedSealer
  <2>2. PICK id \in SnapshotIDs : id = sealer[m].id
    BY <2>1 DEF TypeInv, SealerInv, SealerAt
  <2>3. CASE sealer[m].pc = "saved"
    <3>1. Whole(id)'
      BY <2>2, <2>3, WholeStays DEF SealInv
    <3> QED
      BY <2>1, <2>2, <3>1 DEF Whole
  <2>4. CASE sealer[m].pc = "posted"
    <3>1. sealer[m].data \in JSON /\ Parse[sealer[m].data] = id[2]
      BY <2>2, <2>4 DEF TypeInv, SealerInv, SealerAt
    <3>2. meta'[id] = "sealed" /\ payload'[id] = sealer[m].data
      BY <1>2, <2>2, <2>4, SavedSealer
    <3> QED
      BY <2>1, <2>2, <3>1, <3>2 DEF Whole
  <2> QED
    BY <2>1, <2>3, <2>4
<1> QED
  BY <1>1, <1>2 DEF SealInv

LEMMA SealAlways == Spec => []SealInv
<1>1. ASSUME Init PROVE SealInv
  <2>1. snap.phase = ""
    BY <1>1 DEF Init
  <2>2. \A m \in Managers : sealer[m].pc = "idle"
    BY <1>1, IdleTyped DEF Init
  <2> QED
    BY <2>1, <2>2 DEF SealInv
<1> QED
  BY <1>1, SealStep, TypeAlways, PTL DEF Spec

(* A status of Sealed is only ever given for a whole payload with the      *)
(* content its identity names (SealViaBackend, SaveSnapshotPayload).       *)
THEOREM SealedComplete == Spec => []SealedIsComplete
<1>1. SealInv => SealedIsComplete
  BY DEF SealInv, Whole, SealedIsComplete
<1> QED
  BY <1>1, SealAlways, PTL

-----------------------------------------------------------------------------
(* What one step does to one Domino reconcile, the log becoming l.         *)

\* v posts the result of the run it was at.
Posts(m, v) ==
  /\ worker[m].pc = "run" /\ v.pc = "posted" /\ Resolvable(m)
  /\ v.d = worker[m].d /\ v.gen = worker[m].gen /\ v.cmd = worker[m].cmd
  /\ \E o \in OutputValues, b \in BOOLEAN :
       /\ v.row = PostedRow(m, o, b)
       /\ b => o \in LookupMemo(Key(m))
       /\ ~b => Produces(worker[m].cmd, Input(m), o)

\* v has loaded one more output.
Loads(m, v) ==
  /\ worker[m].pc = "output" /\ v.pc = "deps" /\ RowsOf(NextDep(m)) # {}
  /\ v.d = worker[m].d /\ v.gen = worker[m].gen /\ v.cmd = worker[m].cmd
  /\ v.outs = Append(worker[m].outs, LastSpineResult(NextDep(m)).output)

\* v works on what m works on, or has just read it.
Keeps(m, v) ==
  /\ v.read \in {Absent, worker[m].read} \cup stray'
  /\ \/ v.pc = "idle"
     \/ /\ v.pc = "deps" /\ worker[m].pc = "idle" /\ v.d \in Dominos
        /\ v.gen = domino[v.d].gen /\ v.cmd = domino[v.d].cmd
     \/ /\ worker[m].pc # "idle" /\ v.d = worker[m].d /\ v.gen = worker[m].gen
        /\ v.cmd = worker[m].cmd /\ (v.fresh => worker[m].fresh)

MovesTo(m, v, l) ==
  Keeps(m, v) /\
  LET w == worker[m]
  IN  \/ v.pc = "idle"
      \/ v.pc = "refused" /\ w.pc \in {"posted", "refused"}
      \/ v.pc = w.pc /\ Same(v, w)
      \/ v.pc = "deps" /\ w.pc = "idle" /\ v.outs = <<>>
      \/ w.pc = "deps" /\ v.pc \in {"output", "head"} /\ Same(v, w)
      \/ Loads(m, v)
      \/ /\ w.pc = "head" /\ v.pc = "run" /\ v.prev = SpineHead(snap.id)
         /\ v.d = w.d /\ v.gen = w.gen /\ v.cmd = w.cmd /\ v.outs = w.outs
      \/ Posts(m, v)
      \/ /\ w.pc = "posted" /\ v.pc = "saved" /\ Same(v, w)
         /\ l = Append(log, w.row)

WorkerStep == \A m \in Managers : MovesTo(m, worker'[m], log')

LEMMA AgedMoves ==
  ASSUME WorkerInv, NEW m \in Managers, NEW v, Aged(v, worker[m])
  PROVE  MovesTo(m, v, log')
<1>1. /\ v.pc = worker[m].pc /\ Same(v, worker[m]) /\ (v.fresh => worker[m].fresh)
      /\ v.read = worker[m].read
  BY AgedFields DEF WorkerInv, Same
<1> QED
  BY <1>1 DEF MovesTo, Keeps, Same

LEMMA SelfMoves ==
  ASSUME NEW m \in Managers
  PROVE  MovesTo(m, worker[m], log')
BY DEF MovesTo, Keeps, Same

LEMMA UpdateMoves ==
  ASSUME WorkerInv, DominoTypes, NEW m, NEW d \in Dominos, NEW new \in Objects,
         NEW next \in Workers, m \in Managers => MovesTo(m, next, log'), SetDomino(m, d, new, next)
  PROVE  WorkerStep
BY UpdateDomino, AgedMoves DEF WorkerStep

LEMMA MoveMoves ==
  ASSUME WorkerInv, NEW m \in Managers, NEW next, MovesTo(m, next, log'),
         worker' = [worker EXCEPT ![m] = next]
  PROVE  WorkerStep
<1>1. \A v \in Managers : worker'[v] = IF v = m THEN next ELSE worker[v]
  BY DEF WorkerInv
<1> QED
  BY <1>1, SelfMoves DEF WorkerStep

LEMMA IdleMoves ==
  ASSUME NEW m \in Managers
  PROVE  MovesTo(m, IdleWorker, log')
BY IdleTyped DEF MovesTo, Keeps

LEMMA PhaseMoves ==
  ASSUME WorkerInv, DominoTypes, NEW m \in Managers, NEW d \in Dominos, NEW p \in Phases,
         NEW next \in Workers, MovesTo(m, next, log'), SetPhase(m, d, p, next)
  PROVE  WorkerStep
<1>1. [domino[d] EXCEPT !.phase = p] \in Objects
  BY PhaseTyped DEF DominoTypes
<1> QED
  BY <1>1, UpdateMoves DEF SetPhase

LEMMA FailMoves ==
  ASSUME WorkerInv, DominoTypes, NEW m \in Managers, worker[m].pc # "idle",
         fail(m) \/ Conflict(m)
  PROVE  WorkerStep
<1>1. worker[m].d \in Dominos /\ "Error" \in Phases
  BY DEF WorkerInv, WorkerAt, Phases
<1> QED
  BY <1>1, IdleTyped, IdleMoves, PhaseMoves, MoveMoves DEF fail, Conflict

LEMMA StartMoves ==
  ASSUME WorkerInv, DominoTypes, NEW m \in Managers, NEW d \in Dominos, Start(m, d)
  PROVE  WorkerStep
<1>1. CASE Postpone(m, d)
  <2>1. PICK p \in {"Unsealed", "Parked"} : SetPhase(m, d, p, IdleWorker)
    BY <1>1 DEF Postpone
  <2>2. p \in Phases
    BY DEF Phases
  <2> QED
    BY <2>1, <2>2, IdleTyped, IdleMoves, PhaseMoves
<1>2. CASE Reconcile(m, d)
  <2> DEFINE next == [IdleWorker EXCEPT !.pc = "deps", !.d = d, !.gen = domino[d].gen,
                                        !.cmd = domino[d].cmd, !.fresh = TRUE]
  <2>1. /\ next.pc = "deps" /\ next.outs = <<>> /\ next.d = d /\ next.read = Absent
        /\ next.gen = domino[d].gen /\ next.cmd = domino[d].cmd
    BY DEF IdleWorker
  <2>2. worker' = [worker EXCEPT ![m] = next] /\ worker[m].pc = "idle"
    BY <1>2 DEF Reconcile
  <2> HIDE DEF next
  <2>3. MovesTo(m, next, log')
    BY <2>1, <2>2 DEF MovesTo, Keeps
  <2> QED
    BY <2>2, <2>3, MoveMoves
<1> QED
  BY <1>1, <1>2 DEF Start

LEMMA PcMoves ==
  ASSUME WorkerInv, NEW m \in Managers, NEW p \in {"output", "head", "saved", "refused"},
         \/ worker[m].pc = "deps" /\ p \in {"output", "head"}
         \/ worker[m].pc = "posted" /\ p = "refused"
         \/ worker[m].pc = "posted" /\ p = "saved" /\ log' = Append(log, worker[m].row)
  PROVE  MovesTo(m, [worker[m] EXCEPT !.pc = p], log')
<1> DEFINE next == [worker[m] EXCEPT !.pc = p]
<1>1. worker[m] \in Workers
  BY DEF WorkerInv
<1>2. /\ next.pc = p /\ Same(next, worker[m]) /\ next.fresh = worker[m].fresh
      /\ next.read = worker[m].read
  BY <1>1 DEF Workers, Same
<1> HIDE DEF next
<1>3. MovesTo(m, next, log')
  BY <1>2 DEF MovesTo, Keeps, Same
<1> QED
  BY <1>3 DEF next

LEMMA ReadMoves ==
  ASSUME WorkerInv, DominoTypes, NEW m \in Managers,
         CheckDependency(m) \/ LoadOutput(m) \/ MarkRunning(m) \/ ReadHead(m)
  PROVE  WorkerStep
<1>0. worker[m] \in Workers /\ worker[m].pc # "idle" /\ worker[m].d \in Dominos
  BY DEF WorkerInv, WorkerAt, CheckDependency, LoadOutput, MarkRunning, ReadHead
<1>1. CASE fail(m) \/ Conflict(m)
  BY <1>0, <1>1, FailMoves
<1>2. CASE CheckDependency(m) /\ ~Conflict(m)
  <2>1. CASE SetPhase(m, worker[m].d, "Waiting", IdleWorker)
    <3>1. "Waiting" \in Phases
      BY DEF Phases
    <3> QED
      BY <1>0, <2>1, <3>1, IdleTyped, IdleMoves, PhaseMoves
  <2>2. CASE worker' = [worker EXCEPT ![m].pc = "output"]
    <3>1. worker' = [worker EXCEPT ![m] = [worker[m] EXCEPT !.pc = "output"]]
      BY <2>2 DEF WorkerInv
    <3>2. MovesTo(m, [worker[m] EXCEPT !.pc = "output"], log')
      BY <1>2, PcMoves DEF CheckDependency
    <3> QED
      BY <3>1, <3>2, MoveMoves
  <2> QED
    BY <1>2, <2>1, <2>2 DEF CheckDependency
<1>3. CASE LoadOutput(m) /\ ~fail(m)
  <2> DEFINE out == LastSpineResult(NextDep(m)).output
             next == [worker[m] EXCEPT !.pc = "deps", !.outs = Append(@, out)]
  <2>1. worker' = [worker EXCEPT ![m] = next]
    BY <1>3 DEF LoadOutput, WorkerInv
  <2>2. worker[m].pc = "output" /\ RowsOf(NextDep(m)) # {}
    BY <1>3 DEF LoadOutput
  <2>3. /\ next.pc = "deps" /\ next.outs = Append(worker[m].outs, out) /\ next.d = worker[m].d
        /\ next.gen = worker[m].gen /\ next.cmd = worker[m].cmd /\ next.fresh = worker[m].fresh
        /\ next.read = worker[m].read
    BY <1>0 DEF Workers
  <2>4. Loads(m, next)
    BY <2>2, <2>3 DEF Loads
  <2> HIDE DEF next
  <2>5. MovesTo(m, next, log')
    BY <2>2, <2>3, <2>4 DEF MovesTo, Keeps
  <2> QED
    BY <2>1, <2>5, MoveMoves
<1>4. CASE MarkRunning(m) /\ ~Conflict(m)
  <2> DEFINE next == [worker[m] EXCEPT !.pc = "head"]
  <2>1. SetPhase(m, worker[m].d, "Running", next) /\ worker[m].pc = "deps"
    BY <1>4 DEF MarkRunning
  <2>2. next \in Workers /\ MovesTo(m, next, log')
    BY <1>0, <2>1, PcWorker, PcMoves
  <2>3. "Running" \in Phases
    BY DEF Phases
  <2> QED
    BY <1>0, <2>1, <2>2, <2>3, PhaseMoves
<1>5. CASE ReadHead(m) /\ ~fail(m)
  <2> DEFINE next == [worker[m] EXCEPT !.pc = "run", !.prev = SpineHead(snap.id)]
  <2>1. worker' = [worker EXCEPT ![m] = next] /\ worker[m].pc = "head"
    BY <1>5 DEF ReadHead, WorkerInv
  <2>2. /\ next.pc = "run" /\ next.prev = SpineHead(snap.id) /\ next.d = worker[m].d
        /\ next.gen = worker[m].gen /\ next.cmd = worker[m].cmd /\ next.outs = worker[m].outs
        /\ next.fresh = worker[m].fresh /\ next.read = worker[m].read
    BY <1>0 DEF Workers
  <2> HIDE DEF next
  <2>3. MovesTo(m, next, log')
    BY <2>1, <2>2 DEF MovesTo, Keeps
  <2> QED
    BY <2>1, <2>3, MoveMoves
<1> QED
  BY <1>1, <1>2, <1>3, <1>4, <1>5

LEMMA PostMoves ==
  ASSUME FileTypes, WorkerInv, SnapInv, RestTypes, NEW m \in Managers,
         worker[m].pc = "run", Resolvable(m), NEW o \in OutputValues, NEW b \in BOOLEAN,
         b => o \in LookupMemo(Key(m)), ~b => Produces(worker[m].cmd, Input(m), o),
         Post(m, o, b)
  PROVE  WorkerStep
<1> DEFINE row == PostedRow(m, o, b)
           next == [worker[m] EXCEPT !.pc = "posted", !.row = row]
<1>1. row \in Rows /\ worker[m] \in Workers
  BY PostedTyped DEF WorkerInv
<1>2. worker' = [worker EXCEPT ![m] = next]
  BY PostMove DEF WorkerInv
<1> HIDE DEF row
<1>3. /\ next.pc = "posted" /\ next.row = row /\ next.d = worker[m].d
      /\ next.gen = worker[m].gen /\ next.cmd = worker[m].cmd /\ next.fresh = worker[m].fresh
      /\ next.read = worker[m].read
  BY <1>1, RowWorker
<1> HIDE DEF next
<1>4. Posts(m, next)
  BY <1>3 DEF Posts, row
<1>5. MovesTo(m, next, log')
  BY <1>3, <1>4 DEF MovesTo, Keeps
<1> QED
  BY <1>2, <1>5, MoveMoves

LEMMA RunMoves ==
  ASSUME TypeInv, NEW m \in Managers, Reuse(m) \/ Execute(m) \/ CannotRun(m)
  PROVE  WorkerStep
<1> USE DEF TypeInv
<1>1. CASE Reuse(m)
  <2>1. PICK o \in LookupMemo(Key(m)) : Post(m, o, TRUE)
    BY <1>1 DEF Reuse
  <2>2. o \in OutputValues
    BY OutputOfMemo
  <2> QED
    BY <1>1, <2>1, <2>2, PostMoves DEF Reuse
<1>2. CASE Execute(m)
  <2>1. PICK o \in OutputValues : Produces(worker[m].cmd, Input(m), o) /\ Post(m, o, FALSE)
    BY <1>2 DEF Execute
  <2> QED
    BY <1>2, <2>1, PostMoves DEF Execute
<1>3. CASE CannotRun(m)
  BY <1>3, FailMoves DEF CannotRun
<1> QED
  BY <1>1, <1>2, <1>3

LEMMA ReportMoves ==
  ASSUME WorkerInv, DominoTypes, NEW m \in Managers, Report(m)
  PROVE  WorkerStep
<1>1. worker[m].d \in Dominos /\ worker[m].pc # "idle"
  BY DEF Report, WorkerInv, WorkerAt
<1>2. CASE fail(m) \/ Conflict(m)
  BY <1>1, <1>2, FailMoves
<1>3. CASE worker[m].pc = "saved" /\ worker[m].fresh
  <2>1. SetDomino(m, worker[m].d, ReportedObject(m), IdleWorker)
    BY <1>3 DEF Report, ReportedObject
  <2> QED
    BY <1>1, <1>3, <2>1, ReportedFields, UpdateMoves, IdleTyped, IdleMoves
<1> QED
  BY <1>2, <1>3 DEF Report

LEMMA FaultMoves ==
  ASSUME WorkerInv, DominoTypes, RestTypes,
         \/ \E m \in Managers : \/ ServeResult(m) \/ ResultTimeout(m) \/ ManagerCrash(m)
                                \/ CallFails(m) \/ ReadNotFound(m) \/ ResultWriteFails(m)
         \/ ServiceCrash \/ \E d \in Dominos : EditDomino(d)
  PROVE  WorkerStep
<1>1. ASSUME NEW m \in Managers, ServeResult(m) \/ ResultTimeout(m) \/ ResultWriteFails(m)
      PROVE  WorkerStep
  <2>1. PICK p \in {"saved", "refused"} :
          /\ worker' = [worker EXCEPT ![m].pc = p]
          /\ p = "saved" => log' = Append(log, worker[m].row)
    BY <1>1 DEF ServeResult, ResultTimeout, ResultWriteFails, ResultRequest, Accepted, SaveResult
  <2>2. worker[m].pc = "posted"
    BY <1>1 DEF ServeResult, ResultTimeout, ResultWriteFails
  <2>3. worker' = [worker EXCEPT ![m] = [worker[m] EXCEPT !.pc = p]]
    BY <2>1 DEF WorkerInv
  <2>4. MovesTo(m, [worker[m] EXCEPT !.pc = p], log')
    BY <2>1, <2>2, PcMoves
  <2> QED
    BY <2>3, <2>4, MoveMoves
<1>2. ASSUME NEW m \in Managers, ManagerCrash(m)
      PROVE  WorkerStep
  BY <1>2, IdleMoves, MoveMoves DEF ManagerCrash
<1>3. ASSUME NEW m \in Managers, CallFails(m)
      PROVE  WorkerStep
  BY <1>3, FailMoves DEF CallFails
<1>6. ASSUME NEW m \in Managers, ReadNotFound(m)
      PROVE  WorkerStep
  <2> DEFINE next == [worker[m] EXCEPT !.read = Parse[source]]
  <2>1. /\ worker' = [worker EXCEPT ![m] = next] /\ next.fresh = worker[m].fresh
        /\ next.pc = "run" /\ worker[m].pc = "run" /\ Same(next, worker[m])
        /\ next.read \in stray'
    BY <1>6, NotFoundMove
  <2> HIDE DEF next
  <2>2. MovesTo(m, next, log')
    BY <2>1 DEF MovesTo, Keeps, Same
  <2> QED
    BY <2>1, <2>2, MoveMoves
<1>4. CASE ServiceCrash
  <2>1. ASSUME NEW m \in Managers
        PROVE  MovesTo(m, worker'[m], log')
    BY <1>4, CrashedWorkers DEF MovesTo, Keeps, Same
  <2> QED
    BY <2>1 DEF WorkerStep
<1>5. ASSUME NEW d \in Dominos, EditDomino(d)
      PROVE  WorkerStep
  <2>1. PICK c \in CommandEdits : SetDomino(Absent, d, EditedObject(d, c), IdleWorker)
    BY <1>5 DEF EditDomino, EditedObject
  <2>2. EditedObject(d, c) \in Objects /\ Absent \notin Managers
    BY EditedFields, StepwiseAssumption
  <2> QED
    BY <2>1, <2>2, UpdateMoves, IdleTyped
<1> QED
  BY <1>1, <1>2, <1>3, <1>4, <1>5, <1>6

LEMMA WorkersMove ==
  ASSUME TypeInv, [Next]_vars
  PROVE  WorkerStep
<1> USE DEF TypeInv
<1>1. CASE worker' = worker
  BY <1>1, SelfMoves DEF WorkerStep
<1>2. CASE \E m \in Managers : Work(m) \/ \E d \in Takes[m] : Start(m, d)
  <2>1. ASSUME NEW m \in Managers, NEW d \in Takes[m], Start(m, d)
        PROVE  WorkerStep
    BY <2>1, StartMoves, StepwiseAssumption
  <2>2. ASSUME NEW m \in Managers, Work(m)
        PROVE  WorkerStep
    BY <2>2, ReadMoves, RunMoves, ReportMoves DEF Work
  <2> QED
    BY <1>2, <2>1, <2>2
<1>3. CASE \E m \in Steady : Seal(m)
  BY <1>1, <1>3 DEF Seal, SourceNotReady, SealToBackend, SealReplied
<1>4. CASE Serve
  BY <1>1, <1>4, FaultMoves DEF Serve, ServeSnapshot, ServeLate
<1>5. CASE Faults
  BY <1>1, <1>5, FaultMoves DEF Faults, SealTimeout, SealWriteFails
<1>6. CASE Users
  BY <1>1, <1>6, FaultMoves DEF Users, WriteSource
<1>7. CASE UNCHANGED vars
  BY <1>1, <1>7 DEF vars
<1> QED
  BY <1>2, <1>3, <1>4, <1>5, <1>6, <1>7 DEF Next

-----------------------------------------------------------------------------
(* Results: from a run, through the flight, to the log and the resource.   *)

\* q carries the result of the run m is at.
RunRequest(m, q) ==
  /\ worker[m].pc = "run" /\ Resolvable(m)
  /\ \E o \in OutputValues, b \in BOOLEAN :
       /\ q.row = PostedRow(m, o, b)
       /\ b => o \in LookupMemo(Key(m))
       /\ ~b => Produces(worker[m].cmd, Input(m), o)

LEMMA NewRequest ==
  ASSUME TypeInv, [Next]_vars, NEW q \in InFlight', q.op = "result"
  PROVE  q \in InFlight \/ \E m \in Managers : RunRequest(m, q)
<1>1. CASE \E r \in late' : q = r.req
  <2>1. PICK r \in late' : q = r.req
    BY <1>1
  <2>2. r \in late \/ \E p \in InFlight : r = [at |-> events, req |-> p]
    BY LateStep
  <2>3. CASE r \in late
    BY <2>1, <2>3 DEF InFlight
  <2>4. CASE \E p \in InFlight : r = [at |-> events, req |-> p]
    BY <2>1, <2>4
  <2> QED
    BY <2>2, <2>3, <2>4
<1>2. CASE \E m \in Managers : sealer'[m].pc = "posted" /\ q = [op |-> "snapshot", id |-> sealer'[m].id, data |-> sealer'[m].data]
  BY <1>2
<1>3. ASSUME NEW m \in Managers, worker'[m].pc = "posted", q = [op |-> "result", row |-> worker'[m].row]
      PROVE  q \in InFlight \/ RunRequest(m, q)
  <2>1. MovesTo(m, worker'[m], log') /\ q.row = worker'[m].row
    BY <1>3, WorkersMove DEF WorkerStep
  <2>2. CASE worker[m].pc = "posted" /\ Same(worker'[m], worker[m])
    BY <1>3, <2>2 DEF InFlight, ResultRequest, Same
  <2>3. CASE Posts(m, worker'[m])
    BY <2>1, <2>3 DEF Posts, RunRequest
  <2> QED
    BY <1>3, <2>1, <2>2, <2>3 DEF MovesTo, Loads
<1> QED
  BY <1>1, <1>2, <1>3 DEF InFlight, SealRequest, ResultRequest

\* What one step does to one Domino, the reconciles becoming W.
Becomes(d, x, W) ==
  \/ x = domino[d]
  \/ /\ x.phase \notin Complete /\ x.gen = domino[d].gen /\ x.cmd = domino[d].cmd
     /\ x.observed = domino[d].observed
  \/ /\ x.gen = domino[d].gen + 1 /\ x.phase = domino[d].phase
     /\ x.observed = domino[d].observed /\ x.row = domino[d].row
     /\ \A v \in Managers : W[v].d = d => ~W[v].fresh
  \/ \E m \in Managers : /\ worker[m].pc = "saved" /\ worker[m].fresh /\ worker[m].d = d
                         /\ x = ReportedObject(m)

DominoStep == \A d \in Dominos : Becomes(d, domino'[d], worker')

LEMMA UpdateBecomes ==
  ASSUME WorkerInv, DominoTypes, NEW m, NEW d \in Dominos, NEW new \in Objects,
         NEW next \in Workers, Becomes(d, new, worker'), SetDomino(m, d, new, next)
  PROVE  DominoStep
<1>0. domino' = [domino EXCEPT ![d] = new]
  BY DEF SetDomino
<1>1. \A e \in Dominos : domino'[e] = IF e = d THEN new ELSE domino[e]
  BY <1>0 DEF DominoTypes
<1> QED
  BY <1>1 DEF DominoStep, Becomes

LEMMA PhaseBecomes ==
  ASSUME WorkerInv, DominoTypes, NEW m, NEW d \in Dominos, NEW p \in Phases \ Complete,
         NEW next \in Workers, SetPhase(m, d, p, next)
  PROVE  DominoStep
<1> DEFINE new == [domino[d] EXCEPT !.phase = p]
<1>1. /\ new \in Objects /\ new.phase = p /\ new.gen = domino[d].gen /\ new.cmd = domino[d].cmd
      /\ new.observed = domino[d].observed
  BY PhaseTyped DEF DominoTypes
<1>2. SetDomino(m, d, new, next)
  BY DEF SetPhase
<1> HIDE DEF new
<1>3. Becomes(d, new, worker')
  BY <1>1 DEF Becomes
<1> QED
  BY <1>1, <1>2, <1>3, UpdateBecomes

LEMMA FailBecomes ==
  ASSUME WorkerInv, DominoTypes, NEW m \in Managers, worker[m].pc # "idle", fail(m)
  PROVE  DominoStep
<1>1. worker[m].d \in Dominos /\ "Error" \in Phases \ Complete
  BY DEF WorkerInv, WorkerAt, Phases, Complete
<1>2. CASE domino' = domino
  BY <1>2 DEF DominoStep, Becomes
<1> QED
  BY <1>1, <1>2, IdleTyped, PhaseBecomes DEF fail

LEMMA DominosBecome ==
  ASSUME TypeInv, [Next]_vars
  PROVE  DominoStep
<1> USE DEF TypeInv
<1>1. CASE domino' = domino
  BY <1>1 DEF DominoStep, Becomes
<1>2. ASSUME NEW m \in Managers, NEW d \in Takes[m], Start(m, d)
      PROVE  DominoStep
  <2>1. {"Unsealed", "Parked"} \subseteq Phases \ Complete /\ d \in Dominos
    BY StepwiseAssumption DEF Phases, Complete
  <2> QED
    BY <1>1, <1>2, <2>1, IdleTyped, PhaseBecomes DEF Start, Postpone, Reconcile
<1>3. ASSUME NEW m \in Managers, CheckDependency(m) \/ MarkRunning(m)
      PROVE  DominoStep
  <2>1. {"Waiting", "Running"} \subseteq Phases \ Complete /\ worker[m].d \in Dominos
    BY <1>3 DEF Phases, Complete, WorkerInv, WorkerAt, CheckDependency, MarkRunning
  <2>2. [worker[m] EXCEPT !.pc = "head"] \in Workers
    BY PcWorker DEF WorkerInv
  <2> QED
    BY <1>1, <1>3, <2>1, <2>2, IdleTyped, PhaseBecomes DEF CheckDependency, MarkRunning, Conflict
<1>4. ASSUME NEW m \in Managers, LoadOutput(m) \/ ReadHead(m) \/ CannotRun(m) \/ CallFails(m)
      PROVE  DominoStep
  BY <1>1, <1>4, FailBecomes DEF LoadOutput, ReadHead, CannotRun, CallFails
<1>5. ASSUME NEW m \in Managers, Report(m)
      PROVE  DominoStep
  <2>1. CASE fail(m)
    BY <1>5, <2>1, FailBecomes DEF Report
  <2>2. CASE worker[m].pc = "saved" /\ worker[m].fresh
    <3>1. SetDomino(m, worker[m].d, ReportedObject(m), IdleWorker) /\ worker[m].d \in Dominos
      BY <1>5, <2>2 DEF Report, ReportedObject, WorkerInv, WorkerAt
    <3>2. Becomes(worker[m].d, ReportedObject(m), worker')
      BY <2>2 DEF Becomes
    <3> QED
      BY <2>2, <3>1, <3>2, ReportedFields, IdleTyped, UpdateBecomes
  <2> QED
    BY <1>1, <1>5, <2>1, <2>2 DEF Report, Conflict
<1>6. ASSUME NEW d \in Dominos, EditDomino(d)
      PROVE  DominoStep
  <2>1. PICK c \in CommandEdits : SetDomino(Absent, d, EditedObject(d, c), IdleWorker)
    BY <1>6 DEF EditDomino, EditedObject
  <2>2. EditedObject(d, c) \in Objects /\ EditedObject(d, c) # domino[d]
    BY EditedFields DEF DominoTypes, Objects
  <2>3. \A v \in Managers : Aged(worker'[v], worker[v]) /\ (worker'[v].fresh => worker[v].d # d)
    BY <2>1, <2>2, UpdateDomino, IdleTyped, StepwiseAssumption
  <2>4. \A v \in Managers : worker'[v].d = d => ~worker'[v].fresh
    BY <2>3, AgedFields DEF WorkerInv
  <2>5. Becomes(d, EditedObject(d, c), worker')
    BY <2>4, EditedFields DEF Becomes
  <2> QED
    BY <2>1, <2>2, <2>5, IdleTyped, UpdateBecomes
<1>7. CASE \E m \in Managers : Work(m) \/ \E d \in Takes[m] : Start(m, d)
  BY <1>1, <1>2, <1>3, <1>4, <1>5, <1>7 DEF Work, Reuse, Execute
<1>8. CASE \E m \in Steady : Seal(m)
  BY <1>1, <1>8 DEF Seal, SourceNotReady, SealToBackend, SealReplied
<1>9. CASE Serve
  BY <1>1, <1>9 DEF Serve, ServeSnapshot, ServeResult, ServeLate
<1>10. CASE Faults
  BY <1>1, <1>4, <1>10 DEF Faults, SealTimeout, ResultTimeout, ManagerCrash, ReadNotFound,
                SealWriteFails, ResultWriteFails, ServiceCrash
<1>11. CASE Users
  BY <1>1, <1>6, <1>11 DEF Users, WriteSource
<1>12. CASE UNCHANGED vars
  BY <1>1, <1>12 DEF vars
<1> QED
  BY <1>7, <1>8, <1>9, <1>10, <1>11, <1>12 DEF Next

-----------------------------------------------------------------------------
(* The memo, the log and what is reported agree.                           *)

Logged(row) == \E i \in DOMAIN log : log[i] = row

MemoInv ==
  /\ \A a, b \in memo : a.key = b.key => a = b
  /\ \A q \in InFlight : q.op = "result" /\ q.row.reused => Result(q.row) \in memo

LogInv ==
  /\ \A i \in DOMAIN log : Result(log[i]) \in memo
  /\ \A m \in Managers : worker[m].pc = "saved" => Logged(worker[m].row)
  /\ \A d \in Dominos : domino[d].phase \in Complete =>
       Logged(domino[d].row) /\ domino[d].row.key[2] = d

\* The row's output is the memo's for its key, or the key is new.
Agrees(row) == \A r \in memo : r.key = row.key => r = Result(row)

LEMMA AcceptedAgrees ==
  ASSUME FileTypes, NEW row \in Rows, ~RefuseResult(row), ~row.reused
  PROVE  Agrees(row)
<1> SUFFICES ASSUME NEW r \in memo, r.key = row.key
             PROVE  r = Result(row)
  BY DEF Agrees
<1>1. LookupMemo(row.key) \in {{}, {row.output}}
  BY DEF RefuseResult
<1>2. r.output \in LookupMemo(row.key)
  BY DEF LookupMemo
<1>3. r.output = row.output
  BY <1>1, <1>2
<1>4. r \in [key : Keys, output : OutputValues]
  BY DEF FileTypes
<1> QED
  BY <1>3, <1>4 DEF Result

\* The store records the result of a request in flight, in both files or in
\* the first.
Records(q) ==
  /\ q.op = "result" /\ q.row \in Rows /\ Agrees(q.row)
  /\ memo' = memo \cup {Result(q.row)}
  /\ log' = Append(log, q.row) \/ log' = log

LEMMA StoreStep ==
  ASSUME TypeInv, MemoInv, [Next]_vars
  PROVE  UNCHANGED <<memo, log>> \/ \E q \in InFlight : Records(q)
<1>1. CASE UNCHANGED fileVars
  BY <1>1 DEF fileVars
<1>2. ASSUME NEW q \in InFlight, Accepted(q) \/ Cut(q)
      PROVE  UNCHANGED <<memo, log>> \/ Records(q)
  <2>1. q \in Requests
    BY FlightTyped DEF TypeInv
  <2>2. CASE q.op = "snapshot"
    BY <1>2, <2>2 DEF Accepted, Cut, SaveSnapshot, CutSnapshot
  <2>3. CASE q.op = "result"
    <3>1. q.row \in Rows /\ ~RefuseResult(q.row)
      BY <1>2, <2>1, <2>3 DEF Requests, Accepted, Cut, SaveResult, CutResult
    <3>2. CASE q.row.reused
      <4>1. Result(q.row) \in memo /\ Result(q.row).key = q.row.key
        BY <2>3, <3>2 DEF MemoInv, Result
      <4>2. Agrees(q.row)
        BY <4>1 DEF MemoInv, Agrees
      <4>3. NewMemo(q.row) = memo /\ memo = memo \cup {Result(q.row)}
        BY <3>2, <4>1 DEF NewMemo
      <4> QED
        BY <1>2, <2>3, <3>1, <4>2, <4>3 DEF Records, Accepted, Cut, SaveResult, CutResult
    <3>3. CASE ~q.row.reused
      <4>1. Agrees(q.row)
        BY <3>1, <3>3, AcceptedAgrees DEF TypeInv
      <4>2. NewMemo(q.row) = memo \cup {Result(q.row)}
        BY <3>3 DEF NewMemo
      <4> QED
        BY <1>2, <2>3, <3>1, <4>1, <4>2 DEF Records, Accepted, Cut, SaveResult, CutResult
    <3> QED
      BY <3>2, <3>3
  <2> QED
    BY <2>1, <2>2, <2>3 DEF Requests
<1> QED
  BY <1>1, <1>2, FileStep

LEMMA MemoGrows ==
  ASSUME TypeInv, MemoInv, [Next]_vars
  PROVE  memo \subseteq memo'
BY StoreStep DEF Records

\* A reused row repeats a row of the memo.
LEMMA ReusedRow ==
  ASSUME TypeInv, NEW m \in Managers, NEW q, RunRequest(m, q), q.row.reused
  PROVE  Result(q.row) \in memo
<1>1. PICK o \in OutputValues, b \in BOOLEAN :
        q.row = PostedRow(m, o, b) /\ (b => o \in LookupMemo(Key(m)))
  BY DEF RunRequest
<1>2. q.row.key = Key(m) /\ q.row.output = o /\ q.row.reused = b
  BY <1>1 DEF PostedRow
<1>3. PICK r \in memo : r.key = Key(m) /\ r.output = o
  BY <1>1, <1>2 DEF LookupMemo
<1>4. r = Result(q.row)
  BY <1>2, <1>3 DEF Result, TypeInv, FileTypes
<1> QED
  BY <1>3, <1>4

LEMMA MemoStep ==
  ASSUME TypeInv, MemoInv, [Next]_vars
  PROVE  MemoInv'
<1>1. \A a, b \in memo' : a.key = b.key => a = b
  BY StoreStep DEF Records, Agrees, MemoInv, Result
<1>2. ASSUME NEW q \in InFlight', q.op = "result", q.row.reused
      PROVE  Result(q.row) \in memo'
  BY <1>2, NewRequest, MemoGrows, ReusedRow DEF MemoInv
<1> QED
  BY <1>1, <1>2 DEF MemoInv, Result

LEMMA MemoAlways == Spec => []MemoInv
<1>1. ASSUME Init PROVE MemoInv
  <2>1. \A m \in Managers : worker[m].pc = "idle"
    BY <1>1, IdleTyped DEF Init
  <2>2. memo = {} /\ late = {}
    BY <1>1 DEF Init, InitFiles
  <2>3. \A q \in InFlight : q.op # "result"
    BY <2>1, <2>2 DEF InFlight, SealRequest
  <2> QED
    BY <2>2, <2>3 DEF MemoInv
<1> QED
  BY <1>1, MemoStep, TypeAlways, PTL DEF Spec

LEMMA LogStep ==
  ASSUME TypeInv, MemoInv, [Next]_vars
  PROVE  log' = log \/ \E q \in InFlight : Records(q) /\ log' = Append(log, q.row)
BY StoreStep DEF Records

\* The log only grows at its end.
LEMMA LogGrows ==
  ASSUME TypeInv, MemoInv, [Next]_vars
  PROVE  /\ log' \in Seq(Rows) /\ Len(log') \in {Len(log), Len(log) + 1}
         /\ \A i \in DOMAIN log : i \in DOMAIN log' /\ log'[i] = log[i]
<1>0. log \in Seq(Rows)
  BY DEF TypeInv, FileTypes
<1>1. CASE log' = log
  BY <1>0, <1>1
<1>2. ASSUME NEW q \in InFlight, q.row \in Rows, log' = Append(log, q.row)
      PROVE  /\ log' \in Seq(Rows) /\ Len(log') \in {Len(log), Len(log) + 1}
             /\ \A i \in DOMAIN log : i \in DOMAIN log' /\ log'[i] = log[i]
  BY <1>0, <1>2
<1> QED
  BY <1>1, <1>2, LogStep DEF Records

LEMMA LoggedStays ==
  ASSUME TypeInv, MemoInv, [Next]_vars, NEW row, Logged(row)
  PROVE  Logged(row)'
BY LogGrows DEF Logged

LEMMA ReportedStep ==
  ASSUME TypeInv, MemoInv, LogInv, [Next]_vars
  PROVE  LogInv'
<1>1. ASSUME NEW i \in DOMAIN log'
      PROVE  Result(log'[i]) \in memo'
  <2>1. CASE i \in DOMAIN log
    BY <2>1, LogGrows, MemoGrows DEF LogInv
  <2>2. CASE i \notin DOMAIN log
    <3>1. PICK q \in InFlight : Records(q) /\ log' = Append(log, q.row)
      BY <2>2, LogStep
    <3>2. log \in Seq(Rows)
      BY DEF TypeInv, FileTypes
    <3>3. log'[i] = q.row
      BY <2>2, <3>1, <3>2 DEF Records
    <3> QED
      BY <3>1, <3>3 DEF Records
  <2> QED
    BY <2>1, <2>2
<1>2. ASSUME NEW m \in Managers, worker'[m].pc = "saved"
      PROVE  Logged(worker[m].row)'
  <2>1. MovesTo(m, worker'[m], log')
    BY WorkersMove DEF WorkerStep
  <2>2. CASE worker[m].pc = "saved" /\ Same(worker'[m], worker[m])
    <3>1. PICK row : row = worker[m].row /\ Logged(row)
      BY <2>2 DEF LogInv
    <3>2. Logged(row)'
      BY <3>1, LoggedStays
    <3> QED
      BY <2>2, <3>1, <3>2 DEF Logged, Same
  <2>3. CASE worker[m].pc = "posted" /\ Same(worker'[m], worker[m]) /\ log' = Append(log, worker[m].row)
    <3>1. log \in Seq(Rows) /\ worker[m].row \in Rows
      BY <2>3 DEF TypeInv, FileTypes, WorkerInv, WorkerAt
    <3>2. Len(log) + 1 \in DOMAIN log' /\ log'[Len(log) + 1] = worker[m].row
      BY <2>3, <3>1
    <3> QED
      BY <2>3, <3>2 DEF Logged, Same
  <2> QED
    BY <1>2, <2>1, <2>2, <2>3 DEF MovesTo, Loads, Posts
<1>3. ASSUME NEW d \in Dominos, domino'[d].phase \in Complete
      PROVE  Logged(domino[d].row)' /\ domino'[d].row.key[2] = d
  <2>1. PICK row : row = domino'[d].row
    OBVIOUS
  <2>2. Becomes(d, domino'[d], worker')
    BY DominosBecome DEF DominoStep
  <2>3. Logged(row) /\ row.key[2] = d
    <3>1. CASE domino'[d].row = domino[d].row /\ domino'[d].phase = domino[d].phase
      BY <1>3, <2>1, <3>1 DEF LogInv
    <3>2. ASSUME NEW m \in Managers, worker[m].pc = "saved", worker[m].d = d,
                 domino'[d] = ReportedObject(m)
          PROVE  Logged(row) /\ row.key[2] = d
      <4>1. row = worker[m].row
        BY <2>1, <3>2, ReportedFields DEF TypeInv
      <4>2. Logged(worker[m].row)
        BY <3>2 DEF LogInv
      <4>3. worker[m].row.key[2] = d
        BY <3>2 DEF TypeInv, WorkerInv, WorkerAt
      <4> QED
        BY <4>1, <4>2, <4>3
    <3> QED
      BY <1>3, <2>2, <3>1, <3>2 DEF Becomes
  <2>4. Logged(row)'
    BY <2>3, LoggedStays
  <2> QED
    BY <2>1, <2>3, <2>4 DEF Logged
<1> QED
  BY <1>1, <1>2, <1>3 DEF LogInv, Logged, Result

LEMMA LogAlways == Spec => []LogInv
<1>1. ASSUME Init PROVE LogInv
  <2>1. \A m \in Managers : worker[m].pc = "idle"
    BY <1>1, IdleTyped DEF Init
  <2>2. \A d \in Dominos : domino[d].phase = ""
    BY <1>1 DEF Init
  <2>3. DOMAIN log = {}
    <3>1. log = <<>>
      BY <1>1 DEF Init, InitFiles
    <3> QED
      BY <3>1
  <2>4. ~("" \in Complete)
    BY DEF Complete
  <2> QED
    BY <2>1, <2>2, <2>3, <2>4 DEF LogInv
<1> QED
  BY <1>1, ReportedStep, TypeAlways, MemoAlways, PTL DEF Spec

(* A completed status never runs ahead of the store: its row is in the     *)
(* replay log and its output is the memo's (SaveResult before              *)
(* Status().Update in DominoReconciler.Reconcile).                         *)
THEOREM ReportsRecorded == Spec => []ReportedRecorded
<1>1. ASSUME TypeInv, MemoInv, LogInv PROVE ReportedRecorded
  <2> SUFFICES ASSUME NEW d \in Dominos, domino[d].phase \in Complete
               PROVE  LET row == domino[d].row
                      IN  /\ row \in {log[i] : i \in DOMAIN log}
                          /\ row.key[2] = d
                          /\ LookupMemo(row.key) = {row.output}
    BY DEF ReportedRecorded
  <2> DEFINE row == domino[d].row
  <2>1. Logged(row) /\ row.key[2] = d
    BY <1>1 DEF LogInv
  <2> HIDE DEF row
  <2>2. Result(row) \in memo
    BY <1>1, <2>1 DEF LogInv, Logged
  <2>3. Result(row).key = row.key /\ Result(row).output = row.output
    BY DEF Result
  <2>4. LookupMemo(row.key) = {row.output}
    BY <1>1, <2>2, <2>3 DEF LookupMemo, MemoInv
  <2>5. row \in {log[i] : i \in DOMAIN log}
    BY <2>1 DEF Logged
  <2> QED
    BY <2>1, <2>4, <2>5 DEF row
<1> QED
  BY <1>1, TypeAlways, MemoAlways, LogAlways, PTL

-----------------------------------------------------------------------------
(* The file store implements the worldline store.                          *)

SealedIds == {id \in SnapshotIDs : Whole(id)}

\* A request in flight makes at most its own snapshot whole.
LEMMA SealedStep ==
  ASSUME TypeInv, [Next]_vars
  PROVE  \/ SealedIds' = SealedIds
         \/ UNCHANGED <<memo, log>> /\ \E id \in SealedIds' : SealedIds' = SealedIds \cup {id}
<1>0. SealedIds \subseteq SealedIds'
  BY WholeStays DEF SealedIds
<1>1. CASE UNCHANGED fileVars
  BY <1>1 DEF fileVars, SealedIds, Whole
<1>2. ASSUME NEW q \in InFlight, Accepted(q) \/ Cut(q)
      PROVE  \/ SealedIds' = SealedIds
             \/ UNCHANGED <<memo, log>> /\ \E id \in SealedIds' : SealedIds' = SealedIds \cup {id}
  <2>1. q \in Requests
    BY FlightTyped DEF TypeInv
  <2>2. CASE q.op = "snapshot"
    <3>1. UNCHANGED <<memo, log>>
      BY <1>2, <2>2 DEF Accepted, Cut, SaveSnapshot, CutSnapshot
    <3>2. \A id \in SnapshotIDs \ {q.id} : meta'[id] = meta[id] /\ payload'[id] = payload[id]
      BY <1>2, <2>2 DEF Accepted, Cut, SaveSnapshot, CutSnapshot, TypeInv, FileTypes
    <3>3. \A id \in SnapshotIDs \ {q.id} : id \in SealedIds' <=> id \in SealedIds
      BY <3>2 DEF SealedIds, Whole
    <3>4. SealedIds \subseteq SnapshotIDs /\ SealedIds' \subseteq SnapshotIDs
      BY DEF SealedIds
    <3>5. CASE q.id \in SealedIds'
      BY <1>0, <3>1, <3>3, <3>4, <3>5
    <3>6. CASE q.id \notin SealedIds'
      BY <1>0, <3>3, <3>4, <3>6
    <3> QED
      BY <3>5, <3>6
  <2>3. CASE q.op = "result"
    BY <1>2, <2>3 DEF Accepted, Cut, SaveResult, CutResult, SealedIds, Whole
  <2> QED
    BY <2>1, <2>2, <2>3 DEF Requests
<1> QED
  BY <1>1, <1>2, FileStep

\* A result in flight belongs to a whole snapshot.
LEMMA ResultSealed ==
  ASSUME TypeInv, SealInv, NEW q \in InFlight, q.op = "result"
  PROVE  q.row.key[1] \in SealedIds
<1>1. RequestAt(q, snap)
  BY FlightTyped DEF TypeInv
<1> QED
  BY <1>1 DEF RequestAt, SealInv, TypeInv, SnapInv, SealedIds

\* A recorded result is a step of the worldline store, or none.
LEMMA RecordRefines ==
  ASSUME TypeInv, SealInv, NEW q \in InFlight, Records(q), SealedIds' = SealedIds
  PROVE  [Abstract!Next]_(Abstract!vars)
<1> DEFINE row == q.row
<1>1. row \in Rows /\ Agrees(row) /\ row.key[1] \in SealedIds
  BY ResultSealed DEF Records
<1>2. /\ Result(row) = [key |-> row.key, output |-> row.output] /\ Result(row).key = row.key
      /\ memo' = memo \cup {Result(row)}
  BY DEF Result, Records
<1>3. CASE log' = Append(log, row)
  <2>1. log' # <<>> /\ log'[Len(log')] = row
    BY <1>1, <1>3 DEF TypeInv, FileTypes
  <2>2. Abstract!Record(row)
    BY <1>1, <1>2, <1>3 DEF Abstract!Record, Agrees, SealedIds, Whole
  <2> QED
    BY <2>1, <2>2 DEF Abstract!Next
<1>4. CASE log' = log /\ Result(row) \in memo
  BY <1>2, <1>4 DEF Abstract!vars, SealedIds, Whole
<1>5. CASE log' = log /\ Result(row) \notin memo
  <2>1. \A r \in memo : r.key # row.key
    BY <1>1, <1>5 DEF Agrees
  <2>2. Abstract!Memoize(Result(row))
    BY <1>1, <1>2, <1>5, <2>1 DEF Abstract!Memoize, SealedIds, Whole
  <2> QED
    BY <1>2, <2>2 DEF Abstract!Next
<1> QED
  BY <1>3, <1>4, <1>5 DEF Records

(* The file store, its requests cut short, given up and served late        *)
(* included, implements WorldlineStore.                                    *)
THEOREM FileStoreImplements == Spec => FileStoreRefinement
<1> DEFINE Inv == TypeInv /\ SealInv /\ MemoInv
<1>1. Init => Abstract!Init
  <2> SUFFICES ASSUME Init PROVE Abstract!Init
    OBVIOUS
  <2>1. \A id \in SnapshotIDs : meta[id] # "sealed"
    BY DEF Init, InitFiles
  <2> QED
    BY <2>1 DEF Init, InitFiles, Abstract!Init
<1>2. Inv /\ [Next]_vars => [Abstract!Next]_(Abstract!vars)
  <2> SUFFICES ASSUME Inv, [Next]_vars PROVE [Abstract!Next]_(Abstract!vars)
    OBVIOUS
  <2>1. CASE UNCHANGED <<memo, log>> /\ SealedIds' = SealedIds
    BY <2>1 DEF Abstract!vars, SealedIds, Whole
  <2>2. CASE UNCHANGED <<memo, log>> /\ \E id \in SealedIds' : SealedIds' = SealedIds \cup {id}
    BY <2>2 DEF Abstract!Next, Abstract!Seal, SealedIds, Whole
  <2>3. CASE SealedIds' = SealedIds /\ \E q \in InFlight : Records(q)
    BY <2>3, RecordRefines
  <2> QED
    BY <2>1, <2>2, <2>3, SealedStep, StoreStep
<1>3. Spec => []Inv
  BY TypeAlways, SealAlways, MemoAlways, PTL
<1> QED
  BY <1>1, <1>2, <1>3, PTL DEF Spec, FileStoreRefinement, Abstract!Spec

-----------------------------------------------------------------------------
(* A completed generation was executed by its own command.                 *)

\* A fresh copy has the generation and the command of the resource.
FreshInv ==
  \A m \in Managers : worker[m].pc # "idle" /\ worker[m].fresh =>
    worker[m].gen = domino[worker[m].d].gen /\ worker[m].cmd = domino[worker[m].d].cmd

Executed(w) == ~w.row.reused => Produces(w.cmd, w.row.key[3], w.row.output)

CommandInv ==
  /\ \A m \in Managers : worker[m].pc \in {"posted", "saved"} => Executed(worker[m])
  /\ \A d \in Dominos : domino[d].observed <= domino[d].gen

LEMMA FreshStep ==
  ASSUME TypeInv, FreshInv, [Next]_vars
  PROVE  FreshInv'
<1> SUFFICES ASSUME NEW m \in Managers, worker'[m].pc # "idle", worker'[m].fresh
             PROVE  /\ worker'[m].gen = domino'[worker'[m].d].gen
                    /\ worker'[m].cmd = domino'[worker'[m].d].cmd
  BY DEF FreshInv
<1> DEFINE d == worker'[m].d
<1>1. Keeps(m, worker'[m])
  BY WorkersMove DEF WorkerStep, MovesTo
<1>2. d \in Dominos /\ worker'[m].gen = domino[d].gen /\ worker'[m].cmd = domino[d].cmd
  BY <1>1 DEF Keeps, FreshInv, TypeInv, WorkerInv, WorkerAt
<1>3. Becomes(d, domino'[d], worker')
  BY <1>2, DominosBecome DEF DominoStep
<1>4. domino'[d].gen = domino[d].gen /\ domino'[d].cmd = domino[d].cmd
  <2>1. ASSUME NEW v \in Managers, worker[v].pc = "saved", worker[v].d = d,
               domino'[d] = ReportedObject(v)
        PROVE  domino'[d].gen = domino[d].gen /\ domino'[d].cmd = domino[d].cmd
    BY <2>1, ReportedFields DEF TypeInv
  <2> QED
    BY <1>3, <2>1 DEF Becomes
<1> QED
  BY <1>2, <1>4

LEMMA PostedExecuted ==
  ASSUME TypeInv, NEW m \in Managers, NEW v, Posts(m, v)
  PROVE  Executed(v)
<1>1. PICK o \in OutputValues, b \in BOOLEAN :
        v.row = PostedRow(m, o, b) /\ (~b => Produces(worker[m].cmd, Input(m), o))
  BY DEF Posts
<1>2. v.row.reused = b /\ v.row.output = o /\ v.row.key[3] = Input(m) /\ v.cmd = worker[m].cmd
  BY <1>1 DEF PostedRow, Key, Posts
<1> QED
  BY <1>1, <1>2 DEF Executed

LEMMA CommandStep ==
  ASSUME TypeInv, FreshInv, CommandInv, [Next]_vars
  PROVE  CommandInv'
<1>1. ASSUME NEW m \in Managers, worker'[m].pc \in {"posted", "saved"}
      PROVE  Executed(worker'[m])
  <2>1. MovesTo(m, worker'[m], log')
    BY WorkersMove DEF WorkerStep
  <2>2. CASE worker[m].pc \in {"posted", "saved"} /\ Same(worker'[m], worker[m])
    BY <2>2 DEF CommandInv, Executed, Same
  <2>3. CASE Posts(m, worker'[m])
    BY <2>3, PostedExecuted
  <2> QED
    BY <1>1, <2>1, <2>2, <2>3 DEF MovesTo, Loads
<1>2. ASSUME NEW d \in Dominos
      PROVE  domino'[d].observed <= domino'[d].gen
  <2>1. Becomes(d, domino'[d], worker')
    BY DominosBecome DEF DominoStep
  <2>2. domino[d].observed <= domino[d].gen /\ domino[d].observed \in Nat /\ domino[d].gen \in Nat
    BY DEF CommandInv, TypeInv, DominoTypes, Objects
  <2>3. ASSUME NEW m \in Managers, worker[m].pc = "saved", worker[m].fresh, worker[m].d = d,
               domino'[d] = ReportedObject(m)
        PROVE  domino'[d].observed <= domino'[d].gen
    <3>1. domino'[d].observed = domino'[d].gen /\ domino'[d].gen = domino[d].gen
      BY <2>3, ReportedFields DEF TypeInv, FreshInv
    <3> QED
      BY <2>2, <3>1
  <2>4. CASE domino'[d].gen = domino[d].gen + 1 /\ domino'[d].observed = domino[d].observed
    BY <2>2, <2>4
  <2>5. CASE domino'[d].gen = domino[d].gen /\ domino'[d].observed = domino[d].observed
    BY <2>2, <2>5
  <2> QED
    BY <2>1, <2>3, <2>4, <2>5 DEF Becomes
<1>3. ASSUME NEW m \in Managers, worker'[m].pc \in {"posted", "saved"}
      PROVE  Executed(worker[m])'
  BY <1>1, <1>3 DEF Executed
<1> QED
  BY <1>2, <1>3 DEF CommandInv

LEMMA CompletedStep ==
  ASSUME TypeInv, FreshInv, CommandInv, CompletedByCommand, [Next]_vars
  PROVE  CompletedByCommand'
<1> SUFFICES ASSUME NEW d \in Dominos, domino'[d].observed = domino'[d].gen,
                    domino'[d].phase = "Completed"
             PROVE  Produces(domino'[d].cmd, domino'[d].row.key[3], domino'[d].row.output)
  BY DEF CompletedByCommand, Finished
<1>1. Becomes(d, domino'[d], worker')
  BY DominosBecome DEF DominoStep
<1>2. CASE domino'[d] = domino[d]
  BY <1>2 DEF CompletedByCommand, Finished, Complete
<1>3. CASE domino'[d].gen = domino[d].gen + 1 /\ domino'[d].observed = domino[d].observed
  <2>1. domino[d].observed <= domino[d].gen /\ domino[d].observed \in Nat /\ domino[d].gen \in Nat
    BY DEF CommandInv, TypeInv, DominoTypes, Objects
  <2> QED
    BY <1>3, <2>1
<1>4. ASSUME NEW m \in Managers, worker[m].pc = "saved", worker[m].fresh, worker[m].d = d,
             domino'[d] = ReportedObject(m)
      PROVE  Produces(domino'[d].cmd, domino'[d].row.key[3], domino'[d].row.output)
  <2>1. /\ domino'[d].cmd = domino[d].cmd /\ domino'[d].row = worker[m].row
        /\ domino'[d].phase = IF worker[m].row.reused THEN "Cached" ELSE "Completed"
    BY <1>4, ReportedFields DEF TypeInv
  <2>2. worker[m].cmd = domino[d].cmd
    BY <1>4 DEF FreshInv
  <2>3. Executed(worker[m])
    BY <1>4 DEF CommandInv
  <2> QED
    BY <2>1, <2>2, <2>3 DEF Executed
<1> QED
  BY <1>1, <1>2, <1>3, <1>4 DEF Becomes, Complete

(* A Domino Completed at its generation was executed by the command of     *)
(* that generation: resourceVersion conflicts keep a result of an older    *)
(* command out (DominoReconciler.Reconcile's last Status().Update).        *)
THEOREM CompletedCommand == Spec => []CompletedByCommand
<1> DEFINE Inv == FreshInv /\ CommandInv /\ CompletedByCommand
<1>1. Init => Inv
  <2> SUFFICES ASSUME Init PROVE Inv
    OBVIOUS
  <2>1. \A m \in Managers : worker[m].pc = "idle"
    BY IdleTyped DEF Init
  <2>2. \A d \in Dominos : domino[d].phase = "" /\ domino[d].observed = 0 /\ domino[d].gen = 1
    BY DEF Init
  <2>3. FreshInv
    BY <2>1 DEF FreshInv
  <2>4. CommandInv
    <3>1. ASSUME NEW d \in Dominos PROVE domino[d].observed <= domino[d].gen
      <4>1. domino[d].observed = 0 /\ domino[d].gen = 1
        BY <2>2
      <4> QED
        BY <4>1
    <3>2. \A m \in Managers : worker[m].pc \notin {"posted", "saved"}
      BY <2>1
    <3> QED
      BY <3>1, <3>2 DEF CommandInv
  <2>5. CompletedByCommand
    BY <2>2 DEF CompletedByCommand
  <2> QED
    BY <2>3, <2>4, <2>5
<1>2. Inv /\ TypeInv /\ [Next]_vars => Inv'
  BY FreshStep, CommandStep, CompletedStep
<1> QED
  BY <1>1, <1>2, TypeAlways, PTL DEF Spec

-----------------------------------------------------------------------------
(* Inputs come from the sealed content and from the spine.                 *)

\* The outputs of dep in the first n rows.
Past(dep, n) == {log[j].output : j \in {k \in 1..n : log[k].key[2] = dep}}

Derived(row, n) ==
  \E outs \in [DOMAIN DependsOn[row.key[2]] -> OutputValues], c \in stray \cup {snap.id[2]} :
    /\ \A k \in DOMAIN outs : outs[k] \in Past(DependsOn[row.key[2]][k], n)
    /\ row.key[3] = resolveInputs(row.key[2], c, outs)

SpineInv ==
  /\ log # <<>> => snap.phase = "Sealed"
  /\ \A m \in Managers : worker[m].read \in stray \cup {Absent}
  /\ \A m \in Managers : worker[m].pc \in {"deps", "output", "head", "run"} =>
       \A k \in DOMAIN worker[m].outs :
         worker[m].outs[k] \in Past(DependsOn[worker[m].d][k], Len(log))
  /\ \A q \in InFlight : q.op = "result" => Derived(q.row, Len(log))
  /\ \A i \in DOMAIN log : Derived(log[i], i - 1)

LEMMA PastGrows ==
  ASSUME TypeInv, MemoInv, [Next]_vars, NEW dep, NEW n \in 0..Len(log), NEW k \in Nat,
         n <= k, k <= Len(log')
  PROVE  Past(dep, n) \subseteq Past(dep, k)'
<1>1. log \in Seq(Rows)
  BY DEF TypeInv, FileTypes
<1>2. \A i \in 1..n : log'[i] = log[i]
  BY <1>1, LogGrows
<1> QED
  BY <1>2 DEF Past

LEMMA StrayGrows ==
  ASSUME [Next]_vars
  PROVE  stray \subseteq stray'
<1>1. CASE stray' = stray
  BY <1>1
<1>2. CASE \E m \in Managers : ReadNotFound(m)
  BY <1>2 DEF ReadNotFound
<1>3. CASE \E m \in Steady : Seal(m)
  BY <1>1, <1>3 DEF Seal, SourceNotReady, SealToBackend, SealReplied
<1>4. CASE \E m \in Managers : Work(m) \/ \E d \in Takes[m] : Start(m, d)
  BY <1>1, <1>4 DEF Work, Start, Postpone, Reconcile, CheckDependency, LoadOutput, MarkRunning,
                    ReadHead, Reuse, Execute, CannotRun, Report
<1>5. CASE Serve
  BY <1>1, <1>5 DEF Serve, ServeSnapshot, ServeResult, ServeLate
<1>6. CASE Faults
  BY <1>1, <1>2, <1>6 DEF Faults, SealTimeout, ResultTimeout, ManagerCrash, CallFails,
                          SealWriteFails, ResultWriteFails, ServiceCrash, Fault
<1>7. CASE Users
  BY <1>1, <1>7 DEF Users, WriteSource, EditDomino
<1>8. CASE UNCHANGED vars
  BY <1>1, <1>8 DEF vars
<1> QED
  BY <1>3, <1>4, <1>5, <1>6, <1>7, <1>8 DEF Next

\* What was derived stays derived: the log grows and the status is final.
LEMMA DerivedStays ==
  ASSUME TypeInv, MemoInv, [Next]_vars, snap.phase = "Sealed", NEW row, NEW n \in 0..Len(log),
         NEW k \in Nat, n <= k, k <= Len(log'), Derived(row, n)
  PROVE  Derived(row, k)'
<1>1. snap' = snap
  BY SnapTyped
<1>2. \A dep : Past(dep, n) \subseteq Past(dep, k)'
  BY PastGrows
<1> DEFINE P(dep) == Past(dep, n)
           Q(dep) == Past(dep, k)'
<1>3. PICK outs \in [DOMAIN DependsOn[row.key[2]] -> OutputValues], c \in stray \cup {snap.id[2]} :
        /\ \A j \in DOMAIN outs : outs[j] \in P(DependsOn[row.key[2]][j])
        /\ row.key[3] = resolveInputs(row.key[2], c, outs)
  BY DEF Derived
<1>5. c \in stray' \cup {snap'.id[2]}
  BY <1>1, StrayGrows
<1>4. \A j \in DOMAIN outs : outs[j] \in Q(DependsOn[row.key[2]][j])
  BY <1>2, <1>3
<1> QED
  BY <1>3, <1>4, <1>5 DEF Derived, resolveInputs

LEMMA RunDerived ==
  ASSUME TypeInv, SealInv, SpineInv, NEW m \in Managers, NEW q, RunRequest(m, q)
  PROVE  Derived(q.row, Len(log))
<1> DEFINE w == worker[m]
<1>1. /\ w.pc = "run" /\ w.d \in Dominos /\ snap.phase = "Sealed" /\ w.outs \in Seq(OutputValues)
      /\ Len(w.outs) = Len(DependsOn[w.d]) /\ DependsOn[w.d] \in Seq(Dominos)
  BY StepwiseAssumption DEF RunRequest, TypeInv, WorkerInv, WorkerAt, Workers
<1>2. /\ w.outs \in [DOMAIN DependsOn[w.d] -> OutputValues]
      /\ \A k \in DOMAIN w.outs : w.outs[k] \in Past(DependsOn[w.d][k], Len(log))
  BY <1>1 DEF SpineInv
<1>3. Content(m) \in stray \cup {snap.id[2]}
  <2>1. Whole(snap.id)
    BY <1>1 DEF SealInv
  <2>2. payload[snap.id] # Absent
    BY <2>1, EncodingAssumption, PrefixAssumption DEF Whole
  <2>3. Parse[StoreOrSource(snap.id)] = snap.id[2]
    BY <2>1, <2>2 DEF Whole, StoreOrSource, GetSnapshotData
  <2> QED
    BY <2>3 DEF Content, SpineInv
<1>4. q.row.key[2] = w.d /\ q.row.key[3] = Input(m)
  <2>1. PICK o \in OutputValues, b \in BOOLEAN : q.row = PostedRow(m, o, b)
    BY DEF RunRequest
  <2> QED
    BY <2>1 DEF PostedRow, Key
<1>5. q.row.key[3] = resolveInputs(w.d, Content(m), w.outs)
  BY <1>4 DEF Input
<1> HIDE DEF w
<1> QED
  BY <1>2, <1>3, <1>4, <1>5 DEF Derived

\* The outputs a reconcile has loaded are outputs of the spine.
LEMMA OutsStep ==
  ASSUME TypeInv, MemoInv, SpineInv, [Next]_vars, NEW m \in Managers,
         worker'[m].pc \in {"deps", "output", "head", "run"}, NEW k \in DOMAIN worker'[m].outs
  PROVE  worker'[m].outs[k] \in Past(DependsOn[worker'[m].d][k], Len(log))
<1> DEFINE w == worker[m]
           v == worker'[m]
<1>1. Keeps(m, v) /\ MovesTo(m, v, log')
  BY WorkersMove DEF WorkerStep, MovesTo
<1>2. CASE v.pc = "deps" /\ w.pc = "idle" /\ v.outs = <<>>
  <2>1. DOMAIN v.outs = {}
    BY <1>2
  <2> QED
    BY <2>1
<1>3. CASE w.pc \in {"deps", "output", "head", "run"} /\ v.outs = w.outs /\ v.d = w.d
  BY <1>3 DEF SpineInv
<1>4. CASE Loads(m, v)
  <2>1. /\ w.pc = "output" /\ v.d = w.d /\ RowsOf(NextDep(m)) # {}
        /\ v.outs = Append(w.outs, LastSpineResult(NextDep(m)).output)
    BY <1>4 DEF Loads
  <2>2. w.outs \in Seq(OutputValues) /\ log \in Seq(Rows)
    BY DEF TypeInv, WorkerInv, Workers, FileTypes
  <2>3. PICK i \in RowsOf(NextDep(m)) : LastSpineResult(NextDep(m)) = log[i]
    BY <2>1, <2>2, LastRow
  <2>4. LastSpineResult(NextDep(m)).output \in Past(NextDep(m), Len(log))
    BY <2>2, <2>3 DEF RowsOf, Past
  <2>5. CASE k = Len(w.outs) + 1
    <3>1. v.outs[k] = LastSpineResult(NextDep(m)).output
      BY <2>1, <2>2, <2>5
    <3> QED
      BY <2>1, <2>4, <2>5, <3>1 DEF NextDep
  <2>6. CASE k # Len(w.outs) + 1
    <3>1. k \in DOMAIN w.outs /\ v.outs[k] = w.outs[k]
      BY <2>1, <2>2, <2>6
    <3> QED
      BY <2>1, <3>1 DEF SpineInv
  <2> QED
    BY <2>5, <2>6
<1> QED
  BY <1>1, <1>2, <1>3, <1>4 DEF MovesTo, Same, Posts

LEMMA SpineStep ==
  ASSUME TypeInv, SealInv, MemoInv, SpineInv, [Next]_vars
  PROVE  SpineInv'
<1>0. /\ log \in Seq(Rows) /\ log' \in Seq(Rows) /\ Len(log) \in Nat /\ Len(log') \in Nat
      /\ Len(log) <= Len(log') /\ Len(log) \in 0..Len(log)
  BY LogGrows DEF TypeInv, FileTypes
<1>1. \A q \in InFlight : q.op = "result" => snap.phase = "Sealed"
  BY FlightTyped DEF TypeInv, RequestAt
<1>2. log' # <<>> => snap'.phase = "Sealed"
  BY <1>1, LogStep, SnapTyped DEF SpineInv, Records
<1>6. ASSUME NEW m \in Managers
      PROVE  worker'[m].read \in stray' \cup {Absent}
  BY StrayGrows, WorkersMove DEF WorkerStep, MovesTo, Keeps, SpineInv
<1>3. ASSUME NEW m \in Managers, worker'[m].pc \in {"deps", "output", "head", "run"},
             NEW k \in DOMAIN worker'[m].outs
      PROVE  (worker[m].outs[k] \in Past(DependsOn[worker[m].d][k], Len(log)))'
  <2>1. PICK dep : dep = DependsOn[worker'[m].d][k]
    OBVIOUS
  <2>2. worker'[m].outs[k] \in Past(dep, Len(log))
    BY <1>3, <2>1, OutsStep
  <2>3. PICK n \in Nat : n = Len(log')
    BY <1>0
  <2>4. Past(dep, Len(log)) \subseteq Past(dep, n)'
    BY <1>0, <2>3, PastGrows
  <2> QED
    BY <2>1, <2>2, <2>3, <2>4 DEF Past
<1>4. ASSUME NEW q \in InFlight', q.op = "result"
      PROVE  Derived(q.row, Len(log))'
  <2>1. Derived(q.row, Len(log)) /\ snap.phase = "Sealed"
    <3>1. CASE q \in InFlight
      BY <1>1, <1>4, <3>1 DEF SpineInv
    <3>2. ASSUME NEW m \in Managers, RunRequest(m, q)
          PROVE  Derived(q.row, Len(log)) /\ snap.phase = "Sealed"
      BY <3>2, RunDerived DEF RunRequest, TypeInv, WorkerInv, WorkerAt
    <3> QED
      BY <1>4, <3>1, <3>2, NewRequest
  <2>2. PICK n \in Nat : n = Len(log')
    BY <1>0
  <2>3. PICK row : row = q.row
    OBVIOUS
  <2>4. Derived(row, n)'
    BY <1>0, <2>1, <2>2, <2>3, DerivedStays
  <2> QED
    BY <2>2, <2>3, <2>4 DEF Derived, Past
<1>5. ASSUME NEW i \in DOMAIN log'
      PROVE  Derived(log[i], i - 1)'
  <2>1. PICK row, n : row = log'[i] /\ n = i - 1
    OBVIOUS
  <2>2. n \in Nat /\ n <= Len(log')
    BY <1>0, <2>1
  <2>3. CASE i \in DOMAIN log
    <3>1. row = log[i] /\ n \in 0..Len(log) /\ snap.phase = "Sealed" /\ Derived(row, n)
      BY <1>0, <2>1, <2>3, LogGrows DEF SpineInv
    <3>2. Derived(row, n)'
      BY <2>2, <3>1, DerivedStays
    <3> QED
      BY <2>1, <3>2 DEF Derived, Past
  <2>4. CASE i \notin DOMAIN log
    <3>1. PICK q \in InFlight : Records(q) /\ log' = Append(log, q.row)
      BY <2>4, LogStep
    <3>2. row = q.row /\ n = Len(log) /\ q.op = "result"
      BY <1>0, <2>1, <2>4, <3>1 DEF Records
    <3>3. Derived(row, n) /\ snap.phase = "Sealed"
      BY <1>1, <3>2 DEF SpineInv
    <3>4. Derived(row, n)'
      BY <1>0, <2>2, <3>2, <3>3, DerivedStays
    <3> QED
      BY <2>1, <3>4 DEF Derived, Past
  <2> QED
    BY <2>3, <2>4
<1> QED
  BY <1>2, <1>3, <1>4, <1>5, <1>6 DEF SpineInv, Past

LEMMA SpineAlways == Spec => []SpineInv
<1>1. ASSUME Init PROVE SpineInv
  <2>1. \A m \in Managers : worker[m].pc = "idle" /\ worker[m].read = Absent
    BY <1>1, IdleTyped DEF Init
  <2>2. log = <<>> /\ late = {}
    BY <1>1 DEF Init, InitFiles
  <2>3. \A q \in InFlight : q.op # "result"
    BY <2>1, <2>2 DEF InFlight, SealRequest
  <2>4. DOMAIN log = {}
    BY <2>2
  <2> QED
    BY <2>1, <2>2, <2>3, <2>4 DEF SpineInv
<1> QED
  BY <1>1, SpineStep, TypeAlways, SealAlways, MemoAlways, PTL DEF Spec

(* Every row's input resolves from outputs of earlier rows of its          *)
(* dependencies and from the sealed content, or from one the source had    *)
(* when the service answered 404 to a read (tsdb_handler.go,               *)
(* ResolveEngineContentPreferStore, loadDependencyOutputs), whatever       *)
(* overlaps.                                                               *)
THEOREM InputsOnSpine == Spec => []InputsFromSpine
<1>1. ASSUME TypeInv, SpineInv PROVE InputsFromSpine
  <2> SUFFICES ASSUME NEW i \in DOMAIN log
               PROVE  LET d == log[i].key[2]
                          past(dep) == {log[j].output : j \in {k \in 1..(i - 1) : log[k].key[2] = dep}}
                      IN  \E outs \in [DOMAIN DependsOn[d] -> OutputValues],
                             c \in stray \cup {snap.id[2]} :
                            /\ \A k \in DOMAIN outs : outs[k] \in past(DependsOn[d][k])
                            /\ log[i].key[3] = resolveInputs(d, c, outs)
    BY DEF InputsFromSpine
  <2>1. Derived(log[i], i - 1)
    BY <1>1 DEF SpineInv
  <2> QED
    BY <2>1 DEF Derived, Past
<1> QED
  BY <1>1, TypeAlways, SpineAlways, PTL

-----------------------------------------------------------------------------
(* The spine is linked, and a chain while nothing overlaps.                *)

\* prev is the identity or the link of one of the first n rows.
Hangs(prev, n) == prev = Root(snap.id) \/ \E j \in 1..n : log[j].link = prev

OwnLink(row) == row.link = Link(row.prev, row.key[3], row.output)

LinkInv ==
  /\ \A m \in Managers : worker[m].pc = "run" => Hangs(worker[m].prev, Len(log))
  /\ \A q \in InFlight : q.op = "result" => OwnLink(q.row) /\ Hangs(q.row.prev, Len(log))
  /\ \A i \in DOMAIN log : OwnLink(log[i]) /\ Hangs(log[i].prev, i - 1)

\* While no reconcile overlapped another: at most one is under way, nothing
\* else is when its result is late, and both extend the head of the spine.
AloneInv ==
  /\ \A m, v \in Managers : worker[m].pc # "idle" /\ worker[v].pc # "idle" => m = v
  /\ \A r \in late : r.req.op = "result" =>
       \A m \in Managers : worker[m].pc \in {"idle", "refused"}
  /\ \A p, q \in late : p.req.op = "result" /\ q.req.op = "result" => p = q
  /\ \A m \in Managers : worker[m].pc = "run" => worker[m].prev = SpineHead(snap.id)
  /\ \A q \in InFlight : q.op = "result" => q.row.prev = SpineHead(snap.id)
  /\ \A i \in DOMAIN log : log[i].prev = IF i = 1 THEN Root(snap.id) ELSE log[i - 1].link

LEMMA HangsStays ==
  ASSUME TypeInv, MemoInv, [Next]_vars, snap.phase = "Sealed", NEW prev, NEW n \in 0..Len(log),
         NEW k \in Nat, n <= k, k <= Len(log'), Hangs(prev, n)
  PROVE  Hangs(prev, k)'
<1>1. snap' = snap
  BY SnapTyped
<1>2. log \in Seq(Rows)
  BY DEF TypeInv, FileTypes
<1>3. \A i \in 1..n : log'[i] = log[i] /\ i \in 1..k
  BY <1>2, LogGrows
<1> QED
  BY <1>1, <1>3 DEF Hangs

LEMMA HeadHangs ==
  ASSUME log \in Seq(Rows)
  PROVE  Hangs(SpineHead(snap.id), Len(log))
<1>1. CASE log = <<>>
  BY <1>1 DEF Hangs, SpineHead
<1>2. CASE log # <<>>
  <2>1. Len(log) \in 1..Len(log)
    BY <1>2
  <2> QED
    BY <1>2, <2>1 DEF Hangs, SpineHead
<1> QED
  BY <1>1, <1>2

LEMMA RunLinked ==
  ASSUME TypeInv, LinkInv, NEW m \in Managers, NEW q, RunRequest(m, q)
  PROVE  OwnLink(q.row) /\ Hangs(q.row.prev, Len(log)) /\ q.row.prev = worker[m].prev
<1>1. PICK o \in OutputValues, b \in BOOLEAN : q.row = PostedRow(m, o, b)
  BY DEF RunRequest
<1>2. /\ q.row.prev = worker[m].prev /\ q.row.key[3] = Input(m) /\ q.row.output = o
      /\ q.row.link = Link(worker[m].prev, Input(m), o)
  BY <1>1 DEF PostedRow, Key
<1> QED
  BY <1>2 DEF OwnLink, LinkInv, RunRequest

LEMMA LinkStep ==
  ASSUME TypeInv, MemoInv, SpineInv, LinkInv, [Next]_vars
  PROVE  LinkInv'
<1>0. /\ log \in Seq(Rows) /\ log' \in Seq(Rows) /\ Len(log) \in Nat /\ Len(log') \in Nat
      /\ Len(log) <= Len(log') /\ Len(log) \in 0..Len(log)
  BY LogGrows DEF TypeInv, FileTypes
<1>1. \A q \in InFlight : q.op = "result" => snap.phase = "Sealed"
  BY FlightTyped DEF TypeInv, RequestAt
<1>2. ASSUME NEW m \in Managers, worker'[m].pc = "run"
      PROVE  Hangs(worker[m].prev, Len(log))'
  <2>1. MovesTo(m, worker'[m], log')
    BY WorkersMove DEF WorkerStep
  <2>2. PICK prev, n : prev = worker'[m].prev /\ n = Len(log')
    OBVIOUS
  <2>3. Hangs(prev, Len(log)) /\ snap.phase = "Sealed"
    <3>1. CASE worker[m].pc = "run" /\ Same(worker'[m], worker[m])
      BY <2>2, <3>1 DEF LinkInv, Same, TypeInv, WorkerInv, WorkerAt
    <3>2. CASE worker[m].pc = "head" /\ worker'[m].prev = SpineHead(snap.id)
      BY <1>0, <2>2, <3>2, HeadHangs DEF TypeInv, WorkerInv, WorkerAt
    <3> QED
      BY <1>2, <2>1, <3>1, <3>2 DEF MovesTo, Loads, Posts
  <2>4. Hangs(prev, n)'
    BY <1>0, <2>2, <2>3, HangsStays
  <2> QED
    BY <2>2, <2>4 DEF Hangs
<1>3. ASSUME NEW q \in InFlight', q.op = "result"
      PROVE  OwnLink(q.row) /\ Hangs(q.row.prev, Len(log))'
  <2>1. OwnLink(q.row) /\ Hangs(q.row.prev, Len(log)) /\ snap.phase = "Sealed"
    <3>1. CASE q \in InFlight
      BY <1>1, <1>3, <3>1 DEF LinkInv
    <3>2. ASSUME NEW m \in Managers, RunRequest(m, q)
          PROVE  OwnLink(q.row) /\ Hangs(q.row.prev, Len(log)) /\ snap.phase = "Sealed"
      BY <3>2, RunLinked DEF RunRequest, TypeInv, WorkerInv, WorkerAt
    <3> QED
      BY <1>3, <3>1, <3>2, NewRequest
  <2>2. PICK prev, n : prev = q.row.prev /\ n = Len(log')
    OBVIOUS
  <2>3. Hangs(prev, n)'
    BY <1>0, <2>1, <2>2, HangsStays
  <2> QED
    BY <2>1, <2>2, <2>3 DEF Hangs
<1>4. ASSUME NEW i \in DOMAIN log'
      PROVE  OwnLink(log'[i]) /\ Hangs(log[i].prev, i - 1)'
  <2>1. PICK prev, n : prev = log'[i].prev /\ n = i - 1
    OBVIOUS
  <2>2. n \in Nat /\ n <= Len(log')
    BY <1>0, <2>1
  <2>3. OwnLink(log'[i]) /\ Hangs(prev, n) /\ n \in 0..Len(log) /\ snap.phase = "Sealed"
    <3>1. CASE i \in DOMAIN log
      BY <1>0, <2>1, <3>1, LogGrows DEF LinkInv, SpineInv
    <3>2. CASE i \notin DOMAIN log
      <4>1. PICK q \in InFlight : Records(q) /\ log' = Append(log, q.row)
        BY <3>2, LogStep
      <4>2. log'[i] = q.row /\ n = Len(log) /\ q.op = "result"
        BY <1>0, <2>1, <3>2, <4>1 DEF Records
      <4> QED
        BY <1>0, <1>1, <2>1, <4>2 DEF LinkInv
    <3> QED
      BY <3>1, <3>2
  <2>4. Hangs(prev, n)'
    BY <2>2, <2>3, HangsStays
  <2> QED
    BY <2>1, <2>3, <2>4 DEF Hangs
<1> QED
  BY <1>2, <1>3, <1>4 DEF LinkInv, OwnLink, Hangs, Link

\* A reconcile begins: alone, if it finds nothing under way.
LEMMA BeginStep ==
  ASSUME TypeInv, [Next]_vars
  PROVE  /\ alone' => alone
         /\ \A m \in Managers : worker[m].pc = "idle" /\ worker'[m].pc # "idle" /\ alone' =>
              /\ Undisturbed(m) /\ late' = late
              /\ \A v \in Managers \ {m} : worker'[v] = worker[v]
<1>0. worker \in [Managers -> Workers]
  BY DEF TypeInv, WorkerInv
<1> DEFINE Goal == /\ alone' => alone
                   /\ \A m \in Managers : worker[m].pc = "idle" /\ worker'[m].pc # "idle" /\ alone' =>
                        /\ Undisturbed(m) /\ late' = late
                        /\ \A v \in Managers \ {m} : worker'[v] = worker[v]
<1> SUFFICES Goal
  OBVIOUS
<1> HIDE DEF Goal
<1>1. ASSUME alone' = alone, \A m \in Managers : worker[m].pc = "idle" => worker'[m].pc = "idle"
      PROVE  Goal
  BY <1>1 DEF Goal
<1>2. ASSUME NEW m \in Managers, NEW d \in Takes[m], Reconcile(m, d)
      PROVE  Goal
  <2>1. /\ \A v \in Managers \ {m} : worker'[v] = worker[v]
        /\ alone' = (alone /\ Undisturbed(m)) /\ late' = late
    BY <1>0, <1>2 DEF Reconcile
  <2>2. \A v \in Managers : worker[v].pc = "idle" /\ worker'[v].pc # "idle" => v = m
    BY <2>1
  <2>3. alone' => alone /\ Undisturbed(m)
    BY <2>1
  <2> QED
    BY <2>1, <2>2, <2>3 DEF Goal
<1>3. ASSUME NEW m \in Managers, NEW next, worker[m].pc # "idle" \/ next.pc = "idle",
             worker' = [worker EXCEPT ![m] = next], alone' = alone
      PROVE  Goal
  <2>1. \A v \in Managers : worker'[v] = IF v = m THEN next ELSE worker[v]
    BY <1>0, <1>3
  <2> QED
    BY <1>1, <1>3, <2>1
<1>4. ASSUME NEW m, NEW d \in Dominos, NEW new \in Objects, NEW next \in Workers, alone' = alone,
             m \in Managers => worker[m].pc # "idle" \/ next.pc = "idle", SetDomino(m, d, new, next)
      PROVE  Goal
  <2>1. \A v \in Managers \ {m} : worker'[v].pc = worker[v].pc
    BY <1>0, <1>4, UpdateDomino, AgedFields DEF TypeInv
  <2>2. m \in Managers => worker'[m] = next
    BY <1>4, UpdateDomino DEF TypeInv
  <2> QED
    BY <1>1, <1>4, <2>1, <2>2
<1>5. ASSUME NEW m \in Managers, NEW d \in Dominos, NEW p \in Phases, NEW next \in Workers,
             alone' = alone, worker[m].pc # "idle" \/ next.pc = "idle", SetPhase(m, d, p, next)
      PROVE  Goal
  <2>1. [domino[d] EXCEPT !.phase = p] \in Objects
    BY PhaseTyped DEF TypeInv, DominoTypes
  <2> QED
    BY <1>4, <1>5, <2>1 DEF SetPhase
<1>6. ASSUME NEW m \in Managers, worker[m].pc # "idle", fail(m) \/ Conflict(m), alone' = alone
      PROVE  Goal
  <2>1. worker[m].d \in Dominos /\ "Error" \in Phases
    BY <1>6 DEF TypeInv, WorkerInv, WorkerAt, Phases
  <2> QED
    BY <1>3, <1>5, <1>6, <2>1, IdleTyped DEF fail, Conflict
<1>7. ASSUME NEW m \in Managers, NEW d \in Takes[m], Postpone(m, d)
      PROVE  Goal
  <2>1. {"Unsealed", "Parked"} \subseteq Phases /\ d \in Dominos
    BY StepwiseAssumption DEF Phases
  <2> QED
    BY <1>5, <1>7, <2>1, IdleTyped DEF Postpone
<1>8. ASSUME NEW m \in Managers, Work(m)
      PROVE  Goal
  <2>1. worker[m].pc # "idle" /\ alone' = alone /\ worker[m].d \in Dominos
    BY <1>8 DEF Work, CheckDependency, LoadOutput, MarkRunning, ReadHead, Reuse, Execute,
                CannotRun, Report, TypeInv, WorkerInv, WorkerAt
  <2>2. CASE fail(m) \/ Conflict(m)
    BY <1>6, <2>1, <2>2
  <2>3. CASE \E p \in Phases, next \in Workers : SetPhase(m, worker[m].d, p, next)
    BY <1>5, <2>1, <2>3
  <2>4. CASE \E next : worker' = [worker EXCEPT ![m] = next]
    BY <1>3, <2>1, <2>4
  <2>5. CASE CheckDependency(m) \/ MarkRunning(m)
    <3>1. "Waiting" \in Phases /\ "Running" \in Phases /\ [worker[m] EXCEPT !.pc = "head"] \in Workers
      BY <1>0, PcWorker DEF Phases
    <3>2. CASE worker' = [worker EXCEPT ![m].pc = "output"]
      BY <2>4, <3>2
    <3> QED
      BY <2>2, <2>3, <2>5, <3>1, <3>2, IdleTyped DEF CheckDependency, MarkRunning
  <2>6. CASE LoadOutput(m) \/ ReadHead(m) \/ Reuse(m) \/ Execute(m) \/ CannotRun(m)
    BY <2>2, <2>4, <2>6 DEF LoadOutput, ReadHead, Reuse, Execute, CannotRun, Post
  <2>7. CASE Report(m)
    <3>1. CASE worker[m].pc = "saved" /\ worker[m].fresh
      <4>1. SetDomino(m, worker[m].d, ReportedObject(m), IdleWorker)
        BY <2>7, <3>1 DEF Report, ReportedObject
      <4>2. ReportedObject(m) \in Objects
        BY <3>1, ReportedFields DEF TypeInv
      <4> QED
        BY <1>4, <2>1, <4>1, <4>2, IdleTyped
    <3> QED
      BY <2>2, <2>7, <3>1 DEF Report
  <2> QED
    BY <1>8, <2>5, <2>6, <2>7 DEF Work
<1>9. ASSUME worker' = worker, alone' = alone
      PROVE  Goal
  BY <1>1, <1>9
<1>10. CASE Serve
  BY <1>3, <1>9, <1>10 DEF Serve, ServeSnapshot, ServeResult, ServeLate
<1>11. CASE ServiceCrash
  BY <1>1, <1>11, CrashedWorkers DEF ServiceCrash, Fault, TypeInv
<1>12. CASE Faults
  <2>1. ASSUME NEW m \in Managers, ResultTimeout(m) \/ ResultWriteFails(m)
        PROVE  Goal
    BY <1>3, <2>1 DEF ResultTimeout, ResultWriteFails, Fault
  <2>2. ASSUME NEW m \in Managers, ManagerCrash(m)
        PROVE  Goal
    BY <1>3, <2>2, IdleTyped DEF ManagerCrash, Fault
  <2>3. ASSUME NEW m \in Managers, CallFails(m)
        PROVE  Goal
    BY <1>6, <2>3 DEF CallFails, Fault
  <2>4. ASSUME NEW m \in Managers, ReadNotFound(m)
        PROVE  Goal
    BY <1>3, <2>4 DEF ReadNotFound
  <2> QED
    BY <1>9, <1>11, <1>12, <2>1, <2>2, <2>3, <2>4 DEF Faults, SealTimeout, SealWriteFails, Fault
<1>13. ASSUME NEW d \in Dominos, EditDomino(d)
       PROVE  Goal
  <2>1. PICK c \in CommandEdits : SetDomino(Absent, d, EditedObject(d, c), IdleWorker)
    BY <1>13 DEF EditDomino, EditedObject
  <2>2. EditedObject(d, c) \in Objects /\ Absent \notin Managers
    BY EditedFields, StepwiseAssumption DEF TypeInv
  <2> QED
    BY <1>4, <1>13, <2>1, <2>2, IdleTyped DEF EditDomino
<1>14. CASE \E m \in Steady : Seal(m)
  BY <1>9, <1>14 DEF Seal, SourceNotReady, SealToBackend, SealReplied
<1>15. CASE Users
  BY <1>9, <1>13, <1>15 DEF Users, WriteSource
<1>16. CASE UNCHANGED vars
  BY <1>9, <1>16 DEF vars
<1> QED
  BY <1>2, <1>7, <1>8, <1>10, <1>12, <1>14, <1>15, <1>16 DEF Next, Start

\* The result of m is given up.
GivesUp(m, r) ==
  /\ worker[m].pc = "posted" /\ worker'[m].pc \in {"idle", "refused"}
  /\ r = [at |-> events, req |-> ResultRequest(m)]

LEMMA LateResultStep ==
  ASSUME TypeInv, [Next]_vars, NEW r \in late', r.req.op = "result"
  PROVE  r \in late \/ \E m \in Managers : GivesUp(m, r)
<1>0. worker \in [Managers -> Workers]
  BY DEF TypeInv, WorkerInv
<1>1. CASE late' \subseteq late
  BY <1>1
<1>2. ASSUME NEW m \in Managers, ResultTimeout(m)
      PROVE  r \in late \/ GivesUp(m, r)
  <2>1. worker'[m].pc = "refused" /\ worker[m].pc = "posted"
    BY <1>0, <1>2 DEF ResultTimeout, Workers
  <2> QED
    BY <1>2, <2>1 DEF ResultTimeout, GivesUp
<1>3. ASSUME NEW m \in Managers, ManagerCrash(m)
      PROVE  r \in late \/ GivesUp(m, r)
  <2>1. worker'[m].pc = "idle"
    BY <1>0, <1>3, IdleTyped DEF ManagerCrash
  <2>2. r \in late \/ (worker[m].pc = "posted" /\ r = [at |-> events, req |-> ResultRequest(m)])
    BY <1>3 DEF ManagerCrash, GivenUp, SealRequest
  <2> QED
    BY <2>1, <2>2 DEF GivesUp
<1>4. ASSUME NEW m \in Managers, SealTimeout(m)
      PROVE  r \in late
  BY <1>4 DEF SealTimeout, SealRequest
<1>5. CASE Serve
  BY <1>1, <1>5 DEF Serve, ServeSnapshot, ServeResult, ServeLate
<1>6. CASE Faults
  BY <1>1, <1>2, <1>3, <1>4, <1>6 DEF Faults, CallFails, ReadNotFound, SealWriteFails,
                             ResultWriteFails, ServiceCrash
<1>7. CASE Users
  BY <1>1, <1>7 DEF Users, EditDomino, WriteSource
<1>8. CASE \E m \in Steady : Seal(m)
  BY <1>1, <1>8 DEF Seal, SourceNotReady, SealToBackend, SealReplied
<1>9. CASE \E m \in Managers : Work(m) \/ \E d \in Takes[m] : Start(m, d)
  BY <1>1, <1>9 DEF Work, Start, Postpone, Reconcile, CheckDependency, LoadOutput, MarkRunning,
              ReadHead, Reuse, Execute, CannotRun, Report
<1>10. CASE UNCHANGED vars
  BY <1>1, <1>10 DEF vars
<1> QED
  BY <1>5, <1>6, <1>7, <1>8, <1>9, <1>10 DEF Next

\* The log grows by the result of a reconcile, or by a late one.
LogsOf(m) ==
  /\ worker[m].pc = "posted" /\ worker'[m].pc = "saved"
  /\ log' = Append(log, worker[m].row)

LogsLate(r) ==
  /\ r.req.op = "result" /\ worker' = worker /\ late' = late \ {r}
  /\ log' = Append(log, r.req.row)

LEMMA LogSource ==
  ASSUME TypeInv, [Next]_vars
  PROVE  log' = log \/ (\E m \in Managers : LogsOf(m)) \/ \E r \in late : LogsLate(r)
<1>0. worker \in [Managers -> Workers]
  BY DEF TypeInv, WorkerInv
<1>1. CASE UNCHANGED fileVars
  BY <1>1 DEF fileVars
<1>2. ASSUME NEW m \in Managers, ServeResult(m)
      PROVE  log' = log \/ LogsOf(m)
  <2>1. CASE Accepted(ResultRequest(m)) /\ worker' = [worker EXCEPT ![m].pc = "saved"]
    <3>1. log' = Append(log, worker[m].row)
      BY <2>1 DEF Accepted, ResultRequest, SaveResult
    <3>2. worker'[m].pc = "saved" /\ worker[m].pc = "posted"
      BY <1>0, <1>2, <2>1 DEF ServeResult, Workers
    <3> QED
      BY <3>1, <3>2 DEF LogsOf
  <2> QED
    BY <1>2, <2>1 DEF ServeResult, Refused, fileVars
<1>3. ASSUME NEW r \in late, ServeLate(r)
      PROVE  log' = log \/ LogsLate(r)
  <2>1. r.req \in Requests
    BY DEF TypeInv, LateInv
  <2>2. CASE r.req.op = "snapshot"
    BY <1>3, <2>2 DEF ServeLate, Accepted, Refused, SaveSnapshot, fileVars
  <2>3. CASE r.req.op = "result"
    BY <1>3, <2>3 DEF ServeLate, Accepted, Refused, SaveResult, LogsLate, fileVars
  <2> QED
    BY <2>1, <2>2, <2>3 DEF Requests
<1>4. ASSUME NEW m \in Managers, ServeSnapshot(m)
      PROVE  log' = log
  BY <1>4 DEF ServeSnapshot, SealRequest, Accepted, Refused, SaveSnapshot, fileVars
<1>5. ASSUME NEW q, Cut(q)
      PROVE  log' = log
  BY <1>5 DEF Cut, CutSnapshot, CutResult
<1>6. CASE Faults
  BY <1>1, <1>5, <1>6 DEF Faults, SealTimeout, ResultTimeout, ManagerCrash, CallFails,
                ReadNotFound, SealWriteFails, ResultWriteFails, ServiceCrash
<1>7. CASE Users
  BY <1>1, <1>7 DEF Users, EditDomino, WriteSource
<1>8. CASE \E m \in Steady : Seal(m)
  BY <1>1, <1>8 DEF Seal, SourceNotReady, SealToBackend, SealReplied
<1>9. CASE \E m \in Managers : Work(m) \/ \E d \in Takes[m] : Start(m, d)
  BY <1>1, <1>9 DEF Work, Start, Postpone, Reconcile, CheckDependency, LoadOutput, MarkRunning,
              ReadHead, Reuse, Execute, CannotRun, Report
<1>10. CASE UNCHANGED vars
  BY <1>1, <1>10 DEF vars
<1> QED
  BY <1>2, <1>3, <1>4, <1>6, <1>7, <1>8, <1>9, <1>10 DEF Next, Serve

LEMMA AloneStep ==
  ASSUME TypeInv, MemoInv, SpineInv, LinkInv, alone => AloneInv, alone', [Next]_vars
  PROVE  AloneInv'
<1>0. AloneInv /\ log \in Seq(Rows) /\ log' \in Seq(Rows)
  BY BeginStep, LogGrows DEF TypeInv, FileTypes
<1>1. \A m \in Managers : MovesTo(m, worker'[m], log')
  BY WorkersMove DEF WorkerStep
<1>2. ASSUME NEW m \in Managers, NEW v \in Managers, worker'[m].pc # "idle", worker'[v].pc # "idle"
      PROVE  m = v
  BY <1>0, <1>2, BeginStep DEF AloneInv, Undisturbed, Others
<1>3. ASSUME NEW r \in late', r.req.op = "result", NEW m \in Managers
      PROVE  worker'[m].pc \in {"idle", "refused"}
  <2>1. CASE worker[m].pc = "idle" /\ worker'[m].pc # "idle"
    BY <1>3, <2>1, BeginStep DEF Undisturbed
  <2>2. CASE r \in late
    <3>1. worker[m].pc \in {"idle", "refused"}
      BY <1>0, <1>3, <2>2 DEF AloneInv
    <3> QED
      BY <1>1, <2>1, <3>1 DEF MovesTo, Loads, Posts
  <2>3. ASSUME NEW v \in Managers, GivesUp(v, r)
        PROVE  worker'[m].pc \in {"idle", "refused"}
    <3>1. CASE m = v
      BY <2>3, <3>1 DEF GivesUp
    <3>2. CASE m # v
      <4>1. worker[m].pc = "idle"
        BY <1>0, <2>3, <3>2 DEF AloneInv, GivesUp
      <4> QED
        BY <2>1, <4>1
    <3> QED
      BY <3>1, <3>2
  <2> QED
    BY <1>3, <2>2, <2>3, LateResultStep
<1>4. ASSUME NEW p \in late', NEW q \in late', p.req.op = "result", q.req.op = "result"
      PROVE  p = q
  <2>1. \A r \in late : r.req.op = "result" => \A m \in Managers : worker[m].pc # "posted"
    BY <1>0 DEF AloneInv
  <2>2. CASE p \in late /\ q \in late
    BY <1>0, <1>4, <2>2 DEF AloneInv
  <2>3. ASSUME NEW m \in Managers, NEW v \in Managers, GivesUp(m, p), GivesUp(v, q)
        PROVE  p = q
    <3>1. m = v
      BY <1>0, <2>3 DEF AloneInv, GivesUp
    <3> QED
      BY <2>3, <3>1 DEF GivesUp
  <2> QED
    BY <1>4, <2>1, <2>2, <2>3, LateResultStep DEF GivesUp
<1>5. ASSUME NEW m \in Managers, worker[m].pc \in {"head", "run"}
      PROVE  log' = log /\ snap' = snap
  <2>1. \A v \in Managers : worker[v].pc # "posted"
    BY <1>0, <1>5 DEF AloneInv
  <2>2. \A r \in late : r.req.op # "result"
    BY <1>0, <1>5 DEF AloneInv
  <2>3. snap.phase = "Sealed"
    BY <1>5 DEF TypeInv, WorkerInv, WorkerAt
  <2> QED
    BY <2>1, <2>2, <2>3, LogSource, SnapTyped DEF LogsOf, LogsLate
<1>6. ASSUME NEW m \in Managers, worker'[m].pc = "run"
      PROVE  (worker[m].prev = SpineHead(snap.id))'
  <2>1. worker[m].pc \in {"head", "run"} /\ worker'[m].prev = SpineHead(snap.id)
    BY <1>0, <1>1, <1>6 DEF MovesTo, Loads, Posts, Same, AloneInv
  <2> QED
    BY <1>5, <2>1 DEF SpineHead, Root
\* Once a result is logged, none is in flight.
<1>7. ASSUME NEW q \in InFlight', q.op = "result"
      PROVE  log' = log
  <2>1. \/ \E r \in late' : r.req.op = "result"
        \/ \E m \in Managers : worker'[m].pc = "posted"
    BY <1>7 DEF InFlight, SealRequest
  <2>2. ASSUME NEW m \in Managers, LogsOf(m) PROVE FALSE
    BY <1>2, <1>3, <2>1, <2>2 DEF LogsOf
  <2>3. ASSUME NEW r \in late, LogsLate(r) PROVE FALSE
    BY <1>0, <2>1, <2>3 DEF LogsLate, AloneInv
  <2> QED
    BY <2>2, <2>3, LogSource
<1>8. ASSUME NEW q \in InFlight', q.op = "result"
      PROVE  q.row.prev = SpineHead(snap.id)'
  <2>1. q.row.prev = SpineHead(snap.id) /\ snap.phase = "Sealed"
    <3>1. CASE q \in InFlight
      BY <1>0, <1>8, <3>1, FlightTyped DEF AloneInv, TypeInv, RequestAt
    <3>2. ASSUME NEW m \in Managers, RunRequest(m, q)
          PROVE  q.row.prev = SpineHead(snap.id) /\ snap.phase = "Sealed"
      BY <1>0, <3>2, RunLinked DEF RunRequest, AloneInv, TypeInv, WorkerInv, WorkerAt
    <3> QED
      BY <1>8, <3>1, <3>2, NewRequest
  <2> QED
    BY <1>7, <1>8, <2>1, SnapTyped DEF SpineHead, Root
<1>9. ASSUME NEW i \in DOMAIN log'
      PROVE  log'[i].prev = IF i = 1 THEN Root(snap'.id) ELSE log'[i - 1].link
  <2>1. CASE i \in DOMAIN log
    <3>1. log'[i] = log[i] /\ snap' = snap
      BY <2>1, LogGrows, SnapTyped DEF SpineInv
    <3>2. i # 1 => log'[i - 1] = log[i - 1]
      BY <1>0, <2>1, LogGrows
    <3> QED
      BY <1>0, <2>1, <3>1, <3>2 DEF AloneInv
  <2>2. CASE i \notin DOMAIN log
    <3>1. PICK q \in InFlight : Records(q) /\ log' = Append(log, q.row)
      BY <2>2, LogStep
    <3>2. log'[i] = q.row /\ i = Len(log) + 1 /\ q.op = "result"
      BY <1>0, <2>2, <3>1 DEF Records
    <3>3. q.row.prev = SpineHead(snap.id) /\ snap' = snap
      BY <1>0, <3>2, FlightTyped, SnapTyped DEF AloneInv, TypeInv, RequestAt
    <3>4. i # 1 => log # <<>> /\ log'[i - 1] = log[Len(log)]
      BY <1>0, <3>1, <3>2 DEF Records
    <3>5. i = 1 => log = <<>>
      BY <1>0, <3>2
    <3> QED
      BY <3>2, <3>3, <3>4, <3>5 DEF SpineHead
  <2> QED
    BY <2>1, <2>2
<1> QED
  BY <1>2, <1>3, <1>4, <1>6, <1>8, <1>9 DEF AloneInv, Root

(* Every row hangs on the identity or on an earlier row by its own hash,   *)
(* and the rows are one chain while no two reconciles overlap and no       *)
(* result is served late (SpineHead, attachSpine, SaveResult; M20).        *)
THEOREM SpineIsLinked == Spec => []SpineLinked
<1> DEFINE Inv == LinkInv /\ (alone => AloneInv)
           Base == TypeInv /\ MemoInv /\ SpineInv
<1>1. ASSUME Init PROVE Inv
  <2>1. \A m \in Managers : worker[m].pc = "idle"
    BY <1>1, IdleTyped DEF Init
  <2>2. log = <<>> /\ late = {}
    BY <1>1 DEF Init, InitFiles
  <2>3. \A q \in InFlight : q.op # "result"
    BY <2>1, <2>2 DEF InFlight, SealRequest
  <2>4. DOMAIN log = {}
    BY <2>2
  <2>5. LinkInv
    BY <2>1, <2>3, <2>4 DEF LinkInv
  <2>6. AloneInv
    BY <2>1, <2>2, <2>3, <2>4 DEF AloneInv
  <2> QED
    BY <2>5, <2>6
<1>2. Base /\ Inv /\ [Next]_vars => Inv'
  BY LinkStep, AloneStep
<1>3. ASSUME TypeInv, Inv PROVE SpineLinked
  <2>1. \A i \in DOMAIN log : OwnLink(log[i]) /\ Hangs(log[i].prev, i - 1)
    BY <1>3 DEF LinkInv
  <2>2. alone => \A i \in DOMAIN log :
          log[i].prev = IF i = 1 THEN Root(snap.id) ELSE log[i - 1].link
    BY <1>3 DEF AloneInv
  <2> QED
    BY <2>1, <2>2 DEF SpineLinked, OwnLink, Hangs
<1>4. Spec => []Base
  BY TypeAlways, MemoAlways, SpineAlways, PTL
<1> QED
  BY <1>1, <1>2, <1>3, <1>4, PTL DEF Spec

-----------------------------------------------------------------------------
(* What FileStoreRefinement gives (WorldlineStoreProofs).                  *)

Promise == INSTANCE WorldlineStoreProofs
             WITH sealed <- {id \in SnapshotIDs : /\ meta[id] = "sealed"
                                                   /\ payload[id] \in JSON
                                                   /\ Parse[payload[id]] = id[2]},
                  results <- memo, Transactional <- FALSE

(* The files, whatever is cut short, given up or served late: one output   *)
(* per memo key, every listed replay row with its memo row and under a     *)
(* snapshot that is sealed and whole, and nothing of it ever taken back.   *)
THEOREM FilesKeepPromise == Spec => []Promise!Consistent /\ Promise!NeverForgets
<1>1. Abstract!Init => Promise!Init
  BY DEF Abstract!Init, Promise!Init
<1>2. [Abstract!Next]_(Abstract!vars) => [Promise!Next]_(Promise!vars)
  BY DEF Abstract!Next, Abstract!vars, Abstract!Seal, Abstract!Record, Abstract!Memoize,
     Promise!Next, Promise!vars, Promise!Seal, Promise!Record, Promise!Memoize
<1>3. Abstract!Spec => Promise!Spec
  BY <1>1, <1>2, PTL DEF Abstract!Spec, Promise!Spec
<1>4. Promise!Spec => []Promise!Consistent /\ Promise!NeverForgets
  BY Promise!StorePromise
<1> QED BY <1>3, <1>4, FileStoreImplements, PTL DEF FileStoreRefinement
=============================================================================
