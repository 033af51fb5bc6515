-------------------------- MODULE ReplicationProofs --------------------------
(***************************************************************************)
(* Proofs about Replication, for any workflows, chains, channels,          *)
(* consumer groups and number of faults.                                   *)
(***************************************************************************)
EXTENDS Replication, SequenceTheorems, FiniteSetTheorems, TLAPS

-----------------------------------------------------------------------------
(* What the two batches are made of.                                       *)

\* A snapshot envelope followed by one result envelope per row of a chain.
LEMMA BatchShape ==
  ASSUME NEW snap \in SnapshotRows, NEW rows \in Seq(ResultRows)
  PROVE  LET batch == <<SnapshotEnvelope(snap)>>
                        \o [k \in DOMAIN rows |-> ResultEnvelope(rows[k])]
         IN  /\ batch \in Seq(Envelopes)
             /\ Len(batch) = Len(rows) + 1
             /\ batch[1] = SnapshotEnvelope(snap)
             /\ \A k \in DOMAIN rows : batch[k + 1] = ResultEnvelope(rows[k])
             /\ \A i \in DOMAIN batch :
                  i = 1 \/ \E k \in DOMAIN rows : batch[i] = ResultEnvelope(rows[k])
<1> DEFINE head == <<SnapshotEnvelope(snap)>>
           tail == [k \in DOMAIN rows |-> ResultEnvelope(rows[k])]
<1>1. head \in Seq(Envelopes) /\ Len(head) = 1 /\ head[1] = SnapshotEnvelope(snap)
  BY DEF SnapshotEnvelope, Envelopes
<1>2. DOMAIN rows = 1..Len(rows) /\ Len(rows) \in Nat
  OBVIOUS
<1>3. \A k \in 1..Len(rows) : ResultEnvelope(rows[k]) \in Envelopes
  BY DEF ResultEnvelope, Envelopes
<1>4. tail \in Seq(Envelopes)
  BY <1>2, <1>3, IsASeq
<1>5. Len(tail) = Len(rows) /\ \A k \in 1..Len(rows) : tail[k] = ResultEnvelope(rows[k])
  BY <1>2
<1> HIDE DEF head, tail
<1>6. /\ head \o tail \in Seq(Envelopes)
      /\ Len(head \o tail) = Len(rows) + 1
      /\ \A i \in 1..(Len(rows) + 1) :
           (head \o tail)[i] = IF i <= 1 THEN head[i] ELSE tail[i - 1]
  BY <1>1, <1>2, <1>4, <1>5, ConcatProperties, SMTT(30)
<1>7. \A k \in 1..Len(rows) : (head \o tail)[k + 1] = ResultEnvelope(rows[k])
  <2> SUFFICES ASSUME NEW k \in 1..Len(rows)
               PROVE  (head \o tail)[k + 1] = ResultEnvelope(rows[k])
    OBVIOUS
  <2>1. k + 1 \in 1..(Len(rows) + 1) /\ ~(k + 1 <= 1) /\ (k + 1) - 1 = k
    BY <1>2
  <2> QED BY <2>1, <1>5, <1>6
<1>8. \A i \in 1..(Len(rows) + 1) :
        i = 1 \/ \E k \in 1..Len(rows) : (head \o tail)[i] = ResultEnvelope(rows[k])
  <2> SUFFICES ASSUME NEW i \in 1..(Len(rows) + 1), i # 1
               PROVE  \E k \in 1..Len(rows) : (head \o tail)[i] = ResultEnvelope(rows[k])
    OBVIOUS
  <2>1. i - 1 \in 1..Len(rows) /\ ~(i <= 1)
    BY <1>2
  <2> QED BY <2>1, <1>5, <1>6
<1>9. (head \o tail)[1] = SnapshotEnvelope(snap)
  BY <1>1, <1>2, <1>6
<1>10. DOMAIN (head \o tail) = 1..(Len(rows) + 1)
  BY <1>6
<1> QED BY <1>2, <1>6, <1>7, <1>8, <1>9, <1>10 DEF head, tail

\* The rows replica.Materialize copies.
Copied(w) == [k \in DOMAIN Rows[w] |-> [Rows[w][k] EXCEPT !.reused = FALSE]]

LEMMA CopiedRows ==
  ASSUME NEW w \in Workflows
  PROVE  /\ Copied(w) \in Seq(ResultRows)
         /\ DOMAIN Copied(w) = DOMAIN Rows[w] /\ Len(Copied(w)) = Len(Rows[w])
         /\ \A k \in DOMAIN Rows[w] :
              /\ Copied(w)[k].domino = Rows[w][k].domino
              /\ Copied(w)[k].input = Rows[w][k].input
              /\ Copied(w)[k].output = Rows[w][k].output
<1>1. Rows[w] \in Seq(ResultRows)
  BY ReplicationAssumption
<1>2. DOMAIN Rows[w] = 1..Len(Rows[w]) /\ Len(Rows[w]) \in Nat
  BY <1>1
<1>3. \A k \in 1..Len(Rows[w]) : Rows[w][k] \in ResultRows
  BY <1>1
<1>4. \A k \in 1..Len(Rows[w]) : [Rows[w][k] EXCEPT !.reused = FALSE] \in ResultRows
  BY <1>3 DEF ResultRows
<1>5. Copied(w) \in Seq(ResultRows)
  BY <1>2, <1>4, IsASeq DEF Copied
<1> QED BY <1>2, <1>3, <1>5 DEF Copied, ResultRows

\* Materialize starts with the snapshot's row alone.
LEMMA SourceBatchShape ==
  /\ SourceBatch \in Seq(Envelopes) /\ SourceBatch # <<>>
  /\ Head(SourceBatch) = SnapshotEnvelope(SourceSnapshot)
<1>1. SnapshotEnvelope(SourceSnapshot) \in Envelopes
  BY ReplicationAssumption DEF SnapshotEnvelope, Envelopes
<1> QED BY <1>1 DEF SourceBatch

LEMMA ExportShape ==
  ASSUME NEW w \in Workflows
  PROVE  /\ ExportFromWorkflow(w) \in Seq(Envelopes)
         /\ \A i \in DOMAIN ExportFromWorkflow(w) :
              \/ ExportFromWorkflow(w)[i] = SnapshotEnvelope(Exported[w])
              \/ \E k \in DOMAIN Rows[w] : ExportFromWorkflow(w)[i] = ResultEnvelope(Rows[w][k])
<1>1. Rows[w] \in Seq(ResultRows) /\ Exported[w] \in SnapshotRows
  BY ReplicationAssumption
<1> QED BY <1>1, BatchShape DEF ExportFromWorkflow

-----------------------------------------------------------------------------
(* Types, and whose reconcile is in progress.                              *)

\* A reconcile belongs to a replica, and copies if that replica is direct.
OwnerInv ==
  session.pc # "idle" =>
    /\ session.of \in Workflows
    /\ replica[session.of] # "None"
    /\ session.pc = "copy" <=> Mode[session.of] = "direct"

\* The log of w's store has a row of w's k-th domino: w's or another run's.
Logged(w, k) ==
  \E v \in Workflows :
    /\ replica[v] # "None" /\ Source[v] = Source[w]
    /\ \E j \in DOMAIN Rows[v] :
         /\ last[Source[w]][Rows[w][k].domino] = Rows[v][j]
         /\ Rows[v][j].domino = Rows[w][k].domino

LastInv ==
  \A w \in Workflows : replica[w] # "None" => \A k \in DOMAIN Rows[w] : Logged(w, k)

TypeInv == TypeOK /\ OwnerInv /\ LastInv

LEMMA IdleTyped == IdleSession \in Sessions
<1>1. [p \in Channels |-> 0] \in Offsets
  BY DEF Offsets
<1> QED BY <1>1 DEF IdleSession, Sessions

LEMMA EndTyped ==
  ASSUME TypeInv, session.pc # "idle", NEW phase \in Phases, EndSession(phase)
  PROVE  /\ replica' \in [Workflows -> Phases] /\ offset' \in [Groups -> Offsets]
         /\ session' \in Sessions /\ OwnerInv'
<1>1. session.of \in Workflows /\ session.pos \in Offsets
  BY DEF TypeInv, TypeOK, OwnerInv, Sessions
<1>2. session' \in Sessions /\ session'.pc = "idle"
  BY IdleTyped DEF EndSession, IdleSession
<1> QED BY <1>1, <1>2 DEF EndSession, TypeInv, TypeOK, Groups, OwnerInv

LEMMA SaveTyped ==
  ASSUME TypeInv, NEW env \in Envelopes, Save(env)
  PROVE  snapshot' \in SnapshotRows \cup {Absent} /\ results' \subseteq ResultRows
BY DEF TypeInv, TypeOK, Save, Envelopes

\* The head of the batch is an envelope, and so is what follows it.
LEMMA BatchHead ==
  ASSUME TypeInv, session.batch # <<>>
  PROVE  Head(session.batch) \in Envelopes /\ Tail(session.batch) \in Seq(Envelopes)
BY HeadTailProperties DEF TypeInv, TypeOK, Sessions

\* The rows Materialize finds in the log.
LEMMA SourceRowsTyped ==
  ASSUME TypeInv, NEW w \in Workflows, replica[w] # "None"
  PROVE  /\ SourceRows(w) \in Seq(Envelopes)
         /\ DOMAIN SourceRows(w) = DOMAIN Rows[w]
<1>1. Rows[w] \in Seq(ResultRows)
  BY ReplicationAssumption
<1>2. DOMAIN Rows[w] = 1..Len(Rows[w]) /\ Len(Rows[w]) \in Nat
  BY <1>1
<1>3. ASSUME NEW k \in DOMAIN Rows[w]
      PROVE  last[Source[w]][Rows[w][k].domino] \in ResultRows
  <2>1. PICK v \in Workflows : \E j \in DOMAIN Rows[v] :
          last[Source[w]][Rows[w][k].domino] = Rows[v][j]
    BY DEF TypeInv, LastInv, Logged
  <2>2. Rows[v] \in Seq(ResultRows)
    BY ReplicationAssumption
  <2> QED BY <2>1, <2>2
<1>4. ASSUME NEW k \in 1..Len(Rows[w])
      PROVE  ResultEnvelope([last[Source[w]][Rows[w][k].domino] EXCEPT !.reused = FALSE]) \in Envelopes
  <2>1. PICK row \in ResultRows : row = last[Source[w]][Rows[w][k].domino]
    BY <1>2, <1>3
  <2>2. [row EXCEPT !.reused = FALSE] \in ResultRows
    BY DEF ResultRows
  <2> QED BY <2>1, <2>2 DEF ResultEnvelope, Envelopes
<1>5. SourceRows(w) \in Seq(Envelopes)
  BY <1>2, <1>4, IsASeq DEF SourceRows
<1> QED BY <1>5 DEF SourceRows

\* A replica that exists stays.
LEMMA NoneGone ==
  ASSUME TypeInv, [Next]_vars, NEW v \in Workflows, replica[v] # "None"
  PROVE  replica'[v] # "None"
<1>1. replica \in [Workflows -> Phases]
  BY DEF TypeInv, TypeOK
<1>2. ASSUME NEW w, NEW phase, phase # "None", replica' = [replica EXCEPT ![w] = phase]
      PROVE  replica'[v] # "None"
  BY <1>1, <1>2
<1>3. ASSUME NEW phase, phase # "None", EndSession(phase)
      PROVE  replica'[v] # "None"
  BY <1>2, <1>3 DEF EndSession
<1>4. CASE replica' = replica
  BY <1>4
<1>5. ASSUME Finish
      PROVE  replica'[v] # "None"
  <2>1. (IF session.pc = "copy" \/ IsComplete THEN "Ready" ELSE "Pending") # "None"
    OBVIOUS
  <2> QED BY <1>3, <1>5, <2>1 DEF Finish
<1>6. ASSUME Fault
      PROVE  replica'[v] # "None"
  <2>1. (IF Mode[session.of] = "cdc" THEN "Pending" ELSE "Error") # "None"
    OBVIOUS
  <2> QED BY <1>2, <1>4, <1>6, <2>1 DEF Fault
<1> QED BY <1>2, <1>3, <1>4, <1>5, <1>6
        DEF Next, SessionStep, Complete, Publish, PublishFails, Begin, ConsumeMemory,
            ReadMessage, ConsumeEnds, ConsumeNothing, Apply, Copy, Restart, vars

\* Only the end of a run writes to the source.
LEMMA LastFixed ==
  ASSUME [Next]_vars, ~ \E w \in Workflows : Complete(w)
  PROVE  last' = last /\ \A v \in Workflows : replica[v] = "None" /\ TypeInv => replica'[v] = "None"
<1>1. last' = last
  BY DEF Next, SessionStep, Publish, PublishFails, Begin, ConsumeMemory, ReadMessage,
     ConsumeEnds, ConsumeNothing, Apply, Copy, Finish, Fault, Restart, vars
<1>2. ASSUME NEW v \in Workflows, replica[v] = "None", TypeInv
      PROVE  replica'[v] = "None"
  <2>1. replica \in [Workflows -> Phases]
    BY <1>2 DEF TypeInv, TypeOK
  <2>2. ASSUME NEW w, w # v, NEW phase, replica' = [replica EXCEPT ![w] = phase]
        PROVE  replica'[v] = "None"
    BY <1>2, <2>1, <2>2
  <2>3. session.pc # "idle" => session.of # v
    BY <1>2 DEF TypeInv, OwnerInv
  <2>4. CASE replica' = replica
    BY <1>2, <2>4
  <2>5. ASSUME NEW w \in Workflows, Begin(w)
        PROVE  replica'[v] = "None"
    BY <1>2, <2>2, <2>5 DEF Begin
  <2> QED BY <2>2, <2>3, <2>4, <2>5
          DEF Next, SessionStep, Publish, PublishFails, ConsumeMemory, ReadMessage, ConsumeEnds,
              ConsumeNothing, Apply, Copy, Finish, Fault, Restart, EndSession, vars
<1> QED BY <1>1, <1>2

LEMMA LastStep ==
  ASSUME TypeInv, [Next]_vars
  PROVE  LastInv'
<1> SUFFICES ASSUME NEW w \in Workflows, replica'[w] # "None", NEW k \in DOMAIN Rows[w]
             PROVE  Logged(w, k)'
  BY DEF LastInv
<1>1. CASE ~ \E u \in Workflows : Complete(u)
  <2>1. last' = last /\ replica[w] # "None"
    BY <1>1, LastFixed
  <2> QED BY <2>1, NoneGone DEF TypeInv, LastInv, Logged
<1>2. ASSUME NEW u \in Workflows, Complete(u)
      PROVE  Logged(w, k)'
  <2> DEFINE d == Rows[w][k].domino
  <2>1. d \in Dominos /\ Source[w] \in Stores /\ Source[u] \in Stores
    BY DEF Dominos, Names, Stores
  <2>2. replica'[u] # "None" /\ \A v \in Workflows : v # u => replica'[v] = replica[v]
    BY <1>2 DEF Complete, TypeInv, TypeOK
  <2>3. last' = [last EXCEPT ![Source[u]] =
                  [e \in Dominos |-> IF e \in Names(u) THEN RowOf(u, e) ELSE @[e]]]
    BY <1>2 DEF Complete
  <2>4. last \in [Stores -> [Dominos -> ResultRows \cup {Absent}]]
    BY DEF TypeInv, TypeOK
  <2>5. CASE Source[w] = Source[u] /\ d \in Names(u)
    <3>1. last'[Source[w]][d] = RowOf(u, d)
      BY <2>1, <2>3, <2>4, <2>5
    <3>2. PICK j \in DOMAIN Rows[u] : RowOf(u, d) = Rows[u][j] /\ Rows[u][j].domino = d
      BY <2>5 DEF RowOf, Names
    <3> QED BY <2>2, <2>5, <3>1, <3>2 DEF Logged
  <2>6. CASE ~(Source[w] = Source[u] /\ d \in Names(u))
    <3>1. last'[Source[w]][d] = last[Source[w]][d]
      BY <2>1, <2>3, <2>4, <2>6
    <3>2. w # u
      BY <2>6 DEF Names
    <3>3. Logged(w, k)
      BY <2>2, <3>2 DEF TypeInv, LastInv
    <3> QED BY <3>1, <3>3, NoneGone DEF Logged
  <2> QED BY <2>5, <2>6
<1> QED BY <1>1, <1>2

\* A partial commit leaves offsets.
LEMMA CommitTyped ==
  ASSUME TypeInv, session.pc # "idle", CommitSome
  PROVE  offset' \in [Groups -> Offsets]
<1> DEFINE g == Group[session.of]
<1>1. session.pos \in Offsets /\ g \in Groups
  BY DEF TypeInv, TypeOK, OwnerInv, Sessions, Groups
<1>2. PICK c \in [Channels -> UNION {offset[g][p]..session.pos[p] : p \in Channels}] :
        offset' = [offset EXCEPT ![g] = c]
  BY DEF CommitSome
<1>3. \A p \in Channels : offset[g][p] \in Nat /\ session.pos[p] \in Nat
  BY <1>1 DEF TypeInv, TypeOK, Offsets
<1>4. UNION {offset[g][p]..session.pos[p] : p \in Channels} \subseteq Nat
  BY <1>3
<1>5. c \in Offsets
  BY <1>4 DEF Offsets
<1> QED BY <1>2, <1>5 DEF TypeInv, TypeOK

LEMMA TypeStep ==
  ASSUME TypeInv, [Next]_vars
  PROVE  TypeInv'
<1>0. LastInv'
  BY LastStep
<1> SUFFICES TypeOK' /\ OwnerInv'
  BY <1>0 DEF TypeInv
<1>n. \A v \in Workflows : replica[v] # "None" => replica'[v] # "None"
  BY NoneGone
<1> USE DEF TypeInv
<1>1. ASSUME NEW w \in Workflows, Complete(w)
      PROVE  TypeOK' /\ OwnerInv'
  <2>1. unpublished' \in [Workflows -> Seq(Envelopes)]
    <3>1. <<>> \in Seq(Envelopes) /\ ExportFromWorkflow(w) \in Seq(Envelopes)
      BY ExportShape
    <3>2. (IF Mode[w] = "cdc" THEN ExportFromWorkflow(w) ELSE <<>>) \in Seq(Envelopes)
      BY <3>1
    <3> QED BY <1>1, <3>2 DEF Complete, TypeOK
  <2>2. last' \in [Stores -> [Dominos -> ResultRows \cup {Absent}]]
    <3>1. ASSUME NEW d \in Names(w)
          PROVE  RowOf(w, d) \in ResultRows
      <4>1. Rows[w] \in Seq(ResultRows)
        BY ReplicationAssumption
      <4>2. PICK k \in DOMAIN Rows[w] : RowOf(w, d) = Rows[w][k]
        BY DEF RowOf, Names
      <4> QED BY <4>1, <4>2
    <3>2. Source[w] \in Stores
      BY DEF Stores
    <3> QED BY <1>1, <3>1, <3>2 DEF Complete, TypeOK
  <2>3. OwnerInv'
    BY <1>1, <1>n DEF Complete, OwnerInv
  <2> QED BY <1>1, <2>1, <2>2, <2>3 DEF Complete, TypeOK, Phases
<1>2. ASSUME NEW w \in Workflows, Publish(w)
      PROVE  TypeOK' /\ OwnerInv'
  <2>1. Head(unpublished[w]) \in Envelopes /\ Tail(unpublished[w]) \in Seq(Envelopes)
    BY <1>2, HeadTailProperties DEF Publish, TypeOK
  <2>2. \A p \in Channels : Append(log[p], Head(unpublished[w])) \in Seq(Envelopes)
    BY <2>1, AppendProperties DEF TypeOK
  <2>3. log' \in [Channels -> Seq(Envelopes)]
    BY <1>2, <2>2 DEF Publish, TypeOK
  <2>4. unpublished' \in [Workflows -> Seq(Envelopes)]
    BY <1>2, <2>1 DEF Publish, TypeOK
  <2> QED BY <1>2, <2>3, <2>4 DEF Publish, TypeOK, OwnerInv
<1>3. ASSUME NEW w \in Workflows, PublishFails(w)
      PROVE  TypeOK' /\ OwnerInv'
  <2>1. unpublished' \in [Workflows -> Seq(Envelopes)]
    <3>1. <<>> \in Seq(Envelopes)
      OBVIOUS
    <3> QED BY <1>3, <3>1 DEF PublishFails, TypeOK
  <2> QED BY <1>3, <2>1 DEF PublishFails, TypeOK, OwnerInv
<1>4. ASSUME NEW w \in Workflows, Begin(w)
      PROVE  TypeOK' /\ OwnerInv'
  <2> DEFINE batch == IF Mode[w] = "cdc" THEN <<>> ELSE SourceBatch
             pos == offset[Group[w]]
  <2>1. batch \in Seq(Envelopes)
    <3>1. <<>> \in Seq(Envelopes) /\ SourceBatch \in Seq(Envelopes)
      BY SourceBatchShape
    <3> QED BY <3>1
  <2>2. pos \in Offsets
    BY DEF TypeOK, Groups
  <2>3. Mode[w] \in {"direct", "cdc"}
    BY ReplicationAssumption
  <2>4. session' = [of |-> w, pc |-> IF Mode[w] = "cdc" THEN "consume" ELSE "copy",
                    pos |-> pos, batch |-> batch, snapshotApplied |-> FALSE, dominos |-> {}]
    BY <1>4 DEF Begin
  <2> HIDE DEF batch, pos
  <2>5. session' \in Sessions
    BY <2>1, <2>2, <2>3, <2>4 DEF Sessions
  <2>6. OwnerInv'
    BY <1>4, <1>n, <2>3, <2>4 DEF OwnerInv, Begin
  <2> QED BY <1>4, <2>5, <2>6 DEF Begin, TypeOK, Phases
<1>5. ASSUME ConsumeMemory
      PROVE  TypeOK' /\ OwnerInv'
  <2>1. log[Bus] \in Seq(Envelopes)
    BY ReplicationAssumption DEF TypeOK
  <2>2. session' \in Sessions /\ OwnerInv'
    BY <1>5, <2>1 DEF ConsumeMemory, TypeOK, Sessions, OwnerInv
  <2> QED BY <1>5, <2>2 DEF ConsumeMemory, TypeOK
<1>6. ASSUME NEW p \in Channels, ReadMessage(p)
      PROVE  TypeOK' /\ OwnerInv'
  <2> DEFINE next == session.pos[p] + 1
             batch == Append(session.batch, log[p][next])
             pos == [session.pos EXCEPT ![p] = @ + 1]
  <2>1. session.pos \in Offsets /\ session.batch \in Seq(Envelopes)
    BY DEF TypeOK, Sessions
  <2>2. next \in 1..Len(log[p]) /\ log[p] \in Seq(Envelopes)
    BY <1>6, <2>1 DEF ReadMessage, TypeOK, Offsets
  <2>3. log[p][next] \in Envelopes
    BY <2>2
  <2>4. batch \in Seq(Envelopes)
    BY <2>1, <2>3, AppendProperties
  <2>5. pos \in Offsets
    BY <2>1 DEF Offsets
  <2>6. session' = [session EXCEPT !.pos = pos, !.batch = batch]
    BY <1>6, <2>1 DEF ReadMessage, TypeOK, Sessions
  <2> HIDE DEF pos, batch, next
  <2>7. session' \in Sessions /\ OwnerInv'
    BY <1>6, <2>4, <2>5, <2>6 DEF TypeOK, Sessions, OwnerInv, ReadMessage
  <2> QED BY <1>6, <2>7 DEF ReadMessage, TypeOK
<1>7. ASSUME ConsumeEnds
      PROVE  TypeOK' /\ OwnerInv'
  <2>1. session' \in Sessions /\ OwnerInv'
    BY <1>7 DEF ConsumeEnds, TypeOK, Sessions, OwnerInv
  <2> QED BY <1>7, <2>1 DEF ConsumeEnds, TypeOK
<1>8. ASSUME ConsumeNothing
      PROVE  TypeOK' /\ OwnerInv'
  BY <1>8, EndTyped DEF ConsumeNothing, Phases, TypeOK
<1>9. ASSUME Apply
      PROVE  TypeOK' /\ OwnerInv'
  <2> DEFINE env == Head(session.batch)
  <2>1. env \in Envelopes /\ Tail(session.batch) \in Seq(Envelopes)
    BY <1>9, BatchHead DEF Apply
  <2>2. CASE Orphan(env) \/ Refused(env)
    <3>1. EndSession("Pending") /\ UNCHANGED <<snapshot, results, unpublished, log, faults>>
      BY <1>9, <2>2 DEF Apply
    <3> QED BY <1>9, <3>1, EndTyped DEF Apply, Phases, TypeOK
  <2>3. CASE ~(Orphan(env) \/ Refused(env))
    <3> DEFINE dominos == IF env.table = "domino_results"
                            THEN session.dominos \cup {env.row.domino} ELSE session.dominos
    <3>1. dominos \in SUBSET STRING
      BY <2>1 DEF TypeOK, Sessions, Envelopes, ResultRows
    <3>2. session' = [session EXCEPT !.batch = Tail(session.batch),
                        !.snapshotApplied = session.snapshotApplied \/ env.table = "snapshots",
                        !.dominos = dominos]
      BY <1>9, <2>3 DEF Apply, TypeOK, Sessions
    <3>3. Save(env) /\ UNCHANGED <<last, offset, replica, unpublished, log, faults>>
      BY <1>9, <2>3 DEF Apply
    <3> HIDE DEF dominos, env
    <3>4. (session.snapshotApplied \/ env.table = "snapshots") \in BOOLEAN
      OBVIOUS
    <3>5. session' \in Sessions /\ OwnerInv'
      BY <1>9, <2>1, <3>1, <3>2, <3>3, <3>4 DEF TypeOK, Sessions, OwnerInv, Apply
    <3> QED BY <2>1, <3>3, <3>5, SaveTyped DEF TypeOK
  <2> QED BY <2>2, <2>3
<1>10. ASSUME Copy
       PROVE  TypeOK' /\ OwnerInv'
  <2> DEFINE env == Head(session.batch)
  <2>1. env \in Envelopes /\ Tail(session.batch) \in Seq(Envelopes)
    BY <1>10, BatchHead DEF Copy
  <2>2. CASE Refused(env)
    <3>1. EndSession("Error") /\ UNCHANGED <<snapshot, results, unpublished, log, faults>>
      BY <1>10, <2>2 DEF Copy
    <3> QED BY <1>10, <3>1, EndTyped DEF Copy, Phases, TypeOK
  <2>3. CASE ~Refused(env)
    <3> DEFINE rest == IF env.table = "snapshots" THEN SourceRows(session.of)
                                                  ELSE Tail(session.batch)
    <3>0. rest \in Seq(Envelopes)
      BY <1>10, <2>1, SourceRowsTyped DEF Copy, OwnerInv
    <3>1. session' = [session EXCEPT !.batch = rest]
      BY <1>10, <2>3 DEF Copy, TypeOK, Sessions
    <3>2. Save(env) /\ UNCHANGED <<last, offset, replica, unpublished, log, faults>>
      BY <1>10, <2>3 DEF Copy
    <3> HIDE DEF rest
    <3>3. session' \in Sessions /\ OwnerInv'
      BY <1>10, <3>0, <3>1, <3>2 DEF TypeOK, Sessions, OwnerInv, Copy
    <3> QED BY <2>1, <3>2, <3>3, SaveTyped DEF TypeOK
  <2> QED BY <2>2, <2>3
<1>11. ASSUME Finish
       PROVE  TypeOK' /\ OwnerInv'
  <2>1. (IF session.pc = "copy" \/ IsComplete THEN "Ready" ELSE "Pending") \in Phases
    BY DEF Phases
  <2> QED BY <1>11, <2>1, EndTyped DEF Finish, TypeOK
<1>12. ASSUME Fault
       PROVE  TypeOK' /\ OwnerInv'
  <2>1. offset' \in [Groups -> Offsets]
    BY <1>12, CommitTyped DEF Fault
  <2>2. replica' \in [Workflows -> Phases]
    BY <1>12 DEF Fault, TypeOK, OwnerInv, Phases
  <2>3. session' \in Sessions /\ session'.pc = "idle"
    BY <1>12, IdleTyped DEF Fault, IdleSession
  <2> QED BY <1>12, <2>1, <2>2, <2>3 DEF Fault, TypeOK, OwnerInv
<1>14. ASSUME Restart
       PROVE  TypeOK' /\ OwnerInv'
  <2>1. offset' \in [Groups -> Offsets]
    BY <1>14, CommitTyped DEF Restart, TypeOK
  <2>2. session' \in Sessions /\ session'.pc = "idle"
    BY <1>14, IdleTyped DEF Restart, IdleSession
  <2>3. <<>> \in Seq(Envelopes)
    OBVIOUS
  <2>4. unpublished' \in [Workflows -> Seq(Envelopes)] /\ log' \in [Channels -> Seq(Envelopes)]
    BY <1>14, <2>3 DEF Restart, TypeOK
  <2> QED BY <1>14, <2>1, <2>2, <2>4 DEF Restart, TypeOK, OwnerInv
<1>13. CASE UNCHANGED vars
  BY <1>13 DEF vars, TypeOK, OwnerInv
<1> QED BY <1>1, <1>2, <1>3, <1>4, <1>5, <1>6, <1>7, <1>8, <1>9, <1>10, <1>11, <1>12, <1>13, <1>14
        DEF Next, SessionStep

LEMMA TypeInit == Init => TypeInv
<1> SUFFICES ASSUME Init
             PROVE  TypeInv
  OBVIOUS
<1>1. <<>> \in Seq(Envelopes) /\ [p \in Channels |-> 0] \in Offsets
  BY DEF Offsets
<1>2. session \in Sessions /\ session.pc = "idle"
  BY IdleTyped DEF Init, IdleSession
<1> QED BY <1>1, <1>2 DEF Init, TypeInv, TypeOK, OwnerInv, LastInv, Phases

(* Rows, envelopes, offsets and phases keep their types, for any constants *)
(* that satisfy ReplicationAssumption.                                     *)
THEOREM TypeCorrect == Spec => []TypeOK
<1>1. TypeInv => TypeOK
  BY DEF TypeInv
<1> QED BY <1>1, TypeInit, TypeStep, PTL DEF Spec

-----------------------------------------------------------------------------
(* Orphans and direct copies.                                              *)

(* A direct copy has its snapshot envelope in front of it, or the source's *)
(* row is in the target and each result of the chain is in front of it or  *)
(* in the target, if the log had no other run's.                           *)
CopyInv ==
  session.pc = "copy" =>
    \/ session.batch = SourceBatch
    \/ /\ snapshot = SourceSnapshot
       /\ OwnFeed(session.of) =>
            \A k \in DOMAIN Rows[session.of] :
              \/ Holds(session.of, k)
              \/ \E i \in DOMAIN session.batch :
                   session.batch[i] = ResultEnvelope(Copied(session.of)[k])

\* What the target holds it keeps.
Kept == /\ snapshot # Absent => snapshot' = snapshot
        /\ results \subseteq results'

LEMMA KeptHolds ==
  ASSUME Kept, NEW w, NEW k, Holds(w, k)
  PROVE  Holds(w, k)'
BY DEF Kept, Holds

LEMMA SaveKept ==
  ASSUME NEW env \in Envelopes, ~Refused(env), Save(env)
  PROVE  Kept
BY DEF Envelopes, Refused, refuseSealedMutation, Save, Kept

LEMMA StepKept ==
  ASSUME TypeInv, [Next]_vars
  PROVE  Kept
<1>1. ASSUME Apply
      PROVE  Kept
  BY <1>1, BatchHead, SaveKept DEF Apply, Kept
<1>2. ASSUME Copy
      PROVE  Kept
  BY <1>2, BatchHead, SaveKept DEF Copy, Kept
<1>3. CASE UNCHANGED <<snapshot, results>>
  BY <1>3 DEF Kept
<1> QED BY <1>1, <1>2, <1>3
        DEF Next, SessionStep, Complete, Publish, PublishFails, Begin, ConsumeMemory,
            ReadMessage, ConsumeEnds, ConsumeNothing, Finish, Fault, Restart, vars

LEMMA SourcePresent == SourceSnapshot # Absent
BY ReplicationAssumption

\* A feed that is w's own was so before.
LEMMA OwnFeedBefore ==
  ASSUME TypeInv, [Next]_vars, NEW w \in Workflows, OwnFeed(w)'
  PROVE  OwnFeed(w)
BY NoneGone DEF OwnFeed, Agrees, Covered, Same

\* The rows in the log are w's own if no other run logged another result.
LEMMA OwnRowsLogged ==
  ASSUME TypeInv, NEW w \in Workflows, replica[w] # "None", Mode[w] = "direct", OwnFeed(w),
         NEW k \in DOMAIN Rows[w]
  PROVE  k \in DOMAIN SourceRows(w) /\ SourceRows(w)[k] = ResultEnvelope(Copied(w)[k])
<1> DEFINE row == last[Source[w]][Rows[w][k].domino]
<1>1. PICK v \in Workflows :
        /\ replica[v] # "None" /\ Source[v] = Source[w]
        /\ \E j \in DOMAIN Rows[v] : row = Rows[v][j] /\ Rows[v][j].domino = Rows[w][k].domino
  BY DEF TypeInv, LastInv, Logged
<1>2. PICK j \in DOMAIN Rows[v] : row = Rows[v][j] /\ Rows[v][j].domino = Rows[w][k].domino
  BY <1>1
<1>3. Same(v, j, w, k)
  BY <1>1, <1>2 DEF OwnFeed, Agrees
<1>4. Rows[v][j] \in ResultRows /\ Rows[w][k] \in ResultRows
  <2>1. Rows[v] \in Seq(ResultRows) /\ Rows[w] \in Seq(ResultRows)
    BY ReplicationAssumption
  <2> QED BY <2>1
<1>5. [Rows[v][j] EXCEPT !.reused = FALSE] = [Rows[w][k] EXCEPT !.reused = FALSE]
  BY <1>3, <1>4 DEF Same, ResultRows
<1>6. SourceRows(w)[k] = ResultEnvelope([row EXCEPT !.reused = FALSE]) /\ k \in DOMAIN SourceRows(w)
  BY DEF SourceRows
<1>7. Copied(w)[k] = [Rows[w][k] EXCEPT !.reused = FALSE]
  BY DEF Copied
<1> QED BY <1>2, <1>5, <1>6, <1>7

LEMMA CopyStep ==
  ASSUME TypeInv, CopyInv, [Next]_vars
  PROVE  CopyInv'
<1>1. ASSUME NEW w \in Workflows, Begin(w)
      PROVE  CopyInv'
  BY <1>1 DEF Begin, CopyInv
<1>2. ASSUME Copy
      PROVE  CopyInv'
  <2>1. PICK w \in Workflows : w = session.of /\ replica[w] # "None" /\ Mode[w] = "direct"
    BY <1>2 DEF Copy, TypeInv, OwnerInv
  <2>2. PICK env \in Envelopes : env = Head(session.batch)
    BY <1>2, BatchHead DEF Copy
  <2>3. CASE Refused(env)
    <3>1. session'.pc = "idle"
      BY <1>2, <2>2, <2>3 DEF Copy, EndSession, IdleSession
    <3> QED BY <3>1 DEF CopyInv
  <2>4. CASE ~Refused(env)
    <3>1. Save(env) /\ Kept
      BY <1>2, <2>2, <2>4, SaveKept DEF Copy
    <3>2. /\ session'.of = w
          /\ session'.batch = IF env.table = "snapshots" THEN SourceRows(w) ELSE Tail(session.batch)
      BY <1>2, <2>1, <2>2, <2>4 DEF Copy, TypeInv, TypeOK, Sessions
    <3>3. session.batch = SourceBatch => env = SnapshotEnvelope(SourceSnapshot)
      BY <2>2, SourceBatchShape
    <3>4. snapshot' = SourceSnapshot
      <4>1. CASE session.batch = SourceBatch
        BY <3>1, <3>3, <4>1 DEF Save, SnapshotEnvelope
      <4>2. CASE snapshot = SourceSnapshot
        BY <3>1, <4>2, SourcePresent DEF Kept
      <4> QED BY <1>2, <4>1, <4>2 DEF CopyInv, Copy
    <3>5. ASSUME OwnFeed(w), NEW k \in DOMAIN Rows[w]
          PROVE  \/ Holds(w, k)'
                 \/ \E i \in DOMAIN session'.batch :
                      session'.batch[i] = ResultEnvelope(Copied(w)[k])
      <4>1. CASE env.table = "snapshots"
        BY <2>1, <3>2, <3>5, <4>1, OwnRowsLogged
      <4>2. CASE env.table # "snapshots" /\ Holds(w, k)
        BY <3>1, <4>2, KeptHolds
      <4>3. CASE /\ env.table # "snapshots"
                 /\ \E i \in DOMAIN session.batch : session.batch[i] = ResultEnvelope(Copied(w)[k])
        <5>1. PICK i \in DOMAIN session.batch : session.batch[i] = ResultEnvelope(Copied(w)[k])
          BY <4>3
        <5>2. session.batch \in Seq(Envelopes) /\ session.batch # <<>>
          BY <1>2 DEF Copy, TypeInv, TypeOK, Sessions
        <5>3. CASE i = 1
          <6>1. env = ResultEnvelope(Copied(w)[k])
            BY <2>2, <5>1, <5>2, <5>3
          <6>2. Copied(w)[k] \in results'
            BY <3>1, <6>1 DEF Save, ResultEnvelope
          <6> QED BY <6>2, CopiedRows DEF Holds
        <5>4. CASE i # 1
          <6>1. i - 1 \in DOMAIN Tail(session.batch) /\ Tail(session.batch)[i - 1] = session.batch[i]
            BY <5>2, <5>4, HeadTailProperties
          <6> QED BY <3>2, <4>3, <5>1, <6>1
        <5> QED BY <5>3, <5>4
      <4>4. env.table # "snapshots" => session.batch # SourceBatch
        BY <3>3 DEF SnapshotEnvelope
      <4> QED BY <1>2, <2>1, <3>5, <4>1, <4>2, <4>3, <4>4 DEF CopyInv, Copy
    <3> QED BY <2>1, <3>2, <3>4, <3>5, OwnFeedBefore DEF CopyInv
  <2> QED BY <2>3, <2>4
<1>3. CASE session'.pc # "copy"
  BY <1>3 DEF CopyInv
<1>4. CASE UNCHANGED <<session, snapshot, results>>
  <2>1. session.pc = "copy" => session.of \in Workflows
    BY DEF TypeInv, OwnerInv
  <2> QED BY <1>4, <2>1, OwnFeedBefore DEF CopyInv, Holds
<1>5. ASSUME Apply
      PROVE  session'.pc # "copy"
  <2>1. CASE Orphan(Head(session.batch)) \/ Refused(Head(session.batch))
    BY <1>5, <2>1 DEF Apply, EndSession, IdleSession
  <2>2. CASE ~(Orphan(Head(session.batch)) \/ Refused(Head(session.batch)))
    BY <1>5, <2>2 DEF Apply, TypeInv, TypeOK, Sessions
  <2> QED BY <2>1, <2>2
<1>6. ASSUME ConsumeMemory \/ (\E p \in Channels : ReadMessage(p)) \/ ConsumeEnds
             \/ ConsumeNothing \/ Finish \/ Fault \/ Restart
      PROVE  session'.pc # "copy"
  <2>1. CASE ConsumeMemory \/ ConsumeEnds
    BY <2>1 DEF ConsumeMemory, ConsumeEnds, TypeInv, TypeOK, Sessions
  <2>2. ASSUME NEW p \in Channels, ReadMessage(p)
        PROVE  session'.pc # "copy"
    BY <2>2 DEF ReadMessage, TypeInv, TypeOK, Sessions
  <2>3. CASE ConsumeNothing \/ Finish \/ Fault \/ Restart
    BY <2>3 DEF ConsumeNothing, Finish, Fault, Restart, EndSession, IdleSession
  <2> QED BY <1>6, <2>1, <2>2, <2>3
<1>7. ASSUME NEW w \in Workflows, Complete(w) \/ Publish(w) \/ PublishFails(w)
      PROVE  UNCHANGED <<session, snapshot, results>>
  BY <1>7 DEF Complete, Publish, PublishFails
<1> QED BY <1>1, <1>2, <1>3, <1>4, <1>5, <1>6, <1>7 DEF Next, SessionStep, vars

LEMMA OrphanStep ==
  ASSUME TypeInv, CopyInv, NoOrphans, [Next]_vars
  PROVE  NoOrphans'
<1>1. Kept
  BY StepKept
<1>2. ASSUME Apply
      PROVE  NoOrphans'
  BY <1>1, <1>2 DEF Apply, Orphan, Save, NoOrphans, Kept
<1>3. ASSUME Copy
      PROVE  NoOrphans'
  <2> DEFINE env == Head(session.batch)
  <2>1. CASE snapshot = SourceSnapshot
    BY <1>1, <2>1, SourcePresent DEF NoOrphans, Kept
  <2>2. CASE session.batch = SourceBatch
    <3>1. env = SnapshotEnvelope(SourceSnapshot)
      BY <1>3, <2>2, SourceBatchShape DEF Copy
    <3> QED BY <1>1, <1>3, <3>1 DEF Copy, Save, SnapshotEnvelope, NoOrphans, Kept
  <2> QED BY <1>3, <2>1, <2>2 DEF CopyInv, Copy
<1>4. CASE UNCHANGED <<snapshot, results>>
  BY <1>4 DEF NoOrphans
<1> QED BY <1>2, <1>3, <1>4
        DEF Next, SessionStep, Complete, Publish, PublishFails, Begin, ConsumeMemory,
            ReadMessage, ConsumeEnds, ConsumeNothing, Finish, Fault, Restart, vars

(* A replica becomes Ready only at the end of a reconcile of its own that  *)
(* copied everything or counted enough.                                    *)
LEMMA BecomesReady ==
  ASSUME TypeInv, [Next]_vars, NEW w \in Workflows, replica'[w] = "Ready"
  PROVE  \/ replica[w] = "Ready"
         \/ /\ Finish /\ session.of = w
            /\ session.pc = "copy" \/ (session.pc = "apply" /\ IsComplete)
<1> SUFFICES ASSUME replica[w] # "Ready"
             PROVE  /\ Finish /\ session.of = w
                    /\ session.pc = "copy" \/ (session.pc = "apply" /\ IsComplete)
  OBVIOUS
<1>1. replica \in [Workflows -> Phases]
  BY DEF TypeInv, TypeOK
<1>2. ASSUME NEW v \in Workflows, NEW phase, phase # "Ready",
             replica' = [replica EXCEPT ![v] = phase]
      PROVE  FALSE
  BY <1>1, <1>2
<1>3. replica' # replica
  OBVIOUS
<1>4. ASSUME Finish
      PROVE  session.of = w /\ (session.pc = "copy" \/ (session.pc = "apply" /\ IsComplete))
  <2>1. session.of \in Workflows
    BY <1>4 DEF Finish, TypeInv, OwnerInv
  <2> QED BY <1>1, <1>4, <2>1 DEF Finish, EndSession
<1>5. ASSUME session.pc # "idle"
      PROVE  session.of \in Workflows
  BY <1>5 DEF TypeInv, OwnerInv
<1>6. ~ \E v \in Workflows : Complete(v) \/ Publish(v) \/ PublishFails(v) \/ Begin(v)
  BY <1>2, <1>3 DEF Complete, Publish, PublishFails, Begin
<1>7. ~ (ConsumeMemory \/ (\E p \in Channels : ReadMessage(p)) \/ ConsumeEnds)
  BY <1>3 DEF ConsumeMemory, ReadMessage, ConsumeEnds
<1>8. ~ ConsumeNothing
  BY <1>2, <1>5 DEF ConsumeNothing, EndSession
<1>9. ~ Apply
  BY <1>2, <1>3, <1>5 DEF Apply, EndSession
<1>10. ~ Copy
  BY <1>2, <1>3, <1>5 DEF Copy, EndSession
<1>11. ~ Fault /\ ~ Restart
  BY <1>2, <1>3, <1>5 DEF Fault, Restart
<1> QED BY <1>3, <1>4, <1>6, <1>7, <1>8, <1>9, <1>10, <1>11 DEF Next, SessionStep, vars

LEMMA DirectStep ==
  ASSUME TypeInv, CopyInv, DirectFaithful, [Next]_vars
  PROVE  DirectFaithful'
<1> SUFFICES ASSUME NEW w \in Workflows, replica'[w] = "Ready", Mode[w] = "direct"
             PROVE  snapshot' = SourceSnapshot
  BY DEF DirectFaithful
<1>1. snapshot = SourceSnapshot
  <2>1. CASE replica[w] = "Ready"
    BY <2>1 DEF DirectFaithful
  <2>2. CASE Finish /\ session.of = w
    <3>1. session.pc = "copy" /\ session.batch = <<>>
      BY <2>2 DEF Finish, TypeInv, OwnerInv
    <3>2. SourceBatch # <<>>
      BY SourceBatchShape
    <3> QED BY <2>2, <3>1, <3>2 DEF CopyInv
  <2> QED BY <2>1, <2>2, BecomesReady
<1> QED BY <1>1, StepKept, SourcePresent DEF Kept

(* docs/theory/formal-model.md: no domino result in the target without its *)
(* sealed parent snapshot, for any reordering, redelivery and fault.       *)
THEOREM NoOrphanResults == Spec => []NoOrphans
<1> DEFINE Inv == TypeInv /\ CopyInv /\ NoOrphans
<1>1. Init => Inv
  BY TypeInit DEF Init, CopyInv, NoOrphans, IdleSession
<1>2. Inv /\ [Next]_vars => Inv'
  BY TypeStep, CopyStep, OrphanStep
<1> QED BY <1>1, <1>2, PTL DEF Spec

(* A Ready direct replica serves the row the source sealed, whatever cdc   *)
(* replicas wrote to the same store.                                       *)
THEOREM DirectReplicasFaithful == Spec => []DirectFaithful
<1> DEFINE Inv == TypeInv /\ CopyInv /\ DirectFaithful
<1>1. Init => Inv
  BY TypeInit DEF Init, CopyInv, DirectFaithful, IdleSession
<1>2. Inv /\ [Next]_vars => Inv'
  BY TypeStep, CopyStep, DirectStep
<1> QED BY <1>1, <1>2, PTL DEF Spec

-----------------------------------------------------------------------------
(* The target is a worldline store.                                        *)

\* What a saved envelope is to the abstract store.
LEMMA SaveRefines ==
  ASSUME TypeInv, NoOrphans, NEW env \in Envelopes, ~Refused(env), Save(env),
         env.table = "domino_results" => snapshot # Absent
  PROVE  [Target!Next]_(Target!vars)
<1>1. CASE env.table = "snapshots"
  <2>1. snapshot' = env.row /\ results' = results
    BY <1>1 DEF Save
  <2>2. env.row # Absent
    BY <1>1, ReplicationAssumption DEF Envelopes
  <2>3. CASE snapshot = Absent
    <3>1. Memo = {} /\ Memo' = {}
      BY <2>1, <2>3 DEF NoOrphans, Memo
    <3>2. Target!Seal(env.row)
      BY <2>1, <2>2, <2>3, <3>1 DEF Target!Seal
    <3> QED BY <2>1, <2>2, <3>2 DEF Target!Next
  <2>4. CASE snapshot # Absent
    <3>1. snapshot' = snapshot
      BY <1>1, <2>1, <2>4 DEF Refused, refuseSealedMutation
    <3> QED BY <2>1, <3>1 DEF Target!vars, Memo
  <2> QED BY <2>3, <2>4
<1>2. CASE env.table = "domino_results"
  <2> DEFINE row == env.row
             new == [key |-> <<snapshot, row.domino, row.input>>, output |-> row.output]
  <2>1. snapshot' = snapshot /\ results' = results \cup {row} /\ snapshot # Absent
    BY <1>2 DEF Save
  <2>2. CASE row.reused
    <3>1. {r \in results' : ~r.reused} = {r \in results : ~r.reused}
      BY <2>1, <2>2
    <3> QED BY <2>1, <3>1 DEF Target!vars, Memo
  <2>3. CASE ~row.reused
    <3>1. {r \in results' : ~r.reused} = {r \in results : ~r.reused} \cup {row}
      BY <2>1, <2>3
    <3>2. Memo' = Memo \cup {new}
      BY <2>1, <3>1 DEF Memo
    <3>3. CASE new \in Memo
      BY <2>1, <3>2, <3>3 DEF Target!vars
    <3>4. CASE new \notin Memo
      <4>1. ASSUME NEW m \in Memo, m.key = new.key
            PROVE  FALSE
        <5>1. PICK r \in results :
                ~r.reused /\ m = [key |-> <<snapshot, r.domino, r.input>>, output |-> r.output]
          BY DEF Memo
        <5>2. r.domino = row.domino /\ r.input = row.input
          BY <4>1, <5>1
        <5>3. r.output = row.output
          BY <1>2, <2>3, <5>1, <5>2 DEF Refused, refuseMemoConflict
        <5> QED BY <3>4, <5>1, <5>2, <5>3
      <4>2. new.key[1] = snapshot
        OBVIOUS
      <4> HIDE DEF new
      <4>3. Target!Memoize(new)
        BY <2>1, <3>2, <4>1, <4>2 DEF Target!Memoize
      <4> QED BY <3>2, <4>3 DEF Target!Next
    <3> QED BY <3>3, <3>4
  <2> QED BY <2>2, <2>3
<1> QED BY <1>1, <1>2 DEF Envelopes

LEMMA TargetStep ==
  ASSUME TypeInv, CopyInv, NoOrphans, [Next]_vars
  PROVE  [Target!Next]_(Target!vars)
<1>1. CASE UNCHANGED <<snapshot, results>>
  BY <1>1 DEF Target!vars, Memo
<1>2. ASSUME Apply
      PROVE  [Target!Next]_(Target!vars)
  <2>1. PICK env \in Envelopes : env = Head(session.batch)
    BY <1>2, BatchHead DEF Apply
  <2>2. \/ UNCHANGED <<snapshot, results>>
        \/ Save(env) /\ ~Orphan(env) /\ ~Refused(env)
    BY <1>2, <2>1 DEF Apply
  <2> QED BY <1>1, <2>2, SaveRefines DEF Orphan
<1>3. ASSUME Copy
      PROVE  [Target!Next]_(Target!vars)
  <2>1. PICK env \in Envelopes : env = Head(session.batch)
    BY <1>3, BatchHead DEF Copy
  <2>2. UNCHANGED <<snapshot, results>> \/ (Save(env) /\ ~Refused(env))
    BY <1>3, <2>1 DEF Copy
  <2>3. env.table = "domino_results" => snapshot # Absent
    <3>1. CASE snapshot = SourceSnapshot
      BY <3>1, SourcePresent
    <3>2. CASE session.batch = SourceBatch
      <4>1. env = SnapshotEnvelope(SourceSnapshot)
        BY <2>1, <3>2, SourceBatchShape
      <4> QED BY <4>1 DEF SnapshotEnvelope
    <3> QED BY <1>3, <3>1, <3>2 DEF CopyInv, Copy
  <2> QED BY <1>1, <2>2, <2>3, SaveRefines
<1> QED BY <1>1, <1>2, <1>3
        DEF Next, SessionStep, Complete, Publish, PublishFails, Begin, ConsumeMemory,
            ReadMessage, ConsumeEnds, ConsumeNothing, Finish, Fault, Restart, vars

(* Whatever replicates into it, in whatever order and with whatever        *)
(* faults, the target implements the abstract store: its snapshot is       *)
(* written once, and a memo key keeps its first output.                    *)
THEOREM TargetImplements == Spec => TargetRefinement
<1> DEFINE Inv == TypeInv /\ CopyInv /\ NoOrphans
<1>1. Init => Inv
  BY TypeInit DEF Init, CopyInv, NoOrphans, IdleSession
<1>2. Inv /\ [Next]_vars => Inv'
  BY TypeStep, CopyStep, OrphanStep
<1>3. Init => Target!Init
  BY DEF Init, Target!Init, Memo
<1>4. Inv /\ [Next]_vars => [Target!Next]_(Target!vars)
  BY TargetStep
<1> QED BY <1>1, <1>2, <1>3, <1>4, PTL DEF Spec, Target!Spec, TargetRefinement

-----------------------------------------------------------------------------
(* Completeness of Ready replicas.                                         *)

\* A result envelope carries a row of the run of some cdc workflow that uses
\* transport t.
FromRun(env, t) ==
  env.table = "domino_results" =>
    \E w \in Workflows :
      Mode[w] = "cdc" /\ Transport[w] = t /\ \E k \in DOMAIN Rows[w] : env.row = Rows[w][k]

AllFromRuns(seq, t) == \A i \in DOMAIN seq : FromRun(seq[i], t)

TransportOf(p) == IF p = Bus THEN "memory" ELSE "kafka"

\* So do those on their way to a replica.
FeedInv ==
  /\ \A w \in Workflows : AllFromRuns(unpublished[w], Transport[w])
  /\ \A p \in Channels : AllFromRuns(log[p], TransportOf(p))
  /\ session.pc \in {"consume", "apply"} => AllFromRuns(session.batch, Transport[session.of])

LEMMA FromRunsTail ==
  ASSUME NEW s \in Seq(Envelopes), s # <<>>, NEW t, AllFromRuns(s, t)
  PROVE  FromRun(Head(s), t) /\ AllFromRuns(Tail(s), t)
<1>1. Head(s) = s[1] /\ 1 \in DOMAIN s
  OBVIOUS
<1>2. \A i \in DOMAIN Tail(s) : i + 1 \in DOMAIN s /\ Tail(s)[i] = s[i + 1]
  BY HeadTailProperties
<1> QED BY <1>1, <1>2 DEF AllFromRuns

LEMMA FromRunsAppend ==
  ASSUME NEW s \in Seq(Envelopes), NEW env \in Envelopes, NEW t,
         AllFromRuns(s, t), FromRun(env, t)
  PROVE  AllFromRuns(Append(s, env), t)
<1>1. \A i \in DOMAIN Append(s, env) :
        (i \in DOMAIN s /\ Append(s, env)[i] = s[i]) \/ Append(s, env)[i] = env
  BY AppendProperties
<1> QED BY <1>1 DEF AllFromRuns

LEMMA ExportFromRuns ==
  ASSUME NEW w \in Workflows, Mode[w] = "cdc"
  PROVE  AllFromRuns(ExportFromWorkflow(w), Transport[w])
BY ExportShape DEF AllFromRuns, FromRun, SnapshotEnvelope, ResultEnvelope

LEMMA FeedStep ==
  ASSUME TypeInv, FeedInv, [Next]_vars
  PROVE  FeedInv'
<1>0. \A t : AllFromRuns(<<>>, t)
  BY DEF AllFromRuns
<1>1. ASSUME NEW w \in Workflows, Complete(w)
      PROVE  FeedInv'
  <2>1. AllFromRuns(IF Mode[w] = "cdc" THEN ExportFromWorkflow(w) ELSE <<>>, Transport[w])
    BY <1>0, ExportFromRuns
  <2>2. \A v \in Workflows : AllFromRuns(unpublished'[v], Transport[v])
    BY <1>1, <2>1 DEF Complete, FeedInv, TypeInv, TypeOK
  <2> QED BY <1>1, <2>2 DEF Complete, FeedInv
<1>2. ASSUME NEW w \in Workflows, Publish(w)
      PROVE  FeedInv'
  <2>1. unpublished[w] \in Seq(Envelopes) /\ unpublished[w] # <<>>
    BY <1>2 DEF Publish, TypeInv, TypeOK
  <2>2. /\ FromRun(Head(unpublished[w]), Transport[w])
        /\ AllFromRuns(Tail(unpublished[w]), Transport[w])
    BY <2>1, FromRunsTail DEF FeedInv
  <2>3. Head(unpublished[w]) \in Envelopes
    BY <2>1, HeadTailProperties
  <2>4. PICK p \in Channels :
          Carries(p, w) /\ log' = [log EXCEPT ![p] = Append(@, Head(unpublished[w]))]
    BY <1>2 DEF Publish
  <2>5. \A q \in Channels : AllFromRuns(log'[q], TransportOf(q))
    <3>1. TransportOf(p) = Transport[w]
      BY <2>4, ReplicationAssumption DEF Carries, TransportOf
    <3>2. AllFromRuns(Append(log[p], Head(unpublished[w])), TransportOf(p))
      BY <2>2, <2>3, <3>1, FromRunsAppend DEF FeedInv, TypeInv, TypeOK
    <3> QED BY <2>4, <3>2 DEF FeedInv, TypeInv, TypeOK
  <2>6. \A v \in Workflows : AllFromRuns(unpublished'[v], Transport[v])
    BY <1>2, <2>2 DEF Publish, FeedInv, TypeInv, TypeOK
  <2> QED BY <1>2, <2>5, <2>6 DEF Publish, FeedInv
<1>3. ASSUME NEW w \in Workflows, PublishFails(w)
      PROVE  FeedInv'
  <2>1. \A v \in Workflows : AllFromRuns(unpublished'[v], Transport[v])
    BY <1>0, <1>3 DEF PublishFails, FeedInv, TypeInv, TypeOK
  <2> QED BY <1>3, <2>1 DEF PublishFails, FeedInv
<1>4. ASSUME NEW w \in Workflows, Begin(w)
      PROVE  FeedInv'
  <2>1. CASE Mode[w] = "cdc"
    <3>1. session'.batch = <<>>
      BY <1>4, <2>1 DEF Begin
    <3> QED BY <1>0, <1>4, <3>1 DEF Begin, FeedInv
  <2>2. CASE Mode[w] # "cdc"
    <3>1. session'.pc = "copy"
      BY <1>4, <2>2 DEF Begin
    <3> QED BY <1>4, <3>1 DEF Begin, FeedInv
  <2> QED BY <2>1, <2>2
<1>5. ASSUME ConsumeMemory
      PROVE  FeedInv'
  <2>1. session'.batch = log[Bus] /\ session'.of = session.of
    BY <1>5 DEF ConsumeMemory, TypeInv, TypeOK, Sessions
  <2>2. Bus \in Channels /\ TransportOf(Bus) = Transport[session.of]
    BY <1>5, ReplicationAssumption DEF ConsumeMemory, TransportOf
  <2> QED BY <1>5, <2>1, <2>2 DEF ConsumeMemory, FeedInv
<1>6. ASSUME NEW p \in Channels, ReadMessage(p)
      PROVE  FeedInv'
  <2> DEFINE next == session.pos[p] + 1
  <2>1. log[p] \in Seq(Envelopes) /\ next \in DOMAIN log[p] /\ session.batch \in Seq(Envelopes)
    BY <1>6 DEF ReadMessage, TypeInv, TypeOK, Sessions, Offsets
  <2>2. log[p][next] \in Envelopes /\ FromRun(log[p][next], Transport[session.of])
    BY <1>6, <2>1 DEF FeedInv, AllFromRuns, ReadMessage, TransportOf
  <2>3. AllFromRuns(session.batch, Transport[session.of])
    BY <1>6 DEF ReadMessage, FeedInv
  <2>4. AllFromRuns(Append(session.batch, log[p][next]), Transport[session.of])
    BY <2>1, <2>2, <2>3, FromRunsAppend
  <2>5. session'.batch = Append(session.batch, log[p][next]) /\ session'.of = session.of
    BY <1>6 DEF ReadMessage, TypeInv, TypeOK, Sessions
  <2> QED BY <1>6, <2>4, <2>5 DEF ReadMessage, FeedInv
<1>7. ASSUME ConsumeEnds
      PROVE  FeedInv'
  <2>1. session'.batch = session.batch /\ session'.of = session.of
    BY <1>7 DEF ConsumeEnds, TypeInv, TypeOK, Sessions
  <2> QED BY <1>7, <2>1 DEF ConsumeEnds, FeedInv
<1>8. ASSUME NEW phase, EndSession(phase), UNCHANGED <<unpublished, log>>
      PROVE  FeedInv'
  BY <1>8 DEF EndSession, IdleSession, FeedInv
<1>9. ASSUME Apply
      PROVE  FeedInv'
  <2>1. CASE Orphan(Head(session.batch)) \/ Refused(Head(session.batch))
    BY <1>8, <1>9, <2>1 DEF Apply
  <2>2. CASE ~(Orphan(Head(session.batch)) \/ Refused(Head(session.batch)))
    <3>1. session'.batch = Tail(session.batch) /\ session'.of = session.of
      BY <1>9, <2>2 DEF Apply, TypeInv, TypeOK, Sessions
    <3>2. AllFromRuns(Tail(session.batch), Transport[session.of])
      BY <1>9, FromRunsTail DEF Apply, FeedInv, TypeInv, TypeOK, Sessions
    <3> QED BY <1>9, <3>1, <3>2 DEF Apply, FeedInv
  <2> QED BY <2>1, <2>2
<1>10. ASSUME Copy
       PROVE  FeedInv'
  <2>1. CASE Refused(Head(session.batch))
    BY <1>8, <1>10, <2>1 DEF Copy
  <2>2. CASE ~Refused(Head(session.batch))
    <3>1. session'.pc = "copy"
      BY <1>10, <2>2 DEF Copy, TypeInv, TypeOK, Sessions
    <3> QED BY <1>10, <3>1 DEF Copy, FeedInv
  <2> QED BY <2>1, <2>2
<1>11. ASSUME ConsumeNothing \/ Finish
       PROVE  FeedInv'
  BY <1>8, <1>11 DEF ConsumeNothing, Finish
<1>12. ASSUME Fault
       PROVE  FeedInv'
  BY <1>12 DEF Fault, IdleSession, FeedInv
<1>14. ASSUME Restart
       PROVE  FeedInv'
  <2>1. \A p \in Channels : AllFromRuns(log'[p], TransportOf(p))
    BY <1>0, <1>14 DEF Restart, FeedInv, TypeInv, TypeOK
  <2>2. \A v \in Workflows : AllFromRuns(unpublished'[v], Transport[v])
    BY <1>0, <1>14 DEF Restart
  <2> QED BY <1>14, <2>1, <2>2 DEF Restart, IdleSession, FeedInv
<1>13. CASE UNCHANGED vars
  BY <1>13 DEF vars, FeedInv
<1> QED BY <1>1, <1>2, <1>3, <1>4, <1>5, <1>6, <1>7, <1>9, <1>10, <1>11, <1>12, <1>13, <1>14
        DEF Next, SessionStep

(* What SyncProgress counts is in the target: the snapshot, and for every  *)
(* domino counted a result, with that domino, of a cdc workflow that uses  *)
(* the same transport.                                                     *)
Counted(d, t) ==
  \E w \in Workflows :
    Mode[w] = "cdc" /\ Transport[w] = t /\ \E k \in DOMAIN Rows[w] : d = Rows[w][k].domino /\ Holds(w, k)

ProgressInv ==
  session.pc \in {"consume", "apply"} =>
    /\ session.snapshotApplied => snapshot # Absent
    /\ \A d \in session.dominos : Counted(d, Transport[session.of])

LEMMA KeptCounted ==
  ASSUME Kept, NEW d, NEW t, Counted(d, t)
  PROVE  Counted(d, t)'
BY KeptHolds DEF Counted

LEMMA ProgressStep ==
  ASSUME TypeInv, FeedInv, ProgressInv, [Next]_vars
  PROVE  ProgressInv'
<1>0. Kept
  BY StepKept
<1>1. ASSUME session'.snapshotApplied = session.snapshotApplied,
             session'.dominos = session.dominos, session'.of = session.of,
             session'.pc \in {"consume", "apply"} => session.pc \in {"consume", "apply"}
      PROVE  ProgressInv'
  BY <1>0, <1>1, KeptCounted DEF ProgressInv, Kept
<1>2. ASSUME session'.pc \notin {"consume", "apply"}
      PROVE  ProgressInv'
  BY <1>2 DEF ProgressInv
<1>3. ASSUME NEW w \in Workflows, Begin(w)
      PROVE  ProgressInv'
  BY <1>3 DEF Begin, ProgressInv
<1>4. ASSUME ConsumeMemory \/ ConsumeEnds
      PROVE  ProgressInv'
  BY <1>1, <1>4 DEF ConsumeMemory, ConsumeEnds, TypeInv, TypeOK, Sessions
<1>5. ASSUME NEW p \in Channels, ReadMessage(p)
      PROVE  ProgressInv'
  BY <1>1, <1>5 DEF ReadMessage, TypeInv, TypeOK, Sessions
<1>6. ASSUME NEW phase, EndSession(phase)
      PROVE  ProgressInv'
  BY <1>2, <1>6 DEF EndSession, IdleSession
<1>7. ASSUME Apply
      PROVE  ProgressInv'
  <2>0. PICK env \in Envelopes : env = Head(session.batch)
    BY <1>7, BatchHead DEF Apply
  <2>1. CASE Orphan(env) \/ Refused(env)
    BY <1>6, <1>7, <2>0, <2>1 DEF Apply
  <2>2. CASE ~(Orphan(env) \/ Refused(env))
    <3>1. env \in Envelopes /\ FromRun(env, Transport[session.of])
      BY <1>7, <2>0, FromRunsTail DEF Apply, FeedInv, TypeInv, TypeOK, Sessions
    <3>2. Save(env)
      BY <1>7, <2>0, <2>2 DEF Apply
    <3>3. session'.snapshotApplied => session.snapshotApplied \/ env.table = "snapshots"
      BY <1>7, <2>0, <2>2 DEF Apply, TypeInv, TypeOK, Sessions
    <3>4. session'.dominos =
            IF env.table = "domino_results" THEN session.dominos \cup {env.row.domino}
                                            ELSE session.dominos
      BY <1>7, <2>0, <2>2 DEF Apply, TypeInv, TypeOK, Sessions
    <3>5. session'.snapshotApplied => snapshot' # Absent
      <4>1. env.table = "snapshots" => snapshot' # Absent
        BY <3>1, <3>2, ReplicationAssumption DEF Save, Envelopes
      <4> QED BY <1>0, <1>7, <3>3, <4>1 DEF ProgressInv, Kept, Apply
    <3>6. env.table = "domino_results" => Counted(env.row.domino, Transport[session.of])'
      <4> SUFFICES ASSUME env.table = "domino_results"
                   PROVE  Counted(env.row.domino, Transport[session.of])'
        OBVIOUS
      <4>0. session'.of = session.of
        BY <1>7, <2>0, <2>2 DEF Apply, TypeInv, TypeOK, Sessions
      <4>1. PICK w \in Workflows : /\ Mode[w] = "cdc" /\ Transport[w] = Transport[session.of]
                                   /\ \E k \in DOMAIN Rows[w] : env.row = Rows[w][k]
        BY <3>1 DEF FromRun
      <4>2. PICK k \in DOMAIN Rows[w] : env.row = Rows[w][k]
        BY <4>1
      <4>3. Rows[w][k] \in results'
        BY <3>2, <4>2 DEF Save
      <4>4. Holds(w, k)'
        BY <4>3 DEF Holds
      <4>5. Counted(Rows[w][k].domino, Transport[session.of])'
        BY <4>0, <4>1, <4>4 DEF Counted
      <4> QED BY <4>2, <4>5 DEF Counted
    <3>7. \A d \in session.dominos : Counted(d, Transport[session.of])'
      <4>1. session'.of = session.of
        BY <1>7, <2>0, <2>2 DEF Apply, TypeInv, TypeOK, Sessions
      <4> QED BY <1>0, <1>7, <4>1, KeptCounted DEF ProgressInv, Apply
    <3> QED BY <3>4, <3>5, <3>6, <3>7 DEF ProgressInv
  <2> QED BY <2>1, <2>2
<1>8. ASSUME Copy
      PROVE  ProgressInv'
  <2>1. CASE Refused(Head(session.batch))
    BY <1>6, <1>8, <2>1 DEF Copy
  <2>2. CASE ~Refused(Head(session.batch))
    <3>1. session'.pc = "copy"
      BY <1>8, <2>2 DEF Copy, TypeInv, TypeOK, Sessions
    <3> QED BY <1>2, <3>1
  <2> QED BY <2>1, <2>2
<1>9. ASSUME Fault \/ Restart
      PROVE  ProgressInv'
  BY <1>2, <1>9 DEF Fault, Restart, IdleSession
<1>10. CASE UNCHANGED session
  BY <1>1, <1>10
<1> QED BY <1>3, <1>4, <1>5, <1>6, <1>7, <1>8, <1>9, <1>10
        DEF Next, SessionStep, Complete, Publish, PublishFails, ConsumeNothing, Finish, vars

\* Counting names is enough when they are all names of one chain.
LEMMA NamesCounted ==
  ASSUME NEW w \in Workflows, NEW D, D \subseteq Names(w),
         Cardinality(D) >= Len(Rows[w])
  PROVE  D = Names(w)
<1> DEFINE n == Len(Rows[w])
           name == [k \in 1..n |-> Rows[w][k].domino]
<1>1. n \in Nat /\ DOMAIN Rows[w] = 1..n
  BY ReplicationAssumption
<1>2. name \in Surjection(1..n, Names(w))
  BY <1>1 DEF Surjection, Names
<1>3. IsFiniteSet(1..n) /\ Cardinality(1..n) = n
  <2>1. 1 \in Int /\ n \in Int
    BY <1>1
  <2>2. IsFiniteSet(1..n) /\ Cardinality(1..n) = IF 1 > n THEN 0 ELSE n - 1 + 1
    BY <2>1, FS_Interval
  <2> QED BY <1>1, <2>2
<1> HIDE DEF n, name
<1>4. IsFiniteSet(Names(w)) /\ Cardinality(Names(w)) <= n
  BY <1>2, <1>3, FS_Surjection
<1>5. Cardinality(D) <= Cardinality(Names(w))
  BY <1>4, FS_Subset
<1>6. Cardinality(D) \in Nat /\ Cardinality(Names(w)) \in Nat
  BY <1>4, FS_Subset, FS_CardinalityType
<1>7. Cardinality(D) = Cardinality(Names(w))
  BY <1>1, <1>4, <1>5, <1>6 DEF n
<1> QED BY <1>4, <1>7, FS_Subset

\* What is counted for a replica with a feed of its own is its own.
LEMMA CountedOwn ==
  ASSUME NEW w \in Workflows, Mode[w] = "cdc", OwnFeed(w), NEW d, Counted(d, Transport[w])
  PROVE  \E j \in DOMAIN Rows[w] : d = Rows[w][j].domino /\ Holds(w, j)
<1>0. PICK v \in Workflows :
        /\ Mode[v] = "cdc" /\ Transport[v] = Transport[w]
        /\ \E k \in DOMAIN Rows[v] : d = Rows[v][k].domino /\ Holds(v, k)
  BY DEF Counted
<1>1. PICK k \in DOMAIN Rows[v] : d = Rows[v][k].domino /\ Holds(v, k)
  BY <1>0
<1>2. PICK j \in DOMAIN Rows[w] : /\ Rows[v][k].domino = Rows[w][j].domino
                                  /\ Rows[v][k].input = Rows[w][j].input
                                  /\ Rows[v][k].output = Rows[w][j].output
  BY <1>0 DEF OwnFeed, Covered, Same
<1> QED BY <1>1, <1>2 DEF Holds

LEMMA CompleteStep ==
  ASSUME TypeInv, CopyInv, ProgressInv, ReadyMeansComplete, [Next]_vars
  PROVE  ReadyMeansComplete'
<1>1. SUFFICES ASSUME NEW w \in Workflows, replica'[w] = "Ready", OwnFeed(w)
               PROVE  snapshot # Absent /\ \A k \in DOMAIN Rows[w] : Holds(w, k)
  BY StepKept, KeptHolds, OwnFeedBefore DEF ReadyMeansComplete, Kept
<1>2. CASE replica[w] = "Ready"
  BY <1>1, <1>2 DEF ReadyMeansComplete
<1>3. CASE Finish /\ session.of = w /\ session.pc = "copy"
  <2>1. session.batch = <<>> /\ SourceBatch # <<>>
    BY <1>3, SourceBatchShape DEF Finish
  <2>2. DOMAIN session.batch = {}
    BY <2>1
  <2> QED BY <1>1, <1>3, <2>1, <2>2, SourcePresent DEF CopyInv
<1>4. CASE Finish /\ session.of = w /\ session.pc = "apply" /\ IsComplete
  <2>1. snapshot # Absent
    BY <1>4 DEF IsComplete, ProgressInv
  <2>2. Mode[w] = "cdc"
    BY <1>4, ReplicationAssumption DEF TypeInv, OwnerInv
  <2>3. \A d \in session.dominos : \E k \in DOMAIN Rows[w] : d = Rows[w][k].domino /\ Holds(w, k)
    BY <1>1, <1>4, <2>2, CountedOwn DEF ProgressInv
  <2>4. session.dominos \subseteq Names(w)
    BY <2>3 DEF Names
  <2>5. session.dominos = Names(w)
    BY <1>4, <2>4, NamesCounted DEF IsComplete
  <2>6. ASSUME NEW k \in DOMAIN Rows[w]
        PROVE  Holds(w, k)
    <3>1. Rows[w][k].domino \in session.dominos
      BY <2>5 DEF Names
    <3>2. PICK j \in DOMAIN Rows[w] : Rows[w][k].domino = Rows[w][j].domino /\ Holds(w, j)
      BY <2>3, <3>1
    <3>3. j = k
      BY <3>2, ReplicationAssumption
    <3> QED BY <3>2, <3>3
  <2> QED BY <2>1, <2>6
<1> QED BY <1>1, <1>2, <1>3, <1>4, BecomesReady

(* Every Ready replica holds its workflow's results, if no workflow with   *)
(* other results shares the transport of one fed by envelopes or has ended *)
(* on the source store of a direct one: without that the results may be    *)
(* another workflow's.                                                     *)
THEOREM ReadyReplicasComplete == Spec => []ReadyMeansComplete
<1> DEFINE Inv == TypeInv /\ CopyInv /\ FeedInv /\ ProgressInv /\ ReadyMeansComplete
<1>1. Init => Inv
  <2>1. Init => FeedInv
    BY DEF Init, FeedInv, AllFromRuns, IdleSession
  <2> QED BY <2>1, TypeInit DEF Init, CopyInv, ProgressInv, ReadyMeansComplete, IdleSession
<1>2. Inv /\ [Next]_vars => Inv'
  BY TypeStep, CopyStep, FeedStep, ProgressStep, CompleteStep
<1> QED BY <1>1, <1>2, PTL DEF Spec

-----------------------------------------------------------------------------
(* What TargetRefinement gives (WorldlineStoreProofs).                     *)

Promise == INSTANCE WorldlineStoreProofs
             WITH Transactional <- FALSE, results <- Memo, log <- <<>>,
                  sealed <- IF snapshot = Absent THEN {} ELSE {snapshot}

(* A replica's store, whatever replicates into it and however it breaks    *)
(* off: one output per memo key, all under the snapshot it holds, and      *)
(* neither a result nor the snapshot is ever replaced.                     *)
THEOREM TargetKeepsPromise == Spec => []Promise!Consistent /\ Promise!NeverForgets
<1>1. Target!Init => Promise!Init
  BY DEF Target!Init, Promise!Init
<1>2. [Target!Next]_(Target!vars) => [Promise!Next]_(Promise!vars)
  BY DEF Target!Next, Target!vars, Target!Seal, Target!Record, Target!Memoize,
     Promise!Next, Promise!vars, Promise!Seal, Promise!Record, Promise!Memoize
<1>3. Target!Spec => Promise!Spec
  BY <1>1, <1>2, PTL DEF Target!Spec, Promise!Spec
<1>4. Promise!Spec => []Promise!Consistent /\ Promise!NeverForgets
  BY Promise!StorePromise
<1> QED BY <1>3, <1>4, TargetImplements, PTL DEF TargetRefinement
=============================================================================
