---------------------------- MODULE EngineProofs ----------------------------
(***************************************************************************)
(* Theorems about Engine, for every number of runs, snapshots, workflows,  *)
(* edits, faults and attempts: types and causal order; the snapshots of    *)
(* the shared store are content addressed, and Sealed means stored; the    *)
(* worldlines that runs record are read from the sealed content only,      *)
(* durable, and equal for equal programs; and the SQL store behaves as a   *)
(* WorldlineStore.                                                         *)
(***************************************************************************)
EXTENDS Engine, TLAPS

-----------------------------------------------------------------------------
(* Types.  That resolveInputs yields an input needs the dominos a domino   *)
(* selects to be on the worldline, so the types are proved together with   *)
(* the shape of a run.                                                     *)

(* What the control state of a run says about its other fields.            *)
RunShape(r) ==
  /\ run[r].pc = "idle" => run[r].line = <<>>
  /\ run[r].pc # "idle" => run[r].wf \in Workflows
  /\ run[r].pc \in {"load", "source"} /\ run[r].id = Absent => run[r].time \in Times
  /\ run[r].pc \in {"check", "write"} => run[r].time \in Times
  /\ run[r].pc \in {"load", "source", "check", "write"} => run[r].line = <<>>
  /\ run[r].pc \in {"check", "write", "domino", "recheck", "insert", "done"}
       => run[r].id \in SnapshotIDs
  /\ run[r].pc \in {"check", "write"} => run[r].data \in Bytes
  /\ run[r].pc \in {"domino", "recheck", "insert"}
       => /\ UniqueNames(WF[run[r].wf].chain)
          /\ Len(run[r].line) < Len(WF[run[r].wf].chain)
  /\ run[r].pc \in {"recheck", "insert"}
       => run[r].entry \in Pending /\ AllowedReads(run[r].wf, position(r))

(* The worldline follows the chain and respects its causal past.           *)
LineShape(r) ==
  run[r].line # <<>> =>
    /\ run[r].wf \in Workflows
    /\ run[r].id \in SnapshotIDs
    /\ UniqueNames(WF[run[r].wf].chain)
    /\ Len(run[r].line) <= Len(WF[run[r].wf].chain)
    /\ \A k \in 1..Len(run[r].line) :
         /\ run[r].line[k].domino = WF[run[r].wf].chain[k]
         /\ AllowedReads(run[r].wf, k)

(* A reconcile under way holds a time slice, an identity and a payload.    *)
SealerShape(s) ==
  sealer[s].pc # "idle" =>
    /\ sealer[s].time \in Times
    /\ sealer[s].id \in SnapshotIDs
    /\ sealer[s].data \in Bytes

TypeInv ==
  /\ TypeOK
  /\ \A r \in Runs : RunShape(r) /\ LineShape(r)
  /\ \A s \in Snaps : SealerShape(s)

LEMMA SeqDomain ==
  ASSUME NEW S, NEW s \in Seq(S)
  PROVE  DOMAIN s = 1..Len(s) /\ Len(s) \in Nat
OBVIOUS

LEMMA EmptySeq ==
  ASSUME NEW S
  PROVE  <<>> \in Seq(S)
OBVIOUS

LEMMA WorkflowTypes ==
  ASSUME NEW w \in Workflows
  PROVE  /\ WF[w].snap \in Snaps
         /\ WF[w].chain \in Seq(Names)
         /\ WF[w].inputs \in [Names -> Seq(Selectors) \cup {Absent}]
         /\ WF[w].mode \in {"ref", "inline", "cli"}
BY WorkflowAssumption DEF WorkflowDefs

LEMMA OutputOfType ==
  ASSUME NEW line \in Seq(Entries), NEW d,
         \E i \in DOMAIN line : line[i].domino = d
  PROVE  OutputOf(line, d) \in OutputValues
<1> DEFINE i == CHOOSE i \in DOMAIN line : line[i].domino = d
<1>1. i \in DOMAIN line
  OBVIOUS
<1>2. line[i] \in Entries
  BY <1>1
<1> QED
  BY <1>2 DEF OutputOf, Entries

LEMMA ResolveInputsType ==
  ASSUME NEW w \in Workflows, NEW k \in 1..Len(WF[w].chain),
         NEW content \in Contents, NEW prior \in Seq(Entries),
         Len(prior) = k - 1,
         \A i \in 1..(k - 1) : prior[i].domino = WF[w].chain[i],
         AllowedReads(w, k)
  PROVE  resolveInputs(w, k, content, prior) \in Inputs
<1> DEFINE d == WF[w].chain[k]
           selectors == WF[w].inputs[d]
           parts == [i \in DOMAIN selectors |-> IF selectors[i] = "snapshot"
                      THEN content ELSE OutputOf(prior, selectors[i])]
<1>1. d \in Names
  BY WorkflowTypes
<1>2. selectors \in Seq(Selectors) \cup {Absent}
  BY <1>1, WorkflowTypes
<1>3. CASE selectors = Absent
  BY <1>3 DEF resolveInputs, Inputs, Atoms
<1>4. CASE selectors # Absent
  <2>1. selectors \in Seq(Selectors)
    BY <1>2, <1>4
  <2>2. ASSUME NEW i \in DOMAIN selectors PROVE parts[i] \in Atoms
    <3>1. CASE selectors[i] = "snapshot"
      BY <3>1 DEF Atoms
    <3>2. CASE selectors[i] # "snapshot"
      <4>1. selectors[i] \in Dominos
        BY <2>1, <3>2 DEF Selectors
      <4>2. selectors[i] \in Reads(w, d)
        BY <4>1, <1>4 DEF Reads, Selected
      <4>3. PICK j \in 1..(k - 1) : WF[w].chain[j] = selectors[i]
        BY <4>2 DEF AllowedReads
      <4>4. OutputOf(prior, selectors[i]) \in OutputValues
        BY <4>3, OutputOfType
      <4> QED
        BY <3>2, <4>4 DEF Atoms
    <3> QED
      BY <3>1, <3>2
  <2>3. parts \in Seq(Atoms)
    <3>1. DOMAIN selectors = 1..Len(selectors) /\ Len(selectors) \in Nat
      BY <2>1, SeqDomain
    <3>2. parts \in [1..Len(selectors) -> Atoms]
      BY <2>2, <3>1
    <3> QED
      BY <3>1, <3>2
  <2>4. Len(selectors) = 1 => parts[1] \in Atoms
    <3>1. DOMAIN selectors = 1..Len(selectors) /\ Len(selectors) \in Nat
      BY <2>1, SeqDomain
    <3> HIDE DEF selectors, parts
    <3> QED
      BY <2>2, <3>1
  <2> QED
    BY <1>4, <2>3, <2>4 DEF resolveInputs, Inputs
<1> QED
  BY <1>3, <1>4

LEMMA InitTypeInv == Init => TypeInv
<1> SUFFICES ASSUME Init PROVE TypeInv
  OBVIOUS
<1> USE DEF Init, InitStore, InitSnapshots
<1>1. TypeOK
  <2>1. snapshots \in [SnapshotIDs -> SnapshotRows \cup {Absent}]
    OBVIOUS
  <2>2. source \in [Snaps -> Bytes \cup {Absent}]
    BY SnapshotAssumption
  <2>3. spec \in [Snaps -> Specs]
    <3>1. {[time |-> t, sealed |-> TRUE, gen |-> 1] : t \in Times} \subseteq Specs
      <4>1. 1 \in Nat
        OBVIOUS
      <4>2. ASSUME NEW t \in Times
            PROVE  [time |-> t, sealed |-> TRUE, gen |-> 1] \in Specs
        BY <4>1, Zenon DEF Specs
      <4> QED
        BY <4>2
    <3> QED
      BY <3>1
  <2>4. status \in [Snaps -> Statuses]
    BY DEF Statuses, Phases
  <2>5. sealer \in [Snaps -> Sealers]
    BY DEF Sealers, IdleSealer
  <2>6. run \in [Runs -> RunStates]
    <3>1. IdleRun \in RunStates
      BY EmptySeq DEF RunStates, IdleRun
    <3> QED
      BY <3>1
  <2>7. replay \in Seq(ReplayRows) /\ memo = {}
    BY EmptySeq
  <2> QED
    BY <2>1, <2>2, <2>3, <2>4, <2>5, <2>6, <2>7 DEF TypeOK
<1>2. ASSUME NEW r \in Runs PROVE RunShape(r) /\ LineShape(r)
  BY DEF RunShape, LineShape, IdleRun
<1>3. ASSUME NEW s \in Snaps PROVE SealerShape(s)
  BY DEF SealerShape, IdleSealer
<1> QED
  BY <1>1, <1>2, <1>3 DEF TypeInv

(* A step of one run leaves the shapes of the others alone.                *)
LEMMA RunFrame ==
  ASSUME TypeInv, NEW r \in Runs,
         run' \in [Runs -> RunStates],
         \A q \in Runs : q # r => run'[q] = run[q],
         snapshots' \in [SnapshotIDs -> SnapshotRows \cup {Absent}],
         \A m \in memo' : m \in MemoRows,
         replay' \in Seq(ReplayRows),
         faults' \in Nat,
         UNCHANGED <<snapVars, edits>>,
         RunShape(r)', LineShape(r)'
  PROVE  TypeInv'
<1>1. TypeOK'
  BY DEF TypeInv, TypeOK, snapVars
<1>2. ASSUME NEW q \in Runs PROVE RunShape(q)' /\ LineShape(q)'
  <2>1. CASE q = r
    BY <2>1
  <2>2. CASE q # r
    <3>1. run'[q] = run[q]
      BY <2>2
    <3> QED
      BY <3>1 DEF TypeInv, RunShape, LineShape, position
  <2> QED
    BY <2>1, <2>2
<1>3. ASSUME NEW s \in Snaps PROVE SealerShape(s)'
  BY DEF TypeInv, SealerShape, snapVars
<1> QED
  BY <1>1, <1>2, <1>3 DEF TypeInv

(* A step that ends a run.                                                 *)
LEMMA FailTypeInv ==
  ASSUME TypeInv, NEW r \in Runs, Fail(r), run[r].pc # "idle",
         faults' \in Nat, UNCHANGED <<storeVars, snapVars, edits>>
  PROVE  TypeInv'
<1> DEFINE R == [run[r] EXCEPT !.pc = "failed"]
<1>1. run[r] \in RunStates /\ RunShape(r) /\ LineShape(r) /\ TypeOK
  BY DEF TypeInv, TypeOK
<1>2. R \in RunStates
  BY <1>1 DEF RunStates
<1>3. /\ run' \in [Runs -> RunStates]
      /\ run'[r] = R
      /\ \A q \in Runs : q # r => run'[q] = run[q]
  BY <1>1, <1>2 DEF Fail, TypeOK
<1>4. RunShape(r)'
  BY <1>1, <1>3 DEF RunShape, RunStates
<1>5. LineShape(r)'
  BY <1>1, <1>3 DEF LineShape, RunStates
<1> QED
  BY <1>1, <1>3, <1>4, <1>5, RunFrame DEF TypeOK, storeVars

LEMMA StartTypeInv ==
  ASSUME TypeInv, NEW r \in Runs, NEW w \in Workflows, Start(r, w)
  PROVE  TypeInv'
<1> DEFINE s == WF[w].snap
           R == [IdleRun EXCEPT
              !.pc = "load", !.wf = w, !.time = spec[s].time,
              !.attempt = run[r].attempt + IF run[r].line = <<>> THEN 0 ELSE 1,
              !.id = CASE WF[w].mode = "ref"    -> status[s].id
                       [] WF[w].mode = "inline" -> SourceID(s, spec[s].time)
                       [] WF[w].mode = "cli"    -> Absent]
<1>1. s \in Snaps /\ WF[w].mode \in {"ref", "inline", "cli"}
  BY WorkflowTypes
<1>2. /\ run[r] \in RunStates
      /\ spec[s] \in Specs /\ status[s] \in Statuses /\ source[s] \in Bytes \cup {Absent}
  BY <1>1 DEF TypeInv, TypeOK
<1>3. /\ spec[s].time \in Times \cup {Absent}
      /\ WF[w].mode # "ref" => spec[s].time \in Times
      /\ WF[w].mode = "ref" => status[s].id # Absent
  BY <1>2 DEF Start, Specs
<1>4. R.id \in SnapshotIDs \cup {Absent}
  <2>1. CASE WF[w].mode = "ref"
    BY <2>1, <1>2 DEF IdleRun, Statuses
  <2>2. CASE WF[w].mode = "inline"
    <3>1. source[s] \in Bytes
      BY <2>2, <1>2 DEF Start
    <3>2. SourceID(s, spec[s].time) \in SnapshotIDs
      BY <2>2, <3>1, <1>3, EncodingAssumption DEF SourceID, SnapshotID, SnapshotIDs
    <3> QED
      BY <2>2, <3>2 DEF IdleRun
  <2>3. CASE WF[w].mode = "cli"
    BY <2>3 DEF IdleRun
  <2> QED
    BY <1>1, <2>1, <2>2, <2>3
<1>5. R \in RunStates
  <2>1. run[r].attempt + (IF run[r].line = <<>> THEN 0 ELSE 1) \in Nat
    BY <1>2 DEF RunStates
  <2>2. <<>> \in Seq(Entries)
    BY EmptySeq
  <2> HIDE DEF s
  <2> QED
    BY <1>3, <1>4, <2>1, <2>2 DEF RunStates, IdleRun
<1>6. /\ run' \in [Runs -> RunStates]
      /\ run'[r] = R
      /\ \A q \in Runs : q # r => run'[q] = run[q]
  BY <1>5 DEF Start, TypeInv, TypeOK
<1>7. /\ R.pc = "load" /\ R.line = <<>> /\ R.wf = w
      /\ R.id = Absent => R.time \in Times
  BY <1>1, <1>3 DEF IdleRun
<1>8. RunShape(r)' /\ LineShape(r)'
  BY <1>6, <1>7 DEF RunShape, LineShape
<1> QED
  BY <1>6, <1>8, RunFrame DEF Start, TypeInv, TypeOK, storeVars

(* Steps that change a few fields of one run: what remains to show is that *)
(* the new record has its type and its shape.                              *)
LEMMA LoadTypeInv ==
  ASSUME TypeInv, NEW r \in Runs, Load(r)
  PROVE  TypeInv'
<1> DEFINE row == GetSnapshot(run[r].id)
<1>1. TypeOK /\ run[r] \in RunStates /\ RunShape(r) /\ LineShape(r)
  BY DEF TypeInv, TypeOK
<1>2. run[r].pc = "load" /\ UNCHANGED <<storeVars, snapVars, edits, faults>>
  BY DEF Load
<1>3. CASE run' = [run EXCEPT ![r].pc = "source"]
  <2>1. [run[r] EXCEPT !.pc = "source"] \in RunStates
    BY <1>1 DEF RunStates
  <2>2. /\ run' \in [Runs -> RunStates]
        /\ run'[r] = [run[r] EXCEPT !.pc = "source"]
        /\ \A q \in Runs : q # r => run'[q] = run[q]
    BY <1>1, <1>3, <2>1 DEF TypeOK
  <2>3. RunShape(r)' /\ LineShape(r)'
    BY <1>1, <1>2, <2>2 DEF RunShape, LineShape, RunStates
  <2> QED
    BY <1>1, <1>2, <2>2, <2>3, RunFrame DEF TypeOK, storeVars
<1>4. CASE /\ run[r].id # Absent /\ row # Absent
           /\ AssertSnapshotID(run[r].id, run[r].time, row.data)
           /\ run' = [run EXCEPT ![r].pc = "check", ![r].data = row.data]
  <2>1. run[r].id \in SnapshotIDs
    BY <1>1, <1>4 DEF RunStates
  <2>2. row \in SnapshotRows
    BY <1>1, <1>4, <2>1 DEF TypeOK, GetSnapshot
  <2>3. row.data \in Bytes /\ run[r].time \in Times
    BY <1>4, <2>1, <2>2 DEF SnapshotRows, AssertSnapshotID, SnapshotID, SnapshotIDs
  <2> HIDE DEF row
  <2>4. [run[r] EXCEPT !.pc = "check", !.data = row.data] \in RunStates
    BY <1>1, <2>3 DEF RunStates
  <2>5. /\ run' \in [Runs -> RunStates]
        /\ run'[r] = [run[r] EXCEPT !.pc = "check", !.data = row.data]
        /\ \A q \in Runs : q # r => run'[q] = run[q]
    BY <1>1, <1>4, <2>4 DEF TypeOK
  <2>6. RunShape(r)' /\ LineShape(r)'
    BY <1>1, <1>2, <2>1, <2>3, <2>5 DEF RunShape, LineShape, RunStates
  <2> QED
    BY <1>1, <1>2, <2>5, <2>6, RunFrame DEF TypeOK, storeVars
<1>5. CASE Fail(r)
  BY <1>1, <1>2, <1>5, FailTypeInv DEF TypeOK
<1> QED
  BY <1>3, <1>4, <1>5 DEF Load

LEMMA ResolveSourceTypeInv ==
  ASSUME TypeInv, NEW r \in Runs, ResolveSource(r)
  PROVE  TypeInv'
<1> DEFINE raw == source[snapOf(r)]
           id == IF run[r].id = Absent
                   THEN SourceID(snapOf(r), run[r].time) ELSE run[r].id
           data == Marshal[Parse[raw]]
<1>1. TypeOK /\ run[r] \in RunStates /\ RunShape(r) /\ LineShape(r)
  BY DEF TypeInv, TypeOK
<1>2. run[r].pc = "source" /\ UNCHANGED <<storeVars, snapVars, edits, faults>>
  BY DEF ResolveSource
<1>3. CASE Fail(r)
  BY <1>1, <1>2, <1>3, FailTypeInv DEF TypeOK
<1>4. CASE /\ raw # Absent /\ AssertSnapshotID(id, run[r].time, raw)
           /\ run' = [run EXCEPT ![r].pc = "check", ![r].id = id, ![r].data = data]
  <2>1. run[r].wf \in Workflows /\ run[r].time \in Times
    <3>1. CASE run[r].id = Absent
      BY <3>1, <1>1, <1>2 DEF RunShape
    <3>2. CASE run[r].id # Absent
      BY <3>2, <1>1, <1>2, <1>4
         DEF RunShape, RunStates, AssertSnapshotID, SnapshotID, SnapshotIDs
    <3> QED
      BY <3>1, <3>2
  <2>2. snapOf(r) \in Snaps
    BY <2>1, WorkflowTypes DEF snapOf
  <2>3. raw \in Bytes
    BY <1>1, <1>4, <2>2 DEF TypeOK
  <2>4. data \in Bytes /\ Parse[raw] \in Contents
    BY <2>3, EncodingAssumption
  <2>5. id \in SnapshotIDs
    BY <1>1, <2>1, <2>4 DEF RunStates, SourceID, SnapshotID, SnapshotIDs
  <2> HIDE DEF id, data, raw
  <2>6. [run[r] EXCEPT !.pc = "check", !.id = id, !.data = data] \in RunStates
    BY <1>1, <2>4, <2>5 DEF RunStates
  <2>7. /\ run' \in [Runs -> RunStates]
        /\ run'[r] = [run[r] EXCEPT !.pc = "check", !.id = id, !.data = data]
        /\ \A q \in Runs : q # r => run'[q] = run[q]
    BY <1>1, <1>4, <2>6 DEF TypeOK
  <2>8. RunShape(r)' /\ LineShape(r)'
    BY <1>1, <1>2, <2>1, <2>4, <2>5, <2>7 DEF RunShape, LineShape, RunStates
  <2> QED
    BY <1>1, <1>2, <2>7, <2>8, RunFrame DEF TypeOK, storeVars
<1> QED
  BY <1>3, <1>4 DEF ResolveSource

(* SaveSnapshot has returned: the run goes on to its dominos or fails.     *)
LEMMA SnapshotSavedTypeInv ==
  ASSUME TypeInv, NEW r \in Runs, run[r].pc \in {"check", "write"},
         SnapshotSaved(r),
         snapshots' \in [SnapshotIDs -> SnapshotRows \cup {Absent}],
         UNCHANGED <<memo, replay, snapVars, edits, faults>>
  PROVE  TypeInv'
<1> DEFINE pc == IF ChainAccepted(run[r].wf) THEN "domino" ELSE "failed"
<1>1. TypeOK /\ run[r] \in RunStates /\ RunShape(r) /\ LineShape(r)
  BY DEF TypeInv, TypeOK
<1>2. [run[r] EXCEPT !.pc = pc] \in RunStates
  BY <1>1 DEF RunStates
<1>3. /\ run' \in [Runs -> RunStates]
      /\ run'[r] = [run[r] EXCEPT !.pc = pc]
      /\ \A q \in Runs : q # r => run'[q] = run[q]
  BY <1>1, <1>2 DEF TypeOK, SnapshotSaved
<1>4. /\ run'[r].pc = pc /\ run'[r].line = <<>> /\ run'[r].wf = run[r].wf
      /\ run'[r].wf \in Workflows /\ run'[r].id \in SnapshotIDs
  BY <1>1, <1>3 DEF RunShape, RunStates
<1>5. ChainAccepted(run[r].wf) =>
        UniqueNames(WF[run[r].wf].chain) /\ 0 < Len(WF[run[r].wf].chain)
  <2> SUFFICES ASSUME ChainAccepted(run[r].wf)
               PROVE  UniqueNames(WF[run[r].wf].chain) /\ 0 < Len(WF[run[r].wf].chain)
    OBVIOUS
  <2>1. WF[run[r].wf].chain \in Seq(Names)
    BY <1>4, WorkflowTypes
  <2> QED
    BY <2>1 DEF ChainAccepted
<1>6. RunShape(r)' /\ LineShape(r)'
  BY <1>4, <1>5 DEF RunShape, LineShape
<1> QED
  BY <1>1, <1>3, <1>6, RunFrame DEF TypeOK

LEMMA CheckSnapshotTypeInv ==
  ASSUME TypeInv, NEW r \in Runs, CheckSnapshot(r)
  PROVE  TypeInv'
<1>1. TypeOK /\ run[r] \in RunStates /\ RunShape(r) /\ LineShape(r)
  BY DEF TypeInv, TypeOK
<1>2. run[r].pc = "check" /\ UNCHANGED <<storeVars, snapVars, edits, faults>>
  BY DEF CheckSnapshot
<1>3. CASE Fail(r)
  BY <1>1, <1>2, <1>3, FailTypeInv DEF TypeOK
<1>4. CASE SnapshotSaved(r)
  BY <1>1, <1>2, <1>4, SnapshotSavedTypeInv DEF TypeOK, storeVars
<1>5. CASE run' = [run EXCEPT ![r].pc = "write"]
  <2>1. [run[r] EXCEPT !.pc = "write"] \in RunStates
    BY <1>1 DEF RunStates
  <2>2. /\ run' \in [Runs -> RunStates]
        /\ run'[r] = [run[r] EXCEPT !.pc = "write"]
        /\ \A q \in Runs : q # r => run'[q] = run[q]
    BY <1>1, <1>5, <2>1 DEF TypeOK
  <2>3. RunShape(r)' /\ LineShape(r)'
    BY <1>1, <1>2, <2>2 DEF RunShape, LineShape, RunStates
  <2> QED
    BY <1>1, <1>2, <2>2, <2>3, RunFrame DEF TypeOK, storeVars
<1> QED
  BY <1>3, <1>4, <1>5 DEF CheckSnapshot

LEMMA WriteSnapshotTypeInv ==
  ASSUME TypeInv, NEW r \in Runs, WriteSnapshot(r)
  PROVE  TypeInv'
<1>1. TypeOK /\ RunShape(r) /\ run[r].pc = "write"
  BY DEF TypeInv, WriteSnapshot
<1>2. [time |-> run[r].time, data |-> run[r].data] \in SnapshotRows
  BY <1>1 DEF RunShape, SnapshotRows
<1>3. snapshots' \in [SnapshotIDs -> SnapshotRows \cup {Absent}]
  BY <1>1, <1>2 DEF WriteSnapshot, InsertOrReplaceSnapshot, TypeOK
<1> QED
  BY <1>1, <1>3, SnapshotSavedTypeInv DEF WriteSnapshot

(* The facts a run that is executing dominos can rely on.                  *)
LEMMA Executing ==
  ASSUME TypeInv, NEW r \in Runs, run[r].pc \in {"domino", "recheck", "insert"}
  PROVE  /\ run[r].wf \in Workflows
         /\ run[r].id \in SnapshotIDs
         /\ run[r].line \in Seq(Entries)
         /\ Len(run[r].line) = position(r) - 1
         /\ position(r) \in 1..Len(WF[run[r].wf].chain)
         /\ WF[run[r].wf].chain[position(r)] \in Names
         /\ \A i \in 1..(position(r) - 1) :
              run[r].line[i].domino = WF[run[r].wf].chain[i]
<1>1. run[r] \in RunStates /\ RunShape(r) /\ LineShape(r)
  BY DEF TypeInv, TypeOK
<1>2. run[r].wf \in Workflows /\ run[r].id \in SnapshotIDs
  BY <1>1 DEF RunShape
<1>3. run[r].line \in Seq(Entries)
  BY <1>1 DEF RunStates
<1>4. WF[run[r].wf].chain \in Seq(Names)
  BY <1>2, WorkflowTypes
<1>5. /\ Len(run[r].line) = position(r) - 1
      /\ position(r) \in 1..Len(WF[run[r].wf].chain)
  <2>1. Len(run[r].line) \in Nat /\ Len(WF[run[r].wf].chain) \in Nat
    BY <1>3, <1>4, SeqDomain
  <2>2. Len(run[r].line) < Len(WF[run[r].wf].chain)
    BY <1>1 DEF RunShape
  <2>3. \A m, n \in Nat : m < n => m = (m + 1) - 1 /\ m + 1 \in 1..n
    OBVIOUS
  <2> QED
    BY <2>1, <2>2, <2>3 DEF position
<1>6. WF[run[r].wf].chain[position(r)] \in Names
  BY <1>4, <1>5
<1>7. \A i \in 1..(position(r) - 1) :
        run[r].line[i].domino = WF[run[r].wf].chain[i]
  <2>1. CASE run[r].line = <<>>
    BY <2>1, <1>5
  <2>2. CASE run[r].line # <<>>
    BY <2>2, <1>1, <1>5 DEF LineShape
  <2> QED
    BY <2>1, <2>2
<1> QED
  BY <1>2, <1>3, <1>5, <1>6, <1>7

LEMMA StoreOrSourceType ==
  ASSUME TypeOK, NEW s \in Snaps, NEW id \in SnapshotIDs
  PROVE  StoreOrSource(id, s) \in Bytes \cup {Absent}
BY DEF TypeOK, StoreOrSource, GetSnapshot, SnapshotRows

(* A step that gives a run its next pending entry.                         *)
LEMMA PendingTypeInv ==
  ASSUME TypeInv, NEW r \in Runs, run[r].pc \in {"domino", "recheck"},
         NEW e \in Pending, NEW pc \in {"recheck", "insert"},
         AllowedReads(run[r].wf, position(r)),
         run' = [run EXCEPT ![r].pc = pc, ![r].entry = e],
         UNCHANGED <<storeVars, snapVars, edits, faults>>
  PROVE  TypeInv'
<1>1. TypeOK /\ run[r] \in RunStates /\ RunShape(r) /\ LineShape(r)
  BY DEF TypeInv, TypeOK
<1>2. [run[r] EXCEPT !.pc = pc, !.entry = e] \in RunStates
  BY <1>1 DEF RunStates
<1>3. /\ run' \in [Runs -> RunStates]
      /\ run'[r] = [run[r] EXCEPT !.pc = pc, !.entry = e]
      /\ \A q \in Runs : q # r => run'[q] = run[q]
  BY <1>1, <1>2 DEF TypeOK
<1>4. /\ run'[r].pc = pc /\ run'[r].entry = e /\ run'[r].line = run[r].line
      /\ run'[r].wf = run[r].wf /\ run'[r].id = run[r].id /\ run'[r].time = run[r].time
  BY <1>1, <1>3 DEF RunStates
<1>5. RunShape(r)' /\ LineShape(r)'
  BY <1>1, <1>4 DEF RunShape, LineShape, position
<1> QED
  BY <1>1, <1>3, <1>5, RunFrame DEF TypeOK, storeVars

LEMMA DominoTypeInv ==
  ASSUME TypeInv, NEW r \in Runs, Domino(r)
  PROVE  TypeInv'
<1> DEFINE w == run[r].wf
           k == position(r)
           d == WF[w].chain[k]
           data == StoreOrSource(run[r].id, snapOf(r))
           input == resolveInputs(w, k, Parse[data], run[r].line)
           hits == LookupMemo(<<run[r].id, d, input>>)
           made == {o \in OutputValues : Produces(WF[w].command[d], input, o)}
<1>1. run[r].pc = "domino" /\ UNCHANGED <<storeVars, snapVars, edits, faults>>
  BY DEF Domino
<1>2. TypeOK
  BY DEF TypeInv
<1>3. CASE Fail(r)
  BY <1>1, <1>2, <1>3, FailTypeInv DEF TypeOK
<1>4. CASE DominoAccepted(w, k) /\ data # Absent /\ ~Fail(r)
  <2>1. AllowedReads(w, k)
    BY <1>4 DEF DominoAccepted
  <2>2. input \in Inputs
    <3>1. snapOf(r) \in Snaps
      BY <1>1, Executing, WorkflowTypes DEF snapOf
    <3>2. data \in Bytes
      BY <1>1, <1>2, <1>4, <3>1, Executing, StoreOrSourceType
    <3>3. Parse[data] \in Contents
      BY <3>2, EncodingAssumption
    <3> HIDE DEF data
    <3> QED
      BY <1>1, <2>1, <3>3, Executing, ResolveInputsType
  <2>3. \A o \in hits : o \in OutputValues
    BY <1>2 DEF TypeOK, LookupMemo, MemoRows
  <2>4. \A o \in made : o \in OutputValues
    OBVIOUS
  <2>5. \E output \in OutputValues :
          \/ run' = [run EXCEPT ![r].pc = "insert", ![r].entry =
               [input |-> input, output |-> output, memo |-> "reused"]]
          \/ run' = [run EXCEPT ![r].pc = "recheck", ![r].entry =
               [input |-> input, output |-> output, memo |-> "new"]]
    <3> HIDE DEF input, hits, made
    <3>1. \/ \E output \in hits : run' = [run EXCEPT ![r].pc = "insert", ![r].entry =
                [input |-> input, output |-> output, memo |-> "reused"]]
          \/ \E output \in made : run' = [run EXCEPT ![r].pc = "recheck", ![r].entry =
                [input |-> input, output |-> output, memo |-> "new"]]
      BY <1>4 DEF Domino, input, hits, made
    <3> QED
      BY <2>3, <2>4, <3>1
  <2> HIDE DEF input
  <2>6. PICK output \in OutputValues :
          \/ run' = [run EXCEPT ![r].pc = "insert", ![r].entry =
               [input |-> input, output |-> output, memo |-> "reused"]]
          \/ run' = [run EXCEPT ![r].pc = "recheck", ![r].entry =
               [input |-> input, output |-> output, memo |-> "new"]]
    BY <2>5
  <2>7. /\ [input |-> input, output |-> output, memo |-> "reused"] \in Pending
        /\ [input |-> input, output |-> output, memo |-> "new"] \in Pending
    BY <2>2 DEF Pending
  <2> QED
    BY <1>1, <2>1, <2>6, <2>7, PendingTypeInv
<1> QED
  BY <1>3, <1>4 DEF Domino

LEMMA RecheckTypeInv ==
  ASSUME TypeInv, NEW r \in Runs, Recheck(r)
  PROVE  TypeInv'
<1> DEFINE m == IF LookupMemo(memoKey(r)) = {} THEN "new" ELSE "found"
           e == [run[r].entry EXCEPT !.memo = m]
<1>1. run[r].pc = "recheck" /\ UNCHANGED <<storeVars, snapVars, edits, faults>>
  BY DEF Recheck
<1>2. TypeOK /\ run[r] \in RunStates /\ RunShape(r)
  BY DEF TypeInv, TypeOK
<1>3. CASE Fail(r)
  BY <1>1, <1>2, <1>3, FailTypeInv DEF TypeOK
<1>4. CASE run' = [run EXCEPT ![r].pc = "insert", ![r].entry.memo = m]
  <2>1. run[r].entry \in Pending /\ AllowedReads(run[r].wf, position(r))
    BY <1>1, <1>2 DEF RunShape
  <2>2. e \in Pending
    BY <2>1 DEF Pending
  <2>3. run' = [run EXCEPT ![r].pc = "insert", ![r].entry = e]
    BY <1>2, <1>4 DEF TypeOK, RunStates
  <2> HIDE DEF e
  <2> QED
    BY <1>1, <2>1, <2>2, <2>3, PendingTypeInv
<1> QED
  BY <1>3, <1>4 DEF Recheck

LEMMA PrevLinkType ==
  ASSUME TypeInv, NEW r \in Runs, run[r].pc \in {"domino", "recheck", "insert"}
  PROVE  prevLink(r) \in Links
<1>1. run[r].line \in Seq(Entries) /\ run[r].id \in SnapshotIDs
  BY Executing
<1>2. CASE run[r].line = <<>>
  BY <1>1, <1>2, EmptySeq DEF prevLink, Root, Links
<1>3. CASE run[r].line # <<>>
  <2>1. run[r].line[Len(run[r].line)] \in Entries
    BY <1>1, <1>3
  <2> QED
    BY <1>3, <2>1 DEF prevLink, Entries
<1> QED
  BY <1>2, <1>3

LEMMA LinkType ==
  ASSUME NEW prev \in Links, NEW input \in Inputs, NEW output \in OutputValues
  PROVE  Link(prev, input, output) \in Links
<1>1. prev[1] \in SnapshotIDs /\ prev[2] \in Seq(Inputs \X OutputValues)
  BY DEF Links
<1>2. <<input, output>> \in Inputs \X OutputValues
  OBVIOUS
<1>3. Append(prev[2], <<input, output>>) \in Seq(Inputs \X OutputValues)
  BY <1>1, <1>2
<1> QED
  BY <1>1, <1>3 DEF Link, Links

(* What Insert commits and appends has the types of the tables.            *)
LEMMA InsertTypes ==
  ASSUME TypeInv, NEW r \in Runs, run[r].pc = "insert"
  PROVE  LET entry == run[r].entry
             link == Link(prevLink(r), entry.input, entry.output)
         IN  /\ entry \in Pending
             /\ memoKey(r) \in Keys
             /\ memoKey(r)[2] = WF[run[r].wf].chain[position(r)]
             /\ [key |-> memoKey(r), output |-> entry.output] \in MemoRows
             /\ [key |-> memoKey(r), output |-> entry.output,
                 reused |-> entry.memo = "reused",
                 prev |-> prevLink(r), link |-> link] \in ReplayRows
             /\ [domino |-> memoKey(r)[2], input |-> entry.input,
                 output |-> entry.output,
                 prev |-> prevLink(r), link |-> link] \in Entries
<1> DEFINE entry == run[r].entry
           link == Link(prevLink(r), entry.input, entry.output)
<1>1. entry \in Pending
  BY DEF TypeInv, RunShape
<1>2. entry.input \in Inputs /\ entry.output \in OutputValues
  BY <1>1 DEF Pending
<1>3. prevLink(r) \in Links
  BY PrevLinkType
<1>4. link \in Links
  BY <1>2, <1>3, LinkType
<1>5. memoKey(r) \in Keys /\ memoKey(r)[2] = WF[run[r].wf].chain[position(r)]
  BY <1>2, Executing DEF memoKey, Keys
<1>6. memoKey(r)[2] \in Names
  BY <1>5, Executing
<1> HIDE DEF link
<1>7. [key |-> memoKey(r), output |-> entry.output] \in MemoRows
  BY <1>2, <1>5 DEF MemoRows
<1>8. (entry.memo = "reused") \in BOOLEAN
  BY Zenon
<1>9. [key |-> memoKey(r), output |-> entry.output,
       reused |-> entry.memo = "reused",
       prev |-> prevLink(r), link |-> link] \in ReplayRows
  BY <1>2, <1>3, <1>4, <1>5, <1>8 DEF ReplayRows
<1>10. [domino |-> memoKey(r)[2], input |-> entry.input, output |-> entry.output,
        prev |-> prevLink(r), link |-> link] \in Entries
  BY <1>2, <1>3, <1>4, <1>6 DEF Entries
<1> QED
  BY <1>1, <1>5, <1>7, <1>9, <1>10 DEF link

LEMMA InsertTypeInv ==
  ASSUME TypeInv, NEW r \in Runs, Insert(r)
  PROVE  TypeInv'
<1> DEFINE entry == run[r].entry
           link == Link(prevLink(r), entry.input, entry.output)
           row == [key |-> memoKey(r), output |-> entry.output,
                   reused |-> entry.memo = "reused",
                   prev |-> prevLink(r), link |-> link]
           e == [domino |-> memoKey(r)[2], input |-> entry.input,
                 output |-> entry.output, prev |-> prevLink(r), link |-> link]
           pc == IF position(r) = Len(WF[run[r].wf].chain) THEN "done" ELSE "domino"
           R == [run[r] EXCEPT !.pc = pc, !.entry = Absent,
                               !.line = Append(run[r].line, e)]
<1>1. /\ run[r].pc = "insert"
      /\ UNCHANGED <<snapshots, snapVars, edits, faults>>
  BY DEF Insert
<1>2. TypeOK /\ run[r] \in RunStates /\ RunShape(r) /\ LineShape(r)
  BY DEF TypeInv, TypeOK
<1>3. CASE Fail(r) /\ UNCHANGED <<memo, replay>>
  BY <1>1, <1>2, <1>3, FailTypeInv DEF TypeOK, storeVars
<1>4. CASE /\ CommitResult(row, entry.memo = "new")
           /\ run' = [run EXCEPT ![r] = R]
  <2>1. /\ row \in ReplayRows /\ e \in Entries
        /\ [key |-> memoKey(r), output |-> entry.output] \in MemoRows
        /\ e.domino = WF[run[r].wf].chain[position(r)]
    BY <1>1, InsertTypes
  <2>2. /\ \A m \in memo' : m \in MemoRows
        /\ replay' \in Seq(ReplayRows)
    <3> HIDE DEF row
    <3>1. row.key = memoKey(r) /\ row.output = entry.output
      BY DEF row
    <3> QED
      BY <1>2, <1>4, <2>1, <3>1 DEF CommitResult, TypeOK
  <2> HIDE DEF e, pc
  <2>3. pc \in {"done", "domino"}
    BY DEF pc
  <2>4. /\ run[r].line \in Seq(Entries)
        /\ Append(run[r].line, e) \in Seq(Entries)
        /\ Append(run[r].line, e) # <<>>
        /\ Len(Append(run[r].line, e)) = position(r)
        /\ Append(run[r].line, e)[position(r)] = e
        /\ \A i \in 1..(position(r) - 1) : Append(run[r].line, e)[i] = run[r].line[i]
    BY <1>2, <2>1 DEF RunStates, position
  <2>5. R \in RunStates
    BY <1>2, <2>3, <2>4 DEF RunStates
  <2>6. /\ run' \in [Runs -> RunStates]
        /\ run'[r] = R
        /\ \A q \in Runs : q # r => run'[q] = run[q]
    BY <1>2, <1>4, <2>5 DEF TypeOK
  <2>7. /\ run'[r].pc = pc /\ run'[r].line = Append(run[r].line, e)
        /\ run'[r].wf = run[r].wf /\ run'[r].id = run[r].id /\ run'[r].time = run[r].time
    BY <1>2, <2>6 DEF RunStates
  <2>8. /\ run[r].wf \in Workflows /\ run[r].id \in SnapshotIDs
        /\ position(r) \in 1..Len(WF[run[r].wf].chain)
        /\ UniqueNames(WF[run[r].wf].chain)
        /\ AllowedReads(run[r].wf, position(r))
        /\ Len(run[r].line) = position(r) - 1
    BY <1>1, <1>2, Executing DEF RunShape
  <2>9. pc = "domino" => position(r) < Len(WF[run[r].wf].chain)
    <3>1. Len(WF[run[r].wf].chain) \in Nat
      BY <2>8, WorkflowTypes, SeqDomain
    <3> QED
      BY <2>8, <3>1 DEF pc
  <2>10. RunShape(r)'
    BY <2>3, <2>4, <2>7, <2>8, <2>9 DEF RunShape
  <2>11. LineShape(r)'
    <3>1. ASSUME NEW k \in 1..position(r)
          PROVE  /\ run'[r].line[k].domino = WF[run'[r].wf].chain[k]
                 /\ AllowedReads(run'[r].wf, k)
      <4>1. CASE k = position(r)
        BY <4>1, <2>1, <2>4, <2>7, <2>8
      <4>2. CASE k # position(r)
        <5>1. k \in 1..(position(r) - 1) /\ run[r].line # <<>>
          BY <4>2, <2>8
        <5> QED
          BY <5>1, <1>2, <2>4, <2>7, <2>8 DEF LineShape
      <4> QED
        BY <4>1, <4>2
    <3> QED
      BY <3>1, <2>4, <2>7, <2>8 DEF LineShape
  <2> QED
    BY <1>1, <1>2, <2>2, <2>6, <2>10, <2>11, RunFrame DEF TypeOK
<1> QED
  BY <1>2, <1>3, <1>4 DEF Insert, TypeOK, RunStates

(* The reconciler and the environment do not touch the runs.               *)
LEMMA SealFrame ==
  ASSUME TypeInv, NEW s \in Snaps,
         snapshots' \in [SnapshotIDs -> SnapshotRows \cup {Absent}],
         source' \in [Snaps -> Bytes \cup {Absent}],
         spec' \in [Snaps -> Specs],
         status' \in [Snaps -> Statuses],
         sealer' \in [Snaps -> Sealers],
         edits' \in Nat, faults' \in Nat,
         UNCHANGED <<memo, replay, run>>,
         \A u \in Snaps : u # s => sealer'[u] = sealer[u],
         SealerShape(s)'
  PROVE  TypeInv'
<1>1. TypeOK'
  BY DEF TypeInv, TypeOK
<1>2. ASSUME NEW r \in Runs PROVE RunShape(r)' /\ LineShape(r)'
  BY DEF TypeInv, RunShape, LineShape, position
<1>3. ASSUME NEW u \in Snaps PROVE SealerShape(u)'
  BY DEF TypeInv, SealerShape
<1> QED
  BY <1>1, <1>2, <1>3 DEF TypeInv

LEMMA IdleSealerType == IdleSealer \in Sealers /\ IdleSealer.pc = "idle"
BY DEF IdleSealer, Sealers

(* The reconcile of s ends, with the status that FailSeal or SealStatus    *)
(* gives it.                                                               *)
LEMMA SealEndTypeInv ==
  ASSUME TypeInv, NEW s \in Snaps,
         sealer' = [sealer EXCEPT ![s] = IdleSealer],
         status' \in [Snaps -> Statuses],
         faults' \in Nat,
         UNCHANGED <<storeVars, source, spec, edits, run>>
  PROVE  TypeInv'
<1>1. TypeOK
  BY DEF TypeInv
<1>2. sealer' \in [Snaps -> Sealers] /\ sealer'[s] = IdleSealer
  BY <1>1, IdleSealerType DEF TypeOK
<1>3. SealerShape(s)'
  BY <1>2, IdleSealerType DEF SealerShape
<1> QED
  BY <1>1, <1>2, <1>3, SealFrame DEF TypeOK, storeVars

LEMMA StatusPhaseType ==
  ASSUME TypeOK, NEW s \in Snaps, NEW phase \in Phases,
         NEW id \in SnapshotIDs \cup {Absent}
  PROVE  /\ [status EXCEPT ![s].phase = phase] \in [Snaps -> Statuses]
         /\ [status EXCEPT ![s].phase = phase, ![s].id = id] \in [Snaps -> Statuses]
<1>1. status[s] \in Statuses
  BY DEF TypeOK
<1>2. /\ [status[s] EXCEPT !.phase = phase] \in Statuses
      /\ [status[s] EXCEPT !.phase = phase, !.id = id] \in Statuses
  BY <1>1 DEF Statuses
<1> QED
  BY <1>2 DEF TypeOK

LEMMA FailSealType ==
  ASSUME TypeOK, NEW s \in Snaps, FailSeal(s)
  PROVE  status' \in [Snaps -> Statuses]
<1>1. "Error" \in Phases /\ Absent \in SnapshotIDs \cup {Absent}
  BY DEF Phases
<1>2. [status EXCEPT ![s].phase = "Error"] \in [Snaps -> Statuses]
  BY <1>1, StatusPhaseType
<1> QED
  BY <1>2 DEF FailSeal, TypeOK

LEMMA NotSealableTypeInv ==
  ASSUME TypeInv, NEW s \in Snaps, NotSealable(s), UNCHANGED run
  PROVE  TypeInv'
<1>1. TypeOK /\ SealerShape(s) /\ status[s] \in Statuses
  BY DEF TypeInv, TypeOK
<1>2. /\ UNCHANGED <<storeVars, source, spec, sealer, edits, faults>>
      /\ \/ SetPhase(s, "Pending", Absent)
         \/ SetPhase(s, "Error", status[s].id)
  BY DEF NotSealable
<1>3. status[s].id \in SnapshotIDs \cup {Absent} /\ "Pending" \in Phases /\ "Error" \in Phases
  BY <1>1 DEF Statuses, Phases
<1>4. status' \in [Snaps -> Statuses]
  <2>1. CASE SetPhase(s, "Pending", Absent)
    BY <1>1, <1>3, <2>1, StatusPhaseType DEF SetPhase
  <2>2. CASE SetPhase(s, "Error", status[s].id)
    <3> DEFINE id == status[s].id
    <3>1. id \in SnapshotIDs \cup {Absent} /\ status' = [status EXCEPT ![s].phase = "Error", ![s].id = id]
      BY <1>3, <2>2 DEF SetPhase
    <3> HIDE DEF id
    <3> QED
      BY <1>1, <1>3, <3>1, StatusPhaseType
  <2> QED
    BY <1>2, <2>1, <2>2
<1>5. SealerShape(s)'
  BY <1>1, <1>2 DEF SealerShape
<1> QED
  BY <1>1, <1>2, <1>4, <1>5, SealFrame DEF TypeOK, storeVars

LEMMA ReadSourceTypeInv ==
  ASSUME TypeInv, NEW s \in Snaps, ReadSource(s), UNCHANGED run
  PROVE  TypeInv'
<1> DEFINE new == [pc |-> "check", time |-> spec[s].time,
                   id |-> SourceID(s, spec[s].time),
                   data |-> SealedBytes(source[s]), gen |-> spec[s].gen]
<1>1. TypeOK /\ spec[s] \in Specs /\ source[s] \in Bytes \cup {Absent}
  BY DEF TypeInv, TypeOK
<1>2. /\ sealer' = [sealer EXCEPT ![s] = new]
      /\ spec[s].time # Absent /\ source[s] # Absent
      /\ UNCHANGED <<storeVars, source, spec, status, edits, faults>>
  BY DEF ReadSource
<1>3. spec[s].time \in Times /\ spec[s].gen \in Nat /\ source[s] \in Bytes
  BY <1>1, <1>2 DEF Specs
<1>4. SourceID(s, spec[s].time) \in SnapshotIDs
  BY <1>3, EncodingAssumption DEF SourceID, SnapshotID, SnapshotIDs
<1>5. SealedBytes(source[s]) \in Bytes
  BY <1>3, EncodingAssumption DEF SealedBytes
<1>6. new \in Sealers
  BY <1>3, <1>4, <1>5 DEF Sealers
<1>7. sealer' \in [Snaps -> Sealers] /\ sealer'[s] = new
  BY <1>1, <1>2, <1>6 DEF TypeOK
<1>8. SealerShape(s)'
  BY <1>3, <1>4, <1>5, <1>7 DEF SealerShape
<1> QED
  BY <1>1, <1>2, <1>7, <1>8, SealFrame DEF TypeOK, storeVars

(* A reconcile that goes on to its next statement.                         *)
LEMMA SealOnTypeInv ==
  ASSUME TypeInv, NEW s \in Snaps, sealer[s].pc # "idle",
         NEW pc \in {"write", "status"},
         sealer' = [sealer EXCEPT ![s].pc = pc],
         snapshots' \in [SnapshotIDs -> SnapshotRows \cup {Absent}],
         UNCHANGED <<memo, replay, source, spec, status, edits, faults, run>>
  PROVE  TypeInv'
<1>1. TypeOK /\ sealer[s] \in Sealers /\ SealerShape(s)
  BY DEF TypeInv, TypeOK
<1>2. [sealer[s] EXCEPT !.pc = pc] \in Sealers
  BY <1>1 DEF Sealers
<1>3. /\ sealer' \in [Snaps -> Sealers]
      /\ sealer'[s] = [sealer[s] EXCEPT !.pc = pc]
      /\ \A u \in Snaps : u # s => sealer'[u] = sealer[u]
  BY <1>1, <1>2 DEF TypeOK
<1>4. SealerShape(s)'
  BY <1>1, <1>3 DEF SealerShape, Sealers
<1> QED
  BY <1>1, <1>3, <1>4, SealFrame DEF TypeOK

LEMMA SealCheckTypeInv ==
  ASSUME TypeInv, NEW s \in Snaps, SealCheck(s), UNCHANGED run
  PROVE  TypeInv'
<1>1. TypeOK
  BY DEF TypeInv
<1>2. sealer[s].pc = "check" /\ UNCHANGED <<storeVars, source, spec, edits, faults>>
  BY DEF SealCheck
<1>3. CASE FailSeal(s)
  BY <1>1, <1>2, <1>3, FailSealType, SealEndTypeInv DEF TypeOK, FailSeal
<1>4. CASE ~FailSeal(s)
  <2> DEFINE pc == IF GetSnapshot(sealer[s].id) = Absent THEN "write" ELSE "status"
  <2>1. sealer' = [sealer EXCEPT ![s].pc = pc] /\ UNCHANGED status
    BY <1>4 DEF SealCheck
  <2>2. pc \in {"write", "status"}
    OBVIOUS
  <2> HIDE DEF pc
  <2> QED
    BY <1>1, <1>2, <2>1, <2>2, SealOnTypeInv DEF TypeOK, storeVars
<1> QED
  BY <1>3, <1>4

LEMMA SealWriteTypeInv ==
  ASSUME TypeInv, NEW s \in Snaps, SealWrite(s), UNCHANGED run
  PROVE  TypeInv'
<1>1. TypeOK /\ SealerShape(s) /\ sealer[s].pc = "write"
  BY DEF TypeInv, SealWrite
<1>2. [time |-> sealer[s].time, data |-> sealer[s].data] \in SnapshotRows
  BY <1>1 DEF SealerShape, SnapshotRows
<1>3. snapshots' \in [SnapshotIDs -> SnapshotRows \cup {Absent}]
  BY <1>1, <1>2 DEF SealWrite, InsertOrReplaceSnapshot, TypeOK
<1> QED
  BY <1>1, <1>3, SealOnTypeInv DEF SealWrite

LEMMA SealStatusTypeInv ==
  ASSUME TypeInv, NEW s \in Snaps, SealStatus(s), UNCHANGED run
  PROVE  TypeInv'
<1> DEFINE new == [phase |-> "Sealed", id |-> sealer[s].id, gen |-> sealer[s].gen]
<1>1. TypeOK /\ SealerShape(s) /\ sealer[s] \in Sealers
  BY DEF TypeInv, TypeOK
<1>2. new \in Statuses
  BY <1>1 DEF Statuses, Phases, Sealers
<1>3. status' \in [Snaps -> Statuses]
  BY <1>1, <1>2 DEF SealStatus, TypeOK
<1> QED
  BY <1>1, <1>3, SealEndTypeInv DEF SealStatus, TypeOK

LEMMA SealFaultTypeInv ==
  ASSUME TypeInv, NEW s \in Snaps, SealFault(s), UNCHANGED run
  PROVE  TypeInv'
<1>1. TypeOK
  BY DEF TypeInv
<1>2. faults' \in Nat /\ UNCHANGED <<storeVars, source, spec, edits>>
  BY <1>1 DEF SealFault, TypeOK
<1>3. sealer' = [sealer EXCEPT ![s] = IdleSealer] /\ status' \in [Snaps -> Statuses]
  BY <1>1, FailSealType DEF SealFault, FailSeal, TypeOK
<1> QED
  BY <1>2, <1>3, SealEndTypeInv

LEMMA EnvironmentTypeInv ==
  ASSUME TypeInv, NEW s \in Snaps, EditSpec(s) \/ WriteSource(s), UNCHANGED run
  PROVE  TypeInv'
<1>1. TypeOK /\ SealerShape(s) /\ spec[s] \in Specs
  BY DEF TypeInv, TypeOK
<1>2. CASE EditSpec(s)
  <2>1. PICK e \in SpecEdits :
          spec' = [spec EXCEPT ![s] =
            [time |-> e.time, sealed |-> e.sealed, gen |-> spec[s].gen + 1]]
    BY <1>2 DEF EditSpec
  <2>2. e.time \in Times \cup {Absent} /\ e.sealed \in BOOLEAN
    BY SnapshotAssumption
  <2>3. spec[s].gen + 1 \in Nat /\ edits' \in Nat
    BY <1>1, <1>2 DEF Specs, EditSpec, TypeOK
  <2>4. [time |-> e.time, sealed |-> e.sealed, gen |-> spec[s].gen + 1] \in Specs
    BY <2>2, <2>3 DEF Specs
  <2>5. spec' \in [Snaps -> Specs]
    BY <1>1, <2>1, <2>4 DEF TypeOK
  <2>6. SealerShape(s)'
    BY <1>1, <1>2 DEF SealerShape, EditSpec
  <2> QED
    BY <1>1, <1>2, <2>3, <2>5, <2>6, SealFrame DEF EditSpec, TypeOK, storeVars
<1>3. CASE WriteSource(s)
  <2>1. source' \in [Snaps -> Bytes \cup {Absent}] /\ edits' \in Nat
    BY <1>1, <1>3, SnapshotAssumption DEF WriteSource, TypeOK
  <2>2. SealerShape(s)'
    BY <1>1, <1>3 DEF SealerShape, WriteSource
  <2> QED
    BY <1>1, <1>3, <2>1, <2>2, SealFrame DEF WriteSource, TypeOK, storeVars
<1> QED
  BY <1>2, <1>3

LEMMA StutterTypeInv == TypeInv /\ UNCHANGED vars => TypeInv'
BY DEF TypeInv, TypeOK, RunShape, LineShape, SealerShape, position,
       vars, storeVars, snapVars

LEMMA NextTypeInv == TypeInv /\ [Next]_vars => TypeInv'
<1> SUFFICES ASSUME TypeInv, Next PROVE TypeInv'
  BY StutterTypeInv
<1>1. ASSUME NEW r \in Runs, RunStep(r) PROVE TypeInv'
  BY <1>1, LoadTypeInv, ResolveSourceTypeInv, CheckSnapshotTypeInv,
     WriteSnapshotTypeInv, DominoTypeInv, RecheckTypeInv, InsertTypeInv DEF RunStep
<1>2. ASSUME NEW r \in Runs, RunFault(r) PROVE TypeInv'
  <2>1. faults' \in Nat
    BY <1>2 DEF RunFault, TypeInv, TypeOK
  <2> QED
    BY <1>2, <2>1, FailTypeInv DEF RunFault
<1>3. ASSUME NEW s \in Snaps, Sealing(s), UNCHANGED run PROVE TypeInv'
  BY <1>3, NotSealableTypeInv, ReadSourceTypeInv, SealCheckTypeInv, SealWriteTypeInv,
     SealStatusTypeInv, SealFaultTypeInv, EnvironmentTypeInv DEF Sealing, ReconcileSnapshot
<1> QED
  BY <1>1, <1>2, <1>3, StartTypeInv DEF Next

(* Type correctness, with the shapes, in every reachable state.            *)
THEOREM TypeInvariance == Spec => []TypeInv
BY InitTypeInv, NextTypeInv, PTL DEF Spec

(* Every variable always has the type of the Go value or SQL row it stands *)
(* for: in particular resolveInputs never looks up an output that is not   *)
(* on the worldline, whatever chain it is given.                           *)
THEOREM TypeCorrectness == Spec => []TypeOK
BY TypeInvariance, PTL DEF TypeInv

(* The causal gate of Run: a recorded domino only read dominos the same    *)
(* run recorded before it, and no domino is recorded twice.                *)
THEOREM CausalOrder == Spec => []CausalPast
<1>1. TypeInv => CausalPast
  <2> SUFFICES ASSUME TypeInv, NEW r \in Runs, NEW k \in 1..Len(run[r].line)
               PROVE  LET earlier == {run[r].line[i].domino : i \in 1..(k - 1)}
                      IN  /\ Reads(run[r].wf, run[r].line[k].domino) \subseteq earlier
                          /\ run[r].line[k].domino \notin earlier
    BY DEF CausalPast
  <2> DEFINE chain == WF[run[r].wf].chain
             earlier == {run[r].line[i].domino : i \in 1..(k - 1)}
  <2>1. run[r].line \in Seq(Entries) /\ LineShape(r)
    BY DEF TypeInv, TypeOK, RunStates
  <2>2. run[r].line # <<>>
    BY <2>1
  <2>3. Len(run[r].line) \in Nat /\ \A i \in 1..(k - 1) : i \in 1..Len(run[r].line)
    BY <2>1, SeqDomain
  <2>4. /\ run[r].line[k].domino = chain[k]
        /\ \A i \in 1..(k - 1) : run[r].line[i].domino = chain[i]
        /\ AllowedReads(run[r].wf, k)
        /\ UniqueNames(chain)
        /\ run[r].wf \in Workflows
        /\ Len(run[r].line) <= Len(chain)
    BY <2>1, <2>2, <2>3 DEF LineShape
  <2>5. earlier = {chain[i] : i \in 1..(k - 1)}
    BY <2>4
  <2>6. Reads(run[r].wf, chain[k]) \subseteq earlier
    BY <2>4, <2>5 DEF AllowedReads
  <2>7. chain[k] \notin earlier
    <3>1. DOMAIN chain = 1..Len(chain) /\ Len(chain) \in Nat
      BY <2>4, WorkflowTypes, SeqDomain
    <3>2. k \in DOMAIN chain /\ \A i \in 1..(k - 1) : i \in DOMAIN chain /\ i # k
      BY <2>3, <2>4, <3>1
    <3> QED
      BY <2>4, <2>5, <3>2 DEF UniqueNames
  <2> QED
    BY <2>4, <2>6, <2>7
<1> QED
  BY <1>1, TypeInvariance, PTL

-----------------------------------------------------------------------------
(* How a step changes the store.                                           *)

SnapshotWrite(id, time, data) ==
  snapshots' = [snapshots EXCEPT ![id] = [time |-> time, data |-> data]]

LEMMA SnapshotSteps ==
  ASSUME [Next]_vars
  PROVE  \/ UNCHANGED snapshots
         \/ \E r \in Runs : run[r].pc = "write"
              /\ SnapshotWrite(run[r].id, run[r].time, run[r].data)
         \/ \E s \in Snaps : sealer[s].pc = "write"
              /\ SnapshotWrite(sealer[s].id, sealer[s].time, sealer[s].data)
<1>1. CASE UNCHANGED vars
  BY <1>1 DEF vars, storeVars
<1>2. ASSUME NEW r \in Runs, RunStep(r) \/ RunFault(r) \/ \E w \in Workflows : Start(r, w)
      PROVE  \/ UNCHANGED snapshots
             \/ run[r].pc = "write" /\ SnapshotWrite(run[r].id, run[r].time, run[r].data)
  BY <1>2 DEF RunStep, RunFault, Start, Load, ResolveSource, CheckSnapshot,
     WriteSnapshot, Domino, Recheck, Insert, storeVars, InsertOrReplaceSnapshot, SnapshotWrite
<1>3. ASSUME NEW s \in Snaps, Sealing(s)
      PROVE  \/ UNCHANGED snapshots
             \/ sealer[s].pc = "write"
                  /\ SnapshotWrite(sealer[s].id, sealer[s].time, sealer[s].data)
  BY <1>3 DEF Sealing, ReconcileSnapshot, NotSealable, ReadSource, SealCheck, SealWrite,
     SealStatus, SealFault, EditSpec, WriteSource, storeVars, InsertOrReplaceSnapshot,
     SnapshotWrite
<1> QED
  BY <1>1, <1>2, <1>3 DEF Next

(* A step of one run leaves the other runs where they are.                 *)
LEMMA OneRun ==
  ASSUME TypeInv, NEW q \in Runs, NEW r \in Runs, q # r,
         RunStep(q) \/ RunFault(q) \/ \E w \in Workflows : Start(q, w)
  PROVE  run'[r] = run[r]
BY DEF RunStep, RunFault, Start, Load, ResolveSource, CheckSnapshot, WriteSnapshot,
   Domino, Recheck, Insert, Fail, SnapshotSaved, TypeInv, TypeOK

(* No row is ever deleted.                                                 *)
LEMMA SnapshotsStay ==
  ASSUME TypeInv, [Next]_vars, NEW id \in SnapshotIDs, snapshots[id] # Absent
  PROVE  snapshots'[id] # Absent
<1>1. TypeOK
  BY DEF TypeInv
<1>2. ASSUME NEW i \in SnapshotIDs, NEW time \in Times, NEW data \in Bytes,
             SnapshotWrite(i, time, data)
      PROVE  snapshots'[id] # Absent
  <2>1. [time |-> time, data |-> data] # Absent
    BY AbsentAssumption
  <2> QED
    BY <1>1, <1>2, <2>1 DEF SnapshotWrite, TypeOK
<1>3. ASSUME NEW r \in Runs, run[r].pc = "write"
      PROVE  run[r].id \in SnapshotIDs /\ run[r].time \in Times /\ run[r].data \in Bytes
  BY <1>3 DEF TypeInv, RunShape
<1>4. ASSUME NEW s \in Snaps, sealer[s].pc = "write"
      PROVE  sealer[s].id \in SnapshotIDs /\ sealer[s].time \in Times /\ sealer[s].data \in Bytes
  BY <1>4 DEF TypeInv, SealerShape
<1> QED
  BY <1>2, <1>3, <1>4, SnapshotSteps

-----------------------------------------------------------------------------
(* Content addressing.  SaveSnapshot checks nothing about the identity, so *)
(* the invariant is that whoever is about to write holds a triple whose    *)
(* identity is that of its content.                                        *)

AddressInv ==
  /\ ContentAddressed
  /\ \A r \in Runs : run[r].pc \in {"check", "write"} =>
       AssertSnapshotID(run[r].id, run[r].time, run[r].data)
  /\ \A s \in Snaps : sealer[s].pc \in {"check", "write"} =>
       AssertSnapshotID(sealer[s].id, sealer[s].time, sealer[s].data)

(* A run that reaches SaveSnapshot either was in it or has just resolved   *)
(* its content.                                                            *)
LEMMA RunReachesSave ==
  ASSUME TypeInv, [Next]_vars, NEW r \in Runs, run'[r].pc \in {"check", "write"}
  PROVE  \/ /\ run[r].pc \in {"check", "write"}
            /\ run'[r].id = run[r].id /\ run'[r].time = run[r].time
            /\ run'[r].data = run[r].data
         \/ Load(r)
         \/ ResolveSource(r)
<1>1. TypeOK /\ run[r] \in RunStates
  BY DEF TypeInv, TypeOK
<1>2. CASE run'[r] = run[r]
  BY <1>2
<1>3. CASE CheckSnapshot(r)
  BY <1>1, <1>3 DEF CheckSnapshot, Fail, SnapshotSaved, TypeOK, RunStates
<1>4. CASE WriteSnapshot(r)
  BY <1>1, <1>4 DEF WriteSnapshot, SnapshotSaved, TypeOK, RunStates
<1>5. CASE Domino(r)
  BY <1>1, <1>5 DEF Domino, Fail, TypeOK, RunStates
<1>6. CASE Recheck(r)
  BY <1>1, <1>6 DEF Recheck, Fail, TypeOK, RunStates
<1>7. CASE Insert(r)
  BY <1>1, <1>7 DEF Insert, Fail, TypeOK, RunStates
<1>8. CASE RunFault(r)
  BY <1>1, <1>8 DEF RunFault, Fail, TypeOK, RunStates
<1>9. CASE \E w \in Workflows : Start(r, w)
  BY <1>1, <1>9 DEF Start, IdleRun, TypeOK
<1>10. ASSUME NEW q \in Runs, q # r,
              RunStep(q) \/ RunFault(q) \/ \E w \in Workflows : Start(q, w)
       PROVE  run'[r] = run[r]
  BY <1>10, OneRun
<1> QED
  BY <1>2, <1>3, <1>4, <1>5, <1>6, <1>7, <1>8, <1>9, <1>10 DEF Next, RunStep, vars

LEMMA RunAddress ==
  ASSUME TypeInv, AddressInv, [Next]_vars,
         NEW r \in Runs, run'[r].pc \in {"check", "write"}
  PROVE  AssertSnapshotID(run'[r].id, run'[r].time, run'[r].data)
<1>1. TypeOK /\ run[r] \in RunStates /\ RunShape(r)
  BY DEF TypeInv, TypeOK
<1>2. CASE Load(r)
  <2> DEFINE row == GetSnapshot(run[r].id)
  <2>1. /\ AssertSnapshotID(run[r].id, run[r].time, row.data)
        /\ run' = [run EXCEPT ![r].pc = "check", ![r].data = row.data]
    BY <1>1, <1>2 DEF Load, Fail, TypeOK, RunStates
  <2> HIDE DEF row
  <2>2. run'[r].id = run[r].id /\ run'[r].time = run[r].time /\ run'[r].data = row.data
    BY <1>1, <2>1 DEF TypeOK, RunStates
  <2> QED
    BY <2>1, <2>2
<1>3. CASE ResolveSource(r)
  <2> DEFINE raw == source[snapOf(r)]
             id == IF run[r].id = Absent
                     THEN SourceID(snapOf(r), run[r].time) ELSE run[r].id
  <2>1. /\ run[r].pc = "source" /\ raw # Absent
        /\ AssertSnapshotID(id, run[r].time, raw)
        /\ run' = [run EXCEPT ![r].pc = "check", ![r].id = id,
                              ![r].data = Marshal[Parse[raw]]]
    BY <1>1, <1>3 DEF ResolveSource, Fail, TypeOK, RunStates
  <2>2. snapOf(r) \in Snaps
    BY <1>1, <2>1, WorkflowTypes DEF RunShape, snapOf
  <2>3. raw \in Bytes
    BY <1>1, <2>1, <2>2 DEF TypeOK
  <2>4. Parse[Marshal[Parse[raw]]] = Parse[raw]
    BY <2>3, EncodingAssumption
  <2> HIDE DEF raw, id
  <2>5. run'[r].id = id /\ run'[r].time = run[r].time /\ run'[r].data = Marshal[Parse[raw]]
    BY <1>1, <2>1 DEF TypeOK, RunStates
  <2> QED
    BY <2>1, <2>4, <2>5 DEF AssertSnapshotID
<1> QED
  BY <1>2, <1>3, RunReachesSave DEF AddressInv

(* A reconcile that reaches SaveSnapshot was in it or has read the source. *)
LEMMA SealerReachesSave ==
  ASSUME TypeInv, [Next]_vars, NEW s \in Snaps, sealer'[s].pc \in {"check", "write"}
  PROVE  \/ /\ sealer[s].pc \in {"check", "write"}
            /\ sealer'[s].id = sealer[s].id /\ sealer'[s].time = sealer[s].time
            /\ sealer'[s].data = sealer[s].data
         \/ ReadSource(s)
<1>1. TypeOK /\ sealer[s] \in Sealers /\ IdleSealer.pc = "idle"
  BY IdleSealerType DEF TypeInv, TypeOK
<1>2. CASE sealer' = sealer
  BY <1>2
<1>3. ASSUME NEW u \in Snaps, Sealing(u) PROVE sealer' = sealer \/ u = s \/ sealer'[s] = sealer[s]
  BY <1>1, <1>3 DEF Sealing, ReconcileSnapshot, NotSealable, ReadSource, SealCheck, SealWrite,
     SealStatus, SealFault, EditSpec, WriteSource, FailSeal, TypeOK
<1>4. CASE Sealing(s)
  BY <1>1, <1>4 DEF Sealing, ReconcileSnapshot, NotSealable, SealCheck, SealWrite,
     SealStatus, SealFault, EditSpec, WriteSource, FailSeal, TypeOK, Sealers
<1>5. ASSUME NEW r \in Runs, RunStep(r) \/ RunFault(r) \/ \E w \in Workflows : Start(r, w)
      PROVE  sealer' = sealer
  BY <1>5 DEF RunStep, RunFault, Start, Load, ResolveSource, CheckSnapshot,
     WriteSnapshot, Domino, Recheck, Insert, snapVars
<1> QED
  BY <1>2, <1>3, <1>4, <1>5 DEF Next, vars, snapVars

LEMMA SealerAddress ==
  ASSUME TypeInv, AddressInv, [Next]_vars,
         NEW s \in Snaps, sealer'[s].pc \in {"check", "write"}
  PROVE  AssertSnapshotID(sealer'[s].id, sealer'[s].time, sealer'[s].data)
<1>1. CASE ReadSource(s)
  <2>1. TypeOK /\ source[s] \in Bytes \cup {Absent}
    BY DEF TypeInv, TypeOK
  <2>2. source[s] \in Bytes
    BY <1>1, <2>1 DEF ReadSource
  <2>3. Parse[SealedBytes(source[s])] = Parse[source[s]]
    BY <2>2, EncodingAssumption DEF SealedBytes
  <2>4. /\ sealer'[s].id = SourceID(s, spec[s].time) /\ sealer'[s].time = spec[s].time
        /\ sealer'[s].data = SealedBytes(source[s])
    BY <1>1, <2>1 DEF ReadSource, TypeOK
  <2> QED
    BY <2>3, <2>4 DEF AssertSnapshotID, SourceID
<1> QED
  BY <1>1, SealerReachesSave DEF AddressInv

LEMMA NextAddressInv ==
  ASSUME TypeInv, AddressInv, [Next]_vars
  PROVE  AddressInv'
<1>1. TypeOK
  BY DEF TypeInv
<1>2. ASSUME NEW id \in SnapshotIDs, NEW time \in Times, NEW data \in Bytes,
             AssertSnapshotID(id, time, data), SnapshotWrite(id, time, data)
      PROVE  ContentAddressed'
  BY <1>1, <1>2 DEF SnapshotWrite, AssertSnapshotID, AddressInv, ContentAddressed, TypeOK
<1>3. ASSUME NEW r \in Runs, run[r].pc = "write"
      PROVE  /\ run[r].id \in SnapshotIDs /\ run[r].time \in Times /\ run[r].data \in Bytes
             /\ AssertSnapshotID(run[r].id, run[r].time, run[r].data)
  BY <1>3 DEF TypeInv, RunShape, AddressInv
<1>4. ASSUME NEW s \in Snaps, sealer[s].pc = "write"
      PROVE  /\ sealer[s].id \in SnapshotIDs /\ sealer[s].time \in Times
             /\ sealer[s].data \in Bytes
             /\ AssertSnapshotID(sealer[s].id, sealer[s].time, sealer[s].data)
  BY <1>4 DEF TypeInv, SealerShape, AddressInv
<1>5. ContentAddressed'
  <2>1. CASE UNCHANGED snapshots
    BY <2>1 DEF AddressInv, ContentAddressed
  <2> QED
    BY <1>2, <1>3, <1>4, <2>1, SnapshotSteps
<1> QED
  BY <1>5, RunAddress, SealerAddress DEF AddressInv, AssertSnapshotID

LEMMA InitAddressInv == Init => AddressInv
<1> SUFFICES ASSUME Init PROVE AddressInv
  OBVIOUS
<1>1. ContentAddressed
  BY DEF Init, InitStore, ContentAddressed
<1>2. \A r \in Runs : run[r].pc = "idle"
  BY DEF Init, IdleRun
<1>3. \A s \in Snaps : sealer[s].pc = "idle"
  BY DEF Init, InitSnapshots, IdleSealer
<1> QED
  BY <1>1, <1>2, <1>3 DEF AddressInv

THEOREM AddressInvariance == Spec => [](TypeInv /\ AddressInv)
<1>1. Init => TypeInv /\ AddressInv
  BY InitTypeInv, InitAddressInv
<1>2. (TypeInv /\ AddressInv) /\ [Next]_vars => (TypeInv /\ AddressInv)'
  BY NextTypeInv, NextAddressInv
<1> QED
  BY <1>1, <1>2, PTL DEF Spec

(* The payload stored under an identity always parses to the content, and  *)
(* carries the time slice, the identity was hashed from: the two-statement *)
(* SaveSnapshot, unguarded against other writers, cannot break this.       *)
THEOREM ContentAddressing == Spec => []ContentAddressed
BY AddressInvariance, PTL DEF AddressInv

-----------------------------------------------------------------------------
(* Sealed status.                                                          *)

(* SealedMeansStored, strengthened by what an unfinished reconcile holds:  *)
(* the generation it read never runs ahead of the spec, and as long as     *)
(* they agree the time slice does too.                                     *)
SealOK(s) ==
  /\ status[s].phase = "Sealed" =>
       /\ status[s].id # Absent
       /\ snapshots[status[s].id] # Absent
       /\ status[s].gen = spec[s].gen => status[s].id[1] = spec[s].time
  /\ status[s].gen <= spec[s].gen
  /\ sealer[s].pc # "idle" =>
       /\ sealer[s].gen <= spec[s].gen
       /\ sealer[s].id[1] = sealer[s].time
       /\ sealer[s].gen = spec[s].gen => sealer[s].time = spec[s].time
  /\ sealer[s].pc = "status" => snapshots[sealer[s].id] # Absent

SealInv == \A s \in Snaps : SealOK(s)

LEMMA SnapTypes ==
  ASSUME TypeInv, NEW s \in Snaps
  PROVE  /\ spec[s] \in Specs /\ status[s] \in Statuses /\ sealer[s] \in Sealers
         /\ spec[s].gen \in Nat /\ status[s].gen \in Nat /\ sealer[s].gen \in Nat
         /\ status[s].id # Absent => status[s].id \in SnapshotIDs
         /\ sealer[s].pc # "idle" => sealer[s].id \in SnapshotIDs
<1>1. spec[s] \in Specs /\ status[s] \in Statuses /\ sealer[s] \in Sealers /\ SealerShape(s)
  BY DEF TypeInv, TypeOK
<1> QED
  BY <1>1 DEF Specs, Statuses, Sealers, SealerShape

(* Another resource, or a step that leaves this one and its reconcile.     *)
LEMMA SealOKFrame ==
  ASSUME TypeInv, SealInv, [Next]_vars, NEW s \in Snaps,
         status'[s] = status[s], spec'[s] = spec[s], sealer'[s] = sealer[s]
  PROVE  SealOK(s)'
<1>1. status[s].id # Absent /\ snapshots[status[s].id] # Absent
        => snapshots'[status[s].id] # Absent
  BY SnapTypes, SnapshotsStay
<1>2. sealer[s].pc = "status" /\ snapshots[sealer[s].id] # Absent
        => snapshots'[sealer[s].id] # Absent
  BY SnapTypes, SnapshotsStay
<1> QED
  BY <1>1, <1>2 DEF SealInv, SealOK

LEMMA FailSealOK ==
  ASSUME TypeInv, SealInv, [Next]_vars, NEW s \in Snaps,
         FailSeal(s), UNCHANGED <<snapshots, spec>>
  PROVE  SealOK(s)'
<1>1. status[s] \in Statuses /\ IdleSealer.pc = "idle" /\ TypeOK /\ SealOK(s)
  BY SnapTypes, IdleSealerType DEF TypeInv, SealInv
<1>2. sealer'[s] = IdleSealer
  BY <1>1 DEF FailSeal, TypeOK
<1>3. status'[s].gen = status[s].gen
      /\ (status'[s] = status[s] \/ status'[s].phase = "Error")
  BY <1>1 DEF FailSeal, Statuses, TypeOK
<1> QED
  BY <1>1, <1>2, <1>3 DEF SealOK

LEMMA SealingSealOK ==
  ASSUME TypeInv, SealInv, [Next]_vars, NEW s \in Snaps, Sealing(s)
  PROVE  SealOK(s)'
<1>1. /\ TypeOK /\ SealOK(s) /\ SealerShape(s) /\ IdleSealer.pc = "idle"
      /\ spec[s] \in Specs /\ status[s] \in Statuses /\ sealer[s] \in Sealers
      /\ spec[s].gen \in Nat /\ status[s].gen \in Nat /\ sealer[s].gen \in Nat
  BY SnapTypes, IdleSealerType DEF TypeInv, SealInv
<1>2. CASE NotSealable(s)
  <2>1. /\ status'[s].phase \in {"Pending", "Error"} /\ status'[s].gen = status[s].gen
        /\ UNCHANGED <<snapshots, spec, sealer>>
    BY <1>1, <1>2 DEF NotSealable, SetPhase, TypeOK, Statuses, storeVars
  <2> QED
    BY <1>1, <2>1 DEF SealOK
<1>3. CASE ReadSource(s)
  <2>1. /\ UNCHANGED <<snapshots, spec, status>>
        /\ sealer'[s].pc = "check" /\ sealer'[s].gen = spec[s].gen
        /\ sealer'[s].time = spec[s].time
        /\ sealer'[s].id = SourceID(s, spec[s].time)
    BY <1>1, <1>3 DEF ReadSource, TypeOK, storeVars
  <2>2. sealer'[s].id[1] = spec[s].time
    BY <2>1 DEF SourceID, SnapshotID
  <2> QED
    BY <1>1, <2>1, <2>2 DEF SealOK
<1>4. CASE SealCheck(s)
  <2>1. sealer[s].pc = "check" /\ UNCHANGED <<snapshots, spec>>
    BY <1>4 DEF SealCheck, storeVars
  <2>2. CASE FailSeal(s)
    BY <2>1, <2>2, FailSealOK
  <2>3. CASE ~FailSeal(s)
    <3>1. /\ UNCHANGED status
          /\ sealer'[s].id = sealer[s].id /\ sealer'[s].time = sealer[s].time
          /\ sealer'[s].gen = sealer[s].gen
          /\ sealer'[s].pc = "status" => snapshots[sealer[s].id] # Absent
      BY <1>1, <1>4, <2>3 DEF SealCheck, TypeOK, Sealers, GetSnapshot
    <3> QED
      BY <1>1, <2>1, <3>1 DEF SealOK
  <2> QED
    BY <2>2, <2>3
<1>5. CASE SealWrite(s)
  <2>1. /\ sealer[s].pc = "write" /\ UNCHANGED <<spec, status>>
        /\ sealer'[s].id = sealer[s].id /\ sealer'[s].time = sealer[s].time
        /\ sealer'[s].gen = sealer[s].gen
    BY <1>1, <1>5 DEF SealWrite, TypeOK, Sealers
  <2>2. [time |-> sealer[s].time, data |-> sealer[s].data] # Absent
    BY <1>1, <2>1, AbsentAssumption DEF SealerShape
  <2>3. snapshots'[sealer[s].id] # Absent
    BY <1>1, <1>5, <2>1, <2>2 DEF SealWrite, InsertOrReplaceSnapshot, TypeOK, SealerShape
  <2>4. status[s].id # Absent /\ snapshots[status[s].id] # Absent
          => snapshots'[status[s].id] # Absent
    BY SnapTypes, SnapshotsStay
  <2> QED
    BY <1>1, <2>1, <2>3, <2>4 DEF SealOK
<1>6. CASE SealStatus(s)
  <2>1. /\ sealer[s].pc = "status" /\ UNCHANGED <<snapshots, spec>>
        /\ sealer'[s] = IdleSealer
        /\ \/ status'[s] = status[s]
           \/ /\ spec[s].gen = sealer[s].gen
              /\ status'[s] = [phase |-> "Sealed", id |-> sealer[s].id, gen |-> sealer[s].gen]
    BY <1>1, <1>6 DEF SealStatus, TypeOK, storeVars
  <2>2. sealer[s].id \in SnapshotIDs /\ sealer[s].id # Absent
    BY <1>1, <2>1, AbsentAssumption DEF SealerShape, SnapshotIDs
  <2> QED
    BY <1>1, <2>1, <2>2 DEF SealOK
<1>7. CASE SealFault(s)
  <2>1. UNCHANGED <<snapshots, spec>>
    BY <1>7 DEF SealFault, storeVars
  <2>2. CASE FailSeal(s)
    BY <2>1, <2>2, FailSealOK
  <2>3. CASE ~FailSeal(s)
    <3>1. sealer'[s] = IdleSealer /\ UNCHANGED status
      BY <1>1, <1>7, <2>3 DEF SealFault, TypeOK
    <3> QED
      BY <1>1, <2>1, <3>1 DEF SealOK
  <2> QED
    BY <2>2, <2>3
<1>8. CASE EditSpec(s)
  <2>1. UNCHANGED <<snapshots, status, sealer>> /\ spec'[s].gen = spec[s].gen + 1
    BY <1>1, <1>8 DEF EditSpec, TypeOK, storeVars
  <2> QED
    BY <1>1, <2>1 DEF SealOK
<1>9. CASE WriteSource(s)
  BY <1>9, SealOKFrame DEF WriteSource
<1> QED
  BY <1>2, <1>3, <1>4, <1>5, <1>6, <1>7, <1>8, <1>9 DEF Sealing, ReconcileSnapshot

LEMMA NextSealInv ==
  ASSUME TypeInv, SealInv, [Next]_vars
  PROVE  SealInv'
<1> SUFFICES ASSUME NEW s \in Snaps PROVE SealOK(s)'
  BY DEF SealInv
<1>1. CASE UNCHANGED vars
  BY <1>1, SealOKFrame DEF vars, snapVars
<1>2. ASSUME NEW r \in Runs, RunStep(r) \/ RunFault(r) \/ \E w \in Workflows : Start(r, w)
      PROVE  SealOK(s)'
  <2>1. UNCHANGED snapVars
    BY <1>2 DEF RunStep, RunFault, Start, Load, ResolveSource, CheckSnapshot,
       WriteSnapshot, Domino, Recheck, Insert
  <2> QED
    BY <2>1, SealOKFrame DEF snapVars
<1>3. ASSUME NEW u \in Snaps, Sealing(u)
      PROVE  SealOK(s)'
  <2>1. CASE u = s
    BY <1>3, <2>1, SealingSealOK
  <2>2. CASE u # s
    <3>1. TypeOK
      BY DEF TypeInv
    <3>2. status'[s] = status[s] /\ spec'[s] = spec[s] /\ sealer'[s] = sealer[s]
      BY <1>3, <2>2, <3>1 DEF Sealing, ReconcileSnapshot, NotSealable, SetPhase, ReadSource,
         SealCheck, SealWrite, SealStatus, SealFault, EditSpec, WriteSource, FailSeal, TypeOK
    <3> QED
      BY <3>2, SealOKFrame
  <2> QED
    BY <2>1, <2>2
<1> QED
  BY <1>1, <1>2, <1>3 DEF Next

LEMMA InitSealInv == Init => SealInv
<1> SUFFICES ASSUME Init, NEW s \in Snaps PROVE SealOK(s)
  BY DEF SealInv
<1>1. status[s].phase = "" /\ status[s].gen = 0 /\ sealer[s].pc = "idle"
  BY DEF Init, InitSnapshots, IdleSealer
<1>2. spec[s].gen = 1
  <2>1. spec[s] \in {[time |-> t, sealed |-> TRUE, gen |-> 1] : t \in Times}
    BY DEF Init, InitSnapshots
  <2> QED
    BY <2>1
<1>3. status[s].phase # "Sealed" /\ sealer[s].pc # "status"
  BY <1>1, Zenon
<1>4. status[s].gen <= spec[s].gen
  <2>1. \A m, n : m = 0 /\ n = 1 => m <= n
    OBVIOUS
  <2> QED
    BY <1>1, <1>2, <2>1, Zenon
<1> QED
  BY <1>1, <1>3, <1>4 DEF SealOK

(* A Snapshot that reports Sealed has its payload in the store, and, once  *)
(* its status is current, names the time slice of its spec.                *)
THEOREM SealedStatus == Spec => []SealedMeansStored
<1>1. Init => TypeInv /\ SealInv
  BY InitTypeInv, InitSealInv
<1>2. (TypeInv /\ SealInv) /\ [Next]_vars => (TypeInv /\ SealInv)'
  BY NextTypeInv, NextSealInv
<1>3. SealInv => SealedMeansStored
  BY DEF SealInv, SealOK, SealedMeansStored
<1> QED
  BY <1>1, <1>2, <1>3, PTL DEF Spec

-----------------------------------------------------------------------------
(* The inductive invariant.  A run that is past SaveSnapshot has its       *)
(* snapshot stored, so its inputs come from the store; what it is about to *)
(* record, and has recorded, agrees with the memo, in which a key has one  *)
(* output.                                                                 *)

MemoFunctional == \A m, n \in memo : m.key = n.key => m = n

MemoRow(id, domino, input, output) ==
  [key |-> <<id, domino, input>>, output |-> output]

Stored(r) ==
  run[r].pc \in {"domino", "recheck", "insert", "done"} \/ run[r].line # <<>>
    => snapshots[run[r].id] # Absent

EntryOK(r) ==
  /\ run[r].pc \in {"recheck", "insert"} =>
       run[r].entry.input =
         resolveInputs(run[r].wf, position(r), run[r].id[2], run[r].line)
  /\ run[r].pc = "insert" /\ run[r].entry.memo # "new" =>
       [key |-> memoKey(r), output |-> run[r].entry.output] \in memo

(* One entry of a worldline: its input, its memo row, its place in the     *)
(* hash chain and its row in the log.                                      *)
EntryRecorded(r, k) ==
  LET e == run[r].line[k]
  IN  /\ e.input = resolveInputs(run[r].wf, k, run[r].id[2], Prefix(run[r].line, k - 1))
      /\ MemoRow(run[r].id, e.domino, e.input, e.output) \in memo
      /\ e.prev = IF k = 1 THEN Root(run[r].id) ELSE run[r].line[k - 1].link
      /\ e.link = Link(e.prev, e.input, e.output)
      /\ \E i \in DOMAIN replay :
           /\ replay[i].key = <<run[r].id, e.domino, e.input>>
           /\ replay[i].output = e.output
           /\ replay[i].prev = e.prev /\ replay[i].link = e.link

LineOK(r) == \A k \in 1..Len(run[r].line) : EntryRecorded(r, k)

WorldlineInv ==
  /\ MemoFunctional
  /\ \A r \in Runs : Stored(r) /\ EntryOK(r) /\ LineOK(r)

-----------------------------------------------------------------------------
(* How a step changes the memo, the log and a run.                         *)

LEMMA ResultSteps ==
  ASSUME [Next]_vars
  PROVE  UNCHANGED <<memo, replay>> \/ \E r \in Runs : Insert(r)
<1>1. CASE UNCHANGED vars
  BY <1>1 DEF vars, storeVars
<1>2. ASSUME NEW r \in Runs, RunStep(r) \/ RunFault(r) \/ \E w \in Workflows : Start(r, w)
      PROVE  UNCHANGED <<memo, replay>> \/ Insert(r)
  BY <1>2 DEF RunStep, RunFault, Start, Load, ResolveSource, CheckSnapshot,
     WriteSnapshot, Domino, Recheck, storeVars
<1>3. ASSUME NEW s \in Snaps, Sealing(s)
      PROVE  UNCHANGED <<memo, replay>>
  BY <1>3 DEF Sealing, ReconcileSnapshot, NotSealable, ReadSource, SealCheck, SealWrite,
     SealStatus, SealFault, EditSpec, WriteSource, storeVars
<1> QED
  BY <1>1, <1>2, <1>3 DEF Next

(* Rows are only added.                                                    *)
LEMMA ResultsGrow ==
  ASSUME TypeInv, [Next]_vars
  PROVE  /\ memo \subseteq memo'
         /\ \A i \in DOMAIN replay : i \in DOMAIN replay' /\ replay'[i] = replay[i]
<1>1. TypeOK
  BY DEF TypeInv
<1>2. ASSUME NEW row, NEW new, CommitResult(row, new)
      PROVE  /\ memo \subseteq memo'
             /\ \A i \in DOMAIN replay : i \in DOMAIN replay' /\ replay'[i] = replay[i]
  BY <1>1, <1>2 DEF CommitResult, TypeOK
<1>3. ASSUME NEW r \in Runs, Insert(r)
      PROVE  UNCHANGED <<memo, replay>> \/ \E row, new : CommitResult(row, new)
  BY <1>3 DEF Insert
<1> QED
  BY <1>2, <1>3, ResultSteps

(* The fields a worldline is read with change only when it is empty.       *)
LEMMA LineSteps ==
  ASSUME TypeInv, [Next]_vars, NEW r \in Runs
  PROVE  \/ run'[r].line = <<>>
         \/ Insert(r)
         \/ /\ run'[r].line = run[r].line /\ run'[r].id = run[r].id
            /\ run'[r].wf = run[r].wf
<1>1. TypeOK /\ run[r] \in RunStates /\ RunShape(r)
  BY DEF TypeInv, TypeOK
<1>2. CASE run'[r] = run[r]
  BY <1>2
<1>3. CASE Load(r)
  BY <1>1, <1>3 DEF Load, Fail, TypeOK, RunStates, RunShape
<1>4. CASE ResolveSource(r)
  BY <1>1, <1>4 DEF ResolveSource, Fail, TypeOK, RunStates, RunShape
<1>5. CASE CheckSnapshot(r)
  BY <1>1, <1>5 DEF CheckSnapshot, Fail, SnapshotSaved, TypeOK, RunStates
<1>6. CASE WriteSnapshot(r)
  BY <1>1, <1>6 DEF WriteSnapshot, SnapshotSaved, TypeOK, RunStates
<1>7. CASE Domino(r)
  BY <1>1, <1>7 DEF Domino, Fail, TypeOK, RunStates
<1>8. CASE Recheck(r)
  BY <1>1, <1>8 DEF Recheck, Fail, TypeOK, RunStates
<1>9. CASE RunFault(r)
  BY <1>1, <1>9 DEF RunFault, Fail, TypeOK, RunStates
<1>10. CASE \E w \in Workflows : Start(r, w)
  BY <1>1, <1>10 DEF Start, IdleRun, TypeOK
<1>11. ASSUME NEW q \in Runs, q # r,
              RunStep(q) \/ RunFault(q) \/ \E w \in Workflows : Start(q, w)
       PROVE  run'[r] = run[r]
  BY <1>11, OneRun
<1> QED
  BY <1>2, <1>3, <1>4, <1>5, <1>6, <1>7, <1>8, <1>9, <1>10, <1>11 DEF Next, RunStep, vars

(* A pending entry stays, or comes from Domino, or is marked by Recheck.   *)
LEMMA EntrySteps ==
  ASSUME TypeInv, [Next]_vars, NEW r \in Runs, run'[r].pc \in {"recheck", "insert"}
  PROVE  run'[r] = run[r] \/ Domino(r) \/ Recheck(r)
<1>1. TypeOK /\ run[r] \in RunStates
  BY DEF TypeInv, TypeOK
<1>2. CASE Load(r)
  BY <1>1, <1>2 DEF Load, Fail, TypeOK, RunStates
<1>3. CASE ResolveSource(r)
  BY <1>1, <1>3 DEF ResolveSource, Fail, TypeOK, RunStates
<1>4. CASE CheckSnapshot(r)
  BY <1>1, <1>4 DEF CheckSnapshot, Fail, SnapshotSaved, TypeOK, RunStates
<1>5. CASE WriteSnapshot(r)
  BY <1>1, <1>5 DEF WriteSnapshot, SnapshotSaved, TypeOK, RunStates
<1>6. CASE Insert(r)
  BY <1>1, <1>6 DEF Insert, Fail, TypeOK, RunStates
<1>7. CASE RunFault(r)
  BY <1>1, <1>7 DEF RunFault, Fail, TypeOK, RunStates
<1>8. CASE \E w \in Workflows : Start(r, w)
  BY <1>1, <1>8 DEF Start, IdleRun, TypeOK
<1>9. ASSUME NEW q \in Runs, q # r,
             RunStep(q) \/ RunFault(q) \/ \E w \in Workflows : Start(q, w)
      PROVE  run'[r] = run[r]
  BY <1>9, OneRun
<1> QED
  BY <1>2, <1>3, <1>4, <1>5, <1>6, <1>7, <1>8, <1>9 DEF Next, RunStep, vars

-----------------------------------------------------------------------------
(* Stored.                                                                 *)

LEMMA NextStored ==
  ASSUME TypeInv, [Next]_vars, NEW r \in Runs, Stored(r)
  PROVE  Stored(r)'
<1> SUFFICES ASSUME run'[r].pc \in {"domino", "recheck", "insert", "done"}
                      \/ run'[r].line # <<>>
             PROVE  snapshots'[run'[r].id] # Absent
  BY DEF Stored
<1>1. TypeOK /\ run[r] \in RunStates /\ RunShape(r) /\ LineShape(r)
  BY DEF TypeInv, TypeOK
<1>2. CASE /\ run[r].pc \in {"domino", "recheck", "insert", "done"} \/ run[r].line # <<>>
           /\ run'[r].id = run[r].id
  <2>1. run[r].id \in SnapshotIDs
    BY <1>1, <1>2 DEF RunShape, LineShape
  <2> QED
    BY <1>2, <2>1, SnapshotsStay DEF Stored
<1>3. CASE run'[r] = run[r]
  BY <1>2, <1>3
<1>4. CASE Load(r) \/ ResolveSource(r)
  BY <1>1, <1>4 DEF Load, ResolveSource, Fail, TypeOK, RunStates, RunShape
<1>5. CASE CheckSnapshot(r)
  <2>1. run[r].pc = "check" /\ run[r].line = <<>> /\ UNCHANGED snapshots
    BY <1>1, <1>5 DEF CheckSnapshot, RunShape, storeVars
  <2>2. run'[r].id = run[r].id /\ run'[r].line = <<>>
    BY <1>1, <1>5, <2>1 DEF CheckSnapshot, Fail, SnapshotSaved, TypeOK, RunStates
  <2>3. snapshots[run[r].id] # Absent
    BY <1>1, <1>5, <2>2 DEF CheckSnapshot, Fail, SnapshotSaved, GetSnapshot, TypeOK, RunStates
  <2> QED
    BY <2>1, <2>2, <2>3
<1>6. CASE WriteSnapshot(r)
  <2>1. run[r].id \in SnapshotIDs /\ run[r].time \in Times /\ run[r].data \in Bytes
    BY <1>1, <1>6 DEF WriteSnapshot, RunShape
  <2>2. [time |-> run[r].time, data |-> run[r].data] # Absent
    BY <2>1, AbsentAssumption
  <2>3. run'[r].id = run[r].id
    BY <1>1, <1>6 DEF WriteSnapshot, SnapshotSaved, TypeOK, RunStates
  <2> QED
    BY <1>1, <1>6, <2>1, <2>2, <2>3 DEF WriteSnapshot, InsertOrReplaceSnapshot, TypeOK
<1>7. CASE Domino(r)
  <2>1. run[r].pc = "domino" /\ run'[r].id = run[r].id
    BY <1>1, <1>7 DEF Domino, Fail, TypeOK, RunStates
  <2> QED
    BY <1>2, <2>1
<1>8. CASE Recheck(r)
  <2>1. run[r].pc = "recheck" /\ run'[r].id = run[r].id
    BY <1>1, <1>8 DEF Recheck, Fail, TypeOK, RunStates
  <2> QED
    BY <1>2, <2>1
<1>9. CASE Insert(r)
  <2>1. run[r].pc = "insert" /\ run'[r].id = run[r].id
    BY <1>1, <1>9 DEF Insert, Fail, TypeOK, RunStates
  <2> QED
    BY <1>2, <2>1
<1>10. CASE RunFault(r)
  <2>1. run'[r].id = run[r].id /\ run'[r].line = run[r].line /\ run'[r].pc = "failed"
    BY <1>1, <1>10 DEF RunFault, Fail, TypeOK, RunStates
  <2> QED
    BY <1>2, <2>1
<1>11. CASE \E w \in Workflows : Start(r, w)
  BY <1>1, <1>11 DEF Start, IdleRun, TypeOK
<1>12. ASSUME NEW q \in Runs, q # r,
              RunStep(q) \/ RunFault(q) \/ \E w \in Workflows : Start(q, w)
       PROVE  run'[r] = run[r]
  BY <1>12, OneRun
<1> QED
  BY <1>3, <1>4, <1>5, <1>6, <1>7, <1>8, <1>9, <1>10, <1>11, <1>12 DEF Next, RunStep, vars

-----------------------------------------------------------------------------
(* Pending entries.                                                        *)

LEMMA MemoHit ==
  ASSUME TypeInv, NEW key, NEW output, output \in LookupMemo(key)
  PROVE  [key |-> key, output |-> output] \in memo
<1>1. PICK m \in memo : m.key = key /\ m.output = output
  BY DEF LookupMemo
<1>2. m \in MemoRows
  BY DEF TypeInv, TypeOK
<1>3. m = [key |-> m.key, output |-> m.output]
  BY <1>2 DEF MemoRows
<1> QED
  BY <1>1, <1>3

LEMMA MemoMiss ==
  ASSUME NEW key, LookupMemo(key) = {}
  PROVE  \A m \in memo : m.key # key
BY DEF LookupMemo

(* Past SaveSnapshot the content is that of the identity: the payload is   *)
(* stored, and stored payloads are content addressed.                      *)
LEMMA StoredContent ==
  ASSUME TypeInv, AddressInv, NEW id \in SnapshotIDs, NEW s, snapshots[id] # Absent
  PROVE  Parse[StoreOrSource(id, s)] = id[2]
BY DEF AddressInv, ContentAddressed, StoreOrSource, GetSnapshot, SnapshotID

LEMMA DominoEntryOK ==
  ASSUME TypeInv, AddressInv, WorldlineInv, NEW r \in Runs, Domino(r)
  PROVE  EntryOK(r)'
<1> DEFINE w == run[r].wf
           k == position(r)
           d == WF[w].chain[k]
           data == StoreOrSource(run[r].id, snapOf(r))
           input == resolveInputs(w, k, Parse[data], run[r].line)
           hits == LookupMemo(<<run[r].id, d, input>>)
           made == {o \in OutputValues : Produces(WF[w].command[d], input, o)}
<1>1. TypeOK /\ run[r] \in RunStates /\ run[r].pc = "domino" /\ UNCHANGED memo
  BY DEF TypeInv, TypeOK, Domino, storeVars
<1>2. Parse[data] = run[r].id[2]
  BY <1>1, Executing, StoredContent DEF WorldlineInv, Stored
<1>3. input = resolveInputs(w, k, run[r].id[2], run[r].line)
  BY <1>2
<1> HIDE DEF input, hits, made
<1>4. CASE Fail(r)
  BY <1>1, <1>4 DEF Fail, EntryOK, TypeOK, RunStates
<1>5. CASE \E output \in hits : run' = [run EXCEPT ![r].pc = "insert", ![r].entry =
             [input |-> input, output |-> output, memo |-> "reused"]]
  <2>1. PICK output \in hits : run' = [run EXCEPT ![r].pc = "insert", ![r].entry =
          [input |-> input, output |-> output, memo |-> "reused"]]
    BY <1>5
  <2>2. /\ run'[r].entry = [input |-> input, output |-> output, memo |-> "reused"]
        /\ run'[r].line = run[r].line /\ run'[r].id = run[r].id /\ run'[r].wf = w
    BY <1>1, <2>1 DEF TypeOK, RunStates
  <2>3. [key |-> <<run[r].id, d, input>>, output |-> output] \in memo
    BY MemoHit DEF hits
  <2> QED
    BY <1>1, <1>3, <2>2, <2>3 DEF EntryOK, memoKey, position
<1>6. CASE \E output \in made : run' = [run EXCEPT ![r].pc = "recheck", ![r].entry =
             [input |-> input, output |-> output, memo |-> "new"]]
  <2>1. PICK output \in made : run' = [run EXCEPT ![r].pc = "recheck", ![r].entry =
          [input |-> input, output |-> output, memo |-> "new"]]
    BY <1>6
  <2>2. /\ run'[r].entry = [input |-> input, output |-> output, memo |-> "new"]
        /\ run'[r].line = run[r].line /\ run'[r].id = run[r].id /\ run'[r].wf = w
        /\ run'[r].pc = "recheck"
    BY <1>1, <2>1 DEF TypeOK, RunStates
  <2> QED
    BY <1>3, <2>2 DEF EntryOK, position
<1> QED
  BY <1>4, <1>5, <1>6 DEF Domino, input, hits, made

LEMMA RecheckEntryOK ==
  ASSUME TypeInv, WorldlineInv, NEW r \in Runs, Recheck(r)
  PROVE  EntryOK(r)'
<1> DEFINE m == IF LookupMemo(memoKey(r)) = {} THEN "new" ELSE "found"
<1>1. /\ TypeOK /\ run[r] \in RunStates /\ run[r].pc = "recheck" /\ UNCHANGED memo
      /\ run[r].entry \in Pending /\ EntryOK(r)
  BY DEF TypeInv, TypeOK, Recheck, storeVars, RunShape, WorldlineInv
<1>2. CASE Fail(r)
  BY <1>1, <1>2 DEF Fail, EntryOK, TypeOK, RunStates
<1>3. CASE ~Fail(r)
  <2>1. /\ run' = [run EXCEPT ![r].pc = "insert", ![r].entry.memo = m]
        /\ ~refuseMemoConflict(memoKey(r), run[r].entry.output)
    BY <1>3 DEF Recheck
  <2>2. m # "new" => [key |-> memoKey(r), output |-> run[r].entry.output] \in memo
    BY <2>1, MemoHit DEF refuseMemoConflict
  <2> HIDE DEF m
  <2>3. /\ run'[r].pc = "insert" /\ run'[r].line = run[r].line
        /\ run'[r].id = run[r].id /\ run'[r].wf = run[r].wf
        /\ run'[r].entry = [run[r].entry EXCEPT !.memo = m]
    BY <1>1, <2>1 DEF TypeOK, RunStates
  <2>4. /\ run'[r].entry.input = run[r].entry.input
        /\ run'[r].entry.output = run[r].entry.output
        /\ run'[r].entry.memo = m
    BY <1>1, <2>3 DEF Pending
  <2>5. position(r)' = position(r) /\ memoKey(r)' = memoKey(r)
    BY <2>3, <2>4 DEF position, memoKey
  <2> QED
    BY <1>1, <2>2, <2>3, <2>4, <2>5 DEF EntryOK
<1> QED
  BY <1>2, <1>3

LEMMA NextEntryOK ==
  ASSUME TypeInv, AddressInv, WorldlineInv, [Next]_vars, NEW r \in Runs
  PROVE  EntryOK(r)'
<1>1. CASE run'[r].pc \notin {"recheck", "insert"}
  BY <1>1 DEF EntryOK
<1>2. CASE run'[r] = run[r]
  <2>1. memo \subseteq memo' /\ EntryOK(r)
    BY ResultsGrow DEF WorldlineInv
  <2>2. position(r)' = position(r) /\ memoKey(r)' = memoKey(r)
    BY <1>2 DEF position, memoKey
  <2> QED
    BY <1>2, <2>1, <2>2 DEF EntryOK
<1> QED
  BY <1>1, <1>2, EntrySteps, DominoEntryOK, RecheckEntryOK

-----------------------------------------------------------------------------
(* Recorded entries.                                                       *)

(* The replay row, the memo row and the entry that Insert(r) commits.      *)
NewLink(r) == Link(prevLink(r), run[r].entry.input, run[r].entry.output)

NewReplayRow(r) ==
  [key |-> memoKey(r), output |-> run[r].entry.output,
   reused |-> run[r].entry.memo = "reused", prev |-> prevLink(r), link |-> NewLink(r)]

NewMemoRow(r) == [key |-> memoKey(r), output |-> run[r].entry.output]

NewEntry(r) ==
  [domino |-> memoKey(r)[2], input |-> run[r].entry.input,
   output |-> run[r].entry.output, prev |-> prevLink(r), link |-> NewLink(r)]

(* SaveResult commits: the key was new, or its output was in the memo; in  *)
(* both cases the row is in the memo afterwards.                           *)
Commits(r) ==
  /\ run[r].pc = "insert"
  /\ memo' = memo \cup {NewMemoRow(r)}
  /\ NewMemoRow(r) \in memo \/ \A m \in memo : m.key # memoKey(r)
  /\ replay' = Append(replay, NewReplayRow(r))
  /\ run'[r].line = Append(run[r].line, NewEntry(r))
  /\ run'[r].id = run[r].id /\ run'[r].wf = run[r].wf
  /\ UNCHANGED snapshots

LEMMA InsertCommits ==
  ASSUME TypeInv, WorldlineInv, NEW r \in Runs, Insert(r)
  PROVE  \/ Fail(r) /\ UNCHANGED <<snapshots, memo, replay>>
         \/ Commits(r)
<1>1. TypeOK /\ run[r] \in RunStates /\ run[r].pc = "insert" /\ EntryOK(r)
  BY DEF TypeInv, TypeOK, WorldlineInv, Insert
<1>2. CASE ~(Fail(r) /\ UNCHANGED <<memo, replay>>)
  <2>1. /\ CommitResult(NewReplayRow(r), run[r].entry.memo = "new")
        /\ ~(run[r].entry.memo = "new" /\ UniqueViolation(memoKey(r)))
        /\ UNCHANGED snapshots
    BY <1>2 DEF Insert, NewReplayRow, NewLink
  <2>2. /\ run'[r].line = Append(run[r].line, NewEntry(r))
        /\ run'[r].id = run[r].id /\ run'[r].wf = run[r].wf
    BY <1>1, <1>2 DEF Insert, NewEntry, NewLink, TypeOK, RunStates
  <2>3. replay' = Append(replay, NewReplayRow(r))
    BY <2>1 DEF CommitResult
  <2>4. NewReplayRow(r).key = memoKey(r) /\ NewReplayRow(r).output = run[r].entry.output
    BY DEF NewReplayRow
  <2>5. CASE run[r].entry.memo = "new"
    <3>1. \A m \in memo : m.key # memoKey(r)
      BY <2>1, <2>5, MemoMiss DEF UniqueViolation
    <3>2. memo' = memo \cup {NewMemoRow(r)}
      BY <2>1, <2>4, <2>5 DEF CommitResult, NewMemoRow
    <3> QED
      BY <1>1, <2>1, <2>2, <2>3, <3>1, <3>2 DEF Commits
  <2>6. CASE run[r].entry.memo # "new"
    <3>1. NewMemoRow(r) \in memo
      BY <1>1, <2>6 DEF EntryOK, NewMemoRow
    <3>2. memo' = memo \cup {NewMemoRow(r)}
      BY <2>1, <2>6, <3>1 DEF CommitResult
    <3> QED
      BY <1>1, <2>1, <2>2, <2>3, <3>1, <3>2 DEF Commits
  <2> QED
    BY <2>5, <2>6
<1> QED
  BY <1>1, <1>2 DEF Insert

LEMMA NextMemoFunctional ==
  ASSUME TypeInv, WorldlineInv, [Next]_vars
  PROVE  MemoFunctional'
<1>1. CASE UNCHANGED memo
  BY <1>1 DEF WorldlineInv, MemoFunctional
<1>2. ASSUME NEW r \in Runs, Commits(r) PROVE MemoFunctional'
  <2>1. NewMemoRow(r).key = memoKey(r)
    BY DEF NewMemoRow
  <2> QED
    BY <1>2, <2>1 DEF Commits, WorldlineInv, MemoFunctional
<1> QED
  BY <1>1, <1>2, ResultSteps, InsertCommits

LEMMA AppendPrefix ==
  ASSUME NEW S, NEW line \in Seq(S), NEW e \in S
  PROVE  /\ Prefix(Append(line, e), Len(line)) = line
         /\ \A j \in 0..Len(line) : Prefix(Append(line, e), j) = Prefix(line, j)
<1>1. DOMAIN line = 1..Len(line) /\ Len(line) \in Nat
  BY SeqDomain
<1>2. \A i \in 1..Len(line) : Append(line, e)[i] = line[i]
  OBVIOUS
<1>3. line = [i \in 1..Len(line) |-> line[i]]
  BY <1>1
<1>4. Prefix(Append(line, e), Len(line)) = line
  BY <1>2, <1>3 DEF Prefix
<1>5. ASSUME NEW j \in 0..Len(line)
      PROVE  Prefix(Append(line, e), j) = Prefix(line, j)
  <2>1. \A i \in 1..j : i \in 1..Len(line)
    BY <1>1
  <2> QED
    BY <1>2, <2>1 DEF Prefix
<1> QED
  BY <1>4, <1>5

(* A worldline that is not touched stays recorded, the store only grows.   *)
LEMMA LineOKFrame ==
  ASSUME TypeInv, WorldlineInv, [Next]_vars, NEW r \in Runs,
         run'[r].line = run[r].line, run'[r].id = run[r].id, run'[r].wf = run[r].wf
  PROVE  LineOK(r)'
<1> SUFFICES ASSUME NEW k \in 1..Len(run[r].line) PROVE EntryRecorded(r, k)'
  BY DEF LineOK
<1>1. EntryRecorded(r, k)
  BY DEF WorldlineInv, LineOK
<1>2. /\ memo \subseteq memo'
      /\ \A i \in DOMAIN replay : i \in DOMAIN replay' /\ replay'[i] = replay[i]
  BY ResultsGrow
<1> QED
  BY <1>1, <1>2 DEF EntryRecorded

LEMMA CommitsLineOK ==
  ASSUME TypeInv, WorldlineInv, [Next]_vars, NEW r \in Runs, Commits(r)
  PROVE  LineOK(r)'
<1> DEFINE line == run[r].line
           e == NewEntry(r)
<1> PICK n : n = position(r)
  OBVIOUS
<1>1. /\ line \in Seq(Entries) /\ Len(line) = n - 1 /\ n \in Nat \ {0}
      /\ run[r].id \in SnapshotIDs
  BY Executing, SeqDomain DEF Commits
<1>2. e \in Entries /\ NewReplayRow(r) \in ReplayRows
  BY InsertTypes DEF Commits, NewEntry, NewReplayRow, NewLink
<1>3. /\ run'[r].line = Append(line, e) /\ run'[r].id = run[r].id
      /\ run'[r].wf = run[r].wf
  BY DEF Commits
<1>4. memoKey(r) = <<run[r].id, e.domino, e.input>>
  BY DEF NewEntry, memoKey
<1>5. /\ e.input = run[r].entry.input /\ e.output = run[r].entry.output
      /\ e.prev = prevLink(r) /\ e.link = Link(e.prev, e.input, e.output)
  BY DEF NewEntry, NewLink
<1> HIDE DEF e
<1>6. /\ Len(Append(line, e)) = n /\ Append(line, e)[n] = e
      /\ \A i \in 1..(n - 1) : Append(line, e)[i] = line[i]
  BY <1>1, <1>2
<1>7. /\ memo \subseteq memo'
      /\ \A i \in DOMAIN replay : i \in DOMAIN replay' /\ replay'[i] = replay[i]
  BY ResultsGrow
<1>8. EntryRecorded(r, n)'
  <2>1. e.input = resolveInputs(run[r].wf, n, run[r].id[2], line)
    BY <1>5 DEF WorldlineInv, EntryOK, Commits
  <2>2. Prefix(Append(line, e), n - 1) = line
    BY <1>1, <1>2, AppendPrefix
  <2>3. MemoRow(run[r].id, e.domino, e.input, e.output) \in memo'
    BY <1>4, <1>5 DEF Commits, NewMemoRow, MemoRow
  <2>4. e.prev = IF n = 1 THEN Root(run[r].id) ELSE Append(line, e)[n - 1].link
    <3>1. CASE n = 1
      BY <1>1, <1>5, <3>1 DEF prevLink
    <3>2. CASE n # 1
      <4>1. line # <<>> /\ n - 1 \in 1..(n - 1)
        BY <1>1, <3>2
      <4> QED
        BY <1>1, <1>5, <1>6, <3>2, <4>1 DEF prevLink
    <3> QED
      BY <3>1, <3>2
  <2>5. \E i \in DOMAIN replay' :
          /\ replay'[i].key = <<run[r].id, e.domino, e.input>>
          /\ replay'[i].output = e.output
          /\ replay'[i].prev = e.prev /\ replay'[i].link = e.link
    <3>1. replay \in Seq(ReplayRows)
      BY DEF TypeInv, TypeOK
    <3>2. /\ Len(replay) + 1 \in DOMAIN replay'
          /\ replay'[Len(replay) + 1] = NewReplayRow(r)
      BY <1>2, <3>1 DEF Commits
    <3>3. /\ NewReplayRow(r).key = memoKey(r) /\ NewReplayRow(r).output = e.output
          /\ NewReplayRow(r).prev = e.prev /\ NewReplayRow(r).link = e.link
      BY <1>5 DEF NewReplayRow, NewLink
    <3> QED
      BY <1>4, <3>2, <3>3
  <2> QED
    BY <1>3, <1>5, <1>6, <2>1, <2>2, <2>3, <2>4, <2>5 DEF EntryRecorded
<1>9. ASSUME NEW k \in 1..(n - 1) PROVE EntryRecorded(r, k)'
  <2>1. EntryRecorded(r, k)
    BY <1>1 DEF WorldlineInv, LineOK
  <2>2. /\ Append(line, e)[k] = line[k]
        /\ k # 1 => Append(line, e)[k - 1] = line[k - 1]
    BY <1>1, <1>6
  <2>3. Prefix(Append(line, e), k - 1) = Prefix(line, k - 1)
    BY <1>1, <1>2, AppendPrefix
  <2> QED
    BY <1>3, <1>7, <2>1, <2>2, <2>3 DEF EntryRecorded
<1>10. \A k \in 1..n : k = n \/ k \in 1..(n - 1)
  BY <1>1
<1> QED
  BY <1>3, <1>6, <1>8, <1>9, <1>10 DEF LineOK

LEMMA NextLineOK ==
  ASSUME TypeInv, WorldlineInv, [Next]_vars, NEW r \in Runs
  PROVE  LineOK(r)'
<1>1. CASE run'[r].line = <<>>
  BY <1>1 DEF LineOK
<1>2. CASE Insert(r)
  <2>1. CASE Fail(r)
    <3>1. run'[r].line = run[r].line /\ run'[r].id = run[r].id /\ run'[r].wf = run[r].wf
      BY <2>1 DEF Fail, TypeInv, TypeOK, RunStates
    <3> QED
      BY <3>1, LineOKFrame
  <2> QED
    BY <1>2, <2>1, InsertCommits, CommitsLineOK
<1> QED
  BY <1>1, <1>2, LineSteps, LineOKFrame

LEMMA NextWorldlineInv ==
  ASSUME TypeInv, AddressInv, WorldlineInv, [Next]_vars
  PROVE  WorldlineInv'
BY NextMemoFunctional, NextStored, NextEntryOK, NextLineOK DEF WorldlineInv

LEMMA InitWorldlineInv == Init => WorldlineInv
<1> SUFFICES ASSUME Init PROVE WorldlineInv
  OBVIOUS
<1>1. MemoFunctional
  BY DEF Init, InitStore, MemoFunctional
<1>2. \A r \in Runs : run[r].pc = "idle" /\ run[r].line = <<>>
  BY DEF Init, IdleRun
<1> QED
  BY <1>1, <1>2 DEF WorldlineInv, Stored, EntryOK, LineOK

THEOREM WorldlineInvariance == Spec => [](TypeInv /\ AddressInv /\ WorldlineInv)
<1>1. Init => TypeInv /\ AddressInv /\ WorldlineInv
  BY InitTypeInv, InitAddressInv, InitWorldlineInv
<1>2. (TypeInv /\ AddressInv /\ WorldlineInv) /\ [Next]_vars
        => (TypeInv /\ AddressInv /\ WorldlineInv)'
  BY NextTypeInv, NextAddressInv, NextWorldlineInv
<1> QED
  BY <1>1, <1>2, PTL DEF Spec

(* Every input a run hashed is a function of the content its snapshot      *)
(* identity names and of its own earlier outputs, although the content is  *)
(* read again for every domino and the source may change meanwhile.        *)
THEOREM Isolation == Spec => []SnapshotIsolation
<1>1. WorldlineInv => SnapshotIsolation
  BY DEF WorldlineInv, LineOK, EntryRecorded, SnapshotIsolation
<1> QED
  BY <1>1, WorldlineInvariance, PTL

(* What a run has appended to its worldline continues the hash chain and   *)
(* is in the memo, as the only output of its key, and in the replay log.   *)
THEOREM Durability == Spec => []WorldlineRecorded
<1>1. WorldlineInv => WorldlineRecorded
  <2> SUFFICES ASSUME WorldlineInv, NEW r \in Runs, NEW k \in 1..Len(run[r].line)
               PROVE  LET e == run[r].line[k]
                          key == <<run[r].id, e.domino, e.input>>
                      IN  /\ e.prev = IF k = 1 THEN Root(run[r].id)
                                              ELSE run[r].line[k - 1].link
                          /\ e.link = Link(e.prev, e.input, e.output)
                          /\ LookupMemo(key) = {e.output}
                          /\ \E i \in DOMAIN replay :
                               /\ replay[i].key = key /\ replay[i].output = e.output
                               /\ replay[i].prev = e.prev /\ replay[i].link = e.link
    BY DEF WorldlineRecorded
  <2> DEFINE e == run[r].line[k]
             key == <<run[r].id, e.domino, e.input>>
  <2>1. EntryRecorded(r, k) /\ MemoFunctional
    BY DEF WorldlineInv, LineOK
  <2>2. LookupMemo(key) = {e.output}
    <3>1. [key |-> key, output |-> e.output] \in memo
      BY <2>1 DEF EntryRecorded, MemoRow
    <3>2. \A m \in memo : m.key = key => m = [key |-> key, output |-> e.output]
      BY <2>1, <3>1 DEF MemoFunctional
    <3> HIDE DEF key, e
    <3>3. \A m \in memo : m.key = key => m.output = e.output
      BY <3>2
    <3> QED
      BY <3>1, <3>3 DEF LookupMemo
  <2> QED
    BY <2>1, <2>2 DEF EntryRecorded
<1> QED
  BY <1>1, WorldlineInvariance, PTL

-----------------------------------------------------------------------------
(* One worldline.  Agreement of two runs is preserved because the next     *)
(* entry is determined: equal prefixes and equal programs resolve to the   *)
(* same input, and the memo has one output for it.                         *)

Agree(q, r) ==
  /\ run[q].id = run[r].id
  /\ run[q].line # <<>> /\ run[r].line # <<>>
  /\ SameProgram(run[q].wf, run[r].wf)
  => \A k \in 1..Len(run[q].line) :
       k <= Len(run[r].line) => run[q].line[k] = run[r].line[k]

LEMMA ResolveSameProgram ==
  ASSUME NEW v, NEW w, SameProgram(v, w), NEW k, NEW content, NEW prior
  PROVE  resolveInputs(v, k, content, prior) = resolveInputs(w, k, content, prior)
BY DEF SameProgram, resolveInputs

(* The entry that r commits is the one q has recorded at that position.    *)
LEMMA NextEntryAgrees ==
  ASSUME TypeInv, WorldlineInv, WorldlineInv', NEW q \in Runs, NEW r \in Runs,
         Agree(q, r), Commits(r), run'[q] = run[q],
         run[q].id = run[r].id, SameProgram(run[q].wf, run[r].wf),
         position(r) \in 1..Len(run[q].line)
  PROVE  run[q].line[position(r)] = NewEntry(r)
<1> PICK n : n = position(r)
  OBVIOUS
<1> DEFINE f == run[q].line[n]
           e == NewEntry(r)
<1>1. /\ run[r].line \in Seq(Entries) /\ Len(run[r].line) = n - 1
      /\ run[r].pc = "insert" /\ run[r].wf \in Workflows
  BY Executing DEF Commits
<1>2. run[q].line \in Seq(Entries) /\ Len(run[q].line) \in Nat /\ n \in 1..Len(run[q].line)
  BY SeqDomain DEF TypeInv, TypeOK, RunStates
<1>3. f \in Entries
  BY <1>2
<1>4. e \in Entries
  BY <1>1, InsertTypes DEF NewEntry, NewLink
<1>5. Prefix(run[q].line, n - 1) = run[r].line
  <2>1. DOMAIN run[r].line = 1..(n - 1)
    BY <1>1, SeqDomain
  <2>2. run[r].line = [i \in 1..(n - 1) |-> run[r].line[i]]
    BY <1>1, <2>1
  <2>3. ASSUME NEW i \in 1..(n - 1) PROVE run[q].line[i] = run[r].line[i]
    <3>1. /\ i \in 1..Len(run[q].line) /\ i <= Len(run[r].line)
          /\ run[q].line # <<>> /\ run[r].line # <<>>
      BY <1>1, <1>2
    <3> QED
      BY <3>1 DEF Agree
  <2> QED
    BY <2>2, <2>3 DEF Prefix
<1>6. EntryRecorded(q, n) /\ EntryOK(r)
  BY <1>2 DEF WorldlineInv, LineOK
<1>7. f.input = e.input
  <2>1. e.input = resolveInputs(run[r].wf, n, run[r].id[2], run[r].line)
    BY <1>1, <1>6 DEF EntryOK, NewEntry
  <2>2. f.input = resolveInputs(run[q].wf, n, run[r].id[2], run[r].line)
    BY <1>5, <1>6 DEF EntryRecorded
  <2> QED
    BY <2>1, <2>2, ResolveSameProgram
<1>8. f.domino = e.domino
  <2>1. e.domino = WF[run[r].wf].chain[n]
    BY <1>1, InsertTypes DEF NewEntry
  <2>2. f.domino = WF[run[q].wf].chain[n]
    <3>1. run[q].line # <<>> /\ LineShape(q)
      BY <1>2 DEF TypeInv
    <3> QED
      BY <1>2, <3>1 DEF LineShape
  <2> QED
    BY <2>1, <2>2 DEF SameProgram
<1>9. f.output = e.output
  <2>1. MemoRow(run[q].id, f.domino, f.input, f.output) \in memo'
    BY <1>6 DEF EntryRecorded, Commits
  <2>2. MemoRow(run[r].id, e.domino, e.input, e.output) \in memo'
    BY DEF Commits, NewMemoRow, MemoRow, NewEntry, memoKey
  <2>3. MemoRow(run[q].id, f.domino, f.input, f.output)
          = MemoRow(run[r].id, e.domino, e.input, e.output)
    BY <1>7, <1>8, <2>1, <2>2 DEF WorldlineInv, MemoFunctional, MemoRow
  <2> QED
    BY <2>3 DEF MemoRow
<1>10. f.prev = e.prev
  <2>1. f.prev = IF n = 1 THEN Root(run[q].id) ELSE run[q].line[n - 1].link
    BY <1>6 DEF EntryRecorded
  <2>2. e.prev = prevLink(r)
    BY DEF NewEntry
  <2>3. CASE n = 1
    BY <1>1, <2>1, <2>2, <2>3 DEF prevLink
  <2>4. CASE n # 1
    <3>1. run[r].line # <<>> /\ n - 1 \in 1..(n - 1)
      BY <1>1, <1>2, <2>4
    <3>2. run[q].line[n - 1] = run[r].line[n - 1]
      BY <1>5, <3>1 DEF Prefix
    <3> QED
      BY <1>1, <2>1, <2>2, <2>4, <3>1, <3>2 DEF prevLink
  <2> QED
    BY <2>3, <2>4
<1>11. f.link = e.link
  BY <1>6, <1>7, <1>9, <1>10 DEF EntryRecorded, NewEntry, NewLink
<1> HIDE DEF f, e
<1> QED
  BY <1>3, <1>4, <1>7, <1>8, <1>9, <1>10, <1>11 DEF Entries, f, e

LEMMA CommitsAgree ==
  ASSUME TypeInv, WorldlineInv, WorldlineInv', NEW q \in Runs, NEW r \in Runs,
         Agree(q, r), Commits(r), run'[q] = run[q]
  PROVE  Agree(q, r)' /\ Agree(r, q)'
<1> PICK n : n = position(r)
  OBVIOUS
<1>1. /\ run[r].line \in Seq(Entries) /\ Len(run[r].line) = n - 1 /\ n \in Nat
      /\ NewEntry(r) \in Entries
  <2>1. run[r].pc = "insert"
    BY DEF Commits
  <2>2. run[r].line \in Seq(Entries) /\ Len(run[r].line) = n - 1 /\ n \in Nat
    BY <2>1, Executing
  <2>3. NewEntry(r) \in Entries
    BY <2>1, InsertTypes DEF NewEntry, NewLink
  <2> QED
    BY <2>2, <2>3
<1>2. /\ run'[r].line = Append(run[r].line, NewEntry(r))
      /\ run'[r].id = run[r].id /\ run'[r].wf = run[r].wf
  BY DEF Commits
<1> HIDE DEF NewEntry
<1>3. /\ Len(run'[r].line) = n /\ run'[r].line[n] = NewEntry(r)
      /\ \A i \in 1..(n - 1) : run'[r].line[i] = run[r].line[i]
  BY <1>1, <1>2
<1>4. run[q].line \in Seq(Entries) /\ Len(run[q].line) \in Nat
  BY SeqDomain DEF TypeInv, TypeOK, RunStates
<1>5. ASSUME run[q].id = run[r].id, SameProgram(run[q].wf, run[r].wf),
             NEW k \in 1..Len(run[q].line), k <= n
      PROVE  run[q].line[k] = run'[r].line[k]
  <2>1. CASE k = n
    BY <1>3, <1>5, <2>1, NextEntryAgrees
  <2>2. CASE k # n
    <3>1. /\ k \in 1..(n - 1) /\ k <= Len(run[r].line)
          /\ run[q].line # <<>> /\ run[r].line # <<>>
      BY <1>1, <1>4, <1>5, <2>2
    <3> QED
      BY <1>3, <1>5, <3>1 DEF Agree
  <2> QED
    BY <2>1, <2>2
<1>6. Agree(q, r)'
  BY <1>2, <1>3, <1>5 DEF Agree
<1>7. ASSUME run[q].id = run[r].id, SameProgram(run[r].wf, run[q].wf),
             NEW k \in 1..n, k <= Len(run[q].line)
      PROVE  run'[r].line[k] = run[q].line[k]
  <2>1. k \in 1..Len(run[q].line) /\ k <= n /\ SameProgram(run[q].wf, run[r].wf)
    BY <1>1, <1>4, <1>7 DEF SameProgram
  <2> QED
    BY <1>5, <1>7, <2>1
<1>8. Agree(r, q)'
  BY <1>2, <1>3, <1>7 DEF Agree
<1> QED
  BY <1>6, <1>8

LEMMA NextUniqueWorldline ==
  ASSUME TypeInv, WorldlineInv, WorldlineInv', [Next]_vars, UniqueWorldline
  PROVE  UniqueWorldline'
<1> SUFFICES ASSUME NEW q \in Runs, NEW r \in Runs PROVE Agree(q, r)'
  BY DEF UniqueWorldline, Agree
<1>1. Agree(q, r) /\ Agree(r, q)
  BY DEF UniqueWorldline, Agree
<1> DEFINE Kept(p) == /\ run'[p].line = run[p].line /\ run'[p].id = run[p].id
                      /\ run'[p].wf = run[p].wf
<1>2. CASE q = r
  BY <1>2 DEF Agree
<1>3. CASE run'[q].line = <<>> \/ run'[r].line = <<>>
  BY <1>3 DEF Agree
<1>4. CASE Kept(q) /\ Kept(r)
  BY <1>1, <1>4 DEF Agree
<1>5. ASSUME NEW p \in Runs, Insert(p) PROVE Commits(p) \/ Kept(p)
  <2>1. CASE Fail(p)
    BY <2>1 DEF Fail, TypeInv, TypeOK, RunStates
  <2> QED
    BY <1>5, <2>1, InsertCommits
<1>6. CASE q # r /\ Insert(q) /\ Commits(q)
  <2>1. run'[r] = run[r]
    BY <1>6, OneRun DEF RunStep
  <2> QED
    BY <1>1, <1>6, <2>1, CommitsAgree
<1>7. CASE q # r /\ Insert(r) /\ Commits(r)
  <2>1. run'[q] = run[q]
    BY <1>7, OneRun DEF RunStep
  <2> QED
    BY <1>1, <1>7, <2>1, CommitsAgree
<1> QED
  BY <1>2, <1>3, <1>4, <1>5, <1>6, <1>7, LineSteps

(* Two runs of one program on one snapshot never record different entries  *)
(* at a position, whatever their commands return and however they overlap, *)
(* fail and are retried: Theorem D2 without its purity hypothesis H2.      *)
THEOREM OneWorldline == Spec => []UniqueWorldline
<1> DEFINE Inv == TypeInv /\ AddressInv /\ WorldlineInv
<1>1. Init => Inv /\ UniqueWorldline
  <2> SUFFICES ASSUME Init PROVE Inv /\ UniqueWorldline
    OBVIOUS
  <2>1. \A r \in Runs : run[r].line = <<>>
    BY DEF Init, IdleRun
  <2> QED
    BY <2>1, InitTypeInv, InitAddressInv, InitWorldlineInv DEF UniqueWorldline
<1>2. (Inv /\ UniqueWorldline) /\ [Next]_vars => (Inv /\ UniqueWorldline)'
  BY NextTypeInv, NextAddressInv, NextWorldlineInv, NextUniqueWorldline
<1> QED
  BY <1>1, <1>2, PTL DEF Spec

-----------------------------------------------------------------------------
(* Refinement.                                                             *)

LEMMA CommitRefines ==
  ASSUME TypeInv, WorldlineInv, NEW r \in Runs, Commits(r)
  PROVE  Abstract!Next
<1> DEFINE row == NewReplayRow(r)
<1>1. replay \in Seq(ReplayRows) /\ row \in ReplayRows
  BY InsertTypes DEF TypeInv, TypeOK, Commits, NewReplayRow, NewLink
<1>2. /\ row.key = memoKey(r) /\ row.output = run[r].entry.output
      /\ NewMemoRow(r) = [key |-> row.key, output |-> row.output]
      /\ row.key[1] = run[r].id
  BY DEF NewReplayRow, NewMemoRow, memoKey
<1> HIDE DEF row
<1>3. replay' = Append(replay, row) /\ replay' # <<>> /\ replay'[Len(replay')] = row
  BY <1>1 DEF Commits, row
<1>4. run[r].id \in {id \in SnapshotIDs : snapshots[id] # Absent}
  BY Executing DEF Commits, WorldlineInv, Stored
<1>5. \A m \in memo : m.key = row.key => m = NewMemoRow(r)
  BY <1>2 DEF Commits, WorldlineInv, MemoFunctional, NewMemoRow
<1>6. Abstract!Record(row)
  BY <1>2, <1>3, <1>4, <1>5 DEF Abstract!Record, Commits
<1> QED
  BY <1>3, <1>6 DEF Abstract!Next

LEMMA SealRefines ==
  ASSUME TypeInv, NEW i \in SnapshotIDs, NEW time \in Times, NEW data \in Bytes,
         SnapshotWrite(i, time, data), UNCHANGED <<memo, replay>>
  PROVE  Abstract!Next
<1>1. [time |-> time, data |-> data] # Absent
  BY AbsentAssumption
<1>2. TypeOK
  BY DEF TypeInv
<1>3. /\ i \in {id \in SnapshotIDs : snapshots'[id] # Absent}
      /\ {id \in SnapshotIDs : snapshots'[id] # Absent}
           = {id \in SnapshotIDs : snapshots[id] # Absent} \cup {i}
  BY <1>1, <1>2 DEF SnapshotWrite, TypeOK
<1> QED
  BY <1>3 DEF Abstract!Next, Abstract!Seal

LEMMA WriterLeavesResults ==
  ASSUME [Next]_vars, ~UNCHANGED snapshots
  PROVE  UNCHANGED <<memo, replay>>
<1>1. ASSUME NEW r \in Runs, Insert(r) PROVE FALSE
  BY <1>1 DEF Insert
<1> QED
  BY <1>1, ResultSteps

(* The SQL store used by any number of interleaved runs and sealers        *)
(* implements WorldlineStore: a key keeps its first output, the log only   *)
(* grows, and no row belongs to a snapshot that is not sealed.             *)
THEOREM StoreImplements == Spec => StoreRefinement
<1> DEFINE Inv == TypeInv /\ AddressInv /\ WorldlineInv
<1>1. Init => Abstract!Init
  BY DEF Init, InitStore, Abstract!Init
<1>2. Inv /\ [Next]_vars => [Abstract!Next]_(Abstract!vars)
  <2> SUFFICES ASSUME Inv, [Next]_vars PROVE [Abstract!Next]_(Abstract!vars)
    OBVIOUS
  <2>1. CASE UNCHANGED <<snapshots, memo, replay>>
    BY <2>1 DEF Abstract!vars
  <2>2. CASE ~UNCHANGED snapshots
    <3>1. ASSUME NEW r \in Runs, run[r].pc = "write"
          PROVE  run[r].id \in SnapshotIDs /\ run[r].time \in Times /\ run[r].data \in Bytes
      BY <3>1 DEF TypeInv, RunShape
    <3>2. ASSUME NEW s \in Snaps, sealer[s].pc = "write"
          PROVE  /\ sealer[s].id \in SnapshotIDs /\ sealer[s].time \in Times
                 /\ sealer[s].data \in Bytes
      BY <3>2 DEF TypeInv, SealerShape
    <3> QED
      BY <2>2, <3>1, <3>2, SnapshotSteps, WriterLeavesResults, SealRefines
  <2>3. CASE UNCHANGED snapshots /\ ~UNCHANGED <<memo, replay>>
    BY <2>3, ResultSteps, InsertCommits, CommitRefines
  <2> QED
    BY <2>1, <2>2, <2>3
<1>3. Spec => []Inv
  BY WorldlineInvariance
<1> QED
  BY <1>1, <1>2, <1>3, PTL DEF Spec, StoreRefinement, Abstract!Spec

-----------------------------------------------------------------------------
(* What StoreRefinement gives (WorldlineStoreProofs).                      *)

Promise == INSTANCE WorldlineStoreProofs
             WITH sealed <- {id \in SnapshotIDs : snapshots[id] # Absent},
                  results <- memo, log <- replay, Transactional <- TRUE

(* The SQL tables, under any runs and sealers: one output per memo key,    *)
(* every replay row with its memo row and under a sealed snapshot, and no  *)
(* statement that takes any of it back.                                    *)
THEOREM TablesKeepPromise == Spec => []Promise!Consistent /\ Promise!NeverForgets
<1>1. Abstract!Init => Promise!Init
  BY DEF Abstract!Init, Promise!Init
<1>2. [Abstract!Next]_(Abstract!vars) => [Promise!Next]_(Promise!vars)
  BY DEF Abstract!Next, Abstract!vars, Abstract!Seal, Abstract!Record, Abstract!Memoize,
     Promise!Next, Promise!vars, Promise!Seal, Promise!Record, Promise!Memoize
<1>3. Abstract!Spec => Promise!Spec
  BY <1>1, <1>2, PTL DEF Abstract!Spec, Promise!Spec
<1>4. Promise!Spec => []Promise!Consistent /\ Promise!NeverForgets
  BY Promise!StorePromise
<1> QED BY <1>3, <1>4, StoreImplements, PTL DEF StoreRefinement
=============================================================================
