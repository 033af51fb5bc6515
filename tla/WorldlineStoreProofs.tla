------------------------ MODULE WorldlineStoreProofs ------------------------
(***************************************************************************)
(* What every implementation of WorldlineStore gives its clients, with or  *)
(* without transactions: the SQL tables (EngineProofs), the files behind   *)
(* their service (StepwiseProofs) and the store of a read replica          *)
(* (ReplicationProofs) inherit it through their refinements.               *)
(***************************************************************************)
EXTENDS WorldlineStore, Naturals, TLAPS

MemoRow(row) == [key |-> row.key, output |-> row.output]

(* A key has one output, a memoized result belongs to a sealed snapshot,   *)
(* and so does every logged row, whose output is the memo's.               *)
Consistent ==
  /\ \A m, n \in results : m.key = n.key => m = n
  /\ \A m \in results : m.key[1] \in sealed
  /\ \A i \in DOMAIN log : MemoRow(log[i]) \in results /\ log[i].key[1] \in sealed

(* No step unseals a snapshot, replaces or drops a memoized result, or     *)
(* changes the log but by one row at its end.                              *)
NeverForgets ==
  [][/\ sealed \subseteq sealed' /\ results \subseteq results'
     /\ log' = log \/ \E row : log' = Append(log, row)]_vars

-----------------------------------------------------------------------------
\* The log is a sequence.
LogInv == \E S : log \in Seq(S)

\* What the steps of the store have in common.
Grows ==
  /\ sealed \subseteq sealed'
  /\ \A m \in results' : m \in results \/ (m.key[1] \in sealed /\ \A n \in results : n.key # m.key)
  /\ \A m, n \in results' : m \notin results /\ n \notin results => m = n
  /\ results \subseteq results'
  /\ \/ log' = log
     \/ \E row : /\ row.key[1] \in sealed /\ MemoRow(row) \in results'
                 /\ log' = Append(log, row)

LEMMA StepGrows ==
  ASSUME [Next]_vars
  PROVE  Grows
<1>1. ASSUME NEW row, Record(row)
      PROVE  Grows
  <2> DEFINE new == MemoRow(row)
  <2>1. new.key = row.key
    BY DEF MemoRow
  <2>2. /\ row.key[1] \in sealed /\ \A m \in results : m.key = row.key => m = new
        /\ results' = results \cup {new} /\ log' = Append(log, row) /\ sealed' = sealed
    BY <1>1 DEF Record, MemoRow
  <2> HIDE DEF new
  <2>3. \A m \in results' : m \in results \/ (m.key[1] \in sealed /\ \A n \in results : n.key # m.key)
    BY <2>1, <2>2
  <2> QED
    BY <2>2, <2>3 DEF Grows, new
<1>2. ASSUME NEW id, Seal(id)
      PROVE  Grows
  BY <1>2 DEF Seal, Grows
<1>3. ASSUME NEW result, Memoize(result)
      PROVE  Grows
  BY <1>3 DEF Memoize, Grows
<1>4. CASE UNCHANGED vars
  BY <1>4 DEF vars, Grows
<1> QED
  BY <1>1, <1>2, <1>3, <1>4 DEF Next

LEMMA LogStep == LogInv /\ [Next]_vars => LogInv'
<1> SUFFICES ASSUME LogInv, [Next]_vars
             PROVE  LogInv'
  OBVIOUS
<1>1. PICK S : log \in Seq(S)
  BY DEF LogInv
<1>2. ASSUME NEW row
      PROVE  Append(log, row) \in Seq(S \cup {row})
  BY <1>1
<1>3. log' = log \/ \E row : log' = Append(log, row)
  BY StepGrows DEF Grows
<1> QED
  BY <1>1, <1>2, <1>3 DEF LogInv

LEMMA ConsistentStep ==
  ASSUME LogInv, Consistent, [Next]_vars
  PROVE  Consistent'
<1>0. Grows
  BY StepGrows
<1>1. \A m, n \in results' : m.key = n.key => m = n
  BY <1>0 DEF Grows, Consistent
<1>2. \A m \in results' : m.key[1] \in sealed'
  BY <1>0 DEF Grows, Consistent
<1>3. \A i \in DOMAIN log' : MemoRow(log'[i]) \in results' /\ log'[i].key[1] \in sealed'
  <2>1. CASE log' = log
    BY <1>0, <2>1 DEF Grows, Consistent
  <2>2. ASSUME NEW row, row.key[1] \in sealed, MemoRow(row) \in results', log' = Append(log, row)
        PROVE  \A i \in DOMAIN log' : MemoRow(log'[i]) \in results' /\ log'[i].key[1] \in sealed'
    <3>1. PICK S : log \in Seq(S)
      BY DEF LogInv
    <3>2. \A i \in DOMAIN log' : (i \in DOMAIN log /\ log'[i] = log[i]) \/ log'[i] = row
      BY <2>2, <3>1
    <3> QED
      BY <1>0, <2>2, <3>2 DEF Grows, Consistent
  <2> QED
    BY <1>0, <2>1, <2>2 DEF Grows
<1> QED
  BY <1>1, <1>2, <1>3 DEF Consistent, MemoRow

(* A worldline store is consistent in every state, whoever writes to it,   *)
(* and never forgets.                                                      *)
THEOREM StorePromise == Spec => []Consistent /\ NeverForgets
<1>1. Init => LogInv /\ Consistent
  <2> SUFFICES ASSUME Init
               PROVE  LogInv /\ Consistent
    OBVIOUS
  <2>1. log \in Seq({}) /\ DOMAIN log = {} /\ results = {}
    BY DEF Init
  <2> QED
    BY <2>1 DEF LogInv, Consistent
<1>2. LogInv /\ Consistent /\ [Next]_vars => Consistent'
  BY ConsistentStep
<1>3. [Next]_vars => [/\ sealed \subseteq sealed' /\ results \subseteq results'
                      /\ log' = log \/ \E row : log' = Append(log, row)]_vars
  BY StepGrows DEF Grows
<1> QED
  BY <1>1, <1>2, <1>3, LogStep, PTL DEF Spec, NeverForgets
=============================================================================
