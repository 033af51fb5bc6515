--------------------------- MODULE WorldlineStore ---------------------------
(***************************************************************************)
(* What a store backend promises the engine, whatever database is behind   *)
(* it (controller/pkg/store/backend.go, type Backend): a snapshot identity *)
(* once sealed stays sealed, a memo key keeps the first output written     *)
(* under it, and the replay log only grows, by rows that agree with the    *)
(* memo and belong to a sealed snapshot.  The SQL backends save both rows  *)
(* in one transaction, the file store writes one file and then the other.  *)
(*                                                                         *)
(* A memo key is <<snapshot, domino, input>>.  Hashes are the values they  *)
(* are hashes of (hypothesis H4 of docs/theory/formal-model.md).           *)
(***************************************************************************)
EXTENDS Sequences

CONSTANT Transactional   \* a memo row and its replay row are saved together

VARIABLES
  sealed,    \* the snapshot identities that hold a sealed payload
  results,   \* the memo: a set of [key, output] rows
  log        \* the replay log: a sequence of rows with a key and an output

vars == <<sealed, results, log>>

Init ==
  /\ sealed = {}
  /\ results = {}
  /\ log = <<>>

\* SaveSnapshot(id, ..., sealed = true).
Seal(id) ==
  /\ sealed' = sealed \cup {id}
  /\ UNCHANGED <<results, log>>

\* SaveResult: the row is logged, and its output is the memo's for its key,
\* which it becomes if the key is new.
Record(row) ==
  LET result == [key |-> row.key, output |-> row.output]
  IN  /\ row.key[1] \in sealed
      /\ \A m \in results : m.key = row.key => m = result
      /\ results' = results \cup {result}
      /\ log' = Append(log, row)
      /\ UNCHANGED sealed

\* A store without transactions may fail between the memo and the log.
Memoize(result) ==
  /\ ~Transactional
  /\ result.key[1] \in sealed
  /\ \A m \in results : m.key # result.key
  /\ results' = results \cup {result}
  /\ UNCHANGED <<sealed, log>>

\* The parameters range over what the step itself adds, so that TLC can
\* evaluate the action for any universe of identities and rows.
Next ==
  \/ \E id \in sealed' : Seal(id)
  \/ /\ log' # <<>>
     /\ Record(log'[Len(log')])
  \/ \E result \in results' : Memoize(result)

Spec == Init /\ [][Next]_vars
=============================================================================
