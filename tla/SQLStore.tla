------------------------------ MODULE SQLStore ------------------------------
(***************************************************************************)
(* The SQL backends (controller/pkg/store/sqlite.go and postgres.go): the  *)
(* tables snapshots, domino_results and replay_log, and the statements the *)
(* Backend methods run on them.  Every operator below is ONE statement or  *)
(* one committed transaction; a method that runs several (SaveSnapshot,    *)
(* SaveResult) is spread by its callers over several steps, because other  *)
(* processes that have the same database open act in between.              *)
(***************************************************************************)
EXTENDS ContentAddress

ASSUME AbsentAssumption ==
  /\ Absent \notin Bytes
  /\ Absent \notin Times \X Contents
  /\ Absent \notin [time : Times, data : Bytes]

VARIABLES
  snapshots,   \* table snapshots: identity -> row, every row sealed
  memo,        \* table domino_results: a set of rows
  replay       \* table replay_log: rows in id order

storeVars == <<snapshots, memo, replay>>

SnapshotRows == [time : Times, data : Bytes]

InitStore ==
  /\ snapshots = [id \in SnapshotIDs |-> Absent]
  /\ memo = {}
  /\ replay = <<>>

-----------------------------------------------------------------------------
(* Snapshots.  SaveSnapshot reads the row, refuses to change a sealed one, *)
(* leaves an identical one alone, and otherwise replaces the row by a      *)
(* separate statement.  Every caller passes sealed = true.                 *)

GetSnapshot(id) == snapshots[id]

\* Mutant: an identical rewrite is refused as well.
refuseAnyRewrite(existing, time, data) == existing # Absent

refuseSealedMutation(existing, time, data) ==
  /\ existing # Absent
  /\ existing # [time |-> time, data |-> data]

InsertOrReplaceSnapshot(id, time, data) ==
  snapshots' = [snapshots EXCEPT ![id] = [time |-> time, data |-> data]]

-----------------------------------------------------------------------------
(* The memo and the replay log.                                            *)

\* The outputs stored under a key: empty when the key is not found.
LookupMemo(key) == {row.output : row \in {m \in memo : m.key = key}}

\* Mutant: the stored output is not compared.
refuseNothing(key, output) == FALSE

refuseMemoConflict(key, output) ==
  /\ LookupMemo(key) # {}
  /\ LookupMemo(key) # {output}

\* Mutant: the table has no UNIQUE constraint.
NoUniqueViolation(key) == FALSE

\* UNIQUE(snapshot_id, domino_id, input_hash) makes a second INSERT fail.
UniqueViolation(key) == LookupMemo(key) # {}

\* The transaction of SaveResult: the memo row unless the output was reused
\* or found, and the replay row, committed together.
CommitResult(row, writeMemo) ==
  /\ memo' = IF writeMemo
               THEN memo \cup {[key |-> row.key, output |-> row.output]}
               ELSE memo
  /\ replay' = Append(replay, row)
=============================================================================
