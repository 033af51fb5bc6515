----------------------------- MODULE FileStore ------------------------------
(***************************************************************************)
(* The file store and its HTTP service (controller/pkg/store:              *)
(* tsdb_engine.go, tsdb_handler.go, tsdb_client.go; cmd/kbl-tsdb).         *)
(*                                                                         *)
(* A snapshot is two files, written one after the other: its metadata with *)
(* the sealed flag, then its payload.  A result is a memo file per key and *)
(* one more file in the replay directory.  The service holds a lock for    *)
(* the whole of a request, so a request that succeeds is one step; but no  *)
(* file is written atomically and nothing is undone, so a request that is  *)
(* cut short, by a crash or a full disk, leaves a prefix of its writes     *)
(* with the last file missing or torn.                                     *)
(*                                                                         *)
(* A replay row is named and sorted by the wall clock of the service,      *)
(* which is taken not to step back; all rows of the model belong to one    *)
(* snapshot, and the key of a row holds its identity.                      *)
(***************************************************************************)
EXTENDS ContentAddress

CONSTANT Prefixes   \* Prefixes[b]: what a cut write of b leaves, not empty

ASSUME PrefixAssumption ==
  /\ Prefixes \in [Bytes -> SUBSET Bytes]
  /\ Absent \notin Bytes

VARIABLES
  meta,        \* snapshots/<id>.json: "none", "torn" or "sealed"
  payload,     \* snapshots/<id>.data.json; Absent if missing or empty
  memo,        \* the memo files that hold a row: a set of [key, output]
  tornMemo,    \* the keys whose memo file is empty or cut
  log,         \* the rows of the replay directory, oldest first
  tornReplay   \* some file of the replay directory is empty or cut

fileVars == <<meta, payload, memo, tornMemo, log, tornReplay>>

InitFiles ==
  /\ meta = [id \in SnapshotIDs |-> "none"]
  /\ payload = [id \in SnapshotIDs |-> Absent]
  /\ memo = {}
  /\ tornMemo = {}
  /\ log = <<>>
  /\ tornReplay = FALSE

\* The state of some file makes a request fail, now and for ever.
Damaged ==
  \/ \E id \in SnapshotIDs : meta[id] # "none" /\ payload[id] = Absent
  \/ \E id \in SnapshotIDs : payload[id] # Absent /\ payload[id] \notin JSON
  \/ \E id \in SnapshotIDs : payload[id] # Absent /\ Parse[payload[id]] # id[2]
  \/ tornMemo # {}
  \/ tornReplay

-----------------------------------------------------------------------------
(* Reads.  An error of any kind is a 404 to a reader of snapshot data.     *)

\* GetSnapshotData: the payload of a sealed identity, Absent when there is
\* none or it is empty.
GetSnapshotData(id) == IF meta[id] = "sealed" THEN payload[id] ELSE Absent

\* LookupMemo: the outputs under a key, one or none.
LookupMemo(key) == {m.output : m \in {r \in memo : r.key = key}}

\* One torn file makes every listing fail, of whatever snapshot.
ListReplayFails == tornReplay

\* Mutant: every row is linked to the identity, as RunSingle does.
RootHead(id) == Root(id)

\* SpineHead: the last link, or the identity when nothing is logged.
SpineHead(id) == IF log = <<>> THEN Root(id) ELSE log[Len(log)].link

RowsOf(d) == {i \in DOMAIN log : log[i].key[2] = d}

\* LastSpineResult, of a domino that has a row.
LastSpineResult(d) == log[CHOOSE i \in RowsOf(d) : \A j \in RowsOf(d) : j <= i]

-----------------------------------------------------------------------------
(* SaveSnapshotPayload, with sealed = true as every caller passes it.      *)

\* Mutant: metadata is enough for a snapshot to count as saved.
RefuseNothingSealed(id, data) == meta[id] = "torn"

\* getSnapshotMetaLocked fails, or refuseSealedMutation finds another
\* payload, a missing one included.
RefuseSnapshot(id, data) ==
  \/ meta[id] = "torn"
  \/ meta[id] = "sealed" /\ payload[id] # data

SaveSnapshot(id, data) ==
  /\ ~RefuseSnapshot(id, data)
  /\ IF meta[id] = "sealed" THEN UNCHANGED <<meta, payload>>
       ELSE /\ meta' = [meta EXCEPT ![id] = "sealed"]
            /\ payload' = [payload EXCEPT ![id] = data]
  /\ UNCHANGED <<memo, tornMemo, log, tornReplay>>

\* The same, cut short in one of its two files.
CutSnapshot(id, data) ==
  /\ meta[id] = "none"
  /\ \/ /\ meta' = [meta EXCEPT ![id] = "torn"]
        /\ UNCHANGED payload
     \/ /\ meta' = [meta EXCEPT ![id] = "sealed"]
        /\ \E cut \in Prefixes[data] \cup {Absent} :
             payload' = [payload EXCEPT ![id] = cut]
  /\ UNCHANGED <<memo, tornMemo, log, tornReplay>>

-----------------------------------------------------------------------------
(* SaveResult.  A reused output does not look at the memo again.           *)

Result(row) == [key |-> row.key, output |-> row.output]

\* Mutant: a stored output is not compared with the one to save.
RefuseTornOnly(row) == ~row.reused /\ row.key \in tornMemo

RefuseResult(row) ==
  /\ ~row.reused
  /\ \/ row.key \in tornMemo
     \/ LookupMemo(row.key) \notin {{}, {row.output}}

\* Mutant: the row is logged and not memoized.
NoNewMemo(row) == memo

\* The memo after the first file is written, if it is.
NewMemo(row) == IF row.reused THEN memo ELSE memo \cup {Result(row)}

SaveResult(row) ==
  /\ ~RefuseResult(row)
  /\ memo' = NewMemo(row)
  /\ log' = Append(log, row)
  /\ UNCHANGED <<meta, payload, tornMemo, tornReplay>>

\* The same, cut short in one of its two files.
CutResult(row) ==
  /\ ~RefuseResult(row)
  /\ \/ /\ NewMemo(row) # memo
        /\ tornMemo' = tornMemo \cup {row.key}
        /\ UNCHANGED <<memo, tornReplay>>
     \/ /\ memo' = NewMemo(row)
        /\ tornReplay' \in {tornReplay, TRUE}
        /\ UNCHANGED tornMemo
  /\ UNCHANGED <<meta, payload, log>>

-----------------------------------------------------------------------------
(* POST /v1/snapshots and POST /v1/results.                                *)

Accepted(req) ==
  IF req.op = "snapshot" THEN SaveSnapshot(req.id, req.data) ELSE SaveResult(req.row)

Refused(req) ==
  /\ IF req.op = "snapshot" THEN RefuseSnapshot(req.id, req.data)
       ELSE RefuseResult(req.row)
  /\ UNCHANGED fileVars

Cut(req) ==
  IF req.op = "snapshot" THEN CutSnapshot(req.id, req.data) ELSE CutResult(req.row)
=============================================================================
