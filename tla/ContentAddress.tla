--------------------------- MODULE ContentAddress ---------------------------
(***************************************************************************)
(* Payloads, contents and the hashes that name them                        *)
(* (controller/pkg/hash/hash.go), shared by the models of all the stores.  *)
(*                                                                         *)
(* A payload is an element of Bytes; Parse is what json.Unmarshal, or the  *)
(* {"path", "raw"} wrapper of parseSnapshotBytes, makes of it, and Marshal *)
(* the canonical encoding json.Marshal writes.  Several payloads may parse *)
(* to one content (white space, key order), which is why an identity, a    *)
(* hash of the parsed content, does not determine the bytes.  SHA-256 is   *)
(* an injective constructor (H4 of docs/theory/formal-model.md).           *)
(***************************************************************************)
EXTENDS Naturals, Sequences

CONSTANTS
  Times,      \* time-slice identifiers
  Contents,   \* parsed snapshot contents
  Bytes,      \* payloads as files and rows hold them
  JSON,       \* the payloads json.Unmarshal accepts
  Parse,      \* Bytes -> Contents
  Marshal,    \* Contents -> JSON
  Absent      \* no row, no file, an empty identifier

ASSUME EncodingAssumption ==
  /\ JSON \subseteq Bytes
  /\ Parse \in [Bytes -> Contents]
  /\ Marshal \in [Contents -> JSON]
  /\ \A c \in Contents : Parse[Marshal[c]] = c

SnapshotIDs == Times \X Contents

\* hash.SnapshotID and hash.Link: injective on what they hash.
SnapshotID(time, content) == <<time, content>>

Root(id) == <<id, <<>>>>

Link(prev, input, output) == <<prev[1], Append(prev[2], <<input, output>>)>>
=============================================================================
