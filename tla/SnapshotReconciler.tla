------------------------- MODULE SnapshotReconciler -------------------------
(***************************************************************************)
(* Sealing: the Snapshot custom resource, the mutable file or URL it names *)
(* and the reconciler that seals it into the store                         *)
(* (internal/controller/snapshot_controller.go, pkg/snapshot/staging.go).  *)
(*                                                                         *)
(* A reconcile reads the resource once, reads the source once, saves the   *)
(* payload in two statements and updates the status.  Users edit the spec, *)
(* and the source changes, between any two of these.  The API server       *)
(* refuses a status update made from a resource that changed since it was  *)
(* read; the reconcile then starts again.                                  *)
(***************************************************************************)
EXTENDS SQLStore

CONSTANTS
  Snaps,         \* Snapshot resources
  InitSource,    \* the source each one names, at the start
  SourceWrites,  \* what the source may become: payloads or Absent
  SpecEdits,     \* the specs a user may apply: [time, sealed]
  MaxEdits,      \* bound: edits of specs and sources in a behaviour
  MaxFaults      \* bound: store errors and process crashes in a behaviour

ASSUME SnapshotAssumption ==
  /\ InitSource \in [Snaps -> Bytes]
  /\ SourceWrites \subseteq Bytes \cup {Absent}
  /\ SpecEdits \subseteq [time : Times \cup {Absent}, sealed : BOOLEAN]
  /\ MaxEdits \in Nat
  /\ MaxFaults \in Nat

VARIABLES
  source,   \* what the path or URI of each snapshot currently yields
  spec,     \* Snapshot.spec with metadata.generation
  status,   \* Snapshot.status
  sealer,   \* the reconcile in progress for each snapshot
  edits,    \* edits made so far
  faults    \* faults met so far

snapVars == <<source, spec, status, sealer>>

Specs == [time : Times \cup {Absent}, sealed : BOOLEAN, gen : Nat]

Phases == {"", "Pending", "Sealed", "Error"}

Statuses == [phase : Phases, id : SnapshotIDs \cup {Absent}, gen : Nat]

Sealers ==
  [pc : {"idle", "check", "write", "status"}, time : Times \cup {Absent},
   id : SnapshotIDs \cup {Absent}, data : Bytes \cup {Absent}, gen : Nat]

IdleSealer ==
  [pc |-> "idle", time |-> Absent, id |-> Absent, data |-> Absent, gen |-> 0]

InitSnapshots ==
  /\ source = InitSource
  /\ spec \in [Snaps -> {[time |-> t, sealed |-> TRUE, gen |-> 1] : t \in Times}]
  /\ status = [s \in Snaps |-> [phase |-> "", id |-> Absent, gen |-> 0]]
  /\ sealer = [s \in Snaps |-> IdleSealer]
  /\ edits = 0
  /\ faults = 0

-----------------------------------------------------------------------------
(* sealFromRawBytes: the identity hashes the parsed content; a payload     *)
(* that is JSON is stored as it was read, any other is wrapped and encoded.*)

SealedBytes(raw) == IF raw \in JSON THEN raw ELSE Marshal[Parse[raw]]

\* Mutant: the bytes are hashed as they were read.
SourceIDOfBytes(s, time) == SnapshotID(time, source[s])

SourceID(s, time) == SnapshotID(time, Parse[source[s]])

\* updateStatus: phase and identity, the observed generation left as it was.
SetPhase(s, phase, id) ==
  status' = [status EXCEPT ![s].phase = phase, ![s].id = id]

\* fail: phase Error from the resource as it was read; a conflict is ignored.
FailSeal(s) ==
  /\ status' = IF spec[s].gen = sealer[s].gen
                 THEN [status EXCEPT ![s].phase = "Error"] ELSE status
  /\ sealer' = [sealer EXCEPT ![s] = IdleSealer]

Observed(s) ==
  /\ status[s].gen = spec[s].gen
  /\ status[s].phase = "Sealed"
  /\ status[s].id # Absent

\* Reconcile when there is nothing to seal yet, or the spec is invalid.
NotSealable(s) ==
  /\ sealer[s].pc = "idle"
  /\ \/ ~spec[s].sealed /\ SetPhase(s, "Pending", Absent)
     \/ /\ spec[s].sealed /\ ~Observed(s)
        /\ spec[s].time = Absent
        /\ SetPhase(s, "Error", status[s].id)
     \/ /\ spec[s].sealed /\ ~Observed(s)
        /\ spec[s].time # Absent
        /\ source[s] = Absent
        /\ SetPhase(s, "Pending", Absent)
  /\ UNCHANGED <<storeVars, source, spec, sealer, edits, faults>>

\* Reconcile up to the first statement of SaveSnapshot.
ReadSource(s) ==
  /\ sealer[s].pc = "idle"
  /\ spec[s].sealed /\ ~Observed(s)
  /\ spec[s].time # Absent
  /\ source[s] # Absent
  /\ sealer' = [sealer EXCEPT ![s] =
       [pc |-> "check", time |-> spec[s].time,
        id |-> SourceID(s, spec[s].time),
        data |-> SealedBytes(source[s]), gen |-> spec[s].gen]]
  /\ UNCHANGED <<storeVars, source, spec, status, edits, faults>>

\* Mutant: a missing row is taken for one that is already saved.
SealCheckOnly(s) ==
  /\ sealer[s].pc = "check"
  /\ IF refuseSealedMutation(GetSnapshot(sealer[s].id), sealer[s].time, sealer[s].data)
       THEN FailSeal(s)
       ELSE sealer' = [sealer EXCEPT ![s].pc = "status"] /\ UNCHANGED status
  /\ UNCHANGED <<storeVars, source, spec, edits, faults>>

SealCheck(s) ==
  LET existing == GetSnapshot(sealer[s].id)
  IN  /\ sealer[s].pc = "check"
      /\ IF refuseSealedMutation(existing, sealer[s].time, sealer[s].data)
           THEN FailSeal(s)
           ELSE /\ sealer' = [sealer EXCEPT ![s].pc =
                     IF existing = Absent THEN "write" ELSE "status"]
                /\ UNCHANGED status
      /\ UNCHANGED <<storeVars, source, spec, edits, faults>>

SealWrite(s) ==
  /\ sealer[s].pc = "write"
  /\ InsertOrReplaceSnapshot(sealer[s].id, sealer[s].time, sealer[s].data)
  /\ sealer' = [sealer EXCEPT ![s].pc = "status"]
  /\ UNCHANGED <<memo, replay, source, spec, status, edits, faults>>

\* The status update, refused when the spec changed since it was read.
SealStatus(s) ==
  /\ sealer[s].pc = "status"
  /\ status' = IF spec[s].gen = sealer[s].gen
                 THEN [status EXCEPT ![s] = [phase |-> "Sealed",
                         id |-> sealer[s].id, gen |-> sealer[s].gen]]
                 ELSE status
  /\ sealer' = [sealer EXCEPT ![s] = IdleSealer]
  /\ UNCHANGED <<storeVars, source, spec, edits, faults>>

\* A store error ends the reconcile in fail; a crash just ends it.
SealFault(s) ==
  /\ sealer[s].pc # "idle"
  /\ faults < MaxFaults
  /\ faults' = faults + 1
  /\ \/ sealer[s].pc # "status" /\ FailSeal(s)
     \/ sealer' = [sealer EXCEPT ![s] = IdleSealer] /\ UNCHANGED status
  /\ UNCHANGED <<storeVars, source, spec, edits>>

ReconcileSnapshot(s) ==
  NotSealable(s) \/ ReadSource(s) \/ SealCheck(s) \/ SealWrite(s) \/ SealStatus(s)

-----------------------------------------------------------------------------
(* The environment: users and whoever writes the source.                   *)

EditSpec(s) ==
  /\ edits < MaxEdits
  /\ edits' = edits + 1
  /\ \E e \in SpecEdits :
       spec' = [spec EXCEPT ![s] =
         [time |-> e.time, sealed |-> e.sealed, gen |-> spec[s].gen + 1]]
  /\ UNCHANGED <<storeVars, source, status, sealer, faults>>

WriteSource(s) ==
  /\ edits < MaxEdits
  /\ edits' = edits + 1
  /\ \E b \in SourceWrites : source' = [source EXCEPT ![s] = b]
  /\ UNCHANGED <<storeVars, spec, status, sealer, faults>>
=============================================================================
