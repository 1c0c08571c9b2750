----------------------------- MODULE RunManifest -----------------------------
(***************************************************************************)
(* nousergon_lib/run_manifest.py: run_unit runs the body of one unit and   *)
(* files its manifest from a finally clause; record_output asks the store  *)
(* for the version of an object the body has just written.  Several runs   *)
(* (a scheduled one, a manual repair, a backfill) may publish to the same  *)
(* keys at once.  Every request to the store is a step of its own.         *)
(*                                                                         *)
(* Run ids are ULIDs with 80 random bits and are taken to be distinct, so  *)
(* a run is its own id.  Row counts, spend and guards ride on the manifest *)
(* and are left out.                                                       *)
(***************************************************************************)
EXTENDS Naturals, Sequences, FiniteSets

CONSTANTS
  Run,
  Unit,         \* the unit_id of each run
  Sinks,        \* the sinks the runs may be started with, by run
  Key,          \* output keys
  Reference,    \* those that are no single object, such as an ArcticDB library
  Versioned,    \* those in a bucket with versioning
  Etag,         \* contents, by their ETag
  NoValue,      \* None for an ETag or a version
  NoManifest,   \* no object at a manifest's key
  MaxVersions,  \* bound: objects stored under each key
  MaxOutputs,   \* bound: outputs recorded by one run
  MaxFaults     \* bound: failed requests and killed runs

ASSUME ManifestAssumption ==
  /\ Sinks \subseteq [Run -> {"s3", "local", "none"}]
  /\ Reference \subseteq Key /\ Versioned \subseteq Key
  /\ NoValue \notin Etag /\ NoValue \notin Nat
  /\ MaxVersions \in [Key -> Nat] /\ MaxOutputs \in Nat /\ MaxFaults \in Nat

Status == {"ok", "not_applicable", "failed"}
VERSION_CAPTURES == {"caller", "head_object", "object_absent", "unavailable", "not_captured"}

\* An entry of outputs; "own" is the version the run itself stored last under the key,
\* which the code does not know and only the properties read.
Output ==
  {o \in [key : Key, etag : Etag \cup {NoValue}, version_id : Nat \cup {NoValue},
          version_capture : VERSION_CAPTURES, own : Nat] :
     o.version_id # NoValue => o.key \in Versioned}
Manifest == [status : Status, outputs : SUBSET Output]
ASSUME NoManifestAssumption == NoManifest \notin Manifest

VARIABLES
  sink,       \* of each run: "s3", "local" (has no head method) or "none" (dry run)
  objects,    \* the versions stored under each key, oldest first
  manifests,  \* the object at each manifest's key
  at,         \* where each run is
  wrote,      \* the version each run stored last under each key, 0 if none
  outputs,    \* ctx.outputs
  status,     \* the local of run_unit
  told,       \* what the caller of run_unit has learned
  faults

vars == <<sink, objects, manifests, at, wrote, outputs, status, told, faults>>

TypeOK ==
  /\ sink \in Sinks
  /\ objects \in [Key -> Seq([writer : Run, etag : Etag])]
  /\ manifests \in [{Unit[r] : r \in Run} \X Run -> Manifest \cup {NoManifest}]
  /\ at \in [Run -> {"new", "body", "finally", "filed", "ended"}]
  /\ wrote \in [Run -> [Key -> Nat]]
  /\ outputs \in [Run -> SUBSET Output]
  /\ status \in [Run -> Status]
  /\ told \in [Run -> Status \cup {"nothing", "error", "refused"}]
  /\ faults \in Nat

-----------------------------------------------------------------------------
\* A mutant of ManifestKey: one record for each unit.
ManifestKeyOfUnit(r) == <<Unit[r], CHOOSE x \in Run : TRUE>>

\* manifest_key: unit, (trading day,) run id.
ManifestKey(r) == <<Unit[r], r>>

\* A mutant of Current: the oldest version is looked at.
Oldest(k) == 1

\* What HeadObject looks at: the version that is current now.
Current(k) == Len(objects[k])

\* S3ManifestSink.head: a key without versioning has no version id.
VersionId(k, n) == IF k \in Versioned THEN n ELSE NoValue

\* _build_manifest.
BuildManifest(r) == [status |-> status[r], outputs |-> outputs[r]]

Init ==
  /\ sink \in Sinks
  /\ objects = [k \in Key |-> <<>>]
  /\ manifests = [a \in {Unit[r] : r \in Run} \X Run |-> NoManifest]
  /\ at = [r \in Run |-> "new"]
  /\ wrote = [r \in Run |-> [k \in Key |-> 0]]
  /\ outputs = [r \in Run |-> {}]
  /\ status = [r \in Run |-> "failed"]
  /\ told = [r \in Run |-> "nothing"]
  /\ faults = 0

Fault == faults < MaxFaults /\ faults' = faults + 1
Goto(r, place) == at' = [at EXCEPT ![r] = place]

\* run_unit refuses a malformed invocation, or a tree whose commit nobody measured,
\* before the body runs; or the body starts, "failed" until it has ended.
Refuse(r) ==
  /\ at[r] = "new"
  /\ Goto(r, "ended")
  /\ told' = [told EXCEPT ![r] = "refused"]
  /\ UNCHANGED <<sink, objects, manifests, wrote, outputs, status, faults>>

Start(r) ==
  /\ at[r] = "new"
  /\ Goto(r, "body")
  /\ UNCHANGED <<sink, objects, manifests, wrote, outputs, status, told, faults>>

\* The body stores an object; under a dry run it stores nothing.
Publish(r, k, e) ==
  /\ at[r] = "body"
  /\ sink[r] # "none"
  /\ k \notin Reference
  /\ Len(objects[k]) < MaxVersions[k]
  /\ objects' = [objects EXCEPT ![k] = Append(@, [writer |-> r, etag |-> e])]
  /\ wrote' = [wrote EXCEPT ![r][k] = Len(objects[k]) + 1]
  /\ UNCHANGED <<sink, manifests, at, outputs, status, told, faults>>

\* The entry record_output appends.
Record(r, k, etag, version, capture) ==
  outputs' = [outputs EXCEPT ![r] = @ \cup {
    [key |-> k, etag |-> etag, version_id |-> version, version_capture |-> capture,
     own |-> wrote[r][k]]}]

\* record_output of a key the body has written, or of a reference.  The caller passes
\* what its own write returned, or part of that, or nothing; what is missing is filled in
\* from a HeadObject, whose failure is recorded and not raised.  (It may pass the ETag and
\* the version and leave out the size: then the store is asked all the same.)
RecordOutput(r, k) ==
  LET last == wrote[r][k]
      etags == {NoValue} \cup (IF last > 0 THEN {objects[k][last].etag} ELSE {})
      versions == {NoValue} \cup (IF last > 0 /\ k \in Versioned THEN {last} ELSE {})
  IN /\ at[r] = "body"
     /\ Cardinality(outputs[r]) < MaxOutputs
     /\ k \in Reference \/ last > 0
     /\ \E etag \in etags, version \in versions :
          \/ /\ etag # NoValue /\ version # NoValue
             /\ Record(r, k, etag, version, "caller")
             /\ UNCHANGED faults
          \/ /\ sink[r] # "s3"
             /\ Record(r, k, etag, version, "not_captured")
             /\ UNCHANGED faults
          \/ /\ sink[r] = "s3"
             /\ Record(r, k, etag, version, "unavailable")
             /\ Fault
          \/ /\ sink[r] = "s3" /\ k \in Reference
             /\ Record(r, k, etag, version, "object_absent")
             /\ UNCHANGED faults
          \/ /\ sink[r] = "s3" /\ k \notin Reference
             /\ Record(r, k, IF etag = NoValue THEN objects[k][Current(k)].etag ELSE etag,
                       IF version = NoValue THEN VersionId(k, Current(k)) ELSE version,
                       "head_object")
             /\ UNCHANGED faults
     /\ UNCHANGED <<sink, objects, manifests, at, wrote, status, told>>

\* The body returns, raises NotApplicable, or raises anything else (an interrupt, also one
\* that comes between its return and the assignment of status).
BodyEnds(r) ==
  /\ at[r] = "body"
  /\ Goto(r, "finally")
  /\ \E s \in Status : status' = [status EXCEPT ![r] = s]
  /\ UNCHANGED <<sink, objects, manifests, wrote, outputs, told, faults>>

\* The finally clause: sink.write.
WriteManifest(r) ==
  /\ at[r] = "finally"
  /\ sink[r] # "none"
  /\ manifests' = [manifests EXCEPT ![ManifestKey(r)] = BuildManifest(r)]
  /\ Goto(r, "filed")
  /\ UNCHANGED <<sink, objects, wrote, outputs, status, told, faults>>

\* The result is returned, or the body's exception is raised on.
Return(r) ==
  /\ \/ at[r] = "filed"
     \/ at[r] = "finally" /\ sink[r] = "none"
  /\ Goto(r, "ended")
  /\ told' = [told EXCEPT ![r] = status[r]]
  /\ UNCHANGED <<sink, objects, manifests, wrote, outputs, status, faults>>

\* The write raises, having stored the manifest or not; its exception replaces the body's.
SinkFails(r) ==
  /\ at[r] \in {"finally", "filed"}
  /\ sink[r] # "none"
  /\ Fault
  /\ Goto(r, "ended")
  /\ told' = [told EXCEPT ![r] = "error"]
  /\ UNCHANGED <<sink, objects, manifests, wrote, outputs, status>>

\* The process dies; its caller learns nothing of the run.
Kill(r) ==
  /\ at[r] \in {"body", "finally", "filed"}
  /\ Fault
  /\ Goto(r, "ended")
  /\ told' = [told EXCEPT ![r] = "error"]
  /\ UNCHANGED <<sink, objects, manifests, wrote, outputs, status>>

Next ==
  \E r \in Run :
    \/ Refuse(r) \/ Start(r) \/ BodyEnds(r) \/ WriteManifest(r)
    \/ Return(r) \/ SinkFails(r) \/ Kill(r)
    \/ \E k \in Key : RecordOutput(r, k) \/ \E e \in Etag : Publish(r, k, e)

Spec == Init /\ [][Next]_vars
-----------------------------------------------------------------------------
(* Properties *)

\* The ETag and the version in the lineage of an output are those of the object the run
\* stored or, where the store was asked, of one another run has put over it meanwhile;
\* never of an older one.  Both may come of different objects.  A null means what
\* version_capture says ("so a null is never ambiguous").
Lineage(r, o) ==
  LET stored == objects[o.key]
      OwnOrOvertaken(n) ==
        /\ o.own > 0 /\ n \in o.own .. Len(stored)
        /\ n > o.own => o.version_capture = "head_object" /\ stored[n].writer # r
  IN /\ o.version_id # NoValue => OwnOrOvertaken(o.version_id)
     /\ o.etag # NoValue =>
          \E n \in 1 .. Len(stored) : OwnOrOvertaken(n) /\ stored[n].etag = o.etag
     /\ o.version_capture \in {"caller", "head_object"} =>
          o.etag # NoValue /\ (o.key \in Versioned => o.version_id # NoValue)
LineageIsOwnOrOvertaken == \A r \in Run : \A o \in outputs[r] : Lineage(r, o)

\* "fetch the exact object this run published": the version named is the run's own. The code
\* does not keep it, when another run publishes before the look; no run checks it.
LineageNamesOwnObject ==
  \A r \in Run : \A o \in outputs[r] :
    o.version_id # NoValue => objects[o.key][o.version_id].writer = r

\* A filed manifest has all the lineage its run recorded, in whatever way the run ended
\* ("the failure path writes the same telemetry as the success path").
FiledManifestIsComplete ==
  \A r \in Run :
    manifests[ManifestKey(r)] # NoManifest =>
      manifests[ManifestKey(r)].outputs = outputs[r]

\* A filed manifest has all its run recorded, and what was recorded names the run's own
\* object or a later one.
ManifestIsTrue == LineageIsOwnOrOvertaken /\ FiledManifestIsComplete

\* A run with a sink keeps the promise of RunLog: one record, never changed, durable
\* before anybody is told ("re-raises after the record is durable").
Filed(r) == IF manifests[ManifestKey(r)] = NoManifest THEN "none"
            ELSE manifests[ManifestKey(r)].status
Told(r) == IF sink[r] = "none" THEN "nothing"
           ELSE IF told[r] = "refused" THEN "error" ELSE told[r]
Log == INSTANCE RunLog WITH
  record <- [r \in Run |-> Filed(r)],
  told <- [r \in Run |-> Told(r)]
ImplementsRunLog == Log!Spec
=============================================================================
