--------------------------- MODULE RunRecordProofs ----------------------------
(*****************************************************************************)
(* Proofs about what a run leaves on record: its manifest (types, lineage,   *)
(* completeness of what is filed, and that run_unit implements RunLog), the  *)
(* stamps on the live surfaces, the artifacts themselves, which the          *)
(* freshness monitor looks for, and the executions, as their readers tell of *)
(* them.                                                                     *)
(*****************************************************************************)
EXTENDS RunManifest, HealthStamp, ArtifactFreshness, PipelineRead, DataLemmas, FiniteSetTheorems, TLAPS

-----------------------------------------------------------------------------
(* The run manifest.                                                        *)

Stored == [writer : Run, etag : Etag]

\* The version a run stored last under a key is there, and no later one is its own.
WroteIsLast ==
  \A r \in Run, k \in Key :
    /\ wrote[r][k] \in 0 .. Len(objects[k])
    /\ \A n \in 1 .. Len(objects[k]) : n > wrote[r][k] => objects[k][n].writer # r

\* A manifest is filed once, from what its run holds at the end, and before anybody is told.
FiledAsEnded ==
  \A r \in Run :
    /\ manifests[ManifestKey(r)] # NoManifest =>
         /\ sink[r] # "none"
         /\ at[r] \in {"filed", "ended"}
         /\ manifests[ManifestKey(r)] = BuildManifest(r)
    /\ at[r] = "filed" => manifests[ManifestKey(r)] # NoManifest
    /\ told[r] # "nothing" <=> at[r] = "ended"

IInv ==
  /\ TypeOK
  /\ WroteIsLast
  /\ LineageIsOwnOrOvertaken
  /\ FiledAsEnded

-----------------------------------------------------------------------------
\* What record_output appends: an entry of the key at the run's own last version, whose
\* lineage is right at that moment.
LEMMA RecordAppends ==
  ASSUME ManifestAssumption, TypeOK, WroteIsLast, NEW r \in Run, NEW k \in Key,
         RecordOutput(r, k)
  PROVE  /\ \E o \in Output : /\ outputs' = [outputs EXCEPT ![r] = @ \cup {o}]
                              /\ Lineage(r, o)
         /\ faults' \in Nat
<1> DEFINE last == wrote[r][k]
           latest == Len(objects[k])
           etags == {NoValue} \cup (IF last > 0 THEN {objects[k][last].etag} ELSE {})
           versions == {NoValue} \cup (IF last > 0 /\ k \in Versioned THEN {last} ELSE {})
           E(etag, version, capture) ==
             [key |-> k, etag |-> etag, version_id |-> version,
              version_capture |-> capture, own |-> last]
<1>1. /\ objects[k] \in Seq(Stored)
      /\ latest \in Nat /\ last \in 0 .. latest
      /\ \A n \in 1 .. latest : objects[k][n] \in Stored
      /\ \A n \in 1 .. latest : n > last => objects[k][n].writer # r
  <2>1. objects[k] \in Seq(Stored)
    BY DEF TypeOK, Stored
  <2>2. \A n \in 1 .. latest : objects[k][n] \in Stored
    BY <2>1
  <2> QED  BY <2>1, <2>2 DEF WroteIsLast
<1>2. \A n \in 1 .. latest : objects[k][n].etag \in Etag
  BY <1>1 DEF Stored
<1>3. last > 0 => last \in 1 .. latest /\ latest \in 1 .. latest
  BY <1>1
<1>4. NoValue \notin Etag /\ NoValue \notin Nat
  BY DEF ManifestAssumption
<1>5. faults' \in Nat
  BY DEF RecordOutput, TypeOK, Fault
<1>6. PICK etag \in etags, version \in versions :
        \/ etag # NoValue /\ version # NoValue /\ Record(r, k, etag, version, "caller")
        \/ \E capture \in {"not_captured", "unavailable", "object_absent"} :
             Record(r, k, etag, version, capture)
        \/ /\ k \notin Reference
           /\ Record(r, k, IF etag = NoValue THEN objects[k][Current(k)].etag ELSE etag,
                     IF version = NoValue THEN VersionId(k, Current(k)) ELSE version,
                     "head_object")
  BY DEF RecordOutput
<1>7. /\ etag = NoValue \/ (last > 0 /\ etag = objects[k][last].etag)
      /\ version = NoValue \/ (last > 0 /\ k \in Versioned /\ version = last)
  BY <1>6
<1> HIDE DEF etags, versions
<1>8. ASSUME NEW capture \in VERSION_CAPTURES,
             capture \in {"caller", "head_object"} => etag # NoValue /\ version # NoValue
      PROVE  E(etag, version, capture) \in Output /\ Lineage(r, E(etag, version, capture))
  <2>1. E(etag, version, capture) \in Output
    BY <1>1, <1>2, <1>3, <1>7 DEF Output
  <2>2. etag # NoValue =>
          \E n \in 1 .. latest : last > 0 /\ n = last /\ objects[k][n].etag = etag
    BY <1>3, <1>7
  <2> QED  BY <1>1, <1>3, <1>7, <1>8, <2>1, <2>2 DEF Lineage
<1>9. CASE etag # NoValue /\ version # NoValue /\ Record(r, k, etag, version, "caller")
  BY <1>5, <1>8, <1>9 DEF Record, VERSION_CAPTURES
<1>10. CASE \E capture \in {"not_captured", "unavailable", "object_absent"} :
              Record(r, k, etag, version, capture)
  BY <1>5, <1>8, <1>10 DEF Record, VERSION_CAPTURES
<1>11. CASE /\ k \notin Reference
            /\ Record(r, k, IF etag = NoValue THEN objects[k][Current(k)].etag ELSE etag,
                      IF version = NoValue THEN VersionId(k, Current(k)) ELSE version,
                      "head_object")
  <2> DEFINE e == IF etag = NoValue THEN objects[k][Current(k)].etag ELSE etag
             v == IF version = NoValue THEN VersionId(k, Current(k)) ELSE version
             o == E(e, v, "head_object")
  <2>1. last > 0
    BY <1>1, <1>11 DEF RecordOutput
  <2>2. \E n \in {last, latest} : e = objects[k][n].etag
    BY <1>7 DEF Current
  <2>3. e \in Etag /\ e # NoValue
    BY <1>2, <1>3, <1>4, <2>1, <2>2
  <2>4. \/ v = NoValue /\ k \notin Versioned
        \/ v \in {last, latest} /\ k \in Versioned
    BY <1>7 DEF VersionId, Current
  <2>5. v # NoValue => v \in {last, latest} /\ v \in 1 .. latest
    BY <1>3, <2>1, <2>4
  <2>6. o \in Output
    <3>1. v \in Nat \cup {NoValue} /\ (v # NoValue => k \in Versioned)
      BY <1>1, <2>4, <2>5
    <3> HIDE DEF e, v
    <3> QED  BY <1>1, <2>3, <3>1 DEF Output, VERSION_CAPTURES
  <2>7. Lineage(r, o)
    <3>1. k \in Versioned => v # NoValue
      BY <1>1, <1>4, <2>4
    <3>2. \A n \in {last, latest} :
            n \in last .. latest /\ n \in 1 .. latest /\ (n > last => objects[k][n].writer # r)
      BY <1>1, <1>3, <2>1
    <3> HIDE DEF e, v
    <3>3. /\ o.key = k /\ o.etag = e /\ o.version_id = v
          /\ o.version_capture = "head_object" /\ o.own = last
      OBVIOUS
    <3> HIDE DEF o
    <3> QED  BY <2>1, <2>2, <2>3, <2>5, <3>1, <3>2, <3>3 DEF Lineage
  <2>8. outputs' = [outputs EXCEPT ![r] = @ \cup {o}]
    BY <1>11 DEF Record
  <2> HIDE DEF o
  <2> QED  BY <1>5, <2>6, <2>7, <2>8
<1> QED  BY <1>6, <1>9, <1>10, <1>11

-----------------------------------------------------------------------------
(* The invariant *)

LEMMA InitIInv == ASSUME ManifestAssumption, Init PROVE IInv
<1>1. TypeOK
  BY DEF Init, TypeOK, ManifestAssumption, Status
<1>2. WroteIsLast
  BY DEF Init, WroteIsLast
<1>3. LineageIsOwnOrOvertaken
  BY DEF Init, LineageIsOwnOrOvertaken
<1>4. FiledAsEnded
  <2>1. ASSUME NEW r \in Run
        PROVE  ManifestKey(r) \in {Unit[x] : x \in Run} \X Run
    BY DEF ManifestKey
  <2> QED  BY <2>1 DEF Init, FiledAsEnded
<1> QED  BY <1>1, <1>2, <1>3, <1>4 DEF IInv

\* A step that stores no object and records no output leaves the lineage alone.
LEMMA LineageKept ==
  ASSUME WroteIsLast, LineageIsOwnOrOvertaken, UNCHANGED <<objects, wrote, outputs>>
  PROVE  WroteIsLast' /\ LineageIsOwnOrOvertaken'
BY DEF WroteIsLast, LineageIsOwnOrOvertaken, Lineage

\* Appending to a key keeps what is stored at the versions it already had.
LEMMA AppendKeeps ==
  ASSUME NEW s \in Seq(Stored), NEW x \in Stored
  PROVE  /\ Append(s, x) \in Seq(Stored)
         /\ Len(Append(s, x)) = Len(s) + 1
         /\ Append(s, x)[Len(s) + 1] = x
         /\ \A n \in 1 .. Len(s) : Append(s, x)[n] = s[n]
OBVIOUS

LEMMA PublishIInv ==
  ASSUME ManifestAssumption, IInv, NEW r \in Run, NEW k \in Key, NEW e \in Etag,
         Publish(r, k, e)
  PROVE  IInv'
<1> DEFINE x == [writer |-> r, etag |-> e]
<1>1. TypeOK /\ WroteIsLast /\ LineageIsOwnOrOvertaken /\ FiledAsEnded
  BY DEF IInv
<1>2. objects[k] \in Seq(Stored) /\ x \in Stored /\ Len(objects[k]) \in Nat
  <2>1. objects[k] \in Seq(Stored)
    BY <1>1 DEF TypeOK, Stored
  <2>2. x \in Stored
    BY DEF Stored
  <2> QED  BY <2>1, <2>2
<1>3. /\ objects' = [objects EXCEPT ![k] = Append(objects[k], x)]
      /\ wrote' = [wrote EXCEPT ![r][k] = Len(objects[k]) + 1]
      /\ UNCHANGED <<sink, manifests, at, outputs, status, told, faults>>
  BY DEF Publish
<1>4. Append(objects[k], x) \in Seq(Stored)
  BY <1>2, AppendKeeps
<1>5. objects \in [Key -> Seq(Stored)] /\ wrote \in [Run -> [Key -> Nat]]
  BY <1>1 DEF TypeOK, Stored
<1>6. /\ objects' \in [Key -> Seq(Stored)]
      /\ wrote' \in [Run -> [Key -> Nat]]
  BY <1>2, <1>3, <1>4, <1>5
<1>7. TypeOK'
  BY <1>1, <1>3, <1>6 DEF TypeOK, Stored
<1>8. \A j \in Key :
        /\ Len(objects[j]) \in Nat /\ Len(objects'[j]) \in Nat
        /\ Len(objects[j]) <= Len(objects'[j])
        /\ \A n \in 1 .. Len(objects[j]) : objects'[j][n] = objects[j][n]
        /\ j # k => objects'[j] = objects[j]
  BY <1>2, <1>3, <1>5, <1>6, AppendKeeps
<1>9. /\ Len(objects'[k]) = Len(objects[k]) + 1
      /\ objects'[k][Len(objects[k]) + 1].writer = r
  BY <1>2, <1>3, <1>5, AppendKeeps
<1>10. WroteIsLast'
  <2> SUFFICES ASSUME NEW q \in Run, NEW j \in Key
               PROVE  /\ wrote'[q][j] \in 0 .. Len(objects'[j])
                      /\ \A n \in 1 .. Len(objects'[j]) :
                           n > wrote'[q][j] => objects'[j][n].writer # q
    BY DEF WroteIsLast
  <2>1. CASE q = r /\ j = k
    BY <1>3, <1>5, <1>8, <1>9, <2>1
  <2>2. CASE j # k
    <3>1. wrote'[q][j] = wrote[q][j] /\ objects'[j] = objects[j]
      BY <1>3, <1>5, <1>8, <2>2
    <3> QED  BY <1>1, <3>1 DEF WroteIsLast
  <2>3. CASE q # r /\ j = k
    <3>1. wrote'[q][k] = wrote[q][k] /\ wrote[q][k] \in 0 .. Len(objects[k])
      BY <1>1, <1>3, <1>5, <2>3 DEF WroteIsLast
    <3>2. ASSUME NEW n \in 1 .. Len(objects'[k]), n > wrote[q][k]
          PROVE  objects'[k][n].writer # q
      <4>1. CASE n = Len(objects[k]) + 1
        BY <1>9, <2>3, <4>1
      <4>2. CASE n \in 1 .. Len(objects[k])
        BY <1>1, <1>8, <3>2, <4>2 DEF WroteIsLast
      <4> QED  BY <1>8, <1>9, <4>1, <4>2
    <3> QED  BY <1>8, <2>3, <3>1, <3>2
  <2> QED  BY <2>1, <2>2, <2>3
<1>11. LineageIsOwnOrOvertaken'
  <2> SUFFICES ASSUME NEW q \in Run, NEW o \in outputs[q]
               PROVE  Lineage(q, o)'
    BY <1>3 DEF LineageIsOwnOrOvertaken
  <2>1. Lineage(q, o) /\ o \in Output
    BY <1>1 DEF LineageIsOwnOrOvertaken, TypeOK
  <2>2. o.key \in Key /\ o.own \in Nat /\ o.version_id \in Nat \cup {NoValue}
    BY <2>1 DEF Output
  <2> DEFINE Named(n) ==
        /\ o.own > 0 /\ n \in o.own .. Len(objects[o.key])
        /\ n > o.own => o.version_capture = "head_object" /\ objects[o.key][n].writer # q
  <2>3. ASSUME NEW n, Named(n)
        PROVE  /\ Named(n)'
               /\ n \in 1 .. Len(objects'[o.key])
               /\ objects'[o.key][n] = objects[o.key][n]
    <3>1. n \in 1 .. Len(objects[o.key])
      BY <1>8, <2>2, <2>3
    <3>2. /\ objects'[o.key][n] = objects[o.key][n]
          /\ n \in 1 .. Len(objects'[o.key])
          /\ n \in o.own .. Len(objects'[o.key])
      BY <1>8, <2>2, <2>3, <3>1
    <3> QED  BY <2>3, <3>2
  <2>4. o.version_id # NoValue => Named(o.version_id)'
    BY <2>1, <2>3 DEF Lineage
  <2>5. o.etag # NoValue =>
          \E n \in 1 .. Len(objects'[o.key]) : Named(n)' /\ objects'[o.key][n].etag = o.etag
    <3> SUFFICES ASSUME o.etag # NoValue
                 PROVE  \E n \in 1 .. Len(objects'[o.key]) :
                          Named(n)' /\ objects'[o.key][n].etag = o.etag
      OBVIOUS
    <3>1. PICK n \in 1 .. Len(objects[o.key]) : Named(n) /\ objects[o.key][n].etag = o.etag
      BY <2>1 DEF Lineage
    <3> QED  BY <2>3, <3>1
  <2> QED  BY <2>1, <2>4, <2>5 DEF Lineage
<1>12. FiledAsEnded'
  BY <1>1, <1>3 DEF FiledAsEnded, ManifestKey, BuildManifest
<1> QED  BY <1>7, <1>10, <1>11, <1>12 DEF IInv

LEMMA RecordIInv ==
  ASSUME ManifestAssumption, IInv, NEW r \in Run, NEW k \in Key, RecordOutput(r, k)
  PROVE  IInv'
<1>1. TypeOK /\ WroteIsLast /\ LineageIsOwnOrOvertaken /\ FiledAsEnded
  BY DEF IInv
<1>2. PICK o \in Output : outputs' = [outputs EXCEPT ![r] = @ \cup {o}] /\ Lineage(r, o)
  BY <1>1, RecordAppends
<1>3. faults' \in Nat
  BY <1>1, RecordAppends
<1>4. /\ at[r] = "body"
      /\ UNCHANGED <<sink, objects, manifests, at, wrote, status, told>>
  BY DEF RecordOutput
<1>5. TypeOK'
  BY <1>1, <1>2, <1>3, <1>4 DEF TypeOK
<1>6. WroteIsLast'
  BY <1>1, <1>4 DEF WroteIsLast
<1>7. LineageIsOwnOrOvertaken'
  <2> SUFFICES ASSUME NEW q \in Run, NEW p \in outputs'[q]
               PROVE  Lineage(q, p)'
    BY DEF LineageIsOwnOrOvertaken
  <2>1. Lineage(q, p)
    BY <1>1, <1>2 DEF LineageIsOwnOrOvertaken, TypeOK
  <2> QED  BY <1>4, <2>1 DEF Lineage
<1>8. FiledAsEnded'
  <2>1. \A q \in Run \ {r} : outputs'[q] = outputs[q]
    BY <1>1, <1>2 DEF TypeOK
  <2>2. manifests[ManifestKey(r)] = NoManifest
    BY <1>1, <1>4 DEF FiledAsEnded
  <2> QED  BY <1>1, <1>4, <2>1, <2>2 DEF FiledAsEnded, ManifestKey, BuildManifest
<1> QED  BY <1>5, <1>6, <1>7, <1>8 DEF IInv

LEMMA WriteIInv ==
  ASSUME ManifestAssumption, NoManifestAssumption, IInv, NEW r \in Run, WriteManifest(r)
  PROVE  IInv'
<1>1. TypeOK /\ WroteIsLast /\ LineageIsOwnOrOvertaken /\ FiledAsEnded
  BY DEF IInv
<1>2. WroteIsLast' /\ LineageIsOwnOrOvertaken'
  BY <1>1, LineageKept DEF WriteManifest
<1>3. BuildManifest(r) \in Manifest
  BY <1>1 DEF TypeOK, BuildManifest, Manifest
<1> DEFINE Places == {Unit[x] : x \in Run} \X Run
<1>4. \A q \in Run : ManifestKey(q) \in Places /\ (q # r => ManifestKey(q) # ManifestKey(r))
  BY DEF ManifestKey
<1>5. /\ manifests \in [Places -> Manifest \cup {NoManifest}]
      /\ manifests' = [manifests EXCEPT ![ManifestKey(r)] = BuildManifest(r)]
      /\ at' = [at EXCEPT ![r] = "filed"]
      /\ at[r] = "finally" /\ sink[r] # "none"
      /\ UNCHANGED <<sink, objects, wrote, outputs, status, told, faults>>
  BY <1>1 DEF TypeOK, WriteManifest, Goto
<1> HIDE DEF Places
<1>6. /\ manifests' \in [Places -> Manifest \cup {NoManifest}]
      /\ manifests'[ManifestKey(r)] = BuildManifest(r)
      /\ \A q \in Run \ {r} : manifests'[ManifestKey(q)] = manifests[ManifestKey(q)]
  BY <1>3, <1>4, <1>5
<1>7. TypeOK'
  BY <1>1, <1>5, <1>6 DEF TypeOK, Places
<1>8. FiledAsEnded'
  <2>1. at \in [Run -> {"new", "body", "finally", "filed", "ended"}]
    BY <1>1 DEF TypeOK
  <2>2. \A q \in Run : BuildManifest(q)' = BuildManifest(q) /\ ManifestKey(q)' = ManifestKey(q)
    BY <1>5 DEF BuildManifest, ManifestKey
  <2>3. BuildManifest(r) # NoManifest
    BY <1>3 DEF NoManifestAssumption
  <2> QED  BY <1>1, <1>5, <1>6, <2>1, <2>2, <2>3 DEF FiledAsEnded
<1> QED  BY <1>2, <1>7, <1>8 DEF IInv

\* The steps that only move a run on and settle what its caller knows.
Moves(r) == Refuse(r) \/ Start(r) \/ BodyEnds(r) \/ Return(r) \/ SinkFails(r) \/ Kill(r)

LEMMA MoveIInv ==
  ASSUME ManifestAssumption, IInv, NEW r \in Run, Moves(r)
  PROVE  IInv'
<1>1. TypeOK /\ WroteIsLast /\ LineageIsOwnOrOvertaken /\ FiledAsEnded
  BY DEF IInv
<1>2. UNCHANGED <<sink, objects, manifests, wrote, outputs>>
  BY DEF Moves, Refuse, Start, BodyEnds, Return, SinkFails, Kill
<1>3. WroteIsLast' /\ LineageIsOwnOrOvertaken'
  BY <1>1, <1>2, LineageKept
<1>4. /\ at' \in [Run -> {"new", "body", "finally", "filed", "ended"}]
      /\ status' \in [Run -> Status]
      /\ told' \in [Run -> Status \cup {"nothing", "error", "refused"}]
      /\ faults' \in Nat
  <2> USE <1>1 DEF TypeOK, Goto, Fault
  <2>1. CASE Refuse(r)  BY <2>1 DEF Refuse
  <2>2. CASE Start(r)  BY <2>2 DEF Start
  <2>3. CASE BodyEnds(r)  BY <2>3 DEF BodyEnds
  <2>4. CASE Return(r)  BY <2>4 DEF Return
  <2>5. CASE SinkFails(r)  BY <2>5 DEF SinkFails
  <2>6. CASE Kill(r)  BY <2>6 DEF Kill
  <2> QED  BY <2>1, <2>2, <2>3, <2>4, <2>5, <2>6 DEF Moves
<1>5. TypeOK'
  BY <1>1, <1>2, <1>4 DEF TypeOK
<1>6. FiledAsEnded'
  <2>1. /\ \A q \in Run \ {r} : at'[q] = at[q] /\ told'[q] = told[q] /\ status'[q] = status[q]
        /\ at'[r] \in {"body", "finally", "ended"}
        /\ at'[r] # "ended" => told'[r] = told[r] /\ at[r] \in {"new", "body"}
        /\ at'[r] = "ended" => told'[r] # "nothing" /\ status'[r] = status[r]
    <3> USE <1>1 DEF TypeOK, Goto, Status
    <3>1. CASE Refuse(r)  BY <3>1 DEF Refuse
    <3>2. CASE Start(r)  BY <3>2 DEF Start
    <3>3. CASE BodyEnds(r)  BY <3>3 DEF BodyEnds
    <3>4. CASE Return(r)  BY <3>4 DEF Return
    <3>5. CASE SinkFails(r)  BY <3>5 DEF SinkFails
    <3>6. CASE Kill(r)  BY <3>6 DEF Kill
    <3> QED  BY <3>1, <3>2, <3>3, <3>4, <3>5, <3>6 DEF Moves
  <2>2. \A q \in Run : manifests'[ManifestKey(q)'] = manifests[ManifestKey(q)]
    BY <1>2 DEF ManifestKey
  <2>3. \A q \in Run : status'[q] = status[q] => BuildManifest(q)' = BuildManifest(q)
    BY <1>2 DEF BuildManifest
  <2>4. ASSUME NEW q \in Run \ {r}
        PROVE  /\ manifests'[ManifestKey(q)'] # NoManifest =>
                    /\ sink'[q] # "none"
                    /\ at'[q] \in {"filed", "ended"}
                    /\ manifests'[ManifestKey(q)'] = BuildManifest(q)'
               /\ at'[q] = "filed" => manifests'[ManifestKey(q)'] # NoManifest
               /\ told'[q] # "nothing" <=> at'[q] = "ended"
    BY <1>1, <1>2, <2>1, <2>2, <2>3 DEF FiledAsEnded
  <2>5. /\ manifests'[ManifestKey(r)'] # NoManifest =>
             /\ sink'[r] # "none"
             /\ at'[r] \in {"filed", "ended"}
             /\ manifests'[ManifestKey(r)'] = BuildManifest(r)'
        /\ at'[r] = "filed" => manifests'[ManifestKey(r)'] # NoManifest
        /\ told'[r] # "nothing" <=> at'[r] = "ended"
    BY <1>1, <1>2, <2>1, <2>2, <2>3 DEF FiledAsEnded
  <2> QED  BY <2>4, <2>5 DEF FiledAsEnded
<1> QED  BY <1>3, <1>5, <1>6 DEF IInv

LEMMA Inductive == Spec => []IInv
<1>1. Init => IInv
  BY ManifestAssumption, InitIInv
<1>2. IInv /\ [Next]_vars => IInv'
  <2> SUFFICES ASSUME IInv, [Next]_vars PROVE IInv'
    OBVIOUS
  <2>1. CASE UNCHANGED vars
    <3>1. WroteIsLast' /\ LineageIsOwnOrOvertaken'
      BY <2>1, LineageKept DEF vars, IInv
    <3>2. TypeOK'
      BY <2>1 DEF vars, IInv, TypeOK
    <3>3. FiledAsEnded'
      BY <2>1 DEF vars, IInv, FiledAsEnded, ManifestKey, BuildManifest
    <3> QED  BY <3>1, <3>2, <3>3 DEF IInv
  <2>2. CASE Next
    <3>1. PICK r \in Run :
            \/ Moves(r) \/ WriteManifest(r)
            \/ \E k \in Key : RecordOutput(r, k) \/ \E e \in Etag : Publish(r, k, e)
      BY <2>2 DEF Next, Moves
    <3> QED  BY <3>1, ManifestAssumption, NoManifestAssumption,
                MoveIInv, WriteIInv, RecordIInv, PublishIInv
  <2> QED  BY <2>1, <2>2
<1> QED  BY <1>1, <1>2, PTL DEF Spec

-----------------------------------------------------------------------------
(* Theorems *)

\* Types: among them that a version id is recorded only of a key that keeps versions.
THEOREM TypeCorrect == Spec => []TypeOK
<1>1. IInv => TypeOK
  BY DEF IInv
<1> QED  BY <1>1, Inductive, PTL

\* Whoever publishes to the same keys meanwhile, and in whatever order, a version that
\* record_output names is the run's own or a later one of another run.
THEOREM LineageHolds == Spec => []LineageIsOwnOrOvertaken
<1>1. IInv => LineageIsOwnOrOvertaken
  BY DEF IInv
<1> QED  BY <1>1, Inductive, PTL

\* The finally clause of run_unit files all that was recorded, however the body ended.
THEOREM ManifestsComplete == Spec => []FiledManifestIsComplete
<1>1. IInv => FiledManifestIsComplete
  <2>1. \A r \in Run : BuildManifest(r).outputs = outputs[r]
    BY DEF BuildManifest
  <2> QED  BY <2>1 DEF IInv, FiledAsEnded, FiledManifestIsComplete
<1> QED  BY <1>1, Inductive, PTL

\* Both: what was recorded is all filed, and names the run's own object or a later one.
THEOREM TrueManifests == Spec => []ManifestIsTrue
BY LineageHolds, ManifestsComplete, PTL DEF ManifestIsTrue

-----------------------------------------------------------------------------
(* Refinement of RunLog *)

LEMMA LogInit == ASSUME Init PROVE Log!Init
<1>1. \A r \in Run : Filed(r) = "none"
  BY DEF Init, Filed, ManifestKey
<1>2. \A r \in Run : Told(r) = "nothing"
  BY DEF Init, Told
<1> QED  BY <1>1, <1>2 DEF Log!Init

\* The filing of the manifest is the abstract filing.
LEMMA LogFile ==
  ASSUME IInv, NoManifestAssumption, NEW r \in Run, WriteManifest(r)
  PROVE  Log!File(r, status[r]) /\ status[r] \in Status
<1>1. TypeOK /\ FiledAsEnded
  BY DEF IInv
<1>2. /\ sink[r] # "none" /\ at[r] = "finally"
      /\ UNCHANGED <<sink, told>>
      /\ \A q \in Run : ManifestKey(q)' = ManifestKey(q)
  BY DEF WriteManifest, ManifestKey
<1>3. BuildManifest(r) \in Manifest /\ BuildManifest(r).status = status[r]
  BY <1>1 DEF TypeOK, BuildManifest, Manifest
<1>4. /\ manifests'[ManifestKey(r)] = BuildManifest(r)
      /\ \A q \in Run \ {r} : manifests'[ManifestKey(q)] = manifests[ManifestKey(q)]
  BY <1>1 DEF TypeOK, WriteManifest, ManifestKey
<1>5. \A q \in Run : Told(q)' = Told(q)
  BY <1>2 DEF Told
<1>6. Filed(r)' = status[r] /\ \A q \in Run \ {r} : Filed(q)' = Filed(q)
  BY <1>2, <1>3, <1>4 DEF Filed, NoManifestAssumption
<1>7. Told(r) = "nothing" /\ Filed(r) = "none"
  BY <1>1, <1>2 DEF FiledAsEnded, Told, Filed
<1>8. status[r] \in Status
  BY <1>1 DEF TypeOK
<1> QED  BY <1>5, <1>6, <1>7, <1>8 DEF Log!File

\* Steps of a run that leave the store and what its caller knows alone are stutters.
LEMMA LogStutter ==
  ASSUME UNCHANGED <<sink, manifests, told>>
  PROVE  UNCHANGED Log!vars
<1>1. \A q \in Run : Told(q)' = Told(q) /\ Filed(q)' = Filed(q)
  BY DEF Told, Filed, ManifestKey
<1> QED  BY <1>1 DEF Log!vars

\* The end of a run: its record told, or nothing known of it; a dry run has no part in it.
LEMMA LogEnd ==
  ASSUME IInv, NEW r \in Run, NEW what,
         at[r] # "ended", told' = [told EXCEPT ![r] = what],
         UNCHANGED <<sink, manifests>>,
         \/ what \in {"error", "refused"}
         \/ what = status[r] /\ (at[r] = "filed" \/ sink[r] = "none")
  PROVE  Log!Tell(r) \/ Log!Lose(r) \/ UNCHANGED Log!vars
<1>1. TypeOK /\ FiledAsEnded
  BY DEF IInv
<1>2. \A q \in Run : Filed(q)' = Filed(q)
  BY DEF Filed, ManifestKey
<1>3. /\ \A q \in Run \ {r} : Told(q)' = Told(q)
      /\ told'[r] = what
      /\ Told(r) = "nothing"
  BY <1>1 DEF Told, TypeOK, FiledAsEnded
<1>4. CASE sink[r] = "none"
  <2>1. Told(r)' = Told(r)
    BY <1>4 DEF Told
  <2> QED  BY <1>2, <1>3, <2>1 DEF Log!vars
<1>5. CASE sink[r] # "none" /\ what \in {"error", "refused"}
  <2>1. Told(r)' = "error"
    BY <1>3, <1>5 DEF Told
  <2> QED  BY <1>2, <1>3, <2>1 DEF Log!Lose
<1>6. CASE sink[r] # "none" /\ what = status[r] /\ at[r] = "filed"
  <2>1. Filed(r) = status[r] /\ Filed(r) # "none"
    <3>1. BuildManifest(r).status = status[r] /\ status[r] \in Status
      BY <1>1 DEF TypeOK, BuildManifest
    <3>2. manifests[ManifestKey(r)] # NoManifest /\ manifests[ManifestKey(r)] = BuildManifest(r)
      BY <1>1, <1>6 DEF FiledAsEnded
    <3> QED  BY <3>1, <3>2 DEF Filed, Status
  <2>2. Told(r)' = status[r]
    BY <1>1, <1>3, <1>6 DEF Told, TypeOK, Status
  <2> QED  BY <1>2, <1>3, <2>1, <2>2 DEF Log!Tell
<1> QED  BY <1>4, <1>5, <1>6

LEMMA LogNext == ASSUME IInv, [Next]_vars PROVE [Log!Next]_Log!vars
<1>1. CASE UNCHANGED vars
  BY <1>1, LogStutter DEF vars
<1>2. ASSUME NEW r \in Run, WriteManifest(r) PROVE Log!Next
  BY <1>2, LogFile, NoManifestAssumption DEF Log!Next
<1>3. ASSUME NEW r \in Run, Refuse(r) \/ Return(r) \/ SinkFails(r) \/ Kill(r)
      PROVE  [Log!Next]_Log!vars
  <2>1. Log!Tell(r) \/ Log!Lose(r) \/ UNCHANGED Log!vars
    <3>1. CASE Refuse(r)  BY <3>1, LogEnd DEF Refuse
    <3>2. CASE Return(r)  BY <3>2, LogEnd DEF Return
    <3>3. CASE SinkFails(r)  BY <3>3, LogEnd DEF SinkFails
    <3>4. CASE Kill(r)  BY <3>4, LogEnd DEF Kill
    <3> QED  BY <1>3, <3>1, <3>2, <3>3, <3>4
  <2> QED  BY <2>1 DEF Log!Next
<1>4. ASSUME NEW r \in Run,
             \/ Start(r) \/ BodyEnds(r)
             \/ \E k \in Key : RecordOutput(r, k) \/ \E e \in Etag : Publish(r, k, e)
      PROVE  UNCHANGED Log!vars
  <2>1. UNCHANGED <<sink, manifests, told>>
    BY <1>4 DEF Start, BodyEnds, RecordOutput, Publish
  <2> QED  BY <2>1, LogStutter
<1> QED  BY <1>1, <1>2, <1>3, <1>4 DEF Next

\* run_unit keeps the promise of RunLog: at most one record of a run, never changed, and
\* durable before its caller is told how the run ended.
THEOREM Refines == Spec => ImplementsRunLog
<1>1. Init => Log!Init
  BY LogInit
<1>2. IInv /\ [Next]_vars => [Log!Next]_Log!vars
  BY LogNext
<1> QED  BY <1>1, <1>2, Inductive, PTL DEF Spec, ImplementsRunLog, Log!Spec

-----------------------------------------------------------------------------
(* The health stamps.                                                       *)

\* Nothing was written later than now.
WrittenInPast == \A a \in Artifacts : written[a] <= clock

\* Amid the verification, a keyed claim is still to be looked at, could not be, or is fresh.
ClaimStands(p, d) ==
  \/ d \in process[p].left \/ d \in process[p].unverified
  \/ IsFresh(written[d.artifact], process[p].start)

ClaimsStand ==
  \A p \in Processes : process[p].pc = "verify" =>
    \A d \in process[p].produced : d.artifact # NoKey => ClaimStands(p, d)

\* What a run has to say is said once, is its own, and is earned.
PayloadHolds(p) == process[p].payload # Unstamped =>
  /\ process[p].pc \in {"put", "done", "told", "dead"}
  /\ process[p].payload.by = p
  /\ Earned(process[p].payload)
  /\ process[p].payload.status \in {"ok", "degraded", "failed"}
  /\ process[p].payload.status = "failed" => process[p].payload.lastSuccess = Absent

PayloadsHold == \A p \in Processes : PayloadHolds(p)

\* A live stamp is what some live run of a module with that key had to say.
StampIsOfRun(k) == stamps[k] # Unstamped =>
  \E p \in Processes :
    /\ stamps[k] = process[p].payload /\ AtLiveKey(p) /\ StampKeyOf[Module(p)] = k

StampsAreOfRuns == \A k \in StampKeys : StampIsOfRun(k)

StampInv ==
  /\ StampTypeOK /\ WrittenInPast /\ ClaimsStand /\ PayloadsHold
  /\ StampsAreOfRuns /\ FreshSurfaceRanLive

LEMMA UnstampedType == Unstamped \in StampType
BY DEF Unstamped, StampType, Absent

LEMMA InitHolds ==
  ASSUME StampInit PROVE StampInv
<1>1. StampTypeOK
  <2>1. IdleProcess \in ProcessType
    BY UnstampedType DEF IdleProcess, ProcessType
  <2> QED  BY <2>1, UnstampedType DEF StampInit, StampTypeOK
<1>2. WrittenInPast
  BY DEF StampInit, WrittenInPast, Absent
<1>3. ClaimsStand /\ PayloadsHold
  BY DEF StampInit, ClaimsStand, PayloadsHold, PayloadHolds, IdleProcess
<1>4. StampsAreOfRuns
  BY DEF StampInit, StampsAreOfRuns, StampIsOfRun
<1>5. FreshSurfaceRanLive
  BY DEF StampInit, FreshSurfaceRanLive, Unasked
<1> QED  BY <1>1, <1>2, <1>3, <1>4, <1>5 DEF StampInv

-----------------------------------------------------------------------------
(* What a step keeps *)

\* What was earned stays earned as artifacts are written again.
LEMMA EarnedStays ==
  ASSUME StampTypeOK, WrittenInPast, NEW s \in StampType, Earned(s), s.status = "ok" => s.by \in Processes,
         written' = written \/ \E a \in Artifacts : written' = [written EXCEPT ![a] = clock]
  PROVE  Earned(s)'
<1>1. ASSUME NEW a \in Artifacts PROVE written'[a] >= written[a]
                                       /\ (written[a] # Absent => written'[a] # Absent)
  BY DEF StampTypeOK, WrittenInPast, Absent
<1>2. ASSUME s.status = "ok",
             NEW d \in Declares(s.by), d.required, d.artifact # NoKey, d \notin s.unverified
      PROVE  written'[d.artifact] # Absent /\ written'[d.artifact] >= s.since - Buffer
  <2>1. d.artifact \in Artifacts
    BY <1>2, StampAssumption
  <2>2. written[d.artifact] # Absent /\ written[d.artifact] >= s.since - Buffer
    BY <1>2 DEF Earned
  <2>3. s.since \in Nat /\ written[d.artifact] \in Int /\ Buffer \in Nat
    BY <2>1, StampAssumption DEF StampType, StampTypeOK, Absent
  <2>4. written'[d.artifact] \in Int
    BY <2>1, <2>3 DEF StampTypeOK
  <2> QED  BY <1>1, <2>1, <2>2, <2>3, <2>4
<1> QED  BY <1>2 DEF Earned

\* No step unsays what a run had to say: the surfaces it leaves alone stay of live runs.
SaysNoLess ==
  \A p \in Processes :
    process'[p].payload = process[p].payload \/ process[p].payload = Unstamped

LEMMA StampsKept ==
  ASSUME StampInv, SaysNoLess, UNCHANGED stamps PROVE StampsAreOfRuns'
<1> SUFFICES ASSUME NEW k \in StampKeys, stamps[k] # Unstamped
             PROVE  \E p \in Processes :
                      stamps[k] = process'[p].payload /\ AtLiveKey(p) /\ StampKeyOf[Module(p)] = k
  BY DEF StampsAreOfRuns, StampIsOfRun
<1>1. PICK p \in Processes :
        stamps[k] = process[p].payload /\ AtLiveKey(p) /\ StampKeyOf[Module(p)] = k
  BY DEF StampInv, StampsAreOfRuns, StampIsOfRun
<1>2. process'[p].payload = process[p].payload
  BY <1>1 DEF SaysNoLess
<1> QED  BY <1>1, <1>2

\* The part of FreshSurfaceRanLive that is about the readers, and about the console.
FreshHasRun ==
  ~upstream.stale =>
    \E p \in Processes :
      /\ StampKeyOf[Module(p)] = StampKeyOf[upstream.module]
      /\ ProcessOf[p].name # "rehearsal" /\ ProcessOf[p].role # "rehearsal"
      /\ process[p].payload.status \in {"ok", "degraded"}
      /\ process[p].payload.lastSuccess >= upstream.at - MaxStampAge
RowIsLive ==
  consoleRow # Unstamped =>
    LET p == ProcessOf[consoleRow.by]
    IN  p.name # "rehearsal" /\ p.role # "rehearsal" /\ ~p.test

LEMMA SurfaceParts == FreshSurfaceRanLive <=> FreshHasRun /\ RowIsLive
BY DEF FreshSurfaceRanLive, FreshHasRun, RowIsLive

LEMMA FreshKept ==
  ASSUME StampInv, SaysNoLess, UNCHANGED upstream PROVE FreshHasRun'
<1> SUFFICES ASSUME ~upstream.stale
             PROVE  \E p \in Processes :
                      /\ StampKeyOf[Module(p)] = StampKeyOf[upstream.module]
                      /\ ProcessOf[p].name # "rehearsal" /\ ProcessOf[p].role # "rehearsal"
                      /\ process'[p].payload.status \in {"ok", "degraded"}
                      /\ process'[p].payload.lastSuccess >= upstream.at - MaxStampAge
  BY DEF FreshHasRun
<1>1. PICK p \in Processes :
        /\ StampKeyOf[Module(p)] = StampKeyOf[upstream.module]
        /\ ProcessOf[p].name # "rehearsal" /\ ProcessOf[p].role # "rehearsal"
        /\ process[p].payload.status \in {"ok", "degraded"}
        /\ process[p].payload.lastSuccess >= upstream.at - MaxStampAge
  BY SurfaceParts DEF StampInv, FreshHasRun
<1>2. process[p].payload # Unstamped
  BY <1>1 DEF Unstamped
<1>3. process'[p].payload = process[p].payload
  BY <1>2 DEF SaysNoLess
<1> QED  BY <1>1, <1>3

\* A step that moves one run along keeps what all have claimed and said.
LEMMA OneRun ==
  ASSUME StampInv, NEW p \in Processes, NEW q \in ProcessType,
         process' = [process EXCEPT ![p] = q], UNCHANGED <<clock, written>>,
         q.payload = process[p].payload \/ process[p].payload = Unstamped,
         PayloadHolds(p)',
         q.pc = "verify" => \A d \in q.produced : d.artifact # NoKey =>
           d \in q.left \/ d \in q.unverified \/ IsFresh(written[d.artifact], q.start)
  PROVE  /\ process' \in [Processes -> ProcessType] /\ WrittenInPast' /\ ClaimsStand'
         /\ PayloadsHold' /\ SaysNoLess
<1>1. process \in [Processes -> ProcessType]
  BY DEF StampInv, StampTypeOK
<1>2. process'[p] = q /\ \A r \in Processes \ {p} : process'[r] = process[r]
  BY <1>1
<1>3. WrittenInPast'
  BY DEF StampInv, WrittenInPast
<1>4. ClaimsStand'
  BY <1>2 DEF StampInv, ClaimsStand, ClaimStands
<1>5. PayloadsHold'
  <2>1. ASSUME NEW r \in Processes \ {p} PROVE PayloadHolds(r)'
    BY <1>2 DEF StampInv, PayloadsHold, PayloadHolds, Earned
  <2> QED  BY <2>1 DEF PayloadsHold
<1> QED  BY <1>1, <1>2, <1>3, <1>4, <1>5 DEF SaysNoLess

\* A run that is neither amid a verification after the step nor says anything new.
LEMMA RunMoves ==
  ASSUME StampInv, NEW p \in Processes, NEW q \in ProcessType,
         process' = [process EXCEPT ![p] = q], UNCHANGED <<clock, written>>,
         q.payload = process[p].payload, q.pc \in {"running", "done", "told", "dead"},
         q.pc = "running" => process[p].pc = "idle"
  PROVE  /\ process' \in [Processes -> ProcessType] /\ WrittenInPast' /\ ClaimsStand'
         /\ PayloadsHold' /\ SaysNoLess
<1>1. process'[p] = q
  BY DEF StampInv, StampTypeOK
<1>2. PayloadHolds(p)'
  BY <1>1 DEF StampInv, PayloadsHold, PayloadHolds, Earned, ProcessType
<1> QED  BY <1>1, <1>2, OneRun

\* The surfaces stay true when they, the clock and the artifacts are left alone.
LEMMA SurfacesKept ==
  ASSUME StampInv, process' \in [Processes -> ProcessType], WrittenInPast', ClaimsStand',
         PayloadsHold', SaysNoLess, UNCHANGED <<clock, written, stamps, consoleRow, upstream>>
  PROVE  StampInv'
<1>1. StampTypeOK'
  BY DEF StampInv, StampTypeOK
<1>2. StampsAreOfRuns' /\ FreshHasRun' /\ RowIsLive'
  BY StampsKept, FreshKept, SurfaceParts DEF StampInv, RowIsLive
<1> QED  BY <1>1, <1>2 DEF StampInv, FreshSurfaceRanLive, FreshHasRun, RowIsLive

-----------------------------------------------------------------------------
(* One lemma per action *)

LEMMA BeginStep ==
  ASSUME StampInv, NEW p \in Processes, BeginRun(p) PROVE StampInv'
<1> DEFINE q == [process[p] EXCEPT !.pc = "running", !.start = clock]
<1>1. process[p] \in ProcessType /\ clock \in Nat
  BY DEF StampInv, StampTypeOK
<1>2. q \in ProcessType /\ q.payload = process[p].payload /\ q.pc = "running"
  BY <1>1 DEF ProcessType
<1>3. process' = [process EXCEPT ![p] = q] /\ process[p].pc = "idle"
      /\ UNCHANGED <<clock, written, stamps, consoleRow, upstream>>
  BY DEF BeginRun
<1> HIDE DEF q
<1> QED  BY <1>2, <1>3, RunMoves, SurfacesKept

LEMMA DieStep ==
  ASSUME StampInv, NEW p \in Processes, Die(p) PROVE StampInv'
<1> DEFINE q == [process[p] EXCEPT !.pc = "dead"]
<1>1. process[p] \in ProcessType
  BY DEF StampInv, StampTypeOK
<1>2. q \in ProcessType /\ q.payload = process[p].payload /\ q.pc = "dead"
  BY <1>1 DEF ProcessType
<1>3. process' = [process EXCEPT ![p] = q]
      /\ UNCHANGED <<clock, written, stamps, consoleRow, upstream>>
  BY DEF Die
<1> HIDE DEF q
<1> QED  BY <1>2, <1>3, RunMoves, SurfacesKept

LEMMA WriteStep ==
  ASSUME StampInv, NEW p \in Processes, NEW d \in Declares(p), WriteOutput(p, d) PROVE StampInv'
<1>1. d.artifact \in Artifacts
  BY StampAssumption DEF WriteOutput
<1>2. written' = [written EXCEPT ![d.artifact] = clock]
      /\ UNCHANGED <<clock, process, stamps, consoleRow, upstream>>
  BY DEF WriteOutput
<1>3. StampTypeOK /\ WrittenInPast
  BY DEF StampInv
<1>4. StampTypeOK' /\ WrittenInPast'
  BY <1>1, <1>2, <1>3 DEF StampTypeOK, WrittenInPast
<1>5. ClaimsStand'
  <2> SUFFICES ASSUME NEW r \in Processes, process[r].pc = "verify",
                      NEW c \in process[r].produced, c.artifact # NoKey
               PROVE  \/ c \in process[r].left \/ c \in process[r].unverified
                      \/ IsFresh(written'[c.artifact], process[r].start)
    BY <1>2 DEF ClaimsStand, ClaimStands, IsFresh
  <2>1. c.artifact \in Artifacts
    <3>1. c \in AllClaims
      BY <1>3 DEF StampTypeOK, ProcessType
    <3> QED  BY <3>1, StampAssumption DEF AllClaims
  <2>2. \/ c \in process[r].left \/ c \in process[r].unverified
        \/ IsFresh(written[c.artifact], process[r].start)
    BY DEF StampInv, ClaimsStand, ClaimStands
  <2>3. IsFresh(written[c.artifact], process[r].start)
          => IsFresh(written'[c.artifact], process[r].start)
    <3>1. process[r].start \in Nat /\ written[c.artifact] \in Int /\ clock \in Nat
      BY <1>3, <2>1 DEF StampTypeOK, ProcessType, Absent
    <3>2. written[c.artifact] <= clock
      BY <1>3, <2>1 DEF WrittenInPast
    <3>3. CASE c.artifact = d.artifact
      BY <1>2, <1>3, <2>1, <3>1, <3>2, <3>3, StampAssumption DEF IsFresh, StampTypeOK, Absent
    <3>4. CASE c.artifact # d.artifact
      BY <1>2, <1>3, <2>1, <3>4 DEF StampTypeOK
    <3> QED  BY <3>3, <3>4
  <2> QED  BY <2>2, <2>3
<1>6. PayloadsHold'
  <2> SUFFICES ASSUME NEW r \in Processes PROVE PayloadHolds(r)'
    BY DEF PayloadsHold
  <2>1. PayloadHolds(r) /\ process[r].payload \in StampType
    BY <1>3 DEF StampInv, PayloadsHold, StampTypeOK, ProcessType
  <2>2. process[r].payload # Unstamped => Earned(process[r].payload)'
    <3> SUFFICES ASSUME process[r].payload # Unstamped
                 PROVE  Earned(process[r].payload)'
      OBVIOUS
    <3>1. process[r].payload.by = r /\ Earned(process[r].payload)
      BY <2>1 DEF PayloadHolds
    <3> DEFINE s == process[r].payload
    <3>2. s \in StampType /\ Earned(s) /\ (s.status = "ok" => s.by \in Processes)
      BY <2>1, <3>1
    <3>3. UNCHANGED process
      BY <1>2
    <3> HIDE DEF s
    <3>4. ASSUME NEW z \in StampType, Earned(z), z.status = "ok" => z.by \in Processes
          PROVE  Earned(z)'
      BY <1>1, <1>2, <1>3, <3>4, EarnedStays
    <3>5. \A z \in StampType : Earned(z) /\ (z.status = "ok" => z.by \in Processes)
                                => Earned(z)'
      BY <3>4
    <3> QED  BY <3>2, <3>3, <3>5 DEF s, Earned
  <2> QED  BY <1>2, <2>1, <2>2 DEF PayloadHolds
<1>7. SaysNoLess
  BY <1>2 DEF SaysNoLess
<1>8. StampsAreOfRuns' /\ FreshHasRun' /\ RowIsLive'
  BY <1>2, <1>7, StampsKept, FreshKept, SurfaceParts DEF StampInv, RowIsLive
<1> QED  BY <1>4, <1>5, <1>6, <1>8 DEF StampInv, FreshSurfaceRanLive, FreshHasRun, RowIsLive

LEMMA CallStep ==
  ASSUME StampInv, NEW p \in Processes, NEW claims \in SUBSET Declares(p),
         NEW troubled \in {"no", "warnings", "error"}, CallWriteHealth(p, claims, troubled)
  PROVE  StampInv'
<1> DEFINE keyed == {d \in claims : d.artifact # NoKey}
           looked == [process[p] EXCEPT !.pc = "verify", !.produced = claims,
                                        !.left = keyed, !.troubled = troubled]
           trusted == [process[p] EXCEPT !.pc = "verify", !.produced = claims,
                                         !.unverified = keyed, !.troubled = troubled]
<1>1. /\ process[p].pc = "running" /\ UNCHANGED <<clock, written, stamps, consoleRow, upstream>>
      /\ process' = [process EXCEPT ![p] = looked] \/ process' = [process EXCEPT ![p] = trusted]
  BY DEF CallWriteHealth
<1>2. process[p] \in ProcessType /\ claims \subseteq AllClaims /\ keyed \subseteq AllClaims
  BY DEF StampInv, StampTypeOK, AllClaims
<1>3. /\ looked \in ProcessType /\ looked.payload = process[p].payload
      /\ looked.produced = claims /\ looked.left = keyed
  BY <1>2 DEF ProcessType
<1>4. /\ trusted \in ProcessType /\ trusted.payload = process[p].payload
      /\ trusted.produced = claims /\ trusted.unverified = keyed
  BY <1>2 DEF ProcessType
<1>5. process[p].payload = Unstamped
  BY <1>1 DEF StampInv, PayloadsHold, PayloadHolds
<1>6. ASSUME NEW q \in {looked, trusted}, process' = [process EXCEPT ![p] = q]
      PROVE  StampInv'
  <2>1. process'[p].payload = Unstamped
    BY <1>3, <1>4, <1>5, <1>6 DEF StampInv, StampTypeOK
  <2>2. PayloadHolds(p)'
    BY <2>1 DEF PayloadHolds
  <2>3. \A d \in q.produced : d.artifact # NoKey => d \in q.left \/ d \in q.unverified
    BY <1>3, <1>4
  <2>4. q \in ProcessType /\ q.payload = process[p].payload
    BY <1>3, <1>4
  <2> HIDE DEF looked, trusted
  <2>5. /\ process' \in [Processes -> ProcessType] /\ WrittenInPast' /\ ClaimsStand'
        /\ PayloadsHold' /\ SaysNoLess
    BY <1>1, <1>6, <2>2, <2>3, <2>4, OneRun
  <2> QED  BY <1>1, <2>5, SurfacesKept
<1> QED  BY <1>1, <1>6

LEMMA VerifyStep ==
  ASSUME StampInv, NEW p \in Processes, NEW d \in Declares(p), VerifyFreshS3(p, d) PROVE StampInv'
<1> DEFINE fresh == IsFresh(written[d.artifact], process[p].start)
           answered == [process[p] EXCEPT !.left = @ \ {d},
                          !.produced = IF fresh THEN @ ELSE @ \ {d}]
           refused == [process[p] EXCEPT !.left = @ \ {d}, !.unverified = @ \cup {d}]
<1>1. /\ process[p].pc = "verify" /\ d \in process[p].left
      /\ UNCHANGED <<clock, written, stamps, consoleRow, upstream>>
      /\ \/ process' = [process EXCEPT ![p] = answered]
         \/ process' = [process EXCEPT ![p] = refused]
  BY DEF VerifyFreshS3
<1>2. process[p] \in ProcessType /\ d \in AllClaims
  BY DEF StampInv, StampTypeOK, AllClaims
<1>3. /\ answered \in ProcessType /\ answered.payload = process[p].payload
      /\ answered.left = process[p].left \ {d}
      /\ answered.produced = IF fresh THEN process[p].produced ELSE process[p].produced \ {d}
      /\ answered.unverified = process[p].unverified /\ answered.start = process[p].start
  BY <1>2 DEF ProcessType
<1>4. /\ refused \in ProcessType /\ refused.payload = process[p].payload
      /\ refused.left = process[p].left \ {d} /\ refused.produced = process[p].produced
      /\ refused.unverified = process[p].unverified \cup {d}
      /\ refused.start = process[p].start
  BY <1>2 DEF ProcessType
<1>5. process[p].payload = Unstamped
  BY <1>1 DEF StampInv, PayloadsHold, PayloadHolds
<1>6. \A c \in process[p].produced : c.artifact # NoKey =>
        \/ c \in process[p].left \/ c \in process[p].unverified
        \/ IsFresh(written[c.artifact], process[p].start)
  BY <1>1 DEF StampInv, ClaimsStand, ClaimStands
<1>7. ASSUME NEW q \in {answered, refused}, process' = [process EXCEPT ![p] = q]
      PROVE  StampInv'
  <2>1. process'[p].payload = Unstamped
    BY <1>3, <1>4, <1>5, <1>7 DEF StampInv, StampTypeOK
  <2>2. PayloadHolds(p)'
    BY <2>1 DEF PayloadHolds
  <2>3. \A c \in q.produced : c.artifact # NoKey =>
          c \in q.left \/ c \in q.unverified \/ IsFresh(written[c.artifact], q.start)
    <3>1. CASE q = answered
      BY <1>3, <1>6, <3>1
    <3>2. CASE q = refused
      BY <1>4, <1>6, <3>2
    <3> QED  BY <3>1, <3>2
  <2>4. q \in ProcessType /\ q.payload = process[p].payload
    BY <1>3, <1>4
  <2> HIDE DEF answered, refused
  <2>5. /\ process' \in [Processes -> ProcessType] /\ WrittenInPast' /\ ClaimsStand'
        /\ PayloadsHold' /\ SaysNoLess
    BY <1>1, <1>7, <2>2, <2>3, <2>4, OneRun
  <2> QED  BY <1>1, <2>5, SurfacesKept
<1> QED  BY <1>1, <1>7

\* Ok is derived for a run that declared something and whose claims all stand.
LEMMA OkDerived ==
  ASSUME NEW declared, NEW produced, NEW troubled,
         DeriveStatus(declared, produced, troubled) = "ok"
  PROVE  declared # {} /\ produced = declared
BY DEF DeriveStatus

LEMMA BuildStep ==
  ASSUME StampInv, NEW p \in Processes, BuildHealthPayload(p) PROVE StampInv'
<1> DEFINE verdict == DeriveStatus(Declares(p), process[p].produced, process[p].troubled)
           said == [status |-> verdict, lastSuccess |-> LastSuccess(verdict), by |-> p,
                    since |-> process[p].start, unverified |-> process[p].unverified]
           q == [process[p] EXCEPT !.pc = "put", !.payload = said]
<1>1. /\ process[p].pc = "verify" /\ process[p].left = {}
      /\ process' = [process EXCEPT ![p] = q]
      /\ UNCHANGED <<clock, written, stamps, consoleRow, upstream>>
  BY DEF BuildHealthPayload
<1>2. process[p] \in ProcessType /\ clock \in Nat
  BY DEF StampInv, StampTypeOK
<1>3. verdict \in {"ok", "degraded", "failed"}
  BY DEF DeriveStatus
<1>4. said \in StampType
  BY <1>2, <1>3 DEF StampType, LastSuccess, ProcessType
<1>5. q \in ProcessType /\ q.payload = said /\ q.pc = "put"
  BY <1>2, <1>4 DEF ProcessType
<1>6. process[p].payload = Unstamped
  BY <1>1 DEF StampInv, PayloadsHold, PayloadHolds
<1>7. Earned(said)
  <2> SUFFICES ASSUME said.status = "ok"
               PROVE  /\ Declares(said.by) # {}
                      /\ \A d \in Declares(said.by) :
                           d.required /\ d.artifact # NoKey /\ d \notin said.unverified
                             => written[d.artifact] # Absent
                                /\ written[d.artifact] >= said.since - Buffer
    BY DEF Earned
  <2>1. Declares(p) # {} /\ process[p].produced = Declares(p)
    BY OkDerived
  <2>2. \A d \in process[p].produced : d.artifact # NoKey =>
          d \in process[p].unverified \/ IsFresh(written[d.artifact], process[p].start)
    BY <1>1 DEF StampInv, ClaimsStand, ClaimStands
  <2> QED  BY <2>1, <2>2 DEF IsFresh
<1>8. PayloadHolds(p)'
  <2>1. process'[p] = q
    BY <1>1 DEF StampInv, StampTypeOK
  <2>2. process'[p].payload = said /\ process'[p].pc = "put"
    BY <1>5, <2>1
  <2>3. said.by = p /\ said.status \in {"ok", "degraded", "failed"}
        /\ (said.status = "failed" => said.lastSuccess = Absent)
    BY <1>3 DEF LastSuccess
  <2> HIDE DEF said, q
  <2>4. Earned(process[p].payload)'
    BY <1>1, <1>7, <2>2 DEF Earned
  <2> QED  BY <2>2, <2>3, <2>4 DEF PayloadHolds
<1> HIDE DEF q, said
<1>9. /\ process' \in [Processes -> ProcessType] /\ WrittenInPast' /\ ClaimsStand'
      /\ PayloadsHold' /\ SaysNoLess
  BY <1>1, <1>5, <1>6, <1>8, OneRun
<1> QED  BY <1>1, <1>9, SurfacesKept

LEMMA PutStep ==
  ASSUME StampInv, NEW p \in Processes, PutStamp(p) PROVE StampInv'
<1> DEFINE q == [process[p] EXCEPT !.pc = "done"]
           key == StampKeyOf[Module(p)]
<1>1. /\ process' = [process EXCEPT ![p] = q] /\ process[p].pc = "put"
      /\ UNCHANGED <<clock, written, consoleRow, upstream>>
      /\ \/ stamps' = stamps
         \/ AtLiveKey(p) /\ stamps' = [stamps EXCEPT ![key] = process[p].payload]
  BY DEF PutStamp
<1>2. process[p] \in ProcessType /\ StampTypeOK
  BY DEF StampInv, StampTypeOK
<1>3. q \in ProcessType /\ q.payload = process[p].payload /\ q.pc = "done"
  BY <1>2 DEF ProcessType
<1>4. process'[p].payload = process[p].payload
  BY <1>1, <1>2, <1>3 DEF StampTypeOK
<1> HIDE DEF q
<1>5. /\ process' \in [Processes -> ProcessType] /\ WrittenInPast' /\ ClaimsStand'
      /\ PayloadsHold' /\ SaysNoLess
  BY <1>1, <1>3, RunMoves
<1>6. CASE stamps' = stamps
  BY <1>1, <1>5, <1>6, SurfacesKept
<1>7. CASE AtLiveKey(p) /\ stamps' = [stamps EXCEPT ![key] = process[p].payload]
  <2>1. key \in StampKeys /\ process[p].payload \in StampType
    BY <1>2, StampAssumption DEF StampKeys, ProcessType
  <2>2. StampTypeOK'
    BY <1>1, <1>2, <1>5, <1>7, <2>1 DEF StampTypeOK
  <2>3. StampsAreOfRuns'
    <3> SUFFICES ASSUME NEW k \in StampKeys, stamps'[k] # Unstamped
                 PROVE  \E r \in Processes :
                          /\ stamps'[k] = process'[r].payload /\ AtLiveKey(r)
                          /\ StampKeyOf[Module(r)] = k
      BY DEF StampsAreOfRuns, StampIsOfRun
    <3>1. CASE k = key
      BY <1>2, <1>4, <1>7, <2>1, <3>1 DEF StampTypeOK
    <3>2. CASE k # key
      <4>1. stamps'[k] = stamps[k]
        BY <1>2, <1>7, <3>2 DEF StampTypeOK
      <4>2. PICK r \in Processes :
              stamps[k] = process[r].payload /\ AtLiveKey(r) /\ StampKeyOf[Module(r)] = k
        BY <4>1 DEF StampInv, StampsAreOfRuns, StampIsOfRun
      <4>3. process'[r].payload = process[r].payload
        BY <1>5, <4>1, <4>2 DEF SaysNoLess
      <4> QED  BY <4>1, <4>2, <4>3
    <3> QED  BY <3>1, <3>2
  <2>4. FreshHasRun' /\ RowIsLive'
    BY <1>1, <1>5, FreshKept, SurfaceParts DEF StampInv, RowIsLive
  <2> QED  BY <1>5, <2>2, <2>3, <2>4 DEF StampInv, FreshSurfaceRanLive, FreshHasRun, RowIsLive
<1> QED  BY <1>1, <1>6, <1>7

LEMMA EmitStep ==
  ASSUME StampInv, NEW p \in Processes, NEW verdict \in {"ok", "error"}, NEW cadence,
         NEW dryRun \in BOOLEAN, EmitResult(p, verdict, cadence, dryRun)
  PROVE  StampInv'
<1> DEFINE q == [process[p] EXCEPT !.pc = "told"]
           shown == [Unstamped EXCEPT !.status = verdict, !.lastSuccess = clock, !.by = p]
<1>1. /\ process' = [process EXCEPT ![p] = q]
      /\ UNCHANGED <<clock, written, stamps, upstream>>
      /\ \/ consoleRow' = consoleRow
         \/ ~ProcessOf[p].test /\ AtLiveKey(p) /\ consoleRow' = shown
  BY DEF EmitResult
<1>2. process[p] \in ProcessType /\ StampTypeOK
  BY DEF StampInv, StampTypeOK
<1>3. q \in ProcessType /\ q.payload = process[p].payload /\ q.pc = "told"
  BY <1>2 DEF ProcessType
<1> HIDE DEF q
<1>4. /\ process' \in [Processes -> ProcessType] /\ WrittenInPast' /\ ClaimsStand'
      /\ PayloadsHold' /\ SaysNoLess
  BY <1>1, <1>3, RunMoves
<1>5. shown \in StampType /\ shown.by = p
  BY <1>2, UnstampedType DEF StampTypeOK, StampType, Unstamped
<1>6. RowIsLive'
  <2>1. CASE consoleRow' = consoleRow
    BY <2>1, SurfaceParts DEF StampInv, RowIsLive
  <2>2. CASE ~ProcessOf[p].test /\ AtLiveKey(p) /\ consoleRow' = shown
    BY <1>5, <2>2 DEF RowIsLive, AtLiveKey, IsRehearsal
  <2> QED  BY <1>1, <2>1, <2>2
<1>7. StampTypeOK'
  BY <1>1, <1>2, <1>4, <1>5 DEF StampTypeOK
<1>8. StampsAreOfRuns' /\ FreshHasRun'
  BY <1>1, <1>4, StampsKept, FreshKept
<1> QED  BY <1>4, <1>6, <1>7, <1>8 DEF StampInv, FreshSurfaceRanLive, FreshHasRun, RowIsLive

LEMMA CheckStep ==
  ASSUME StampInv, NEW m \in Modules, CheckUpstreamHealth(m) PROVE StampInv'
<1> DEFINE k == StampKeyOf[m]
           fresh == stamps[k].lastSuccess # Absent /\ clock - stamps[k].lastSuccess <= MaxStampAge
<1>1. /\ UNCHANGED <<clock, written, process, stamps, consoleRow>>
      /\ upstream'.module = m /\ upstream'.at = clock
      /\ ~upstream'.stale => stamps[k] # Unstamped /\ fresh
  <2> DEFINE answer(verdict, stale) ==
               [module |-> m, status |-> verdict, stale |-> stale, at |-> clock]
  <2>1. \A verdict, stale : answer(verdict, stale).module = m
                          /\ answer(verdict, stale).stale = stale
                          /\ answer(verdict, stale).at = clock
    OBVIOUS
  <2> HIDE DEF answer
  <2>2. \/ upstream' = answer("unknown", TRUE)
        \/ stamps[k] # Unstamped /\ upstream' = answer(stamps[k].status, ~fresh)
    BY DEF CheckUpstreamHealth, answer
  <2>3. UNCHANGED <<clock, written, process, stamps, consoleRow>>
    BY DEF CheckUpstreamHealth
  <2>4. CASE upstream' = answer("unknown", TRUE)
    BY <2>1, <2>3, <2>4
  <2>5. CASE stamps[k] # Unstamped /\ upstream' = answer(stamps[k].status, ~fresh)
    <3> HIDE DEF fresh
    <3>1. upstream'.stale = (~fresh) /\ upstream'.module = m /\ upstream'.at = clock
      BY <2>1, <2>5
    <3> QED  BY <2>3, <2>5, <3>1
  <2> QED  BY <2>2, <2>4, <2>5
<1>2. StampTypeOK' /\ WrittenInPast' /\ ClaimsStand' /\ PayloadsHold' /\ RowIsLive'
  <2>1. StampTypeOK' /\ WrittenInPast' /\ ClaimsStand'
    BY <1>1 DEF StampInv, StampTypeOK, WrittenInPast, ClaimsStand, ClaimStands
  <2>2. PayloadsHold'
    BY <1>1 DEF StampInv, PayloadsHold, PayloadHolds, Earned
  <2>3. RowIsLive'
    BY <1>1, SurfaceParts DEF StampInv, RowIsLive
  <2> QED  BY <2>1, <2>2, <2>3
<1>3. StampsAreOfRuns'
  BY <1>1, StampsKept DEF SaysNoLess
<1>4. FreshHasRun'
  <2> SUFFICES ASSUME stamps[k] # Unstamped, fresh
               PROVE  \E p \in Processes :
                        /\ StampKeyOf[Module(p)] = k
                        /\ ProcessOf[p].name # "rehearsal" /\ ProcessOf[p].role # "rehearsal"
                        /\ process[p].payload.status \in {"ok", "degraded"}
                        /\ process[p].payload.lastSuccess >= clock - MaxStampAge
    BY <1>1 DEF FreshHasRun
  <2>1. k \in StampKeys
    BY DEF StampKeys
  <2>2. PICK p \in Processes :
          stamps[k] = process[p].payload /\ AtLiveKey(p) /\ StampKeyOf[Module(p)] = k
    BY <2>1 DEF StampInv, StampsAreOfRuns, StampIsOfRun
  <2>3. process[p].payload.status \in {"ok", "degraded"}
    BY <2>2 DEF StampInv, PayloadsHold, PayloadHolds
  <2>4. stamps[k].lastSuccess \in Nat /\ clock \in Nat
    BY <2>1 DEF StampInv, StampTypeOK, StampType
  <2>5. stamps[k].lastSuccess >= clock - MaxStampAge
    BY <2>4, StampAssumption
  <2> QED  BY <2>2, <2>3, <2>5 DEF AtLiveKey, IsRehearsal
<1> QED  BY <1>1, <1>2, <1>3, <1>4 DEF StampInv, FreshSurfaceRanLive, FreshHasRun, RowIsLive

LEMMA TickStep ==
  ASSUME StampInv, StampTick PROVE StampInv'
<1>1. clock' = clock + 1 /\ clock \in Nat
      /\ UNCHANGED <<written, process, stamps, consoleRow, upstream>>
  BY DEF StampTick, StampInv, StampTypeOK
<1>2. StampTypeOK' /\ ClaimsStand' /\ PayloadsHold' /\ RowIsLive'
  BY <1>1, SurfaceParts DEF StampInv, StampTypeOK, ClaimsStand, ClaimStands,
       PayloadsHold, PayloadHolds, Earned, RowIsLive
<1>3. WrittenInPast'
  BY <1>1 DEF StampInv, StampTypeOK, WrittenInPast, Absent
<1>4. StampsAreOfRuns' /\ FreshHasRun'
  BY <1>1, StampsKept, FreshKept DEF SaysNoLess
<1> QED  BY <1>2, <1>3, <1>4 DEF StampInv, FreshSurfaceRanLive, FreshHasRun, RowIsLive

-----------------------------------------------------------------------------
(* The theorems *)

LEMMA StepHolds ==
  ASSUME StampInv, [StampNext]_stampVars PROVE StampInv'
<1>1. CASE StampNext
  <2>1. ASSUME NEW p \in Processes,
               \/ BeginRun(p) \/ BuildHealthPayload(p) \/ PutStamp(p) \/ Die(p)
               \/ \E d \in Declares(p) : WriteOutput(p, d) \/ VerifyFreshS3(p, d)
        PROVE  StampInv'
    BY <2>1, BeginStep, BuildStep, PutStep, DieStep, WriteStep, VerifyStep
  <2>2. ASSUME NEW p \in Processes, NEW claims \in SUBSET Declares(p),
               NEW troubled \in {"no", "warnings", "error"},
               CallWriteHealth(p, claims, troubled)
        PROVE  StampInv'
    BY <2>2, CallStep
  <2>3. ASSUME NEW p \in Processes, NEW verdict \in {"ok", "error"},
               NEW cadence \in ClaimedCadences, NEW dryRun \in BOOLEAN,
               EmitResult(p, verdict, cadence, dryRun)
        PROVE  StampInv'
    BY <2>3, EmitStep
  <2>4. ASSUME NEW m \in Modules, CheckUpstreamHealth(m) PROVE StampInv'
    BY <2>4, CheckStep
  <2>5. CASE StampTick
    BY <2>5, TickStep
  <2> QED  BY <1>1, <2>1, <2>2, <2>3, <2>4, <2>5 DEF StampNext
<1>2. CASE UNCHANGED stampVars
  <2> USE <1>2 DEF stampVars, StampInv
  <2>1. StampTypeOK' /\ WrittenInPast' /\ ClaimsStand'
    BY DEF StampTypeOK, WrittenInPast, ClaimsStand, ClaimStands
  <2>2. PayloadsHold'
    BY DEF PayloadsHold, PayloadHolds, Earned
  <2>3. StampsAreOfRuns' /\ FreshSurfaceRanLive'
    BY DEF StampsAreOfRuns, StampIsOfRun, FreshSurfaceRanLive
  <2> QED  BY <2>1, <2>2, <2>3
<1> QED  BY <1>1, <1>2

\* The invariant holds of every behaviour, whatever runs, modules and keys there are.
THEOREM StampsInv == StampSpec => []StampInv
<1>1. StampInit => StampInv
  BY InitHolds
<1>2. StampInv /\ [StampNext]_stampVars => StampInv'
  BY StepHolds
<1> QED  BY <1>1, <1>2, PTL DEF StampSpec

\* A stamp that says ok is of a run whose required outputs the store itself vouches for,
\* but for those it could not be asked about: whichever runs share its key or die, and
\* whatever they claim.
THEOREM EarnedStamps == StampSpec => []OkIsProduced
<1>1. ASSUME StampInv PROVE OkIsProduced
  <2> SUFFICES ASSUME NEW k \in StampKeys PROVE Earned(stamps[k])
    BY DEF OkIsProduced
  <2>1. CASE stamps[k] = Unstamped
    BY <2>1 DEF Earned, Unstamped
  <2>2. CASE stamps[k] # Unstamped
    BY <1>1, <2>2 DEF StampInv, StampsAreOfRuns, StampIsOfRun, PayloadsHold, PayloadHolds
  <2> QED  BY <2>1, <2>2
<1> QED  BY <1>1, StampsInv, PTL

\* What a live surface shows as fresh was left by a live run that did not fail.
THEOREM LiveSurfaces == StampSpec => []FreshSurfaceRanLive
<1>1. StampInv => FreshSurfaceRanLive
  BY DEF StampInv
<1> QED  BY <1>1, StampsInv, PTL

-----------------------------------------------------------------------------
(* The freshness monitor: what is reached over a step, and the graph of a    *)
(* legal registry.                                                          *)

Reaches(step, D) == \A a \in D : step[a] \subseteq D

\* What is reached holds its seed, and goes on as far as the step leads.
LEMMA ClosureHolds ==
  ASSUME NEW D, NEW step, DOMAIN step = D, Reaches(step, D), NEW seed \in SUBSET D
  PROVE  /\ Closure(step, seed) \subseteq D /\ seed \subseteq Closure(step, seed)
         /\ Reaches(step, Closure(step, seed))
<1> DEFINE Closed(S) == seed \subseteq S /\ \A b \in S : step[b] \subseteq S
<1>1. Closure(step, seed) = {a \in D : \A S \in SUBSET D : Closed(S) => a \in S}
  BY DEF Closure
<1>2. \A a \in seed, S \in SUBSET D : Closed(S) => a \in S
  OBVIOUS
<1>3. ASSUME NEW a \in Closure(step, seed), NEW b \in step[a] PROVE b \in Closure(step, seed)
  <2>1. a \in D /\ b \in D
    BY <1>1, <1>3 DEF Reaches
  <2>2. ASSUME NEW S \in SUBSET D, Closed(S) PROVE b \in S
    BY <1>1, <1>3, <2>2
  <2> QED  BY <1>1, <2>1, <2>2
<1> QED  BY <1>1, <1>2, <1>3 DEF Reaches

\* And is part of whatever does.
LEMMA ClosureIsLeast ==
  ASSUME NEW step, NEW seed, NEW S \in SUBSET DOMAIN step,
         seed \subseteq S, Reaches(step, S)
  PROVE  Closure(step, seed) \subseteq S
BY DEF Closure, Reaches

\* A legal registry's upstreams are rows, and none is above itself.
LEMMA GraphIsSound ==
  ASSUME NEW reg, RegistryLoads(reg), IsList(reg)
  PROVE  /\ IsFiniteSet(Ids(reg))
         /\ \A a \in Ids(reg) : Upstream(reg, a) \subseteq Ids(reg)
         /\ \A a \in Ids(reg) : a \notin Ancestors(reg, a)
<1>1. DOMAIN reg = 1 .. Len(reg) /\ Len(reg) \in Nat
  BY DEF IsList
<1>2. IsFiniteSet(Ids(reg))
  <2> DEFINE f == [i \in DOMAIN reg |-> reg[i].id]
  <2>1. IsFiniteSet(DOMAIN reg)
    BY <1>1, FS_Interval
  <2>2. {f[i] : i \in DOMAIN reg} = Ids(reg)
    BY DEF Ids
  <2> HIDE DEF f
  <2> QED  BY <2>1, <2>2, ImageIsFinite
<1>3. ASSUME NEW a \in Ids(reg) PROVE Upstream(reg, a) \subseteq Ids(reg)
  <2>1. PICK i \in DOMAIN reg : RowOf(reg, a) = reg[i]
    BY DEF RowOf, Ids
  <2> QED  BY <2>1 DEF Upstream, RegistryLoads, BuildsGraph
<1> QED  BY <1>2, <1>3 DEF RegistryLoads, BuildsGraph, Acyclic

\* Above an upstream there is less than above what stands on it.
LEMMA AncestorsShrink ==
  ASSUME NEW reg, RegistryLoads(reg), IsList(reg), NEW a \in Ids(reg), NEW b \in Upstream(reg, a)
  PROVE  /\ b \in Ids(reg) /\ Ancestors(reg, b) \subseteq Ancestors(reg, a)
         /\ b \in Ancestors(reg, a) \ Ancestors(reg, b) /\ Ancestors(reg, a) \subseteq Ids(reg)
<1> DEFINE up == [c \in Ids(reg) |-> Upstream(reg, c)]
<1>1. /\ \A c \in Ids(reg) : up[c] = Upstream(reg, c)
      /\ Reaches(up, Ids(reg)) /\ DOMAIN up = Ids(reg)
  BY GraphIsSound DEF Reaches
<1>2. \A c \in Ids(reg) : Ancestors(reg, c) = Closure(up, Upstream(reg, c))
  BY DEF Ancestors
<1> HIDE DEF up
<1>3. b \in Ids(reg) /\ b \notin Ancestors(reg, b)
  BY GraphIsSound
<1>4. /\ Ancestors(reg, a) \subseteq Ids(reg) /\ b \in Ancestors(reg, a)
      /\ Reaches(up, Ancestors(reg, a))
  <2>1. Upstream(reg, a) \in SUBSET Ids(reg)
    BY GraphIsSound
  <2> QED  BY <1>1, <1>2, <2>1, ClosureHolds
<1>5. Upstream(reg, b) \subseteq Ancestors(reg, a)
  BY <1>1, <1>3, <1>4 DEF Reaches
<1>6. Closure(up, Upstream(reg, b)) \subseteq Ancestors(reg, a)
  <2>1. Ancestors(reg, a) \in SUBSET DOMAIN up
    BY <1>1, <1>4
  <2> QED  BY <1>4, <1>5, <2>1, ClosureIsLeast
<1> QED  BY <1>2, <1>3, <1>4, <1>6

\* A gap with a gap above it has a cause, and so has the leaf below.
LEMMA CauseIsFound ==
  ASSUME NEW reg, RegistryLoads(reg), IsList(reg), NEW verdict, NEW a \in Ids(reg),
         GapsUpstream(reg, verdict, a) # {}
  PROVE  RootCauses(reg, verdict, a) # {}
<1> DEFINE gaps == [c \in Ids(reg) |-> GapsUpstream(reg, verdict, c)]
           C    == Closure(gaps, GapsUpstream(reg, verdict, a))
           sizes == {Cardinality(Ancestors(reg, c)) : c \in C}
<1>1. /\ \A c \in Ids(reg) : gaps[c] = GapsUpstream(reg, verdict, c)
      /\ Reaches(gaps, Ids(reg)) /\ DOMAIN gaps = Ids(reg)
  BY GraphIsSound DEF Reaches, GapsUpstream
<1>2. RootCauses(reg, verdict, a) = {c \in C : GapsUpstream(reg, verdict, c) = {}}
  BY DEF RootCauses
<1> HIDE DEF gaps
<1>3. C \subseteq Ids(reg) /\ C # {} /\ Reaches(gaps, C)
  <2>1. GapsUpstream(reg, verdict, a) \in SUBSET Ids(reg)
    BY GraphIsSound DEF GapsUpstream
  <2> QED  BY <1>1, <2>1, ClosureHolds
<1> HIDE DEF C
<1>4. ASSUME NEW c \in Ids(reg), NEW b \in Upstream(reg, c)
      PROVE  /\ Cardinality(Ancestors(reg, c)) \in Nat /\ Cardinality(Ancestors(reg, b)) \in Nat
             /\ Cardinality(Ancestors(reg, b)) < Cardinality(Ancestors(reg, c))
  <2>1. /\ b \in Ids(reg) /\ Ancestors(reg, b) \subseteq Ancestors(reg, c)
        /\ b \in Ancestors(reg, c) \ Ancestors(reg, b) /\ Ancestors(reg, c) \subseteq Ids(reg)
    BY AncestorsShrink
  <2>2. IsFiniteSet(Ancestors(reg, c))
    BY <2>1, GraphIsSound, FS_Subset
  <2>3. /\ IsFiniteSet(Ancestors(reg, b)) /\ Cardinality(Ancestors(reg, b)) <= Cardinality(Ancestors(reg, c))
        /\ Cardinality(Ancestors(reg, b)) # Cardinality(Ancestors(reg, c))
    BY <2>1, <2>2, FS_Subset
  <2>4. Cardinality(Ancestors(reg, c)) \in Nat /\ Cardinality(Ancestors(reg, b)) \in Nat
    BY <2>2, <2>3, FS_CardinalityType
  <2> QED  BY <2>3, <2>4
<1> SUFFICES ASSUME \A c \in C : GapsUpstream(reg, verdict, c) # {}
             PROVE  FALSE
  BY <1>2
<1>5. \A c \in C : \E b \in C : b \in Upstream(reg, c)
  BY <1>1, <1>3 DEF Reaches, GapsUpstream
<1>6. sizes # {} /\ sizes \subseteq Nat
  BY <1>3, <1>4, <1>5
<1>7. PICK n \in sizes : \A m \in sizes : n <= m
  <2> HIDE DEF sizes
  <2> QED  BY <1>6, LeastNatural
<1>8. PICK c \in C : n = Cardinality(Ancestors(reg, c))
  OBVIOUS
<1>9. PICK b \in C : b \in Upstream(reg, c)
  BY <1>5
<1>10. n <= Cardinality(Ancestors(reg, b))
  BY <1>7
<1> QED  BY <1>3, <1>4, <1>8, <1>9, <1>10

\* A leaf is among what is reached downwards from each of its causes.
LEMMA CauseReachesLeaf ==
  ASSUME NEW reg, RegistryLoads(reg), IsList(reg), NEW verdict, NEW l \in Leaves(reg),
         NEW a \in RootCauses(reg, verdict, l)
  PROVE  /\ a \in Ids(reg) /\ l \in ReachableLeaves(reg, a)
         /\ verdict[a].state \in Gaps /\ GapsUpstream(reg, verdict, a) = {}
<1> DEFINE gaps == [c \in Ids(reg) |-> GapsUpstream(reg, verdict, c)]
           down == [c \in Ids(reg) |-> Dependents(reg, c)]
           Below(c) == Closure(down, {c})
           Above == {c \in Ids(reg) : l \in Below(c) /\ verdict[c].state \in Gaps}
<1>1. /\ \A c \in Ids(reg) : gaps[c] = GapsUpstream(reg, verdict, c)
      /\ DOMAIN gaps = Ids(reg) /\ DOMAIN down = Ids(reg)
      /\ \A c \in Ids(reg) : down[c] = Dependents(reg, c)
      /\ Reaches(down, Ids(reg))
  BY DEF Reaches, Dependents
<1>2. /\ a \in Closure(gaps, GapsUpstream(reg, verdict, l))
      /\ GapsUpstream(reg, verdict, a) = {}
  BY DEF RootCauses
<1>3. \A c \in Ids(reg) : ReachableLeaves(reg, c) = Below(c) \cap Leaves(reg)
  BY DEF ReachableLeaves
<1>4. \A c \in Ids(reg) : c \in Below(c) /\ Below(c) \subseteq Ids(reg) /\ Reaches(down, Below(c))
  <2> HIDE DEF down
  <2> QED  BY <1>1, ClosureHolds
<1>5. ASSUME NEW c \in Ids(reg), l \in Below(c), NEW b \in GapsUpstream(reg, verdict, c)
      PROVE  b \in Above
  <2>1. b \in Ids(reg) /\ c \in Dependents(reg, b) /\ verdict[b].state \in Gaps
    BY GraphIsSound DEF GapsUpstream, Dependents
  <2>2. {c} \subseteq Below(b) /\ Below(b) \in SUBSET DOMAIN down
    BY <1>1, <1>4, <2>1 DEF Reaches
  <2>3. Reaches(down, Below(b))
    BY <1>4, <2>1
  <2>4. Below(c) \subseteq Below(b)
    <3> HIDE DEF down
    <3> QED  BY <2>2, <2>3, ClosureIsLeast
  <2> QED  BY <1>5, <2>1, <2>4
<1>6. l \in Ids(reg)
  BY DEF Leaves
<1>7. GapsUpstream(reg, verdict, l) \subseteq Above /\ Above \in SUBSET DOMAIN gaps
  BY <1>1, <1>4, <1>5, <1>6
<1>8. Reaches(gaps, Above)
  BY <1>1, <1>5 DEF Reaches
<1>9. Closure(gaps, GapsUpstream(reg, verdict, l)) \subseteq Above
  <2> HIDE DEF gaps, Above
  <2> QED  BY <1>7, <1>8, ClosureIsLeast
<1> QED  BY <1>2, <1>3, <1>9

\* So the decisions on the verdicts of a legal registry page for every lost leaf.
LEMMA LossesPage ==
  ASSUME NEW reg, RegistryLoads(reg), IsList(reg), NEW verdict, NEW l \in Leaves(reg),
         verdict[l].state \notin Satisfied
  PROVE  /\ Decision(reg, verdict, l).roots # {} /\ Decision(reg, verdict, l).roots \subseteq Ids(reg)
         /\ \A a \in Decision(reg, verdict, l).roots : Decision(reg, verdict, a).page
<1>1. l \in Ids(reg) /\ Dependents(reg, l) = {}
  BY DEF Leaves
<1>2. CASE GapsUpstream(reg, verdict, l) = {}
  <2> DEFINE down == [c \in Ids(reg) |-> Dependents(reg, c)]
  <2>1. Reaches(down, Ids(reg)) /\ DOMAIN down = Ids(reg)
    BY DEF Reaches, Dependents
  <2>2. l \in Closure(down, {l})
    <3> HIDE DEF down
    <3> QED  BY <1>1, <2>1, ClosureHolds
  <2>3. l \in ReachableLeaves(reg, l)
    BY <2>2 DEF ReachableLeaves
  <2>4. Decision(reg, verdict, l).roots = {l} /\ Decision(reg, verdict, l).page
    BY <1>2, <2>3 DEF Decision
  <2> QED  BY <1>1, <2>4
<1>3. CASE GapsUpstream(reg, verdict, l) # {}
  <2>1. Decision(reg, verdict, l).roots = RootCauses(reg, verdict, l)
    BY <1>3 DEF Decision
  <2>2. RootCauses(reg, verdict, l) # {}
    BY <1>1, <1>3, CauseIsFound
  <2>3. ASSUME NEW a \in RootCauses(reg, verdict, l)
        PROVE  a \in Ids(reg) /\ Decision(reg, verdict, a).page
    <3>1. /\ a \in Ids(reg) /\ l \in ReachableLeaves(reg, a)
          /\ verdict[a].state \in Gaps /\ GapsUpstream(reg, verdict, a) = {}
      BY CauseReachesLeaf
    <3>2. verdict[a].state \notin Satisfied
      BY <3>1 DEF Gaps, Satisfied
    <3> QED  BY <3>1, <3>2 DEF Decision
  <2> QED  BY <2>1, <2>2, <2>3
<1> QED  BY <1>2, <1>3

-----------------------------------------------------------------------------
(* The freshness monitor: losses page.                                      *)

JudgedInv ==
    /\ registry \in Registries
    /\ phase \in {"load", "refused", "idle", "sweeping", "judged"}
    /\ phase \notin {"load", "refused"} => RegistryLoads(registry)
    /\ phase = "judged" =>
          /\ decisions = LeafAlertDecisions(registry, verdicts)
          /\ \A a \in Ids(registry) :
                decisions[a].page => DedupKey(RowOf(registry, a), now) \in pages

\* What every step keeps of it.
LEMMA JudgedSteps == JudgedInv /\ [FreshNext]_freshVars => JudgedInv'
<1> SUFFICES ASSUME JudgedInv, FreshNext \/ UNCHANGED freshVars PROVE JudgedInv'
  OBVIOUS
<1>1. CASE Load
  BY <1>1 DEF JudgedInv, Load
<1>2. CASE TimePasses
  BY <1>2 DEF JudgedInv, TimePasses
<1>3. ASSUME NEW k \in Keys, NEW n \in Contents[k], Produce(k, n) PROVE JudgedInv'
  BY <1>3 DEF JudgedInv, Produce
<1>4. CASE StartSweep
  BY <1>4 DEF JudgedInv, StartSweep
<1>5. ASSUME NEW refused \in BOOLEAN, CheckRow(refused) PROVE JudgedInv'
  <2>1. phase = "sweeping" /\ phase' = phase /\ registry' = registry
    BY <1>5 DEF CheckRow
  <2> QED  BY <2>1 DEF JudgedInv
<1>6. CASE Judge
  <2>1. /\ phase = "sweeping" /\ phase' = "judged" /\ UNCHANGED <<registry, now, verdicts>>
        /\ decisions' = LeafAlertDecisions(registry, verdicts)
        /\ pages' = pages \cup {DedupKey(RowOf(registry, a), now) :
                                   a \in {b \in Ids(registry) : decisions'[b].page}}
    BY <1>6 DEF Judge
  <2> QED  BY <2>1 DEF JudgedInv
<1>7. CASE UNCHANGED freshVars
  BY <1>7 DEF JudgedInv, freshVars
<1> QED  BY <1>1, <1>2, <1>3, <1>4, <1>5, <1>6, <1>7 DEF FreshNext

\* Whatever the registry, its graph and the verdicts: a terminal row that did not land names
\* causes, and each has paged under the cycle's key (leaf_alert_decisions, _root_causes).
THEOREM LossesAreHeard == FreshSpec => []NoSilentLoss
<1>1. FreshInit => JudgedInv
  BY DEF FreshInit, JudgedInv
<1>2. JudgedInv => NoSilentLoss
  <2> SUFFICES ASSUME JudgedInv, phase = "judged", NEW l \in Leaves(registry),
                      verdicts[l].state \notin Satisfied
               PROVE  /\ decisions[l].roots # {}
                      /\ \A a \in decisions[l].roots :
                            decisions[a].page /\ DedupKey(RowOf(registry, a), now) \in pages
    BY DEF NoSilentLoss
  <2>1. /\ decisions = [a \in Ids(registry) |-> Decision(registry, verdicts, a)]
        /\ \A a \in Ids(registry) : decisions[a].page => DedupKey(RowOf(registry, a), now) \in pages
        /\ RegistryLoads(registry) /\ IsList(registry)
    BY FreshAssumption DEF JudgedInv, LeafAlertDecisions
  <2>2. l \in Ids(registry)
    BY DEF Leaves
  <2> QED  BY <2>1, <2>2, LossesPage
<1> QED  BY <1>1, <1>2, JudgedSteps, PTL DEF FreshSpec

-----------------------------------------------------------------------------
(* The freshness monitor: listings, and what a probe finds.                  *)

\* What was stored when is known, and nothing is of the future.
StoreInv ==
    /\ now \in Instants
    /\ DOMAIN store = Keys
    /\ \A k \in Keys : store[k].at \in Nat \cup {NoTime} /\ store[k].at <= now
    /\ phase = "sweeping" => \A k \in Keys : begun[k].at \in Nat \cup {NoTime} /\ begun[k].at <= store[k].at

\* A listing of this sweep has what was there when it began, and what was not written since.
EntryHolds(p, e) ==
    /\ e.error \in BOOLEAN /\ IsFiniteSet(e.objects)
    /\ \A o \in e.objects :
          /\ o.key \in Keys /\ o.at \in Nat /\ o.at <= now
          /\ o.at = store[o.key].at \/ store[o.key].at = now
    /\ ~e.error => \A k \in Keys : IsPrefix(p, k) =>
          /\ store[k].at \notin {NoTime, now} => \E o \in e.objects : o.key = k /\ o.at = store[k].at
          /\ begun[k].at # NoTime => \E o \in e.objects : o.key = k /\ o.at >= begun[k].at

ListingInv ==
    /\ phase = "sweeping" => \A p \in DOMAIN cache : EntryHolds(p, cache[p])
    /\ phase # "sweeping" => cache = Empty

\* A row whose deadline was missed has nothing on time, or has something later.
OnTime(r, day, t) == LocalHour(day, 0) <= t /\ t <= LocalHour(day, r.deadline)
LateStore(r, day) ==
    \A k \in Keys : OwnInstance(k, r.key) /\ store[k].at # NoTime /\ OnTime(r, day, store[k].at)
                      => \E j \in Keys : OwnInstance(j, r.key) /\ PastDeadline(r, day, store[j].at)
LateEntry(r, day, e) ==
    \A o \in e.objects : IsInstance(o.key, r.key) /\ OnTime(r, day, o.at)
                      => \E u \in e.objects : IsInstance(u.key, r.key) /\ PastDeadline(r, day, u.at)
MissedInv ==
    \A i \in DOMAIN registry, day \in Int : <<registry[i].id, day>> \in missed =>
        LET r == registry[i]
        IN  /\ TradingDay(day) /\ r.deadline # NoTime /\ PastDeadline(r, day, now)
            /\ r.recovery = <<>> /\ IsLookedAt(r, day) =>
                  /\ LateStore(r, day)
                  /\ IsTemplated(r.key) /\ ListablePrefix(r.key) \in DOMAIN cache
                        => LateEntry(r, day, cache[ListablePrefix(r.key)])

\* What a template names before its first variable is how its instances begin.
LEMMA InstanceIsListed ==
  ASSUME NEW k, IsList(k), NEW tmpl, IsList(tmpl), IsTemplated(tmpl), IsInstance(k, tmpl)
  PROVE  IsPrefix(ListablePrefix(tmpl), k)
<1>1. CASE Wildcards(tmpl) = {}
  BY <1>1 DEF IsInstance
<1>2. CASE Wildcards(tmpl) # {}
  <2>1. Len(tmpl) \in Nat /\ DOMAIN tmpl = 1 .. Len(tmpl) /\ DOMAIN k = 1 .. Len(k)
    BY DEF IsList
  <2>2. /\ Len(k) = Len(tmpl)
        /\ \A i \in DOMAIN tmpl : tmpl[i] = Star \/ tmpl[i] = DateToken \/ tmpl[i] = k[i]
    BY <1>2 DEF IsInstance, MatchesKeyTemplate
  <2>3. PICK m \in Nat : m = Min(FirstVariable(tmpl)) /\ m \in 1 .. Len(tmpl) /\ \A j \in FirstVariable(tmpl) : m <= j
    <3>1. FirstVariable(tmpl) \in SUBSET Nat /\ FirstVariable(tmpl) # {} /\ FirstVariable(tmpl) \subseteq 1 .. Len(tmpl)
      BY <2>1 DEF FirstVariable, IsTemplated
    <3>2. Min(FirstVariable(tmpl)) \in FirstVariable(tmpl) /\ \A j \in FirstVariable(tmpl) : Min(FirstVariable(tmpl)) <= j
      BY <3>1, MinIsLeast
    <3> QED  BY <3>1, <3>2
  <2>4. \A i \in 1 .. m - 1 : tmpl[i] = k[i]
    <3>1. ASSUME NEW i \in 1 .. m - 1 PROVE tmpl[i] = k[i]
      <4>1. i \in DOMAIN tmpl /\ i \notin FirstVariable(tmpl)
        BY <2>1, <2>3
      <4> QED  BY <2>2, <4>1 DEF FirstVariable
    <3> QED  BY <3>1
  <2> DEFINE p == ListablePrefix(tmpl)
  <2>5. p = SubSeq(tmpl, 1, m - 1)
    BY <2>3 DEF ListablePrefix
  <2>6. tmpl \in Seq(Range(tmpl)) /\ k \in Seq(Range(k))
    BY ListIsSeq
  <2>7. p = [i \in 1 .. m - 1 |-> tmpl[i]] /\ Len(p) = m - 1
    <3>1. 1 \in 1 .. Len(tmpl) + 1 /\ m - 1 \in 1 - 1 .. Len(tmpl)
      BY <2>1, <2>3
    <3> QED  BY <2>1, <2>3, <2>5, <2>6, <3>1, SubSeqProperties
  <2>8. SubSeq(k, 1, m - 1) = [i \in 1 .. m - 1 |-> k[i]]
    <3>1. 1 \in 1 .. Len(k) + 1 /\ m - 1 \in 1 - 1 .. Len(k)
      BY <2>1, <2>2, <2>3
    <3> QED  BY <2>1, <2>2, <2>3, <2>6, <3>1, SubSeqProperties
  <2>9. SubSeq(p, 1, m - 1) = p
    <3>1. p \in Seq(Range(tmpl))
      BY <2>1, <2>3, <2>5, <2>6
    <3> QED  BY <2>3, <2>7, <3>1
  <2> QED  BY <2>1, <2>2, <2>3, <2>4, <2>7, <2>8, <2>9 DEF IsPrefix
<1> QED  BY <1>1, <1>2

\* A listing taken now.
LEMMA ListingHolds ==
  ASSUME StoreInv, phase = "sweeping", NEW p, NEW refused \in BOOLEAN
  PROVE  EntryHolds(p, ListPrefix(store, p, refused))
<1> SUFFICES ASSUME NEW e, e = ListPrefix(store, p, refused) PROVE EntryHolds(p, e)
  OBVIOUS
<1> DEFINE seen == {k \in Keys : store[k].at # NoTime /\ IsPrefix(p, k)}
           read == [k \in Keys |-> [key |-> k, at |-> store[k].at]]
           objs == {[key |-> k, at |-> store[k].at] : k \in seen}
<1>1. \/ e = [objects |-> {}, error |-> TRUE]
      \/ e = [objects |-> objs, error |-> FALSE]
  BY DEF ListPrefix
<1>2. IsFiniteSet(objs)
  <2>1. IsFiniteSet(seen)
    BY FreshAssumption, FS_Subset
  <2>2. objs = {read[k] : k \in seen}
    OBVIOUS
  <2> HIDE DEF read, objs, seen
  <2> QED  BY <2>1, <2>2, ImageIsFinite
<1>3. CASE e = [objects |-> {}, error |-> TRUE]
  <2>1. e.objects = {} /\ e.error = TRUE
    BY <1>3
  <2> QED  BY <2>1, FS_EmptySet DEF EntryHolds
<1>4. CASE e = [objects |-> objs, error |-> FALSE]
  <2>1. e.objects = objs /\ e.error = FALSE
    BY <1>4
  <2>2. ASSUME NEW k \in Keys, IsPrefix(p, k), store[k].at # NoTime
        PROVE  [key |-> k, at |-> store[k].at] \in objs
    BY <2>2
  <2>3. \A k \in Keys : begun[k].at # NoTime => store[k].at # NoTime /\ store[k].at >= begun[k].at
    BY DEF StoreInv, NoTime
  <2>4. \A o \in objs : o.key \in Keys /\ o.at = store[o.key].at /\ o.at \in Nat /\ o.at <= now
    BY DEF StoreInv
  <2> HIDE DEF objs
  <2>5. ASSUME NEW k \in Keys, IsPrefix(p, k)
        PROVE  /\ store[k].at \notin {NoTime, now} => \E o \in objs : o.key = k /\ o.at = store[k].at
               /\ begun[k].at # NoTime => \E o \in objs : o.key = k /\ o.at >= begun[k].at
    <3>1. CASE store[k].at # NoTime
      <4>1. PICK o \in objs : o = [key |-> k, at |-> store[k].at]
        BY <2>2, <2>5, <3>1
      <4> QED  BY <2>3, <4>1
    <3> QED  BY <2>3, <3>1
  <2> QED  BY <1>2, <2>1, <2>4, <2>5 DEF EntryHolds
<1> QED  BY <1>1, <1>3, <1>4

\* A listing taken now of a row whose deadline was missed.
LEMMA LateListing ==
  ASSUME StoreInv, NEW r, IsList(r.key), IsTemplated(r.key), NEW day, LateStore(r, day),
         NEW refused \in BOOLEAN, r.deadline \in Int, day \in Int
  PROVE  LateEntry(r, day, ListPrefix(store, ListablePrefix(r.key), refused))
<1> SUFFICES ASSUME NEW e, e = ListPrefix(store, ListablePrefix(r.key), refused)
             PROVE  LateEntry(r, day, e)
  OBVIOUS
<1> DEFINE p    == ListablePrefix(r.key)
           seen == {k \in Keys : store[k].at # NoTime /\ IsPrefix(p, k)}
           objs == {[key |-> k, at |-> store[k].at] : k \in seen}
<1>1. e.objects = {} \/ e.objects = objs
  BY DEF ListPrefix
<1>2. ASSUME NEW o \in objs, IsInstance(o.key, r.key), OnTime(r, day, o.at)
      PROVE  \E u \in objs : IsInstance(u.key, r.key) /\ PastDeadline(r, day, u.at)
  <2>1. PICK k \in Keys : o = [key |-> k, at |-> store[k].at] /\ store[k].at # NoTime
    OBVIOUS
  <2>2. PICK j \in Keys : OwnInstance(j, r.key) /\ PastDeadline(r, day, store[j].at)
    BY <1>2, <2>1 DEF LateStore, OwnInstance
  <2>3. IsInstance(j, r.key) /\ IsPrefix(p, j)
    BY <2>2, FreshAssumption, InstanceIsListed DEF OwnInstance
  <2>4. store[j].at # NoTime
    <3>1. LocalHour(day, r.deadline) \in Int /\ LocalHour(day, 0) <= LocalHour(day, r.deadline)
          /\ store[k].at \in Nat
      BY <1>2, <2>1 DEF LocalHour, ZoneOffset, OnTime, StoreInv
    <3>2. store[j].at > LocalHour(day, r.deadline) /\ store[k].at <= LocalHour(day, r.deadline)
      BY <1>2, <2>1, <2>2 DEF PastDeadline, OnTime
    <3> QED  BY <3>1, <3>2 DEF StoreInv, NoTime
  <2>5. [key |-> j, at |-> store[j].at] \in objs
    BY <2>3, <2>4
  <2> HIDE DEF objs
  <2> QED  BY <2>2, <2>3, <2>5
<1> HIDE DEF objs
<1> QED  BY <1>1, <1>2 DEF LateEntry

\* The entry a row of this sweep reads.
LEMMA EntryIsHeld ==
  ASSUME StoreInv, ListingInv, phase = "sweeping", NEW p, NEW refused \in BOOLEAN
  PROVE  EntryHolds(p, Entry(p, refused))
BY ListingHolds DEF Entry, ListingInv

\* What the CHOOSE of a newest object picks.
LEMMA NewestIsThere ==
  ASSUME NEW mine, IsFiniteSet(mine), mine # {}, \A o \in mine : o.at \in Nat
  PROVE  \E o \in mine : \A u \in mine : u.at <= o.at
<1> DEFINE when == [o \in mine |-> o.at]
           times == {when[o] : o \in mine}
<1>1. IsFiniteSet(times)
  <2> HIDE DEF when
  <2> QED  BY ImageIsFinite
<1>2. times \in SUBSET Nat /\ times # {}
  OBVIOUS
<1>3. PICK t \in times : \A u \in times : u <= t
  <2> HIDE DEF times
  <2> QED  BY <1>1, <1>2, GreatestNatural
<1> QED  BY <1>3

\* What a probe answers is an instance of its template, and nothing older is newer.
ProbeHolds(tmpl, p) ==
    /\ p.error \in BOOLEAN /\ p.at \in Nat \cup {NoTime}
    /\ p.at # NoTime =>
          /\ p.key \in Keys /\ OwnInstance(p.key, tmpl) /\ p.at <= now /\ ~p.error
          /\ p.at = store[p.key].at \/ store[p.key].at = now
    /\ ~p.error => \A k \in Keys : OwnInstance(k, tmpl) =>
          /\ begun[k].at <= p.at
          /\ store[k].at <= p.at \/ store[k].at = now

LEMMA ProbeIsHeld ==
  ASSUME StoreInv, ListingInv, phase = "sweeping", NEW tmpl, IsList(tmpl), NEW refused \in BOOLEAN
  PROVE  ProbeHolds(tmpl, Probe(tmpl, refused))
<1> SUFFICES ASSUME NEW p, p = Probe(tmpl, refused) PROVE ProbeHolds(tmpl, p)
  OBVIOUS
<1>1. \A k \in Keys : /\ store[k].at \in Nat \cup {-1} /\ store[k].at <= now /\ now \in Nat
                      /\ begun[k].at \in Nat \cup {-1} /\ begun[k].at <= store[k].at
  BY FreshAssumption DEF StoreInv, NoTime
<1>2. CASE ~IsTemplated(tmpl)
  <2>1. p = HeadObject(store, tmpl, refused)
    BY <1>2 DEF Probe
  <2>2. \A k : OwnInstance(k, tmpl) <=> k = tmpl
    BY <1>2 DEF OwnInstance
  <2>3. CASE refused \/ tmpl \notin Keys \/ store[tmpl].at = NoTime
    <3>0. p = NothingFound(refused)
      BY <2>1, <2>3 DEF HeadObject
    <3>1. p.error = refused /\ p.at = NoTime
      BY <3>0 DEF NothingFound
    <3> QED  BY <1>1, <2>2, <2>3, <3>1 DEF ProbeHolds, NoTime
  <2>4. CASE ~(refused \/ tmpl \notin Keys \/ store[tmpl].at = NoTime)
    <3>1. p.error = FALSE /\ p.at = store[tmpl].at /\ p.key = tmpl
      BY <2>1, <2>4 DEF HeadObject
    <3>2. tmpl \in Keys /\ OwnInstance(tmpl, tmpl)
      BY <2>2, <2>4
    <3>3. p.at \in Nat \cup {-1} /\ p.at <= now /\ begun[tmpl].at <= p.at
      BY <1>1, <3>1, <3>2
    <3>4. \A k \in Keys : OwnInstance(k, tmpl) => begun[k].at <= p.at /\ store[k].at <= p.at
      BY <1>1, <2>2, <3>1, <3>3
    <3> QED  BY <3>1, <3>2, <3>3, <3>4 DEF ProbeHolds, NoTime
  <2> QED  BY <2>3, <2>4
<1>3. CASE IsTemplated(tmpl)
  <2> DEFINE e == Entry(ListablePrefix(tmpl), refused)
             mine == {o \in e.objects : IsInstance(o.key, tmpl)}
  <2>1. EntryHolds(ListablePrefix(tmpl), e)
    BY EntryIsHeld
  <2>2. p = NewestUnderPrefix(e, tmpl)
    BY <1>3 DEF Probe
  <2>3. \A k : OwnInstance(k, tmpl) <=> IsInstance(k, tmpl)
    BY <1>3 DEF OwnInstance
  <2>4. \A k \in Keys : IsInstance(k, tmpl) => IsPrefix(ListablePrefix(tmpl), k)
    BY <1>3, FreshAssumption, InstanceIsListed
  <2>5. ASSUME ~e.error, NEW k \in Keys, IsInstance(k, tmpl)
        PROVE  /\ store[k].at \notin {-1, now} => \E o \in mine : o.at = store[k].at
               /\ begun[k].at # -1 => \E o \in mine : o.at >= begun[k].at
    <3>1. /\ store[k].at \notin {-1, now} => \E o \in e.objects : o.key = k /\ o.at = store[k].at
          /\ begun[k].at # -1 => \E o \in e.objects : o.key = k /\ o.at >= begun[k].at
      BY <2>1, <2>4, <2>5 DEF EntryHolds, NoTime
    <3> QED  BY <2>5, <3>1
  <2>6. \A o \in mine : /\ o.key \in Keys /\ o.at \in Nat /\ o.at <= now /\ IsInstance(o.key, tmpl)
                        /\ o.at = store[o.key].at \/ store[o.key].at = now
    BY <2>1 DEF EntryHolds
  <2>7. e.error \in BOOLEAN /\ IsFiniteSet(mine)
    BY <2>1, FS_Subset DEF EntryHolds
  <2>8. CASE e.error \/ mine = {}
    <3>0. p = NothingFound(e.error)
      BY <2>2, <2>8 DEF NewestUnderPrefix
    <3>1. p.error = e.error /\ p.at = NoTime
      BY <3>0 DEF NothingFound
    <3>2. ASSUME ~p.error, NEW k \in Keys, OwnInstance(k, tmpl)
          PROVE  begun[k].at <= p.at /\ (store[k].at <= p.at \/ store[k].at = now)
      <4>1. mine = {} /\ begun[k].at = -1 /\ store[k].at \in {-1, now}
        BY <2>3, <2>5, <2>8, <3>1, <3>2
      <4> QED  BY <1>1, <3>1, <4>1 DEF NoTime
    <3> HIDE DEF e, mine
    <3> QED  BY <2>7, <3>1, <3>2 DEF ProbeHolds
  <2>9. CASE ~e.error /\ mine # {}
    <3>1. PICK o \in mine : \A u \in mine : u.at <= o.at
      <4> HIDE DEF mine
      <4> QED  BY <2>6, <2>7, <2>9, NewestIsThere
    <3> DEFINE newest == CHOOSE x \in mine : \A u \in mine : u.at <= x.at
    <3>2. newest \in mine /\ \A u \in mine : u.at <= newest.at
      BY <3>1
    <3>3. p.error = FALSE /\ p.at = newest.at /\ p.key = newest.key
      BY <2>2, <2>9 DEF NewestUnderPrefix
    <3> HIDE DEF newest, mine, e
    <3>4. p.at \in Nat /\ p.key \in Keys /\ p.at <= now /\ IsInstance(p.key, tmpl)
          /\ (p.at = store[p.key].at \/ store[p.key].at = now)
      BY <2>6, <3>2, <3>3
    <3>5. ASSUME NEW k \in Keys, OwnInstance(k, tmpl)
          PROVE  begun[k].at <= p.at /\ (store[k].at <= p.at \/ store[k].at = now)
      <4>1. /\ store[k].at \notin {-1, now} => \E u \in mine : u.at = store[k].at
            /\ begun[k].at # -1 => \E u \in mine : u.at >= begun[k].at
        BY <2>3, <2>5, <2>9, <3>5
      <4>2. begun[k].at <= p.at
        BY <1>1, <2>6, <3>2, <3>3, <3>4, <4>1
      <4>3. store[k].at <= p.at \/ store[k].at = now
        BY <1>1, <2>6, <3>2, <3>3, <3>4, <4>1
      <4> QED  BY <4>2, <4>3
    <3> QED  BY <2>3, <3>3, <3>4, <3>5 DEF ProbeHolds
  <2> QED  BY <2>7, <2>8, <2>9
<1> QED  BY <1>2, <1>3

\* The newest of a row's own is among what was listed, and nothing listed of it is newer.
LEMMA NewestHolds ==
  ASSUME NEW prefix, NEW e, EntryHolds(prefix, e), NEW tmpl, NEW p, p = NewestUnderPrefix(e, tmpl)
  PROVE  /\ p.at # NoTime => \E o \in e.objects : IsInstance(o.key, tmpl) /\ o.at = p.at
         /\ p.at # NoTime \/ ~p.error =>
               \A u \in e.objects : IsInstance(u.key, tmpl) => u.at <= p.at
<1> DEFINE mine == {o \in e.objects : IsInstance(o.key, tmpl)}
           newest == CHOOSE x \in mine : \A u \in mine : u.at <= x.at
<1>1. CASE e.error \/ mine = {}
  <2>1. p = NothingFound(e.error)
    BY <1>1 DEF NewestUnderPrefix
  <2>2. p.error = e.error /\ p.at = NoTime
    BY <2>1 DEF NothingFound
  <2>3. \A u \in e.objects : ~e.error => ~IsInstance(u.key, tmpl)
    BY <1>1
  <2> QED  BY <2>2, <2>3
<1>2. CASE ~e.error /\ mine # {}
  <2>1. p.at = newest.at
    BY <1>2 DEF NewestUnderPrefix
  <2>2. IsFiniteSet(mine) /\ \A o \in mine : o.at \in Nat
    BY FS_Subset DEF EntryHolds
  <2>3. PICK o \in mine : \A u \in mine : u.at <= o.at
    <3> HIDE DEF mine
    <3> QED  BY <1>2, <2>2, NewestIsThere
  <2>4. newest \in mine /\ \A u \in mine : u.at <= newest.at
    BY <2>3
  <2> HIDE DEF newest
  <2> QED  BY <2>1, <2>4
<1> QED  BY <1>1, <1>2

\* A probe of a row past its deadline: nothing is found on time where the store is late, and
\* where nothing is found on time the store is late.
PastRow(r, day) ==
    IsList(r.key) /\ r.deadline \in 0 .. 23 /\ day \in Int /\ PastDeadline(r, day, now)

\* A probe past a missed deadline finds nothing on time.
LEMMA LateProbe ==
  ASSUME StoreInv, ListingInv, phase = "sweeping", NEW r, NEW day, PastRow(r, day),
         NEW refused \in BOOLEAN, LateStore(r, day),
         IsTemplated(r.key) => LateEntry(r, day, Entry(ListablePrefix(r.key), refused)),
         NEW p, p = Probe(r.key, refused), p.at # NoTime
  PROVE  ~OnTime(r, day, p.at)
<1>1. LocalHour(day, r.deadline) \in Int
  BY DEF PastRow, LocalHour, ZoneOffset
<1>2. ProbeHolds(r.key, p)
  BY ProbeIsHeld DEF PastRow
<1> SUFFICES ASSUME OnTime(r, day, p.at) PROVE FALSE
  OBVIOUS
<1>3. p.at \in Nat /\ p.at <= LocalHour(day, r.deadline)
  BY <1>2 DEF ProbeHolds, OnTime
<1>4. CASE ~IsTemplated(r.key)
  <2>1. p = HeadObject(store, r.key, refused)
    BY <1>4 DEF Probe
  <2>2. r.key \in Keys /\ p.at = store[r.key].at
    BY <2>1 DEF HeadObject, NothingFound
  <2>3. \A k : OwnInstance(k, r.key) <=> k = r.key
    BY <1>4 DEF OwnInstance
  <2>4. PastDeadline(r, day, p.at)
    BY <2>2, <2>3 DEF LateStore
  <2> QED  BY <1>1, <1>3, <2>4 DEF PastDeadline
<1>5. CASE IsTemplated(r.key)
  <2> DEFINE e == Entry(ListablePrefix(r.key), refused)
  <2>1. p = NewestUnderPrefix(e, r.key)
    BY <1>5 DEF Probe
  <2>2. EntryHolds(ListablePrefix(r.key), e) /\ LateEntry(r, day, e)
    BY <1>5, EntryIsHeld
  <2> HIDE DEF e
  <2>3. PICK o \in e.objects : IsInstance(o.key, r.key) /\ o.at = p.at
    BY <2>1, <2>2, NewestHolds
  <2>4. PICK u \in e.objects : IsInstance(u.key, r.key) /\ PastDeadline(r, day, u.at)
    BY <2>2, <2>3 DEF LateEntry
  <2>5. u.at <= p.at /\ u.at \in Nat
    <3>1. \A x \in e.objects : IsInstance(x.key, r.key) => x.at <= p.at
      BY <2>1, <2>2, NewestHolds
    <3> QED  BY <2>2, <2>4, <3>1 DEF EntryHolds
  <2> QED  BY <1>1, <1>3, <2>4, <2>5 DEF PastDeadline
<1> QED  BY <1>4, <1>5

\* A probe that finds nothing on time says so of the store and of the listing it read.
LEMMA NothingOnTime ==
  ASSUME StoreInv, ListingInv, phase = "sweeping", NEW r, NEW day, PastRow(r, day),
         NEW refused \in BOOLEAN, NEW p, p = Probe(r.key, refused), ~p.error,
         p.at = NoTime \/ ~OnTime(r, day, p.at)
  PROVE  /\ LateStore(r, day)
         /\ IsTemplated(r.key) => LateEntry(r, day, Entry(ListablePrefix(r.key), refused))
<1>1. /\ LocalHour(day, r.deadline) \in Int /\ LocalHour(day, 0) \in Int
      /\ now > LocalHour(day, r.deadline) /\ now \in Nat
  BY FreshAssumption DEF PastRow, LocalHour, ZoneOffset, PastDeadline, StoreInv
<1>2. ProbeHolds(r.key, p)
  BY ProbeIsHeld DEF PastRow
<1>3. p.at \in Nat \cup {-1}
  BY <1>2 DEF ProbeHolds, NoTime
<1>4. ASSUME NEW t \in Nat, t <= p.at, OnTime(r, day, t) PROVE p.at \in Nat /\ p.at > LocalHour(day, r.deadline)
  BY <1>1, <1>3, <1>4 DEF OnTime, NoTime
<1>5. LateStore(r, day)
  <2> SUFFICES ASSUME NEW k \in Keys, OwnInstance(k, r.key), store[k].at # NoTime, OnTime(r, day, store[k].at)
               PROVE  \E j \in Keys : OwnInstance(j, r.key) /\ PastDeadline(r, day, store[j].at)
    BY DEF LateStore
  <2>1. store[k].at \in Nat /\ store[k].at # now
    BY <1>1 DEF StoreInv, OnTime
  <2>2. store[k].at <= p.at
    BY <1>2, <2>1 DEF ProbeHolds
  <2>3. p.at \in Nat /\ p.at > LocalHour(day, r.deadline)
    BY <1>4, <2>1, <2>2
  <2>4. p.key \in Keys /\ OwnInstance(p.key, r.key) /\ (p.at = store[p.key].at \/ store[p.key].at = now)
    BY <1>2, <2>3 DEF ProbeHolds, NoTime
  <2> QED  BY <1>1, <2>3, <2>4 DEF PastDeadline
<1>6. ASSUME IsTemplated(r.key) PROVE LateEntry(r, day, Entry(ListablePrefix(r.key), refused))
  <2> DEFINE e == Entry(ListablePrefix(r.key), refused)
  <2>1. p = NewestUnderPrefix(e, r.key)
    BY <1>6 DEF Probe
  <2>2. EntryHolds(ListablePrefix(r.key), e)
    BY EntryIsHeld
  <2> HIDE DEF e
  <2>3. ASSUME NEW o \in e.objects, IsInstance(o.key, r.key), OnTime(r, day, o.at)
        PROVE  \E u \in e.objects : IsInstance(u.key, r.key) /\ PastDeadline(r, day, u.at)
    <3>1. o.at <= p.at /\ o.at \in Nat
      <4>1. \A x \in e.objects : IsInstance(x.key, r.key) => x.at <= p.at
        BY <2>1, <2>2, NewestHolds
      <4> QED  BY <2>2, <2>3, <4>1 DEF EntryHolds
    <3>2. p.at \in Nat /\ p.at > LocalHour(day, r.deadline)
      BY <1>4, <2>3, <3>1
    <3>3. PICK u \in e.objects : IsInstance(u.key, r.key) /\ u.at = p.at
      <4>1. p.at # NoTime
        BY <3>2 DEF NoTime
      <4> QED  BY <2>1, <2>2, <4>1, NewestHolds
    <3> QED  BY <3>2, <3>3 DEF PastDeadline
  <2>4. LateEntry(r, day, e)
    BY <2>3 DEF LateEntry
  <2> QED  BY <2>4 DEF e
<1> QED  BY <1>5, <1>6

-----------------------------------------------------------------------------
(* The freshness monitor: the verdict on a row.                              *)

Answer(c) == c.error \in BOOLEAN /\ c.at \in Nat \cup {NoTime}

\* What the recency of what was found says.
LEMMA RecencyIs ==
  ASSUME NEW r, NEW t, NEW c, NEW d, Answer(c), Answer(d), NEW v, v = Recency(r, t, c, d)
  PROVE  /\ c.error => v.state = "probe_failed" /\ v.at = NoTime
         /\ ~c.error /\ c.at = NoTime /\ d.at = NoTime => v.state = "missing" /\ v.at = NoTime
         /\ ~c.error /\ ~(c.at = NoTime /\ d.at = NoTime) =>
               /\ v.state = IF v.at >= FreshnessFloor(r, t) THEN "fresh" ELSE "stale"
               /\ v.at >= c.at /\ v.at >= d.at
               /\ \/ v.at = c.at /\ v.key = c.key
                  \/ v.at = d.at /\ v.key = d.key
<1> DEFINE newest == IF d.at > c.at THEN d ELSE c
<1>1. /\ newest.at \in Nat \cup {-1} /\ newest.at >= c.at /\ newest.at >= d.at
      /\ newest = c \/ newest = d
      /\ newest.at = -1 <=> c.at = -1 /\ d.at = -1
  BY DEF Answer, NoTime
<1>2. CASE c.error
  <2>1. v = Verdict("probe_failed", NoProbe)
    BY <1>2, Zenon DEF Recency, Answer
  <2> QED  BY <1>2, <2>1 DEF Verdict, NoProbe, NothingFound
<1>3. CASE ~c.error /\ newest.at = NoTime
  <2>1. v = Verdict("missing", NoProbe)
    BY <1>3, Zenon DEF Recency
  <2>2. v.state = "missing" /\ v.at = NoTime
    BY <2>1 DEF Verdict, NoProbe, NothingFound
  <2> HIDE DEF newest
  <2> QED  BY <1>1, <1>3, <2>2 DEF NoTime
<1>4. CASE ~c.error /\ newest.at # NoTime
  <2>1. v = Verdict(IF newest.at >= FreshnessFloor(r, t) THEN "fresh" ELSE "stale", newest)
    BY <1>4, Zenon DEF Recency
  <2>2. /\ v.state = IF newest.at >= FreshnessFloor(r, t) THEN "fresh" ELSE "stale"
        /\ v.at = newest.at /\ v.key = newest.key
    BY <2>1 DEF Verdict
  <2>3. \/ newest.at = c.at /\ newest.key = c.key
        \/ newest.at = d.at /\ newest.key = d.key
    OBVIOUS
  <2> HIDE DEF newest
  <2>4. ~(c.at = NoTime /\ d.at = NoTime)
    BY <1>1, <1>4 DEF NoTime
  <2> QED  BY <1>1, <1>4, <2>2, <2>3, <2>4
<1> QED  BY <1>2, <1>3, <1>4 DEF Answer

\* A row without a deadline: a gap was looked for and not found inside the floor.
LEMMA PlainVerdict ==
  ASSUME NEW r, r.deadline = NoTime, NEW t, FreshnessFloor(r, t) \in Int,
         NEW c, NEW d, Answer(c), Answer(d), NEW v, v = CheckFreshness(r, t, c, d)
  PROVE  /\ v.state \in Gaps =>
               Gate(r, t) = "probe" /\ ~c.error /\ (c.at = NoTime \/ c.at < FreshnessFloor(r, t))
         /\ v.state = "fresh" /\ v.at # NoTime =>
               /\ Gate(r, t) = "probe" /\ v.at >= FreshnessFloor(r, t)
               /\ \/ v.at = c.at /\ v.key = c.key
                  \/ v.at = d.at /\ v.key = d.key
<1>1. Gate(r, t) \in {"fresh", "grace_period", "probe"}
  BY Zenon DEF Gate
<1>2. CASE Gate(r, t) # "probe"
  <2>1. v = Verdict(Gate(r, t), NoProbe)
    BY <1>2 DEF CheckFreshness, ApplyLocalDeadline
  <2>2. v.state = Gate(r, t) /\ v.at = NoTime
    BY <2>1 DEF Verdict, NoProbe, NothingFound
  <2> QED  BY <1>1, <1>2, <2>2 DEF Gaps
<1>3. CASE Gate(r, t) = "probe"
  <2>1. v = Recency(r, t, c, d)
    BY <1>3 DEF CheckFreshness, ApplyLocalDeadline
  <2>2. /\ c.error => v.state = "probe_failed" /\ v.at = NoTime
        /\ ~c.error /\ c.at = NoTime /\ d.at = NoTime => v.state = "missing" /\ v.at = NoTime
        /\ ~c.error /\ ~(c.at = NoTime /\ d.at = NoTime) =>
               /\ v.state = IF v.at >= FreshnessFloor(r, t) THEN "fresh" ELSE "stale"
               /\ v.at >= c.at /\ v.at >= d.at
               /\ \/ v.at = c.at /\ v.key = c.key
                  \/ v.at = d.at /\ v.key = d.key
    BY <2>1, RecencyIs
  <2>3. c.at \in Int /\ d.at \in Int
    BY DEF Answer, NoTime
  <2> QED  BY <1>3, <2>2, <2>3 DEF Gaps
<1> QED  BY <1>2, <1>3

\* A row looked at past its deadline: a gap unless its newest is on time.
LEMMA PastVerdict ==
  ASSUME NEW r, NEW t \in Nat, r.deadline \in 0 .. 23, TradingDay(LocalDay(t)),
         PastDeadline(r, LocalDay(t), t), LocalDay(t) \in Int,
         Gate(r, t) = "probe", NEW c, Answer(c), NEW v, v = CheckFreshness(r, t, c, NoProbe)
  PROVE  /\ v.state \in {"fresh", "probe_failed"} \cup Gaps
         /\ v.state \in Gaps <=> ~c.error /\ (c.at = NoTime \/ ~OnTime(r, LocalDay(t), c.at))
<1> DEFINE w == Recency(r, t, c, NoProbe)
           due == LocalHour(LocalDay(t), r.deadline)
<1>1. v = ApplyLocalDeadline(r, w, t)
  BY DEF CheckFreshness
<1>2. /\ c.error => w.state = "probe_failed"
      /\ ~c.error => w.at = c.at /\ w.state \in {"missing", "fresh", "stale"}
  <2>1. Answer(NoProbe) /\ NoProbe.at = NoTime
    BY DEF Answer, NoProbe, NothingFound
  <2>2. /\ c.error => w.state = "probe_failed" /\ w.at = NoTime
        /\ ~c.error /\ c.at = NoTime => w.state = "missing" /\ w.at = NoTime
        /\ ~c.error /\ c.at # NoTime =>
               /\ w.state = IF w.at >= FreshnessFloor(r, t) THEN "fresh" ELSE "stale"
               /\ w.at >= c.at /\ (w.at = c.at \/ w.at = NoTime)
    <3> HIDE DEF w
    <3> QED  BY <2>1, RecencyIs DEF w
  <2>3. c.at \in Nat \cup {-1}
    BY DEF Answer, NoTime
  <2> HIDE DEF w
  <2> QED  BY <2>2, <2>3 DEF NoTime
<1>3. due \in Int /\ ~(t < due) /\ r.deadline # NoTime
  BY DEF PastDeadline, LocalHour, ZoneOffset, NoTime
<1> HIDE DEF w
<1>4. CASE c.error
  <2>1. v = w
    BY <1>1, <1>2, <1>4 DEF ApplyLocalDeadline
  <2> QED  BY <1>2, <1>4, <2>1 DEF Gaps
<1>5. CASE ~c.error
  <2>1. w.state # "probe_failed"
    BY <1>2, <1>5
  <2>2. v = [w EXCEPT !.state =
                IF w.at = NoTime THEN "missing"
                ELSE IF LocalHour(LocalDay(t), 0) <= w.at /\ w.at <= due THEN "fresh" ELSE "stale"]
    BY <1>1, <1>3, <2>1 DEF ApplyLocalDeadline
  <2>3. DOMAIN w = {"state", "at", "key"}
    BY Zenon DEF w, Recency, Verdict
  <2>4. v.state = IF w.at = NoTime THEN "missing"
                  ELSE IF OnTime(r, LocalDay(t), w.at) THEN "fresh" ELSE "stale"
    BY <2>2, <2>3 DEF OnTime
  <2> QED  BY <1>2, <1>5, <2>4 DEF Gaps
<1> QED  BY <1>4, <1>5 DEF Answer

-----------------------------------------------------------------------------
(* The freshness monitor: a sweep, row by row.                               *)

\* A row of a registry that loaded.
LEMMA RowIsLegal ==
  ASSUME JudgedInv, phase \notin {"load", "refused"}, NEW i \in DOMAIN registry
  PROVE  /\ IsList(registry[i].key) /\ IsList(registry[i].recovery)
         /\ registry[i].deadline = NoTime \/ registry[i].deadline \in 0 .. 23
         /\ \A t \in Instants : FreshnessFloor(registry[i], t) \in Int
         /\ \A j \in DOMAIN registry : registry[j].id = registry[i].id => j = i
<1>1. /\ RegistryLoads(registry) /\ registry \in Registries /\ IsList(registry)
      /\ IsList(registry[i].key) /\ IsList(registry[i].recovery)
      /\ \A t \in Instants : FreshnessFloor(registry[i], t) \in Int
  BY FreshAssumption DEF JudgedInv
<1>2. registry[i].deadline = NoTime \/ registry[i].deadline \in 0 .. 23
  BY <1>1 DEF RegistryLoads, ValidRow, ValidDeadline
<1>3. \A j \in DOMAIN registry : registry[j].id = registry[i].id => j = i
  <2> DEFINE f == [j \in DOMAIN registry |-> registry[j].id]
  <2>1. DOMAIN registry = 1 .. Len(registry) /\ Len(registry) \in Nat
    BY <1>1 DEF IsList
  <2>2. IsFiniteSet(DOMAIN registry) /\ Cardinality(DOMAIN registry) = Len(registry)
    <3>1. PICK n \in Nat : n = Len(registry)
      BY <2>1
    <3>2. IsFiniteSet(1 .. n) /\ Cardinality(1 .. n) = n
      BY FS_Interval
    <3> QED  BY <2>1, <3>1, <3>2
  <2>3. f \in Surjection(DOMAIN registry, Ids(registry))
    BY DEF Surjection, Ids
  <2>4. Cardinality(Ids(registry)) = Len(registry)
    BY <1>1 DEF RegistryLoads, BuildsGraph
  <2> HIDE DEF f
  <2>5. f \in Injection(DOMAIN registry, Ids(registry))
    BY <2>2, <2>3, <2>4, FS_Surjection
  <2> QED  BY <2>5 DEF Injection, IsInjective, f
<1> QED  BY <1>1, <1>2, <1>3

\* What a row's verdict says of the store of this sweep.
VerdictHolds(r, v) ==
    /\ v.state \in Gaps => \A k \in Keys : OwnInstance(k, r.key) =>
          ~(begun[k].at # NoTime /\ begun[k].at >= FreshnessFloor(r, now))
    /\ v.state = "fresh" /\ v.at # NoTime =>
          /\ v.at >= FreshnessFloor(r, now) /\ v.at <= store[v.key].at
          /\ \E t \in {r.key} \cup ({r.recovery} \ {<<>>}) : OwnInstance(v.key, t)
          /\ v.key \in Keys /\ v.at <= now

SweptInv ==
    phase = "sweeping" => \A i \in DOMAIN registry :
        registry[i].id \in DOMAIN verdicts /\ registry[i].deadline = NoTime =>
            VerdictHolds(registry[i], verdicts[registry[i].id])

RowInv == row \in Nat \ {0}
NoneMissed == phase \in {"load", "refused"} => missed = {}

SweepInv ==
    /\ JudgedInv /\ StoreInv /\ ListingInv /\ MissedInv /\ SweptInv /\ MissedStaysMissed
    /\ RowInv /\ NoneMissed

\* A local day is a number.
LEMMA LocalDayIsDay == \A t \in Nat : LocalDay(t) \in Int
BY DEF LocalDay, ZoneOffset, UtcDay

\* What a row is judged by.
Canonical(r, refused) == IF Gate(r, now) = "probe" THEN Probe(r.key, refused) ELSE NoProbe
Recovered(r, refused) ==
    IF Gate(r, now) = "probe" /\ r.recovery # <<>> THEN Probe(r.recovery, refused) ELSE NoProbe
RowVerdict(r, refused) == CheckFreshness(r, now, Canonical(r, refused), Recovered(r, refused))

\* What a check of a row changes.
LEMMA RowIsChecked ==
  ASSUME NEW refused \in BOOLEAN, CheckRow(refused)
  PROVE  LET r == registry[row] v == RowVerdict(r, refused) IN
         /\ phase = "sweeping" /\ row <= Len(registry)
         /\ UNCHANGED <<registry, phase, now, store, decisions, completion, pages, begun>>
         /\ row' = row + 1
         /\ DOMAIN verdicts' = DOMAIN verdicts \cup {r.id}
         /\ \A a \in DOMAIN verdicts : a # r.id => verdicts'[a] = verdicts[a]
         /\ verdicts'[r.id].state = v.state /\ verdicts'[r.id].at = v.at /\ verdicts'[r.id].key = v.key
         /\ missed' = IF /\ r.deadline # NoTime /\ v.state \in Gaps /\ TradingDay(LocalDay(now))
                         /\ PastDeadline(r, LocalDay(now), now)
                      THEN missed \cup {<<r.id, LocalDay(now)>>} ELSE missed
         /\ \A p \in DOMAIN cache' : cache'[p] = Entry(p, refused)
<1> DEFINE r == registry[row]
           v == RowVerdict(r, refused)
<1>1. v = CheckFreshness(r, now, IF Gate(r, now) = "probe" THEN Probe(r.key, refused) ELSE NoProbe,
                         IF Gate(r, now) = "probe"
                         THEN IF r.recovery = <<>> THEN NoProbe ELSE Probe(r.recovery, refused) ELSE NoProbe)
  BY DEF RowVerdict, Canonical, Recovered
<1> HIDE DEF v
<1>2. PICK full : verdicts' = [a \in DOMAIN verdicts \cup {r.id} |->
                     IF a = r.id THEN [state |-> v.state, at |-> v.at, key |-> v.key, full |-> full]
                     ELSE verdicts[a]]
  BY <1>1 DEF CheckRow
<1>3. missed' = IF /\ r.deadline # NoTime /\ v.state \in Gaps /\ TradingDay(LocalDay(now))
                   /\ PastDeadline(r, LocalDay(now), now)
                THEN missed \cup {<<r.id, LocalDay(now)>>} ELSE missed
  BY <1>1 DEF CheckRow, PastDeadline
<1>4. \/ Remember({r.key, r.recovery} \ {<<>>}, refused)
      \/ Remember({r.key}, refused)
      \/ UNCHANGED cache
  BY DEF CheckRow
<1>5. \A p \in DOMAIN cache' : cache'[p] = Entry(p, refused)
  <2>1. ASSUME NEW tmpls, Remember(tmpls, refused) PROVE \A p \in DOMAIN cache' : cache'[p] = Entry(p, refused)
    BY <2>1 DEF Remember
  <2>2. CASE UNCHANGED cache
    BY <2>2 DEF Entry
  <2> QED  BY <1>4, <2>1, <2>2
<1>6. /\ phase = "sweeping" /\ row <= Len(registry) /\ row' = row + 1
      /\ UNCHANGED <<registry, phase, now, store, decisions, completion, pages, begun>>
  BY DEF CheckRow
<1> QED  BY <1>2, <1>3, <1>5, <1>6 DEF v

\* It answers as the store of this sweep has it.
LEMMA AnswersHold ==
  ASSUME SweepInv, phase = "sweeping", NEW i \in DOMAIN registry, NEW refused \in BOOLEAN,
         NEW r, r = registry[i]
  PROVE  /\ Answer(Canonical(r, refused)) /\ Answer(Recovered(r, refused))
         /\ Gate(r, now) = "probe" => ProbeHolds(r.key, Canonical(r, refused))
         /\ Recovered(r, refused).at # NoTime =>
               r.recovery # <<>> /\ ProbeHolds(r.recovery, Recovered(r, refused))
<1>1. IsList(r.key) /\ IsList(r.recovery)
  BY RowIsLegal DEF SweepInv
<1>2. ProbeHolds(r.key, Probe(r.key, refused)) /\ ProbeHolds(r.recovery, Probe(r.recovery, refused))
  BY <1>1, ProbeIsHeld DEF SweepInv
<1>3. Answer(NoProbe) /\ NoProbe.at = NoTime
  BY DEF Answer, NoProbe, NothingFound
<1>4. \A tmpl, p : ProbeHolds(tmpl, p) => Answer(p)
  BY DEF ProbeHolds, Answer
<1> QED  BY <1>2, <1>3, <1>4 DEF Canonical, Recovered

\* What the row's own answers make of it holds of the store of this sweep.
LEMMA VerdictIsJudged ==
  ASSUME SweepInv, phase = "sweeping", NEW i \in DOMAIN registry, NEW refused \in BOOLEAN,
         NEW r, r = registry[i], r.deadline = NoTime
  PROVE  VerdictHolds(r, RowVerdict(r, refused))
<1> SUFFICES ASSUME NEW v, v = RowVerdict(r, refused) PROVE VerdictHolds(r, v)
  OBVIOUS
<1> DEFINE c == Canonical(r, refused)
           d == Recovered(r, refused)
<1>1. /\ Answer(c) /\ Answer(d)
      /\ Gate(r, now) = "probe" => ProbeHolds(r.key, c)
      /\ d.at # NoTime => r.recovery # <<>> /\ ProbeHolds(r.recovery, d)
  BY AnswersHold
<1>2. FreshnessFloor(r, now) \in Int
  BY RowIsLegal DEF SweepInv, StoreInv
<1>3. v = CheckFreshness(r, now, c, d)
  BY DEF RowVerdict
<1> HIDE DEF c, d
<1>4. /\ v.state \in Gaps =>
            Gate(r, now) = "probe" /\ ~c.error /\ (c.at = NoTime \/ c.at < FreshnessFloor(r, now))
      /\ v.state = "fresh" /\ v.at # NoTime =>
            /\ Gate(r, now) = "probe" /\ v.at >= FreshnessFloor(r, now)
            /\ \/ v.at = c.at /\ v.key = c.key
               \/ v.at = d.at /\ v.key = d.key
  BY <1>1, <1>2, <1>3, PlainVerdict
<1>5. \A k \in Keys : begun[k].at \in Nat \cup {-1} /\ store[k].at \in Nat \cup {-1} /\ now \in Nat
  BY FreshAssumption DEF SweepInv, StoreInv, NoTime
<1>6. ASSUME v.state \in Gaps, NEW k \in Keys, OwnInstance(k, r.key)
      PROVE  ~(begun[k].at # NoTime /\ begun[k].at >= FreshnessFloor(r, now))
  <2>1. begun[k].at <= c.at /\ c.at \in Nat \cup {-1}
    BY <1>1, <1>4, <1>6 DEF ProbeHolds, NoTime
  <2> QED  BY <1>2, <1>4, <1>5, <1>6, <2>1 DEF NoTime
<1>7. ASSUME v.state = "fresh", v.at # NoTime
      PROVE  /\ v.at >= FreshnessFloor(r, now) /\ v.at <= store[v.key].at
             /\ \E t \in {r.key} \cup ({r.recovery} \ {<<>>}) : OwnInstance(v.key, t)
             /\ v.key \in Keys /\ v.at <= now
  <2>1. PICK t \in {r.key} \cup ({r.recovery} \ {<<>>}), p \in {c, d} :
          ProbeHolds(t, p) /\ v.at = p.at /\ v.key = p.key
    BY <1>1, <1>4, <1>7
  <2>2. /\ v.key \in Keys /\ OwnInstance(v.key, t) /\ v.at <= now /\ v.at \in Nat
        /\ v.at = store[v.key].at \/ store[v.key].at = now
    BY <1>7, <2>1 DEF ProbeHolds
  <2> QED  BY <1>4, <1>5, <1>7, <2>2
<1> QED  BY <1>6, <1>7 DEF VerdictHolds

\* A row past its deadline: missed it stays, and what makes it so is in the store.
LEMMA PastRowIsJudged ==
  ASSUME SweepInv, phase = "sweeping", NEW i \in DOMAIN registry, NEW refused \in BOOLEAN,
         NEW r, r = registry[i], NEW day, day = LocalDay(now),
         r.deadline # NoTime, TradingDay(day), PastDeadline(r, day, now),
         r.recovery = <<>>, IsLookedAt(r, day)
  PROVE  /\ RowVerdict(r, refused).state \in {"fresh", "probe_failed"} \cup Gaps
         /\ RowVerdict(r, refused).state \in Gaps =>
               /\ LateStore(r, day)
               /\ IsTemplated(r.key) => LateEntry(r, day, Entry(ListablePrefix(r.key), refused))
         /\ LateStore(r, day)
            /\ (IsTemplated(r.key) => LateEntry(r, day, Entry(ListablePrefix(r.key), refused)))
               => RowVerdict(r, refused).state # "fresh"
<1> DEFINE p == Probe(r.key, refused)
           v == RowVerdict(r, refused)
<1>1. StoreInv /\ ListingInv /\ now \in Instants /\ now \in Nat
  BY FreshAssumption DEF SweepInv, StoreInv
<1>2. PastRow(r, day)
  BY <1>1, RowIsLegal, LocalDayIsDay DEF SweepInv, PastRow
<1>3. Gate(r, now) = "probe"
  BY <1>1 DEF IsLookedAt
<1>4. Canonical(r, refused) = p /\ Recovered(r, refused) = NoProbe
  BY <1>3 DEF Canonical, Recovered
<1>5. Answer(p)
  BY <1>4, AnswersHold
<1>6. v = CheckFreshness(r, now, p, NoProbe)
  BY <1>4 DEF RowVerdict
<1> HIDE DEF v, p
<1>7. /\ v.state \in {"fresh", "probe_failed"} \cup Gaps
      /\ v.state \in Gaps <=> ~p.error /\ (p.at = NoTime \/ ~OnTime(r, day, p.at))
  BY <1>1, <1>2, <1>3, <1>5, <1>6, PastVerdict DEF PastRow
<1>8. ASSUME v.state \in Gaps
      PROVE  /\ LateStore(r, day)
             /\ IsTemplated(r.key) => LateEntry(r, day, Entry(ListablePrefix(r.key), refused))
  BY <1>1, <1>2, <1>7, <1>8, NothingOnTime DEF p
<1>9. ASSUME LateStore(r, day),
             IsTemplated(r.key) => LateEntry(r, day, Entry(ListablePrefix(r.key), refused))
      PROVE  p.at # NoTime => ~OnTime(r, day, p.at)
  BY <1>1, <1>2, <1>9, LateProbe DEF p
<1>10. ~p.error \/ v.state # "fresh"
  <2>1. p.error => v.state = "probe_failed"
    <3>1. p.error => Recency(r, now, p, NoProbe).state = "probe_failed"
      <4>1. Answer(NoProbe)
        BY DEF Answer, NoProbe, NothingFound
      <4> QED  BY <1>5, <4>1, RecencyIs
    <3> QED  BY <1>3, <1>6, <3>1 DEF CheckFreshness, ApplyLocalDeadline
  <2> QED  BY <2>1, <1>5 DEF Answer
<1> QED  BY <1>7, <1>8, <1>9, <1>10 DEF v, Gaps

\* An entry read now of a row whose deadline was missed.
LEMMA EntryIsLate ==
  ASSUME SweepInv, phase = "sweeping", NEW i \in DOMAIN registry, NEW refused \in BOOLEAN,
         NEW r, r = registry[i], NEW day \in Int, <<r.id, day>> \in missed,
         r.recovery = <<>>, IsLookedAt(r, day), IsTemplated(r.key)
  PROVE  LateEntry(r, day, Entry(ListablePrefix(r.key), refused))
<1>1. /\ LateStore(r, day) /\ r.deadline # NoTime
      /\ ListablePrefix(r.key) \in DOMAIN cache => LateEntry(r, day, cache[ListablePrefix(r.key)])
  BY DEF SweepInv, MissedInv
<1>2. r.deadline \in Int /\ IsList(r.key)
  BY <1>1, RowIsLegal DEF SweepInv
<1>3. LateEntry(r, day, ListPrefix(store, ListablePrefix(r.key), refused))
  BY <1>1, <1>2, LateListing DEF SweepInv
<1> QED  BY <1>1, <1>3 DEF Entry

\* A check of a row keeps what is known of the sweep.
LEMMA CheckRowSweeps ==
  ASSUME SweepInv, NEW refused \in BOOLEAN, CheckRow(refused)
  PROVE  StoreInv' /\ ListingInv' /\ MissedInv' /\ SweptInv' /\ MissedStaysMissed'
<1> DEFINE r == registry[row]
           v == RowVerdict(r, refused)
<1>1. /\ phase = "sweeping" /\ row <= Len(registry)
      /\ UNCHANGED <<registry, phase, now, store, decisions, completion, pages, begun>>
      /\ DOMAIN verdicts' = DOMAIN verdicts \cup {r.id}
      /\ \A a \in DOMAIN verdicts : a # r.id => verdicts'[a] = verdicts[a]
      /\ verdicts'[r.id].state = v.state /\ verdicts'[r.id].at = v.at /\ verdicts'[r.id].key = v.key
      /\ missed' = IF /\ r.deadline # NoTime /\ v.state \in Gaps /\ TradingDay(LocalDay(now))
                      /\ PastDeadline(r, LocalDay(now), now)
                   THEN missed \cup {<<r.id, LocalDay(now)>>} ELSE missed
      /\ \A p \in DOMAIN cache' : cache'[p] = Entry(p, refused)
  BY RowIsChecked
<1>2. row \in DOMAIN registry
  <2>1. IsList(registry)
    BY FreshAssumption DEF SweepInv, JudgedInv
  <2> QED  BY <1>1, <2>1 DEF SweepInv, RowInv, IsList
<1> HIDE DEF v
<1>3. \A i \in DOMAIN registry : registry[i].id = r.id => i = row
  BY <1>1, <1>2, RowIsLegal DEF SweepInv
<1>4. StoreInv /\ StoreInv'
  BY <1>1 DEF SweepInv, StoreInv
<1>5. ListingInv'
  <2>1. \A p \in DOMAIN cache' : EntryHolds(p, cache'[p])
    BY <1>1, <1>4, EntryIsHeld DEF SweepInv
  <2> QED  BY <1>1, <2>1 DEF ListingInv, EntryHolds
<1>6. LocalDay(now) \in Int
  BY <1>4, FreshAssumption, LocalDayIsDay DEF StoreInv
<1>7. ASSUME r.recovery = <<>>, IsLookedAt(r, LocalDay(now)), <<r.id, LocalDay(now)>> \in missed'
      PROVE  /\ v.state \in Gaps \cup {"probe_failed"}
             /\ LateStore(r, LocalDay(now))
             /\ IsTemplated(r.key) => LateEntry(r, LocalDay(now), Entry(ListablePrefix(r.key), refused))
  <2>1. CASE <<r.id, LocalDay(now)>> \in missed
    <3>1. /\ TradingDay(LocalDay(now)) /\ r.deadline # NoTime /\ PastDeadline(r, LocalDay(now), now)
          /\ LateStore(r, LocalDay(now))
      BY <1>2, <1>6, <1>7, <2>1 DEF SweepInv, MissedInv
    <3>2. IsTemplated(r.key) => LateEntry(r, LocalDay(now), Entry(ListablePrefix(r.key), refused))
      BY <1>1, <1>2, <1>6, <1>7, <2>1, EntryIsLate
    <3>3. v.state \in {"fresh", "probe_failed"} \cup Gaps /\ v.state # "fresh"
      BY <1>1, <1>2, <1>7, <3>1, <3>2, PastRowIsJudged DEF v
    <3> QED  BY <3>1, <3>2, <3>3
  <2>2. CASE <<r.id, LocalDay(now)>> \notin missed
    <3>1. /\ r.deadline # NoTime /\ v.state \in Gaps /\ TradingDay(LocalDay(now))
          /\ PastDeadline(r, LocalDay(now), now)
      BY <1>1, <1>7, <2>2
    <3>2. /\ LateStore(r, LocalDay(now))
          /\ IsTemplated(r.key) => LateEntry(r, LocalDay(now), Entry(ListablePrefix(r.key), refused))
      BY <1>1, <1>2, <1>7, <3>1, PastRowIsJudged DEF v
    <3> QED  BY <3>1, <3>2
  <2> QED  BY <2>1, <2>2
<1>8. MissedInv'
  <2> SUFFICES ASSUME NEW i \in DOMAIN registry, NEW day \in Int, <<registry[i].id, day>> \in missed',
                      NEW s, s = registry[i]
               PROVE  /\ TradingDay(day) /\ s.deadline # NoTime /\ PastDeadline(s, day, now)
                      /\ s.recovery = <<>> /\ IsLookedAt(s, day) =>
                            /\ LateStore(s, day)
                            /\ IsTemplated(s.key) /\ ListablePrefix(s.key) \in DOMAIN cache'
                                  => LateEntry(s, day, cache'[ListablePrefix(s.key)])
    BY <1>1 DEF MissedInv, LateStore, LateEntry
  <2>1. CASE <<s.id, day>> \in missed
    <3>1. /\ TradingDay(day) /\ s.deadline # NoTime /\ PastDeadline(s, day, now)
          /\ s.recovery = <<>> /\ IsLookedAt(s, day) => LateStore(s, day)
      BY <2>1 DEF SweepInv, MissedInv
    <3>2. s.recovery = <<>> /\ IsLookedAt(s, day) /\ IsTemplated(s.key)
             => LateEntry(s, day, Entry(ListablePrefix(s.key), refused))
      BY <1>1, <2>1, EntryIsLate
    <3> QED  BY <1>1, <3>1, <3>2
  <2>2. CASE <<s.id, day>> \notin missed
    <3>1. /\ s.id = r.id /\ day = LocalDay(now)
          /\ r.deadline # NoTime /\ TradingDay(LocalDay(now)) /\ PastDeadline(r, LocalDay(now), now)
      BY <1>1, <2>2
    <3>2. s = r
      BY <1>3, <3>1
    <3> QED  BY <1>1, <1>7, <3>1, <3>2
  <2> QED  BY <2>1, <2>2
<1>9. SweptInv'
  <2> SUFFICES ASSUME NEW i \in DOMAIN registry, registry[i].id \in DOMAIN verdicts',
                      registry[i].deadline = NoTime
               PROVE  VerdictHolds(registry[i], verdicts'[registry[i].id])
    BY <1>1 DEF SweptInv, VerdictHolds
  <2>1. CASE registry[i].id = r.id
    <3>1. VerdictHolds(r, v)
      BY <1>1, <1>2, <1>3, <2>1, VerdictIsJudged DEF v
    <3>2. registry[i] = r
      BY <1>3, <2>1
    <3> QED  BY <1>1, <3>1, <3>2 DEF VerdictHolds
  <2>2. CASE registry[i].id # r.id
    BY <1>1, <2>2 DEF SweepInv, SweptInv
  <2> QED  BY <2>1, <2>2
<1>10. MissedStaysMissed'
  <2> SUFFICES ASSUME NEW i \in DOMAIN registry, registry[i].id \in DOMAIN verdicts',
                      registry[i].recovery = <<>>, IsLookedAt(registry[i], LocalDay(now)),
                      <<registry[i].id, LocalDay(now)>> \in missed'
               PROVE  verdicts'[registry[i].id].state \in Gaps \cup {"probe_failed"}
    BY <1>1 DEF MissedStaysMissed
  <2>1. CASE registry[i].id = r.id
    <3>1. registry[i] = r
      BY <1>3, <2>1
    <3> QED  BY <1>1, <1>7, <3>1
  <2>2. CASE registry[i].id # r.id
    BY <1>1, <2>2 DEF SweepInv, MissedStaysMissed
  <2> QED  BY <2>1, <2>2
<1> QED  BY <1>4, <1>5, <1>8, <1>9, <1>10

\* So does a write, which is of now.
LEMMA ProduceSweeps ==
  ASSUME SweepInv, NEW k \in Keys, NEW n, Produce(k, n)
  PROVE  StoreInv' /\ ListingInv' /\ MissedInv' /\ SweptInv' /\ MissedStaysMissed'
<1>1. /\ UNCHANGED <<registry, phase, now, cache, verdicts, begun, missed>>
      /\ store' = [store EXCEPT ![k] = [at |-> now, count |-> n]]
  BY DEF Produce
<1>2. StoreInv /\ now \in Nat
  BY FreshAssumption DEF SweepInv, StoreInv
<1>3. /\ DOMAIN store' = Keys /\ store'[k].at = now
      /\ \A j \in Keys : j # k => store'[j] = store[j]
      /\ \A j \in Keys : store'[j].at = store[j].at \/ store'[j].at = now
      /\ \A j \in Keys : store[j].at <= store'[j].at
  <2>1. DOMAIN store = Keys
    BY <1>2 DEF StoreInv
  <2>2. DOMAIN store' = Keys /\ store'[k].at = now /\ \A j \in Keys : j # k => store'[j] = store[j]
    BY <1>1, <2>1
  <2>3. \A j \in Keys : store[j].at \in Int /\ store[j].at <= now
    BY <1>2 DEF StoreInv, NoTime
  <2>4. ASSUME NEW j \in Keys
        PROVE  (store'[j].at = store[j].at \/ store'[j].at = now) /\ store[j].at <= store'[j].at
    <3>1. CASE j = k
      BY <2>2, <2>3, <3>1
    <3>2. CASE j # k
      BY <2>2, <2>3, <3>2
    <3> QED  BY <3>1, <3>2
  <2> QED  BY <2>2, <2>4
<1>4. StoreInv'
  BY <1>1, <1>2, <1>3 DEF StoreInv, NoTime
<1>5. ListingInv'
  <2>1. ASSUME NEW p \in DOMAIN cache, phase = "sweeping" PROVE EntryHolds(p, cache[p])'
    <3>1. EntryHolds(p, cache[p])
      BY <2>1 DEF SweepInv, ListingInv
    <3> QED  BY <1>1, <1>3, <3>1 DEF EntryHolds
  <2> QED  BY <1>1, <2>1 DEF ListingInv, SweepInv
<1>6. MissedInv'
  <2> SUFFICES ASSUME NEW i \in DOMAIN registry, NEW day \in Int, <<registry[i].id, day>> \in missed,
                      NEW r, r = registry[i]
               PROVE  /\ TradingDay(day) /\ r.deadline # NoTime /\ PastDeadline(r, day, now)
                      /\ r.recovery = <<>> /\ IsLookedAt(r, day) =>
                            /\ LateStore(r, day)'
                            /\ IsTemplated(r.key) /\ ListablePrefix(r.key) \in DOMAIN cache
                                  => LateEntry(r, day, cache[ListablePrefix(r.key)])
    BY <1>1 DEF MissedInv, LateEntry
  <2>1. /\ TradingDay(day) /\ r.deadline # NoTime /\ PastDeadline(r, day, now)
        /\ r.recovery = <<>> /\ IsLookedAt(r, day) =>
              /\ LateStore(r, day)
              /\ IsTemplated(r.key) /\ ListablePrefix(r.key) \in DOMAIN cache
                    => LateEntry(r, day, cache[ListablePrefix(r.key)])
    BY DEF SweepInv, MissedInv
  <2>2. ASSUME LateStore(r, day) PROVE LateStore(r, day)'
    <3> SUFFICES ASSUME NEW j \in Keys, OwnInstance(j, r.key), store'[j].at # NoTime,
                        OnTime(r, day, store'[j].at)
                 PROVE  \E m \in Keys : OwnInstance(m, r.key) /\ PastDeadline(r, day, store'[m].at)
      BY <1>1 DEF LateStore
    <3>1. store'[j].at # now
      <4>1. LocalHour(day, r.deadline) \in Int
        <5>1. r.deadline \in Int
          <6>1. CASE phase \notin {"load", "refused"}
            BY <2>1, <6>1, RowIsLegal DEF SweepInv
          <6>2. CASE phase \in {"load", "refused"}
            BY <6>2 DEF Produce
          <6> QED  BY <6>1, <6>2
        <5> QED  BY <5>1 DEF LocalHour, ZoneOffset
      <4> QED  BY <1>2, <2>1, <4>1 DEF PastDeadline, OnTime
    <3>2. j # k /\ store'[j] = store[j]
      BY <1>3, <3>1
    <3>3. PICK m \in Keys : OwnInstance(m, r.key) /\ PastDeadline(r, day, store[m].at)
      BY <2>2, <3>2 DEF LateStore
    <3>4. store'[m].at = store[m].at \/ store'[m].at = now
      BY <1>3
    <3> QED  BY <2>1, <3>3, <3>4 DEF PastDeadline
  <2> QED  BY <2>1, <2>2
<1>7. SweptInv'
  <2>1. ASSUME NEW r, NEW v, VerdictHolds(r, v) PROVE VerdictHolds(r, v)'
    <3>1. ASSUME v.key \in Keys, v.at <= store[v.key].at, v.at <= now PROVE v.at <= store'[v.key].at
      BY <1>3, <3>1
    <3> QED  BY <1>1, <2>1, <3>1 DEF VerdictHolds
  <2> QED  BY <1>1, <2>1 DEF SweepInv, SweptInv
<1>8. MissedStaysMissed'
  BY <1>1 DEF SweepInv, MissedStaysMissed
<1> QED  BY <1>4, <1>5, <1>6, <1>7, <1>8

\* What is asked of a row whose deadline was missed outlives the cache.
LEMMA MissedOutlives ==
  ASSUME SweepInv, UNCHANGED <<registry, store, missed>>, cache' = cache \/ cache' = Empty,
         now' \in Nat, now' >= now
  PROVE  MissedInv'
<1> SUFFICES ASSUME NEW i \in DOMAIN registry, NEW day \in Int, <<registry[i].id, day>> \in missed,
                    NEW r, r = registry[i]
             PROVE  /\ TradingDay(day) /\ r.deadline # NoTime /\ PastDeadline(r, day, now')
                    /\ r.recovery = <<>> /\ IsLookedAt(r, day) =>
                          /\ LateStore(r, day)
                          /\ IsTemplated(r.key) /\ ListablePrefix(r.key) \in DOMAIN cache'
                                => LateEntry(r, day, cache'[ListablePrefix(r.key)])
  BY DEF MissedInv, LateEntry, LateStore
<1>1. /\ TradingDay(day) /\ r.deadline # NoTime /\ PastDeadline(r, day, now)
      /\ r.recovery = <<>> /\ IsLookedAt(r, day) =>
            /\ LateStore(r, day)
            /\ IsTemplated(r.key) /\ ListablePrefix(r.key) \in DOMAIN cache
                  => LateEntry(r, day, cache[ListablePrefix(r.key)])
  BY DEF SweepInv, MissedInv
<1>2. PastDeadline(r, day, now')
  <2>1. now \in Nat
    BY FreshAssumption DEF SweepInv, StoreInv
  <2>2. LocalHour(day, r.deadline) \in Int
    <3>1. phase \notin {"load", "refused"}
      BY DEF SweepInv, NoneMissed
    <3>2. r.deadline \in Int
      BY <1>1, <3>1, RowIsLegal DEF SweepInv
    <3> QED  BY <3>2 DEF LocalHour, ZoneOffset
  <2> QED  BY <1>1, <2>1, <2>2 DEF PastDeadline
<1>3. DOMAIN Empty = {}
  BY DEF Empty
<1> QED  BY <1>1, <1>2, <1>3

\* Every step.
LEMMA SweepSteps == SweepInv /\ [FreshNext]_freshVars => SweepInv'
<1> SUFFICES ASSUME SweepInv, FreshNext \/ UNCHANGED freshVars
             PROVE  /\ StoreInv' /\ ListingInv' /\ MissedInv' /\ SweptInv' /\ MissedStaysMissed'
                    /\ RowInv' /\ NoneMissed'
  BY JudgedSteps DEF SweepInv
<1>1. /\ StoreInv /\ ListingInv /\ MissedInv /\ SweptInv /\ MissedStaysMissed /\ RowInv /\ NoneMissed
      /\ now \in Instants /\ now \in Nat
  BY FreshAssumption DEF SweepInv, StoreInv
<1>2. CASE Load
  <2>1. /\ phase = "load" /\ phase' \in {"idle", "refused"} /\ row' = row
        /\ UNCHANGED <<registry, store, now, cache, missed>>
    BY <1>2 DEF Load
  <2>2. MissedInv'
    BY <1>1, <2>1, MissedOutlives
  <2> QED  BY <1>1, <2>1, <2>2 DEF StoreInv, ListingInv, SweptInv, MissedStaysMissed, RowInv, NoneMissed
<1>3. CASE TimePasses
  <2>1. /\ phase \in {"idle", "judged"} /\ phase' = "idle" /\ row' = row
        /\ UNCHANGED <<registry, store, cache, missed>>
        /\ now' = Min({t \in Instants : t > now}) /\ \E t \in Instants : t > now
    BY <1>3 DEF TimePasses
  <2>2. now' \in Instants /\ now' \in Nat /\ now' > now
    <3> DEFINE later == {t \in Instants : t > now}
    <3>1. later \in SUBSET Nat /\ later # {}
      BY <2>1, FreshAssumption
    <3>2. Min(later) \in later
      <4> HIDE DEF later
      <4> QED  BY <3>1, MinIsLeast
    <3> QED  BY <2>1, <3>2, FreshAssumption
  <2>3. MissedInv'
    BY <2>1, <2>2, <1>1, MissedOutlives
  <2>4. StoreInv'
    BY <1>1, <2>1, <2>2 DEF StoreInv, NoTime
  <2> QED  BY <1>1, <2>1, <2>3, <2>4 DEF ListingInv, SweptInv, MissedStaysMissed, RowInv, NoneMissed
<1>4. ASSUME NEW k \in Keys, NEW n \in Contents[k], Produce(k, n)
      PROVE  /\ StoreInv' /\ ListingInv' /\ MissedInv' /\ SweptInv' /\ MissedStaysMissed'
             /\ RowInv' /\ NoneMissed'
  <2>1. UNCHANGED <<registry, phase, row, missed>>
    BY <1>4 DEF Produce
  <2> QED  BY <1>1, <1>4, <2>1, ProduceSweeps DEF RowInv, NoneMissed
<1>5. CASE StartSweep
  <2>1. /\ phase \in {"idle", "judged"} /\ phase' = "sweeping" /\ row' = 1
        /\ UNCHANGED <<registry, store, now, cache, missed>>
        /\ begun' = store /\ verdicts' = Empty
    BY <1>5 DEF StartSweep
  <2>2. DOMAIN Empty = {} /\ cache = Empty
    BY <1>1, <2>1 DEF Empty, ListingInv
  <2>3. MissedInv'
    BY <1>1, <2>1, MissedOutlives
  <2>4. StoreInv'
    BY <1>1, <2>1 DEF StoreInv, NoTime
  <2>5. ListingInv' /\ SweptInv' /\ MissedStaysMissed' /\ RowInv' /\ NoneMissed'
    BY <2>1, <2>2 DEF ListingInv, SweptInv, MissedStaysMissed, RowInv, NoneMissed
  <2> QED  BY <2>3, <2>4, <2>5
<1>6. ASSUME NEW refused \in BOOLEAN, CheckRow(refused)
      PROVE  /\ StoreInv' /\ ListingInv' /\ MissedInv' /\ SweptInv' /\ MissedStaysMissed'
             /\ RowInv' /\ NoneMissed'
  <2>1. phase' = phase /\ phase = "sweeping" /\ row' = row + 1
    BY <1>6 DEF CheckRow
  <2> QED  BY <1>1, <1>6, <2>1, CheckRowSweeps DEF RowInv, NoneMissed
<1>7. CASE Judge
  <2>1. /\ phase = "sweeping" /\ phase' = "judged" /\ row' = 1 /\ cache' = Empty
        /\ UNCHANGED <<registry, store, now, verdicts, missed>>
    BY <1>7 DEF Judge
  <2>2. MissedInv'
    BY <1>1, <2>1, MissedOutlives
  <2> QED  BY <1>1, <2>1, <2>2 DEF StoreInv, ListingInv, SweptInv, MissedStaysMissed, RowInv, NoneMissed
<1>8. CASE UNCHANGED freshVars
  <2>1. UNCHANGED <<registry, phase, now, store, row, cache, verdicts, begun, missed>>
    BY <1>8 DEF freshVars
  <2>2. MissedInv'
    BY <1>1, <2>1, MissedOutlives
  <2>3. ListingInv'
    BY <1>1, <2>1 DEF ListingInv, EntryHolds
  <2>4. StoreInv' /\ RowInv' /\ NoneMissed' /\ MissedStaysMissed'
    BY <1>1, <2>1 DEF StoreInv, RowInv, NoneMissed, MissedStaysMissed
  <2>5. SweptInv'
    BY <1>1, <2>1 DEF SweptInv, VerdictHolds
  <2> QED  BY <2>2, <2>3, <2>4, <2>5
<1> QED  BY <1>2, <1>3, <1>4, <1>5, <1>6, <1>7, <1>8 DEF FreshNext

\* The start.
LEMMA SweepBegins == FreshInit => SweepInv
<1> SUFFICES ASSUME FreshInit PROVE SweepInv
  OBVIOUS
<1>1. /\ registry \in Registries /\ phase = "load" /\ store = [k \in Keys |-> NoObject]
      /\ cache = Empty /\ missed = {} /\ row = 1 /\ now = Min(Instants)
  BY DEF FreshInit
<1>2. now \in Instants /\ now \in Nat
  BY <1>1, FreshAssumption, MinIsLeast
<1>3. StoreInv
  BY <1>1, <1>2 DEF StoreInv, NoObject, NoTime
<1> QED  BY <1>1, <1>3 DEF SweepInv, JudgedInv, ListingInv, MissedInv, SweptInv, MissedStaysMissed, RowInv, NoneMissed

\* A verdict is about this sweep's store, whatever listing answered it, whichever producer
\* writes meanwhile and whatever is refused (_newest_under_prefix and its cache).
THEOREM VerdictsAreOfThisSweep == FreshSpec => []VerdictIsOfThisSweep
<1>1. SweepInv => VerdictIsOfThisSweep
  BY DEF SweepInv, SweptInv, VerdictHolds, VerdictIsOfThisSweep
<1> QED  BY <1>1, SweepBegins, SweepSteps, PTL DEF FreshSpec

\* A deadline once missed stays missed that day, for any rows, calendar and writes
\* (apply_local_deadline).
THEOREM MissedIsMissed == FreshSpec => []MissedStaysMissed
<1>1. SweepInv => MissedStaysMissed
  BY DEF SweepInv
<1> QED  BY <1>1, SweepBegins, SweepSteps, PTL DEF FreshSpec

-----------------------------------------------------------------------------
(* The readers of executions.  Histories first.                              *)

\* What a history shows so far of what it will.
LEMMA HistoryIsPrefix ==
  ASSUME NEW es, IsHistory(es), NEW n \in 0 .. Len(es)
  PROVE  IsHistory(SubSeq(es, 1, n)) /\ Len(SubSeq(es, 1, n)) = n
<1> DEFINE h == SubSeq(es, 1, n)
<1>1. /\ Len(es) \in Nat /\ DOMAIN es = 1 .. Len(es)
  BY DEF IsHistory, IsList
<1>2. PICK S : es \in Seq(S)
  BY ListIsSeq DEF IsHistory
<1>3. h \in Seq(S) /\ Len(h) = n /\ \A k \in 1 .. n : h[k] = es[k]
  BY <1>1, <1>2, SubSeqProperties
<1> HIDE DEF h
<1>4. IsList(h) /\ DOMAIN h = 1 .. n
  BY <1>3, SeqIsList, LenProperties
<1>5. ASSUME NEW k \in 1 .. n
      PROVE  /\ h[k] = es[k] /\ k \in DOMAIN es
             /\ \A j \in 1 .. k - 1 : h[j] = es[j]
  BY <1>1, <1>3
<1>6. ASSUME NEW k \in 1 .. n, h[k].kind = "TaskFailed"
      PROVE  \E j \in 1 .. k - 1 : h[j] = Entered(h[k].state) /\ \A l \in j + 1 .. k - 1 : h[l] # Exited(h[k].state)
  <2>1. PICK j \in 1 .. k - 1 : es[j] = Entered(es[k].state) /\ \A l \in j + 1 .. k - 1 : es[l] # Exited(es[k].state)
    BY <1>5, <1>6 DEF IsHistory
  <2>2. \A l \in j + 1 .. k - 1 : l \in 1 .. k - 1
    OBVIOUS
  <2> QED  BY <1>5, <2>1, <2>2
<1>7. \A k \in 1 .. n :
        /\ h[k].kind = "TaskStateEntered" => h[k] = Entered(h[k].state)
        /\ h[k].key = "stateEnteredEventDetails" <=> h[k].kind \in {"TaskStateEntered", "PassStateEntered"}
        /\ h[k].key = "stateEnteredEventDetails" => h[k].state # "none"
        /\ h[k].kind = "TaskFailed" => h[k].error # "none"
  BY <1>5 DEF IsHistory
<1> QED  BY <1>3, <1>4, <1>6, <1>7 DEF IsHistory, h

\* In a history whose tasks ran one after the other, the one that failed first is the last one
\* entered before it failed.
LEMMA FailureIsTrue ==
  ASSUME NEW es, IsHistory(es), Serial(es), Kinds(es, {"TaskFailed", "ExecutionFailed"}) # {},
         es[FirstFailure(es)].kind = "TaskFailed"
  PROVE  /\ FailingState(es) = ParentOf(es[FirstFailure(es)].state)
         /\ FailureError(es) = es[FirstFailure(es)].error
         /\ FailingState(es) # "none"
<1> DEFINE failures == Kinds(es, {"TaskFailed", "ExecutionFailed"})
           k == FirstFailure(es)
           s == es[k].state
           prior == {j \in Kinds(es, {"TaskStateEntered"}) : j < k}
           m == Max(prior)
           u == es[m].state
<1>1. Len(es) \in Nat /\ DOMAIN es = 1 .. Len(es)
  BY DEF IsHistory, IsList
<1>2. k \in failures /\ \A j \in failures : k <= j
  <2>1. failures \in SUBSET Nat
    BY <1>1 DEF Kinds
  <2> HIDE DEF failures
  <2>2. k = Min(failures)
    BY DEF FirstFailure, failures
  <2> QED  BY <2>1, <2>2, MinIsLeast DEF failures
<1>3. k \in 1 .. Len(es)
  BY <1>1, <1>2 DEF Kinds
<1> HIDE DEF k
<1>4. es[k].kind = "TaskFailed" /\ es[k].error # "none"
  BY <1>1, <1>3 DEF IsHistory, k
<1>5. PICK j \in 1 .. k - 1 : es[j] = Entered(s) /\ \A l \in j + 1 .. k - 1 : es[l] # Exited(s)
  BY <1>1, <1>3, <1>4 DEF IsHistory
<1>6. j \in prior
  BY <1>1, <1>3, <1>5 DEF Kinds, Entered, Event
<1>7. m \in prior /\ j <= m
  <2>1. prior \in SUBSET Nat /\ IsFiniteSet(prior)
    <3>1. IsFiniteSet(1 .. Len(es)) /\ prior \in SUBSET (1 .. Len(es))
      BY <1>1, FS_Interval DEF Kinds
    <3> QED  BY <3>1, FS_Subset
  <2> HIDE DEF prior
  <2> QED  BY <1>6, <2>1, MaxIsGreatest
<1>8. m \in 1 .. Len(es) /\ m < k /\ es[m] = Entered(u)
  BY <1>1, <1>7 DEF Kinds, IsHistory
<1> HIDE DEF m, prior
<1>9. s = u
  <2> DEFINE names == {es[i].state : i \in Kinds(es, {"TaskStateEntered"})}
             open == {t \in names : \E i \in 1 .. m : es[i] = Entered(t) /\ \A l \in (i + 1) .. m : es[l] # Exited(t)}
  <2>1. IsFiniteSet(open) /\ Cardinality(open) <= 1
    <3>1. Cardinality(open) <= 1
      BY <1>1, <1>8 DEF Serial
    <3>2. IsFiniteSet(names)
      <4> DEFINE state == [i \in Kinds(es, {"TaskStateEntered"}) |-> es[i].state]
      <4>1. IsFiniteSet(Kinds(es, {"TaskStateEntered"}))
        <5>1. Kinds(es, {"TaskStateEntered"}) \in SUBSET (1 .. Len(es)) /\ IsFiniteSet(1 .. Len(es))
          BY <1>1, FS_Interval DEF Kinds
        <5> QED  BY <5>1, FS_Subset
      <4>2. names = {state[i] : i \in Kinds(es, {"TaskStateEntered"})}
        OBVIOUS
      <4> HIDE DEF state, names
      <4> QED  BY <4>1, <4>2, ImageIsFinite
    <3> QED  BY <3>1, <3>2, FS_Subset
  <2>2. s \in open
    <3>1. s \in names
      BY <1>1, <1>3, <1>5 DEF Kinds, Entered, Event
    <3>2. j \in 1 .. m /\ \A l \in (j + 1) .. m : es[l] # Exited(s)
      BY <1>3, <1>5, <1>7, <1>8
    <3> QED  BY <1>5, <3>1, <3>2
  <2>3. u \in open
    <3>1. u \in names
      BY <1>1, <1>8 DEF Kinds, Entered, Event
    <3>2. \A l \in (m + 1) .. m : FALSE
      BY <1>8
    <3> QED  BY <1>8, <3>1, <3>2
  <2>4. ASSUME s # u PROVE FALSE
    <3>1. {s, u} \subseteq open
      BY <2>2, <2>3
    <3> HIDE DEF open
    <3>2. IsFiniteSet({s, u}) /\ Cardinality({s, u}) <= Cardinality(open)
      BY <2>1, <3>1, FS_Subset
    <3>3. Cardinality({s, u}) = 2
      <4>1. IsFiniteSet({s}) /\ Cardinality({s}) = 1
        BY FS_Singleton
      <4>2. Cardinality({s} \cup {u}) = 2
        BY <2>4, <4>1, FS_AddElement
      <4>3. {s} \cup {u} = {s, u}
        OBVIOUS
      <4> QED  BY <4>2, <4>3
    <3>4. Cardinality(open) \in Nat
      BY <2>1, FS_CardinalityType
    <3> QED  BY <2>1, <3>2, <3>3, <3>4
  <2> QED  BY <2>4
<1>10. FailingState(es) = ParentOf(s)
  <2>1. FailingState(es) = IF failures = {} THEN "none"
                           ELSE IF prior = {} THEN es[k].error ELSE ParentOf(es[m].state)
    BY DEF FailingState, prior, k, m
  <2> QED  BY <1>2, <1>7, <1>9, <2>1
<1>11. FailureError(es) = es[k].error
  <2> DEFINE named == {i \in failures : es[i].error # "none"}
  <2>1. k \in named /\ named \in SUBSET Nat
    BY <1>1, <1>2, <1>4 DEF Kinds
  <2>2. FailureError(es) = es[Min(named)].error
    BY <2>1 DEF FailureError
  <2>3. \A i \in named : k <= i
    BY <1>2
  <2> HIDE DEF named
  <2>4. Min(named) \in named /\ Min(named) <= k
    BY <2>1, MinIsLeast
  <2>5. Min(named) \in Nat /\ k \in Nat /\ k <= Min(named)
    BY <2>1, <2>3, <2>4
  <2>6. Min(named) = k
    BY <2>4, <2>5
  <2> QED  BY <2>2, <2>6
<1>12. ParentOf(s) # "none"
  <2>1. s # "none"
    <3>1. es[j].key = "stateEnteredEventDetails" /\ es[j].state = s /\ j \in DOMAIN es
      BY <1>1, <1>3, <1>5 DEF Entered, Event
    <3> QED  BY <3>1 DEF IsHistory
  <2> QED  BY <2>1, ReadAssumption DEF ParentOf
<1> QED  BY <1>10, <1>11, <1>12 DEF k

\* The states entered, as the verdict on the work counts them.
LEMMA EnteredAreNamed ==
  ASSUME NEW es, IsHistory(es)
  PROVE  /\ IsList(EnteredStates(es))
         /\ NamesOf(EnteredStates(es)) =
               {es[k].state : k \in {j \in DOMAIN es : es[j].kind \in {"TaskStateEntered", "PassStateEntered"}}}
<1> DEFINE some == {es[k] : k \in {j \in DOMAIN es : NameUnder(es[j], "stateEnteredEventDetails") # "none"}}
           named == Among(es, some)
           did == {j \in DOMAIN es : es[j].kind \in {"TaskStateEntered", "PassStateEntered"}}
<1>1. Filtered(es, some, named)
  <2> HIDE DEF some
  <2> QED  BY ListIsFiltered DEF IsHistory
<1>2. some = {es[k] : k \in did}
  BY DEF IsHistory, NameUnder
<1>3. EnteredStates(es) = [k \in DOMAIN named |-> named[k].state]
  BY DEF EnteredStates
<1>4. IsList(named) /\ Range(named) = Range(es) \cap some
  BY <1>1 DEF Filtered
<1> HIDE DEF named
<1>5. Range(es) \cap some = {es[k] : k \in did}
  BY <1>2 DEF Range
<1>6. IsList(EnteredStates(es))
  <2>1. PICK n \in Nat : n = Len(named) /\ DOMAIN named = 1 .. n
    BY <1>4 DEF IsList
  <2>2. EnteredStates(es) = [k \in 1 .. n |-> named[k].state]
    BY <1>3, <2>1
  <2> QED  BY <2>2 DEF IsList
<1>7. NamesOf(EnteredStates(es)) = {e.state : e \in Range(named)}
  BY <1>3 DEF NamesOf, Range
<1> QED  BY <1>4, <1>5, <1>6, <1>7

-----------------------------------------------------------------------------
(* The executions go on while they are read.                                 *)

RunType == [role : Roles, stated : Days \cup {NoDay}, day : Days, script : DOMAIN Scripts,
            at : Nat, stopped : BOOLEAN]
RunsInv ==
    /\ runs \in Seq(RunType)
    /\ \A i \in DOMAIN runs : runs[i].at \in 0 .. Len(Script(i).events)

\* An execution keeps what it was started with, and one that has ended stays as it is.
GoesOn(i) ==
    /\ i \in DOMAIN runs'
    /\ runs'[i].role = runs[i].role /\ runs'[i].stated = runs[i].stated
    /\ runs'[i].day = runs[i].day
    /\ RunStatus(i) # "RUNNING" => runs'[i] = runs[i]

\* The steps of the executions leave the reader alone.
Executes ==
    \/ \E role \in Roles, stated \in Days \cup {NoDay}, day \in Days, s \in DOMAIN Scripts :
          StartExecution(role, stated, day, s)
    \/ \E i \in DOMAIN runs : Abort(i) \/ \E n \in 1 .. Len(Script(i).events) : Advance(i, n)

\* Every step of an execution.
LEMMA ExecutionsGoOn ==
  ASSUME RunsInv, Executes
  PROVE  /\ RunsInv' /\ reader' = reader /\ Len(runs) <= Len(runs')
         /\ \A i \in DOMAIN runs : GoesOn(i)
<1>1. Len(runs) \in Nat /\ DOMAIN runs = 1 .. Len(runs) /\ \A i \in DOMAIN runs : runs[i] \in RunType
  BY LenProperties, ElementOfSeq DEF RunsInv
<1>2. ASSUME NEW role \in Roles, NEW stated \in Days \cup {NoDay}, NEW day \in Days, NEW s \in DOMAIN Scripts,
             StartExecution(role, stated, day, s)
      PROVE  /\ RunsInv' /\ reader' = reader /\ Len(runs) <= Len(runs')
             /\ \A i \in DOMAIN runs : GoesOn(i)
  <2> DEFINE e == [role |-> role, stated |-> stated, day |-> day, script |-> s, at |-> 0, stopped |-> FALSE]
  <2>1. e \in RunType /\ e.at = 0 /\ e.script = s
    BY DEF RunType
  <2>2. runs' = Append(runs, e) /\ reader' = reader
    BY <1>2 DEF StartExecution
  <2> HIDE DEF e
  <2>3. /\ runs' \in Seq(RunType) /\ Len(runs') = Len(runs) + 1 /\ runs'[Len(runs) + 1] = e
        /\ \A i \in DOMAIN runs : runs'[i] = runs[i]
    BY <1>1, <2>1, <2>2, AppendProperties DEF RunsInv
  <2>4. DOMAIN runs' = 1 .. Len(runs) + 1
    BY <2>3, LenProperties
  <2>5. Len(Scripts[s].events) \in Nat
    BY ReadAssumption DEF IsHistory, IsList
  <2>6. ASSUME NEW i \in DOMAIN runs' PROVE runs'[i].at \in 0 .. Len(Scripts[runs'[i].script].events)
    <3>1. CASE i = Len(runs) + 1
      BY <2>1, <2>3, <2>5, <3>1
    <3>2. CASE i # Len(runs) + 1
      <4>1. i \in DOMAIN runs /\ runs'[i] = runs[i]
        BY <1>1, <2>3, <2>4, <3>2
      <4> QED  BY <4>1 DEF RunsInv, Script
    <3> QED  BY <3>1, <3>2
  <2> QED  BY <1>1, <2>2, <2>3, <2>4, <2>6 DEF RunsInv, GoesOn, Script
<1>3. ASSUME NEW i \in DOMAIN runs, NEW e \in RunType, RunStatus(i) = "RUNNING",
             runs' = [runs EXCEPT ![i] = e], reader' = reader,
             e.role = runs[i].role, e.stated = runs[i].stated, e.day = runs[i].day,
             e.script = runs[i].script, e.at \in 0 .. Len(Script(i).events)
      PROVE  /\ RunsInv' /\ reader' = reader /\ Len(runs) <= Len(runs')
             /\ \A j \in DOMAIN runs : GoesOn(j)
  <2>1. /\ runs' \in Seq(RunType) /\ Len(runs') = Len(runs) /\ runs'[i] = e
        /\ \A j \in DOMAIN runs : j # i => runs'[j] = runs[j]
    BY <1>1, <1>3, ExceptSeq DEF RunsInv
  <2>2. DOMAIN runs' = DOMAIN runs
    BY <1>1, <2>1, LenProperties
  <2>3. \A j \in DOMAIN runs : runs'[j].script = runs[j].script
                               /\ runs'[j].at \in 0 .. Len(Scripts[runs'[j].script].events)
    BY <1>3, <2>1 DEF RunsInv, Script
  <2> QED  BY <1>1, <1>3, <2>1, <2>2, <2>3 DEF RunsInv, GoesOn, Script
<1>4. ASSUME NEW i \in DOMAIN runs, Abort(i)
      PROVE  /\ RunsInv' /\ reader' = reader /\ Len(runs) <= Len(runs')
             /\ \A j \in DOMAIN runs : GoesOn(j)
  <2> DEFINE e == [runs[i] EXCEPT !.stopped = TRUE]
  <2>1. /\ e \in RunType /\ e.role = runs[i].role /\ e.stated = runs[i].stated /\ e.day = runs[i].day
        /\ e.script = runs[i].script /\ e.at = runs[i].at
    BY <1>1 DEF RunType
  <2>2. RunStatus(i) = "RUNNING" /\ runs' = [runs EXCEPT ![i] = e] /\ reader' = reader
    BY <1>4 DEF Abort
  <2> HIDE DEF e
  <2>3. e.at \in 0 .. Len(Script(i).events)
    BY <2>1 DEF RunsInv
  <2> QED  BY <1>3, <2>1, <2>2, <2>3
<1>5. ASSUME NEW i \in DOMAIN runs, NEW n \in 1 .. Len(Script(i).events), Advance(i, n)
      PROVE  /\ RunsInv' /\ reader' = reader /\ Len(runs) <= Len(runs')
             /\ \A j \in DOMAIN runs : GoesOn(j)
  <2> DEFINE e == [runs[i] EXCEPT !.at = @ + n]
  <2>1. /\ e \in RunType /\ e.role = runs[i].role /\ e.stated = runs[i].stated /\ e.day = runs[i].day
        /\ e.script = runs[i].script /\ e.at = runs[i].at + n
    BY <1>1 DEF RunType
  <2>2. /\ RunStatus(i) = "RUNNING" /\ runs' = [runs EXCEPT ![i] = e] /\ reader' = reader
        /\ runs[i].at + n <= Len(Script(i).events)
    BY <1>5 DEF Advance
  <2>3. Len(Script(i).events) \in Nat
    BY <1>1, ReadAssumption DEF IsHistory, IsList, Script, RunType
  <2> HIDE DEF e
  <2>4. e.at \in 0 .. Len(Script(i).events)
    BY <2>1, <2>2, <2>3 DEF RunsInv
  <2> QED  BY <1>3, <2>1, <2>2, <2>4
<1> QED  BY <1>2, <1>4, <1>5 DEF Executes

\* What an execution shows is a history; of an ended one it is always the same.
LEMMA RunShows ==
  ASSUME RunsInv, NEW i \in DOMAIN runs
  PROVE  IsHistory(History(i))
<1>1. runs[i].script \in DOMAIN Scripts
  <2>1. runs[i] \in RunType
    BY LenProperties, ElementOfSeq DEF RunsInv
  <2> QED  BY <2>1 DEF RunType
<1>2. IsHistory(Script(i).events) /\ runs[i].at \in 0 .. Len(Script(i).events)
  BY <1>1, ReadAssumption DEF RunsInv, Script
<1> QED  BY <1>2, HistoryIsPrefix DEF History

LEMMA EndedStays ==
  ASSUME NEW i, GoesOn(i), RunStatus(i) # "RUNNING"
  PROVE  RunStatus(i)' = RunStatus(i) /\ History(i)' = History(i)
BY DEF GoesOn, RunStatus, History, Script

-----------------------------------------------------------------------------
(* The reader.                                                               *)

Fields == {"pc", "ask", "filter", "limit", "cap", "began", "below", "page", "more", "inspected",
           "found", "target", "status", "events", "histories", "outcome", "failing", "rows",
           "work", "window", "streak", "looping"}

\* The executions an answer r speaks of, and those it is asked for.
ShownBy(r)   == {r.found[k].run : k \in DOMAIN r.found} \cup ({r.target} \ {0})
Wanted(r, i) == r.filter = {} \/ runs[i].role \in r.filter

\* A walk that went down to place f took what is wanted above it, and nothing else.
SeenDownTo(r, f) ==
    /\ \A i \in ShownBy(r) : Wanted(r, i) /\ i >= f
    /\ \A j \in 1 .. r.began : j >= f /\ Wanted(r, j) => j \in ShownBy(r)

NewestShown(r) ==
    /\ \A i \in ShownBy(r) : Wanted(r, i)
    /\ \A i \in ShownBy(r), j \in 1 .. r.began : j > i /\ Wanted(r, j) => j \in ShownBy(r)

\* A page is a stretch of the executions, newest first.
PageHolds(r) ==
    /\ IsList(r.page) /\ r.page # <<>>
    /\ r.below \in Nat \ {0} /\ r.below + Len(r.page) <= Len(runs) + 1
    /\ \A k \in 1 .. Len(r.page) : r.page[k] = r.below + Len(r.page) - k
    /\ SeenDownTo(r, r.below + Len(r.page))

\* An execution found at its end is at its end, and its history is read as it is.
FoundHolds(r) ==
    /\ IsList(r.found) /\ \A k \in DOMAIN r.found : r.found[k].run \in DOMAIN runs
    /\ \A k \in DOMAIN r.found :
          LET i == r.found[k].run IN
          r.found[k].status \in FailedStatuses =>
             /\ RunStatus(i) = r.found[k].status
             /\ i \in DOMAIN r.histories => r.histories[i] = History(i)

BaseHolds(r) ==
    /\ DOMAIN r = Fields
    /\ r.filter \subseteq ContributingRoles
    /\ r.began \in 0 .. Len(runs) /\ r.target \in 0 .. Len(runs)
    /\ IsList(r.events) /\ FoundHolds(r)

\* A walk under way.
Walks(r) ==
    /\ BaseHolds(r) /\ r.target = 0 /\ r.outcome = "none" /\ r.histories = <<>>
    /\ r.ask \in {"state", "recent", "window"} /\ (r.ask = "state" => r.found = <<>>)
    /\ r.cap \in Nat /\ r.inspected \in Nat

\* What was read of one execution.
StatusHolds(r) == r.target # 0 /\ (r.status # "RUNNING" => RunStatus(r.target) = r.status)
TellsOf(r) ==
    /\ r.status = "RUNNING" => r.work = "in_flight"
    /\ r.status # "RUNNING" => r.work = ClassifyWork(r.status, EnteredStates(History(r.target)))
    /\ r.status = "FAILED" => r.failing = FailingState(History(r.target))

WindowHolds(r) ==
    /\ \A k \in DOMAIN r.found : r.found[k].run \in DOMAIN r.histories
    /\ r.window = BuildReliabilityWindow(r.found, r.histories)

ReaderHolds(r) ==
    /\ BaseHolds(r)
    /\ r.pc \in {"idle", "list", "page", "describe", "history", "histories", "done"}
    /\ r.pc # "done" => r.outcome = "none"
    /\ r.pc = "list" =>
          /\ Walks(r) /\ r.inspected < r.cap
          /\ r.inspected = 0 => r.found = <<>>
          /\ r.inspected > 0 => r.below \in 1 .. Len(runs) /\ SeenDownTo(r, r.below)
    /\ r.pc = "page" => Walks(r) /\ PageHolds(r)
    /\ r.pc \in {"describe", "history"} => r.target # 0 /\ r.ask \in {"state", "work"}
    /\ r.pc \in {"describe", "history", "histories", "done"} /\ r.filter # {} => NewestShown(r)
    /\ r.pc = "history" => StatusHolds(r)
    /\ r.outcome \in {"state", "work"} => StatusHolds(r) /\ TellsOf(r)
    /\ r.outcome = "window" => WindowHolds(r)

ReadersInv == RunsInv /\ ReaderHolds(reader)

\* What a reader has read stays so while executions go on.
LEMMA WindowStays ==
  ASSUME NEW found, NEW histories,
         \A k \in DOMAIN found : CycleKeyOf(found[k].run)' = CycleKeyOf(found[k].run)
  PROVE  BuildReliabilityWindow(found, histories)' = BuildReliabilityWindow(found, histories)
<1>1. \A key : Group(found, key)' = Group(found, key)
  BY DEF Group
<1>2. KeysOf(found)' = KeysOf(found)
  BY DEF KeysOf
<1>3. \A key : StartOf(found, key)' = StartOf(found, key)
  BY <1>1 DEF StartOf
<1>4. \A key : CausesOf(found, key, histories)' = CausesOf(found, key, histories)
  BY <1>1 DEF CausesOf
<1>5. \A key, earlier : CycleOf(found, key, earlier, histories)' = CycleOf(found, key, earlier, histories)
  BY <1>1, <1>3, <1>4 DEF CycleOf
<1>6. \A key : Earlier(found, key)' = Earlier(found, key) /\ Later(found, key)' = Later(found, key)
  BY <1>2, <1>3 DEF Earlier, Later
<1> QED  BY <1>2, <1>5, <1>6 DEF BuildReliabilityWindow

\* What a reader has is of the executions as they are: a step of its own leaves those alone.
LEMMA ReaderMoves ==
  ASSUME runs' = runs, ReaderHolds(reader') PROVE ReaderHolds(reader)'
<1> SUFFICES ASSUME NEW r, r = reader', ReaderHolds(r) PROVE ReaderHolds(r)'
  OBVIOUS
<1>1. /\ \A i : /\ RunStatus(i)' = RunStatus(i) /\ History(i)' = History(i)
               /\ CycleKeyOf(i)' = CycleKeyOf(i)
  BY DEF RunStatus, History, Script, CycleKeyOf, RunDate, ExplicitRunDate
<1>2. FoundHolds(r)' <=> FoundHolds(r)
  BY <1>1 DEF FoundHolds
<1>3. BaseHolds(r)' <=> BaseHolds(r)
  BY <1>2 DEF BaseHolds
<1>4. /\ Walks(r)' <=> Walks(r)
  BY <1>3 DEF Walks
<1>5. /\ \A f : SeenDownTo(r, f)' <=> SeenDownTo(r, f)
      /\ NewestShown(r)' <=> NewestShown(r)
  BY DEF SeenDownTo, NewestShown, Wanted, ShownBy
<1>6. PageHolds(r)' <=> PageHolds(r)
  BY <1>5 DEF PageHolds
<1>7. /\ StatusHolds(r)' <=> StatusHolds(r)
      /\ TellsOf(r)' <=> TellsOf(r)
  BY <1>1 DEF StatusHolds, TellsOf
<1>8. WindowHolds(r)' <=> WindowHolds(r)
  BY <1>1, WindowStays DEF WindowHolds
<1> QED  BY <1>3, <1>4, <1>5, <1>6, <1>7, <1>8 DEF ReaderHolds

\* What is shown of the same executions.
LEMMA ShownAlike ==
  ASSUME NEW r, NEW q, q.filter = r.filter, q.began = r.began, q.target = r.target, q.found = r.found,
         r.filter # {} => NewestShown(r)
  PROVE  q.filter # {} => NewestShown(q)
<1>1. ShownBy(q) = ShownBy(r) /\ \A i : Wanted(q, i) <=> Wanted(r, i)
  BY DEF ShownBy, Wanted
<1> QED  BY <1>1 DEF NewestShown

\* The end of a walk.
LEMMA WalkEnds ==
  ASSUME NEW r, Walks(r), NewestShown(r) PROVE ReaderHolds(Walked(r))
<1> SUFFICES ASSUME NEW s, s = Walked(r) PROVE ReaderHolds(s)
  OBVIOUS
<1>1. /\ DOMAIN s = Fields /\ s.pc \in {"done", "histories"} /\ s.outcome \in {"no_executions", "list", "none"}
      /\ s.pc # "done" => s.outcome = "none"
      /\ s.filter = r.filter /\ s.began = r.began /\ s.target = r.target /\ s.found = r.found
      /\ s.events = r.events /\ s.histories = r.histories
  <2>1. DOMAIN r = Fields
    BY DEF Walks, BaseHolds
  <2>2. CASE r.ask = "state"
    <3>1. s = [r EXCEPT !.pc = "done", !.outcome = "no_executions"]
      BY <2>2 DEF Walked
    <3> QED  BY <2>1, <3>1 DEF Fields
  <2>3. CASE r.ask = "recent"
    <3>1. s = [r EXCEPT !.pc = "done", !.outcome = "list"]
      BY <2>3 DEF Walked
    <3> QED  BY <2>1, <3>1 DEF Fields
  <2>4. CASE r.ask = "window"
    <3>1. s = [r EXCEPT !.pc = "histories"]
      BY <2>4 DEF Walked
    <3> QED  BY <2>1, <3>1 DEF Fields, Walks
  <2> QED  BY <2>2, <2>3, <2>4 DEF Walks
<1>2. BaseHolds(s)
  BY <1>1 DEF Walks, BaseHolds, FoundHolds
<1>3. NewestShown(s)
  BY <1>1 DEF NewestShown, ShownBy, Wanted
<1> QED  BY <1>1, <1>2, <1>3 DEF ReaderHolds

LEMMA SeenIsNewest ==
  ASSUME NEW r, NEW f \in Int, SeenDownTo(r, f), \A i \in ShownBy(r) : i \in Int PROVE NewestShown(r)
<1>1. ASSUME NEW i \in ShownBy(r), NEW j \in 1 .. r.began, j > i, Wanted(r, j) PROVE j \in ShownBy(r)
  <2>1. i >= f /\ i \in Int
    BY <1>1 DEF SeenDownTo
  <2>2. j >= f
    BY <1>1, <2>1
  <2> QED  BY <1>1, <2>2 DEF SeenDownTo
<1> QED  BY <1>1 DEF SeenDownTo, NewestShown

\* What is shown is an execution.
LEMMA ShownAreRuns ==
  ASSUME RunsInv, NEW r, BaseHolds(r) PROVE \A i \in ShownBy(r) : i \in DOMAIN runs /\ i \in Nat
<1>1. DOMAIN runs = 1 .. Len(runs) /\ Len(runs) \in Nat
  BY LenProperties DEF RunsInv
<1> QED  BY <1>1 DEF BaseHolds, FoundHolds, ShownBy

\* The end of a page, or of an execution of it.
LEMMA PageGoesOn ==
  ASSUME RunsInv, NEW r, Walks(r), r.pc = "page", r.inspected > 0,
         r.page # <<>> => PageHolds(r),
         r.page = <<>> => r.below \in 1 .. Len(runs) /\ SeenDownTo(r, r.below)
  PROVE  ReaderHolds(AfterPage(r))
<1>1. Len(runs) \in Nat
  BY LenProperties DEF RunsInv
<1>2. CASE r.page # <<>>
  <2>1. AfterPage(r) = r
    BY <1>2 DEF AfterPage
  <2> QED  BY <1>2, <2>1 DEF ReaderHolds, Walks
<1>3. CASE r.page = <<>> /\ r.more /\ r.inspected < r.cap
  <2> SUFFICES ASSUME NEW s, s = [r EXCEPT !.pc = "list"] PROVE ReaderHolds(s)
    BY <1>3 DEF AfterPage
  <2>1. /\ DOMAIN s = Fields /\ s.pc = "list" /\ s.outcome = r.outcome
        /\ s.filter = r.filter /\ s.began = r.began /\ s.target = r.target /\ s.found = r.found
        /\ s.events = r.events /\ s.histories = r.histories /\ s.ask = r.ask /\ s.cap = r.cap
        /\ s.inspected = r.inspected /\ s.below = r.below
    BY DEF Fields, Walks, BaseHolds
  <2>2. Walks(s) /\ BaseHolds(s)
    BY <2>1 DEF Walks, BaseHolds, FoundHolds
  <2>3. SeenDownTo(s, s.below)
    BY <1>3, <2>1 DEF SeenDownTo, ShownBy, Wanted
  <2> QED  BY <1>3, <2>1, <2>2, <2>3 DEF ReaderHolds, Walks
<1>4. CASE r.page = <<>> /\ ~(r.more /\ r.inspected < r.cap)
  <2>1. AfterPage(r) = Walked(r)
    BY <1>4 DEF AfterPage
  <2>2. NewestShown(r)
    BY <1>1, <1>4, SeenIsNewest, ShownAreRuns DEF Walks
  <2> QED  BY <2>1, <2>2, WalkEnds
<1> QED  BY <1>2, <1>3, <1>4

\* The reader's own steps.  A question is asked.
LEMMA BeginReads ==
  ASSUME ReadersInv, NEW ask \in {"state", "recent", "window"}, NEW filter, filter \subseteq ContributingRoles,
         NEW limit, NEW cap \in Nat \ {0}, Begin(ask, filter, limit, cap)
  PROVE  ReaderHolds(reader')
<1> SUFFICES ASSUME NEW r, r = reader' PROVE ReaderHolds(r)
  OBVIOUS
<1>1. Len(runs) \in Nat
  BY LenProperties DEF ReadersInv, RunsInv
<1>2. /\ DOMAIN r = Fields /\ r.pc = "list" /\ r.ask = ask /\ r.filter = filter /\ r.cap = cap
      /\ r.began = Len(runs) /\ r.inspected = 0 /\ r.found = <<>> /\ r.target = 0 /\ r.events = <<>>
      /\ r.histories = <<>> /\ r.outcome = "none"
  BY DEF Begin, Idle, Fields
<1>3. FoundHolds(r) /\ IsList(r.events)
  BY <1>2, EmptyIsList DEF FoundHolds
<1>4. BaseHolds(r) /\ Walks(r)
  BY <1>1, <1>2, <1>3 DEF BaseHolds, Walks
<1> QED  BY <1>2, <1>4 DEF ReaderHolds

LEMMA BeginTargetReads ==
  ASSUME ReadersInv, NEW i \in DOMAIN runs, NEW ask \in {"state", "work"}, BeginTarget(ask, i)
  PROVE  ReaderHolds(reader')
<1> SUFFICES ASSUME NEW r, r = reader' PROVE ReaderHolds(r)
  OBVIOUS
<1>1. Len(runs) \in Nat /\ DOMAIN runs = 1 .. Len(runs)
  BY LenProperties DEF ReadersInv, RunsInv
<1>2. /\ DOMAIN r = Fields /\ r.pc = "describe" /\ r.ask = ask /\ r.filter = {} /\ r.target = i
      /\ r.began = Len(runs) /\ r.found = <<>> /\ r.events = <<>>
      /\ r.histories = <<>> /\ r.outcome = "none"
  BY DEF BeginTarget, Idle, Fields
<1>3. FoundHolds(r) /\ IsList(r.events)
  BY <1>2, EmptyIsList DEF FoundHolds
<1>4. BaseHolds(r)
  BY <1>1, <1>2, <1>3 DEF BaseHolds
<1> QED  BY <1>1, <1>2, <1>4 DEF ReaderHolds

\* A page of executions is listed.
LEMMA ListPageReads ==
  ASSUME ReadersInv, ListPage PROVE ReaderHolds(reader')
<1> DEFINE top == IF reader.inspected = 0 THEN Len(runs) ELSE reader.below - 1
           n == Min({ListPageSize, reader.cap - reader.inspected})
           m == Min({n, top})
           page == [k \in 1 .. m |-> top + 1 - k]
<1>1. /\ reader.pc = "list" /\ Walks(reader) /\ reader.inspected < reader.cap
      /\ reader.inspected = 0 => reader.found = <<>>
      /\ reader.inspected > 0 => reader.below \in 1 .. Len(runs) /\ SeenDownTo(reader, reader.below)
      /\ reader.cap \in Nat /\ reader.inspected \in Nat /\ reader.target = 0
  BY DEF ListPage, ReadersInv, ReaderHolds, Walks
<1>2. Len(runs) \in Nat /\ ListPageSize \in Nat \ {0}
  BY LenProperties, ReadAssumption DEF ReadersInv, RunsInv
<1>3. top \in 0 .. Len(runs)
  BY <1>1, <1>2
<1>4. SeenDownTo(reader, top + 1)
  <2>1. CASE reader.inspected = 0
    <3>1. ShownBy(reader) = {}
      BY <1>1, <2>1 DEF ShownBy
    <3>2. reader.began \in 0 .. Len(runs)
      BY <1>1 DEF Walks, BaseHolds
    <3>3. \A j \in 1 .. reader.began : ~(j >= top + 1)
      BY <1>2, <2>1, <3>2
    <3> QED  BY <3>1, <3>3 DEF SeenDownTo
  <2>2. CASE reader.inspected > 0
    <3>1. top + 1 = reader.below
      BY <1>1, <1>2, <2>2
    <3> QED  BY <1>1, <2>2, <3>1
  <2> QED  BY <1>1, <2>1, <2>2
<1>5. n \in Nat \ {0}
  <2> DEFINE sizes == {ListPageSize, reader.cap - reader.inspected}
  <2>1. sizes \in SUBSET (Nat \ {0}) /\ sizes # {}
    BY <1>1, <1>2
  <2> HIDE DEF sizes
  <2>2. Min(sizes) \in sizes
    BY <2>1, MinIsLeast
  <2> QED  BY <2>1, <2>2 DEF sizes
<1>6. reader' = IF page = <<>> THEN Walked(reader)
                ELSE [reader EXCEPT !.pc = "page", !.page = page, !.more = top > n,
                                    !.below = top + 1 - Len(page)]
  BY DEF ListPage
<1> HIDE DEF top, n
<1>7. m \in 0 .. top /\ (m = 0 => top = 0)
  <2> DEFINE sizes == {n, top}
  <2>1. sizes \in SUBSET Nat /\ sizes # {}
    BY <1>3, <1>5
  <2> HIDE DEF sizes
  <2>2. Min(sizes) \in sizes /\ \A y \in sizes : Min(sizes) <= y
    BY <2>1, MinIsLeast
  <2>3. m = Min(sizes)
    BY DEF sizes
  <2> HIDE DEF m
  <2> QED  BY <1>2, <1>3, <1>5, <2>2, <2>3 DEF sizes
<1> HIDE DEF m
<1>8. m \in Nat /\ IsList(page) /\ Len(page) = m /\ \A k \in 1 .. m : page[k] = top + 1 - k
  <2>1. m \in Nat
    BY <1>3, <1>7
  <2> QED  BY <2>1 DEF IsList
<1> HIDE DEF page
<1>9. CASE page = <<>>
  <2>1. NewestShown(reader)
    BY <1>1, <1>3, <1>4, SeenIsNewest, ShownAreRuns DEF Walks, ReadersInv
  <2> QED  BY <1>1, <1>6, <1>9, <2>1, WalkEnds
<1>10. CASE page # <<>>
  <2> SUFFICES ASSUME NEW r, r = [reader EXCEPT !.pc = "page", !.page = page, !.more = top > n,
                                                !.below = top + 1 - Len(page)]
               PROVE  ReaderHolds(r)
    BY <1>6, <1>10
  <2>1. /\ DOMAIN r = Fields /\ r.pc = "page" /\ r.page = page /\ r.below = top + 1 - m
        /\ r.filter = reader.filter /\ r.began = reader.began /\ r.target = reader.target
        /\ r.found = reader.found /\ r.events = reader.events /\ r.histories = reader.histories
        /\ r.ask = reader.ask /\ r.cap = reader.cap /\ r.inspected = reader.inspected
        /\ r.outcome = reader.outcome
    BY <1>1, <1>8 DEF Fields, Walks, BaseHolds
  <2>2. Walks(r) /\ BaseHolds(r)
    BY <1>1, <2>1 DEF Walks, BaseHolds, FoundHolds
  <2>3. SeenDownTo(r, top + 1)
    BY <1>4, <2>1 DEF SeenDownTo, ShownBy, Wanted
  <2>4. /\ r.below \in Nat \ {0} /\ r.below + Len(r.page) = top + 1 /\ top + 1 <= Len(runs) + 1
        /\ \A k \in 1 .. Len(r.page) : r.page[k] = r.below + Len(r.page) - k
    BY <1>2, <1>3, <1>7, <1>8, <2>1
  <2>5. PageHolds(r)
    <3>1. r.below + Len(r.page) <= Len(runs) + 1 /\ SeenDownTo(r, r.below + Len(r.page))
      BY <2>3, <2>4
    <3> QED  BY <1>8, <1>10, <2>1, <2>4, <3>1 DEF PageHolds
  <2> QED  BY <1>1, <2>1, <2>2, <2>5 DEF ReaderHolds, Walks
<1> QED  BY <1>9, <1>10

\* The next execution of the page is taken or passed.
LEMMA DescribeListedReads ==
  ASSUME ReadersInv, DescribeListed PROVE ReaderHolds(reader')
<1> DEFINE i == Head(reader.page)
           past == [reader EXCEPT !.page = Tail(@), !.inspected = @ + 1]
           kept == [past EXCEPT !.found = Append(@, Summary(i))]
           far == reader.below + Len(reader.page)
<1>1. reader.pc = "page" /\ Walks(reader) /\ PageHolds(reader) /\ RunsInv
  BY DEF DescribeListed, ReadersInv, ReaderHolds
<1>2. Len(runs) \in Nat /\ DOMAIN runs = 1 .. Len(runs)
  BY <1>1, LenProperties DEF RunsInv
<1>3. /\ IsList(reader.page) /\ reader.page # <<>> /\ reader.below \in Nat \ {0}
      /\ far <= Len(runs) + 1 /\ SeenDownTo(reader, far)
      /\ \A k \in 1 .. Len(reader.page) : reader.page[k] = far - k
  BY <1>1 DEF PageHolds
<1>4. PICK rest : rest = Tail(reader.page) /\ Shorter(reader.page, rest)
  BY <1>3, ListShrinks
<1>5. /\ i = far - 1 /\ far \in Nat /\ i \in DOMAIN runs /\ i \in Nat
      /\ IsList(rest) /\ Len(rest) = Len(reader.page) - 1 /\ Len(rest) \in Nat
      /\ reader.below + Len(rest) = i
      /\ \A k \in 1 .. Len(rest) : rest[k] = i - k
  <2>1. /\ Len(reader.page) \in Nat /\ Len(rest) = Len(reader.page) - 1 /\ Len(rest) \in Nat /\ IsList(rest)
        /\ i = reader.page[1] /\ 1 \in 1 .. Len(reader.page)
        /\ \A k \in 1 .. Len(rest) : rest[k] = reader.page[k + 1] /\ k + 1 \in 1 .. Len(reader.page)
    BY <1>4 DEF Shorter
  <2>2. far \in Nat /\ i = far - 1
    BY <1>3, <2>1
  <2>3. \A k \in 1 .. Len(rest) : rest[k] = far - (k + 1)
    BY <1>3, <2>1
  <2> HIDE DEF i
  <2> QED  BY <1>2, <1>3, <2>1, <2>2, <2>3
<1>6. reader' = IF ~(reader.filter = {} \/ runs[i].role \in reader.filter) THEN AfterPage(past)
                ELSE IF reader.ask = "state" THEN [past EXCEPT !.pc = "describe", !.target = i]
                ELSE IF Len(kept.found) >= reader.limit THEN Walked(kept)
                ELSE AfterPage(kept)
  BY DEF DescribeListed
<1> HIDE DEF i, far
<1>7. /\ DOMAIN past = Fields /\ past.pc = "page" /\ past.page = rest /\ past.inspected = reader.inspected + 1
      /\ past.filter = reader.filter /\ past.began = reader.began /\ past.target = 0
      /\ past.found = reader.found /\ past.events = reader.events /\ past.histories = <<>>
      /\ past.ask = reader.ask /\ past.cap = reader.cap /\ past.below = reader.below /\ past.outcome = "none"
  BY <1>1, <1>4 DEF Fields, Walks, BaseHolds
<1>8. Walks(past) /\ past.inspected > 0
  BY <1>1, <1>7 DEF Walks, BaseHolds, FoundHolds
<1> HIDE DEF past
\* A step further down the page.
<1>9. ASSUME NEW r, Walks(r), r.pc = "page", r.inspected > 0, r.page = rest, r.below = reader.below,
             SeenDownTo(r, i)
      PROVE  ReaderHolds(AfterPage(r))
  <2>1. CASE rest = <<>>
    <3>1. r.below = i
      <4>1. Len(rest) = 0
        BY <2>1, EmptyIsList
      <4>2. reader.below + 0 = i /\ reader.below \in Nat
        BY <1>3, <1>5, <4>1
      <4>3. reader.below = i
        BY <4>2
      <4> QED  BY <1>9, <4>3
    <3> QED  BY <1>1, <1>2, <1>5, <1>9, <2>1, <3>1, PageGoesOn
  <2>2. CASE rest # <<>>
    <3>1. r.below + Len(r.page) = i /\ i <= Len(runs) + 1
      BY <1>2, <1>3, <1>5, <1>9
    <3>2. /\ IsList(r.page) /\ r.page # <<>> /\ r.below \in Nat \ {0}
          /\ r.below + Len(r.page) <= Len(runs) + 1 /\ SeenDownTo(r, r.below + Len(r.page))
      <4>1. IsList(r.page) /\ r.page # <<>>
        BY <1>5, <1>9, <2>2
      <4>2. r.below \in Nat \ {0}
        BY <1>3, <1>9
      <4> QED  BY <1>9, <3>1, <4>1, <4>2
    <3>3. \A k \in 1 .. Len(r.page) : r.page[k] = r.below + Len(r.page) - k
      <4> SUFFICES ASSUME NEW k \in 1 .. Len(r.page) PROVE r.page[k] = r.below + Len(r.page) - k
        OBVIOUS
      <4>1. r.page = rest
        BY <1>9
      <4>2. r.page[k] = i - k
        BY <1>5, <4>1
      <4>3. r.below \in Nat /\ Len(r.page) \in Nat /\ k \in Nat /\ i \in Nat
        BY <1>3, <1>5, <1>9, <4>1
      <4> QED  BY <3>1, <4>2, <4>3
    <3>4. PageHolds(r)
      BY <3>2, <3>3 DEF PageHolds
    <3> QED  BY <1>1, <1>9, <2>2, <3>4, PageGoesOn
  <2> QED  BY <2>1, <2>2
<1>10. CASE ~Wanted(reader, i)
  <2>1. ShownBy(past) = ShownBy(reader)
    BY <1>1, <1>7 DEF ShownBy, Walks
  <2>2. \A j : Wanted(past, j) <=> Wanted(reader, j)
    BY <1>7 DEF Wanted
  <2>3. \A s \in ShownBy(reader) : s \in Nat
    BY <1>1, ShownAreRuns DEF Walks
  <2>4. SeenDownTo(past, i)
    <3>1. \A s \in ShownBy(past) : Wanted(past, s) /\ s >= i
      BY <1>3, <1>5, <2>1, <2>2, <2>3 DEF SeenDownTo
    <3>2. ASSUME NEW j \in 1 .. past.began, j >= i, Wanted(past, j) PROVE j \in ShownBy(past)
      <4>1. j # i
        BY <1>10, <2>2, <3>2
      <4>2. j >= far /\ j \in 1 .. reader.began
        BY <1>5, <1>7, <3>2, <4>1
      <4> QED  BY <1>3, <2>1, <2>2, <3>2, <4>2 DEF SeenDownTo
    <3> QED  BY <3>1, <3>2 DEF SeenDownTo
  <2>5. reader' = AfterPage(past)
    BY <1>6, <1>10 DEF Wanted
  <2> QED  BY <1>7, <1>8, <1>9, <2>4, <2>5
<1>11. CASE Wanted(reader, i) /\ reader.ask = "state"
  <2> SUFFICES ASSUME NEW r, r = [past EXCEPT !.pc = "describe", !.target = i] PROVE ReaderHolds(r)
    BY <1>6, <1>11 DEF Wanted
  <2>1. /\ DOMAIN r = Fields /\ r.pc = "describe" /\ r.target = i /\ r.filter = reader.filter
        /\ r.began = reader.began /\ r.found = reader.found /\ r.events = reader.events
        /\ r.histories = <<>> /\ r.ask = "state" /\ r.outcome = "none"
    BY <1>7, <1>11 DEF Fields
  <2>2. reader.found = <<>> /\ reader.target = 0
    BY <1>1, <1>11 DEF Walks
  <2>3. ShownBy(reader) = {}
    BY <2>2 DEF ShownBy
  <2>4. ShownBy(r) = {i}
    BY <1>2, <1>5, <2>1, <2>2 DEF ShownBy
  <2>5. NewestShown(r)
    <3>1. \A j \in 1 .. reader.began : j > i /\ Wanted(reader, j) => FALSE
      <4>1. \A j \in 1 .. reader.began : j > i => j >= far
        BY <1>5
      <4> QED  BY <1>3, <2>3, <4>1 DEF SeenDownTo
    <3> QED  BY <1>11, <2>1, <2>4, <3>1 DEF NewestShown, Wanted
  <2>6. BaseHolds(r)
    BY <1>1, <1>2, <1>5, <2>1 DEF Walks, BaseHolds, FoundHolds
  <2> QED  BY <1>2, <1>5, <2>1, <2>5, <2>6 DEF ReaderHolds
<1>12. CASE Wanted(reader, i) /\ reader.ask # "state"
  <2>1. PICK more : more = Append(reader.found, Summary(i)) /\ Longer(reader.found, Summary(i), more)
    BY <1>1, ListGrows DEF Walks, BaseHolds, FoundHolds
  <2>2. /\ DOMAIN kept = Fields /\ kept.pc = "page" /\ kept.page = rest /\ kept.inspected = past.inspected
        /\ kept.filter = reader.filter /\ kept.began = reader.began /\ kept.target = 0
        /\ kept.found = more /\ kept.events = reader.events /\ kept.histories = <<>>
        /\ kept.ask = reader.ask /\ kept.cap = reader.cap /\ kept.below = reader.below
        /\ kept.outcome = "none"
    BY <1>7, <2>1 DEF Fields
  <2> HIDE DEF kept
  <2>3. /\ IsList(more) /\ DOMAIN more = 1 .. Len(reader.found) + 1 /\ DOMAIN reader.found = 1 .. Len(reader.found)
        /\ Len(reader.found) \in Nat
        /\ more[Len(reader.found) + 1] = Summary(i)
        /\ \A k \in 1 .. Len(reader.found) : more[k] = reader.found[k]
    BY <1>1, <2>1 DEF Longer, Walks, BaseHolds, FoundHolds, IsList
  <2>4. \A k \in DOMAIN more : more[k] = Summary(i) \/ (k \in DOMAIN reader.found /\ more[k] = reader.found[k])
    BY <2>3
  <2>5. ShownBy(kept) = ShownBy(reader) \cup {i}
    <3>1. {more[k].run : k \in DOMAIN more} = {reader.found[k].run : k \in DOMAIN reader.found} \cup {i}
      <4>1. Summary(i).run = i
        BY DEF Summary
      <4>2. \A k \in DOMAIN reader.found : k \in DOMAIN more /\ more[k] = reader.found[k]
        BY <2>3
      <4>3. Len(reader.found) + 1 \in DOMAIN more
        BY <2>3
      <4> QED  BY <2>3, <2>4, <4>1, <4>2, <4>3
    <3> QED  BY <1>1, <2>2, <3>1 DEF ShownBy, Walks
  <2>6. Walks(kept)
    <3>1. \A k \in DOMAIN more : /\ more[k].run \in DOMAIN runs
                                 /\ more[k].status \in FailedStatuses => RunStatus(more[k].run) = more[k].status
      BY <1>1, <1>5, <2>4 DEF Walks, BaseHolds, FoundHolds, Summary
    <3>2. FoundHolds(kept)
      BY <2>2, <2>3, <3>1, EmptyIsList DEF FoundHolds
    <3> QED  BY <1>1, <1>7, <1>8, <1>12, <2>2, <3>2 DEF Walks, BaseHolds
  <2>7. SeenDownTo(kept, i)
    <3>1. \A j : Wanted(kept, j) <=> Wanted(reader, j)
      BY <2>2 DEF Wanted
    <3>2. \A s \in ShownBy(reader) : s \in Nat
      BY <1>1, ShownAreRuns DEF Walks
    <3>3. \A s \in ShownBy(kept) : Wanted(kept, s) /\ s >= i
      BY <1>3, <1>5, <1>12, <2>5, <3>1, <3>2 DEF SeenDownTo
    <3>4. ASSUME NEW j \in 1 .. kept.began, j >= i, Wanted(kept, j) PROVE j \in ShownBy(kept)
      <4>1. CASE j = i
        BY <2>5, <4>1
      <4>2. CASE j # i
        <5>1. j >= far /\ j \in 1 .. reader.began
          BY <1>5, <2>2, <3>4, <4>2
        <5> QED  BY <1>3, <2>5, <3>1, <3>4, <5>1 DEF SeenDownTo
      <4> QED  BY <4>1, <4>2
    <3> QED  BY <3>3, <3>4 DEF SeenDownTo
  <2>8. ReaderHolds(AfterPage(kept))
    BY <1>8, <1>9, <2>2, <2>6, <2>7
  <2>9. ReaderHolds(Walked(kept))
    <3>1. NewestShown(kept)
      BY <1>1, <1>5, <2>6, <2>7, SeenIsNewest, ShownAreRuns DEF Walks
    <3> QED  BY <2>6, <3>1, WalkEnds
  <2> QED  BY <1>6, <1>12, <2>8, <2>9 DEF Wanted
<1> QED  BY <1>10, <1>11, <1>12

\* An execution is described, and its history read page by page.
LEMMA DescribeReads ==
  ASSUME ReadersInv, Describe PROVE ReaderHolds(reader')
<1> SUFFICES ASSUME NEW r, r = reader' PROVE ReaderHolds(r)
  OBVIOUS
<1>1. reader.pc = "describe" /\ ReaderHolds(reader) /\ BaseHolds(reader) /\ DOMAIN reader = Fields
  BY DEF Describe, ReadersInv, ReaderHolds, BaseHolds
<1>2. /\ DOMAIN r = Fields /\ r.pc = "history" /\ r.status = RunStatus(reader.target)
      /\ r.target = reader.target /\ r.filter = reader.filter /\ r.began = reader.began
      /\ r.found = reader.found /\ r.events = reader.events /\ r.histories = reader.histories
      /\ r.ask = reader.ask /\ r.outcome = reader.outcome
  BY <1>1 DEF Describe, Fields
<1>3. BaseHolds(r)
  BY <1>1, <1>2 DEF BaseHolds, FoundHolds
<1>4. r.filter # {} => NewestShown(r)
  BY <1>1, <1>2, ShownAlike DEF ReaderHolds
<1>5. StatusHolds(r) /\ r.target # 0 /\ r.ask \in {"state", "work"} /\ r.outcome = "none"
  BY <1>1, <1>2 DEF ReaderHolds, StatusHolds
<1> QED  BY <1>2, <1>3, <1>4, <1>5 DEF ReaderHolds

LEMMA ReadHistoryPageReads ==
  ASSUME ReadersInv, ReadHistoryPage PROVE ReaderHolds(reader')
<1> DEFINE all  == History(reader.target)
           upto == Min({Len(reader.events) + HistoryPageSize, Len(all)})
           read == [reader EXCEPT !.events = SubSeq(all, 1, upto)]
<1>1. /\ reader.pc = "history" /\ ReaderHolds(reader) /\ BaseHolds(reader) /\ DOMAIN reader = Fields
      /\ StatusHolds(reader) /\ reader.target # 0 /\ reader.ask \in {"state", "work"}
      /\ reader.filter # {} => NewestShown(reader)
      /\ reader.outcome = "none" /\ RunsInv
  BY DEF ReadHistoryPage, ReadersInv, ReaderHolds, BaseHolds
<1>2. reader.target \in DOMAIN runs
  <2>1. DOMAIN runs = 1 .. Len(runs) /\ Len(runs) \in Nat
    BY <1>1, LenProperties DEF RunsInv
  <2> QED  BY <1>1, <2>1 DEF BaseHolds
<1>3. IsHistory(all)
  BY <1>1, <1>2, RunShows
<1>4. reader' = IF upto < Len(all) THEN read ELSE Projected(read)
  BY DEF ReadHistoryPage
<1> HIDE DEF all
<1>5. Len(all) \in Nat /\ upto \in 0 .. Len(all)
  <2> DEFINE sizes == {Len(reader.events) + HistoryPageSize, Len(all)}
  <2>1. Len(all) \in Nat /\ Len(reader.events) \in Nat /\ HistoryPageSize \in Nat
    BY <1>1, <1>3, ReadAssumption DEF IsHistory, IsList, BaseHolds
  <2>2. sizes \in SUBSET Nat /\ sizes # {}
    BY <2>1
  <2>3. upto = Min(sizes) /\ Len(all) \in sizes
    OBVIOUS
  <2> HIDE DEF sizes, upto
  <2>4. upto \in sizes /\ upto <= Len(all)
    BY <2>2, <2>3, MinIsLeast
  <2> QED  BY <2>1, <2>2, <2>4
<1> HIDE DEF upto
<1>6. PICK es : es = SubSeq(all, 1, upto) /\ IsList(es) /\ (upto = Len(all) => es = all)
  <2>1. IsList(SubSeq(all, 1, upto))
    BY <1>3, <1>5, HistoryIsPrefix DEF IsHistory
  <2>2. SubSeq(all, 1, Len(all)) = all
    <3>1. PICK S : all \in Seq(S)
      BY <1>3, ListIsSeq DEF IsHistory
    <3> QED  BY <3>1, SubSeqFull
  <2> QED  BY <2>1, <2>2
<1>7. /\ DOMAIN read = Fields /\ read.pc = "history" /\ read.status = reader.status
      /\ read.target = reader.target /\ read.filter = reader.filter /\ read.began = reader.began
      /\ read.found = reader.found /\ read.events = es /\ read.histories = reader.histories
      /\ read.ask = reader.ask /\ read.outcome = "none"
  BY <1>1, <1>6 DEF Fields
<1> HIDE DEF read
<1>8. /\ BaseHolds(read) /\ StatusHolds(read)
      /\ read.filter # {} => NewestShown(read)
  <2>1. BaseHolds(read) /\ StatusHolds(read)
    BY <1>1, <1>6, <1>7 DEF BaseHolds, FoundHolds, StatusHolds
  <2>2. read.filter # {} => NewestShown(read)
    BY <1>1, <1>7, ShownAlike
  <2> QED  BY <2>1, <2>2
<1>9. CASE upto < Len(all)
  BY <1>1, <1>4, <1>7, <1>8, <1>9 DEF ReaderHolds
<1>10. CASE upto = Len(all)
  <2> SUFFICES ASSUME NEW r, r = Projected(read) PROVE ReaderHolds(r)
    BY <1>4, <1>5, <1>10
  <2>1. /\ DOMAIN r = Fields /\ r.pc = "done" /\ r.status = reader.status /\ r.outcome = reader.ask
        /\ r.target = reader.target /\ r.filter = reader.filter /\ r.began = reader.began
        /\ r.found = reader.found /\ r.events = all /\ r.histories = reader.histories
        /\ r.failing = IF reader.status = "FAILED" THEN FailingState(all) ELSE "none"
        /\ r.work = ClassifyWork(reader.status, EnteredStates(all))
    BY <1>6, <1>7, <1>10 DEF Projected, Fields
  <2>2. /\ BaseHolds(r) /\ StatusHolds(r)
        /\ r.filter # {} => NewestShown(r)
    <3>1. BaseHolds(r) /\ StatusHolds(r)
      BY <1>1, <1>3, <2>1 DEF BaseHolds, FoundHolds, StatusHolds, IsHistory
    <3>2. r.filter # {} => NewestShown(r)
      BY <1>1, <2>1, ShownAlike
    <3> QED  BY <3>1, <3>2
  <2>3. TellsOf(r)
    <3>1. \A states : ClassifyWork("RUNNING", states) = "in_flight"
      BY DEF ClassifyWork, FailedStatuses
    <3> QED  BY <2>1, <3>1 DEF TellsOf, all
  <2> QED  BY <1>1, <2>1, <2>2, <2>3 DEF ReaderHolds
<1> QED  BY <1>5, <1>9, <1>10

\* The histories of a window are read, and the window is built of them.
LEMMA ReadHistoriesReads ==
  ASSUME ReadersInv, ReadHistories PROVE ReaderHolds(reader')
<1> DEFINE left == {k \in DOMAIN reader.found : reader.found[k].run \notin DOMAIN reader.histories}
           i    == reader.found[Max(left)].run
           window == BuildReliabilityWindow(reader.found, reader.histories)
<1>1. /\ reader.pc = "histories" /\ ReaderHolds(reader) /\ BaseHolds(reader) /\ DOMAIN reader = Fields
      /\ reader.filter # {} => NewestShown(reader)
      /\ reader.outcome = "none" /\ FoundHolds(reader)
  BY DEF ReadHistories, ReadersInv, ReaderHolds, BaseHolds
<1>2. reader' = IF left = {} THEN [reader EXCEPT !.pc = "done", !.outcome = "window", !.window = window,
                                          !.streak = CleanStreak(window), !.looping = Looping(window)]
                ELSE [reader EXCEPT !.histories = [j \in DOMAIN @ \cup {i} |-> IF j = i THEN History(i) ELSE @[j]]]
  BY DEF ReadHistories
<1> HIDE DEF window
<1>3. CASE left = {}
  <2> SUFFICES ASSUME NEW r, r = [reader EXCEPT !.pc = "done", !.outcome = "window", !.window = window,
                                          !.streak = CleanStreak(window), !.looping = Looping(window)]
               PROVE  ReaderHolds(r)
    BY <1>2, <1>3
  <2>1. /\ DOMAIN r = Fields /\ r.pc = "done" /\ r.outcome = "window" /\ r.window = window
        /\ r.target = reader.target /\ r.filter = reader.filter /\ r.began = reader.began
        /\ r.found = reader.found /\ r.events = reader.events /\ r.histories = reader.histories
    BY <1>1 DEF Fields
  <2>2. /\ BaseHolds(r)
        /\ r.filter # {} => NewestShown(r)
    <3>1. BaseHolds(r)
      BY <1>1, <2>1 DEF BaseHolds, FoundHolds
    <3>2. r.filter # {} => NewestShown(r)
      BY <1>1, <2>1, ShownAlike
    <3> QED  BY <3>1, <3>2
  <2>3. WindowHolds(r)
    BY <1>3, <2>1 DEF WindowHolds, window
  <2> QED  BY <2>1, <2>2, <2>3 DEF ReaderHolds
<1>4. CASE left # {}
  <2> HIDE DEF i
  <2> SUFFICES ASSUME NEW r, r = [reader EXCEPT !.histories =
                                   [j \in DOMAIN @ \cup {i} |-> IF j = i THEN History(i) ELSE @[j]]]
               PROVE  ReaderHolds(r)
    BY <1>2, <1>4
  <2>1. /\ DOMAIN r = Fields /\ r.pc = "histories" /\ r.outcome = "none"
        /\ r.target = reader.target /\ r.filter = reader.filter /\ r.began = reader.began
        /\ r.found = reader.found /\ r.events = reader.events
        /\ r.histories = [j \in DOMAIN reader.histories \cup {i} |->
                             IF j = i THEN History(i) ELSE reader.histories[j]]
    BY <1>1 DEF Fields
  <2>2. \A j \in DOMAIN r.histories : r.histories[j] = History(j)
                                      \/ (j \in DOMAIN reader.histories /\ r.histories[j] = reader.histories[j])
    BY <2>1
  <2>3. FoundHolds(r)
    BY <1>1, <2>1, <2>2 DEF FoundHolds
  <2>4. /\ BaseHolds(r)
        /\ r.filter # {} => NewestShown(r)
    <3>1. BaseHolds(r)
      BY <1>1, <2>1, <2>3 DEF BaseHolds
    <3>2. r.filter # {} => NewestShown(r)
      BY <1>1, <2>1, ShownAlike
    <3> QED  BY <3>1, <3>2
  <2> QED  BY <2>1, <2>4 DEF ReaderHolds
<1> QED  BY <1>3, <1>4

\* A reader that rests, and one whose request failed.
LEMMA RestingReads ==
  ASSUME RunsInv, NEW r, DOMAIN r = Fields, r.pc \in {"idle", "done"}, r.outcome \in {"none", "error"},
         r.pc = "idle" => r.outcome = "none",
         r.filter = {}, r.began = 0, r.target = 0, r.found = <<>>, r.events = <<>>
  PROVE  ReaderHolds(r)
<1>1. Len(runs) \in Nat
  BY LenProperties DEF RunsInv
<1>2. FoundHolds(r) /\ IsList(r.events)
  BY EmptyIsList DEF FoundHolds
<1>3. BaseHolds(r)
  BY <1>1, <1>2 DEF BaseHolds
<1> QED  BY <1>3 DEF ReaderHolds

LEMMA ReaderStays ==
  ASSUME ReadersInv, Executes PROVE ReadersInv'
<1>1. /\ RunsInv /\ RunsInv' /\ reader' = reader /\ Len(runs) <= Len(runs') /\ \A i \in DOMAIN runs : GoesOn(i)
      /\ BaseHolds(reader) /\ FoundHolds(reader) /\ ReaderHolds(reader)
  BY ExecutionsGoOn DEF ReadersInv, ReaderHolds, BaseHolds
<1>2. /\ Len(runs) \in Nat /\ DOMAIN runs = 1 .. Len(runs)
      /\ Len(runs') \in Nat /\ DOMAIN runs' = 1 .. Len(runs')
  BY <1>1, LenProperties DEF RunsInv
<1> SUFFICES ASSUME NEW r, r = reader, ReaderHolds(r), FoundHolds(r), BaseHolds(r) PROVE ReaderHolds(r)'
  BY <1>1 DEF ReadersInv
<1>3. /\ r.began \in 0 .. Len(runs) /\ r.target \in 0 .. Len(runs)
      /\ \A i \in ShownBy(r) : i \in DOMAIN runs
      /\ \A j \in 1 .. r.began : j \in DOMAIN runs
  BY <1>1, <1>2, ShownAreRuns DEF BaseHolds
<1>4. \A i \in DOMAIN runs : Wanted(r, i)' <=> Wanted(r, i)
  BY <1>1 DEF Wanted, GoesOn
<1>5. ShownBy(r)' = ShownBy(r)
  BY DEF ShownBy
<1>6. FoundHolds(r)'
  <2>1. ASSUME NEW k \in DOMAIN r.found, r.found[k].status \in FailedStatuses
        PROVE  LET i == r.found[k].run IN
               /\ RunStatus(i)' = r.found[k].status
               /\ i \in DOMAIN r.histories => r.histories[i] = History(i)'
    <3> DEFINE i == r.found[k].run
    <3>1. /\ i \in DOMAIN runs /\ RunStatus(i) = r.found[k].status
          /\ i \in DOMAIN r.histories => r.histories[i] = History(i)
      BY <2>1 DEF FoundHolds
    <3>2. GoesOn(i) /\ RunStatus(i) # "RUNNING"
      BY <1>1, <2>1, <3>1 DEF FailedStatuses
    <3> QED  BY <3>1, <3>2, EndedStays
  <2>2. \A k \in DOMAIN r.found : r.found[k].run \in DOMAIN runs'
    BY <1>1 DEF FoundHolds, GoesOn
  <2> QED  BY <2>1, <2>2 DEF FoundHolds
<1>7. BaseHolds(r)'
  BY <1>1, <1>2, <1>3, <1>6 DEF BaseHolds
<1>8. Walks(r) => Walks(r)'
  BY <1>7 DEF Walks
<1>9. \A f : SeenDownTo(r, f) => SeenDownTo(r, f)'
  BY <1>3, <1>4, <1>5 DEF SeenDownTo
<1>10. NewestShown(r) => NewestShown(r)'
  BY <1>3, <1>4, <1>5 DEF NewestShown
<1>11. PageHolds(r) => PageHolds(r)'
  <2>1. ASSUME PageHolds(r) PROVE r.below + Len(r.page) <= Len(runs') + 1
    BY <1>1, <1>2, <2>1 DEF PageHolds, IsList
  <2> QED  BY <1>9, <2>1 DEF PageHolds
<1>12. StatusHolds(r) => StatusHolds(r)' /\ (TellsOf(r) => TellsOf(r)')
  <2> SUFFICES ASSUME StatusHolds(r) PROVE StatusHolds(r)' /\ (TellsOf(r) => TellsOf(r)')
    OBVIOUS
  <2>1. r.target \in DOMAIN runs
    BY <1>2, <1>3 DEF StatusHolds
  <2>2. CASE r.status = "RUNNING"
    BY <2>2 DEF StatusHolds, TellsOf
  <2>3. CASE r.status # "RUNNING"
    <3>1. RunStatus(r.target)' = RunStatus(r.target) /\ History(r.target)' = History(r.target)
      BY <1>1, <2>1, <2>3, EndedStays DEF StatusHolds
    <3> QED  BY <3>1 DEF StatusHolds, TellsOf
  <2> QED  BY <2>2, <2>3
<1>13. WindowHolds(r) => WindowHolds(r)'
  <2>1. \A k \in DOMAIN r.found : CycleKeyOf(r.found[k].run)' = CycleKeyOf(r.found[k].run)
    <3>1. \A i \in DOMAIN runs : CycleKeyOf(i)' = CycleKeyOf(i)
      BY <1>1 DEF CycleKeyOf, GoesOn, RunDate, ExplicitRunDate
    <3> QED  BY <3>1 DEF FoundHolds
  <2>2. BuildReliabilityWindow(r.found, r.histories)' = BuildReliabilityWindow(r.found, r.histories)
    BY <2>1, WindowStays
  <2> QED  BY <2>2 DEF WindowHolds
<1>14. r.below \in 1 .. Len(runs) => r.below \in 1 .. Len(runs')
  BY <1>1, <1>2
<1> QED  BY <1>7, <1>8, <1>9, <1>10, <1>11, <1>12, <1>13, <1>14 DEF ReaderHolds

-----------------------------------------------------------------------------
(* What the readers' answers are of, in every state.                         *)

\* Each way of asking.
LEMMA AskingReads ==
  ASSUME ReadersInv,
         \/ \E role \in CadenceRoles : BeginState(role)
         \/ \E filter \in {{}} \cup {CadenceFilter(r) : r \in CadenceRoles} : BeginRecent(filter)
         \/ BeginLatest \/ BeginWindow
  PROVE  ReaderHolds(reader')
<1>1. /\ SearchLimit \in Nat \ {0} /\ ScanLimit \in Nat \ {0} /\ RecentLimit \in Nat \ {0}
      /\ 1 \in Nat \ {0}
  BY ReadAssumption
<1>2. \A role \in CadenceRoles : CadenceFilter(role) \subseteq ContributingRoles
  BY DEF CadenceFilter, ContributingRoles
<1>3. ASSUME NEW role \in CadenceRoles, BeginState(role) PROVE ReaderHolds(reader')
  <2>1. Begin("state", CadenceFilter(role), 1, SearchLimit)
    BY <1>3 DEF BeginState
  <2> QED  BY <1>1, <1>2, <2>1, BeginReads
<1>4. ASSUME BeginLatest PROVE ReaderHolds(reader')
  <2>1. Begin("state", {}, 1, 1)
    BY <1>4 DEF BeginLatest
  <2> QED  BY <1>1, <2>1, BeginReads
<1>5. ASSUME BeginWindow PROVE ReaderHolds(reader')
  <2>1. Begin("window", {}, ScanLimit, ScanLimit)
    BY <1>5 DEF BeginWindow
  <2> QED  BY <1>1, <2>1, BeginReads
<1>6. ASSUME NEW filter \in {{}} \cup {CadenceFilter(r) : r \in CadenceRoles}, BeginRecent(filter)
      PROVE  ReaderHolds(reader')
  <2> DEFINE most == {RecentLimit * 5, SearchLimit}
             cap  == IF filter = {} THEN RecentLimit ELSE Min(most)
  <2>1. Begin("recent", filter, RecentLimit, cap)
    BY <1>6 DEF BeginRecent
  <2>2. filter \subseteq ContributingRoles
    BY <1>2, <1>6
  <2>3. most \in SUBSET (Nat \ {0}) /\ most # {}
    <3>1. RecentLimit * 5 \in Nat \ {0}
      BY <1>1
    <3> QED  BY <1>1, <3>1
  <2> HIDE DEF most
  <2>4. Min(most) \in Nat \ {0}
    BY <2>3, MinIsLeast
  <2>5. cap \in Nat \ {0}
    BY <1>1, <2>4
  <2> HIDE DEF cap
  <2> QED  BY <2>1, <2>2, <2>5, BeginReads
<1> QED  BY <1>3, <1>4, <1>5, <1>6

\* Every step keeps what the readers have.
LEMMA ReadersKeep ==
  ASSUME ReadersInv, [ReadNext]_readVars PROVE ReadersInv'
<1>1. ReaderHolds(reader) /\ RunsInv
  BY DEF ReadersInv
<1>2. ASSUME runs' = runs, ReaderHolds(reader') PROVE ReadersInv'
  BY <1>1, <1>2, ReaderMoves DEF ReadersInv, RunsInv, Script
<1>3. ASSUME reader' = [Idle EXCEPT !.pc = "done", !.outcome = "error"] \/ reader' = Idle
      PROVE  ReaderHolds(reader')
  <2> SUFFICES ASSUME NEW r, r = reader' PROVE ReaderHolds(r)
    OBVIOUS
  <2>1. /\ DOMAIN r = Fields /\ r.pc \in {"idle", "done"} /\ r.outcome \in {"none", "error"}
        /\ r.pc = "idle" => r.outcome = "none"
        /\ r.filter = {} /\ r.began = 0 /\ r.target = 0 /\ r.found = <<>> /\ r.events = <<>>
    <3>1. CASE r = Idle
      BY <3>1 DEF Idle, Fields
    <3>2. CASE r = [Idle EXCEPT !.pc = "done", !.outcome = "error"]
      BY <3>2 DEF Idle, Fields
    <3> QED  BY <1>3, <3>1, <3>2
  <2> QED  BY <1>1, <2>1, RestingReads
<1>4. CASE Executes
  BY <1>4, ReaderStays
<1>5. CASE \/ \E role \in CadenceRoles : BeginState(role)
           \/ \E filter \in {{}} \cup {CadenceFilter(r) : r \in CadenceRoles} : BeginRecent(filter)
           \/ BeginLatest \/ BeginWindow
  <2>1. runs' = runs
    BY <1>5 DEF BeginState, BeginRecent, BeginLatest, BeginWindow, Begin
  <2> QED  BY <1>2, <1>5, <2>1, AskingReads
<1>6. CASE \E i \in DOMAIN runs, ask \in {"state", "work"} : BeginTarget(ask, i)
  BY <1>2, <1>6, BeginTargetReads DEF BeginTarget
<1>7. CASE ListPage
  BY <1>2, <1>7, ListPageReads DEF ListPage
<1>8. CASE DescribeListed
  BY <1>2, <1>8, DescribeListedReads DEF DescribeListed
<1>9. CASE Describe
  BY <1>2, <1>9, DescribeReads DEF Describe
<1>10. CASE ReadHistoryPage
  BY <1>2, <1>10, ReadHistoryPageReads DEF ReadHistoryPage
<1>11. CASE ReadHistories
  BY <1>2, <1>11, ReadHistoriesReads DEF ReadHistories
<1>12. CASE RequestFails
  BY <1>2, <1>3, <1>12 DEF RequestFails
<1>13. CASE Leave
  BY <1>2, <1>3, <1>13 DEF Leave
<1>14. CASE UNCHANGED readVars
  BY <1>1, <1>2, <1>14 DEF readVars
<1> QED  BY <1>4, <1>5, <1>6, <1>7, <1>8, <1>9, <1>10, <1>11, <1>12, <1>13, <1>14 DEF ReadNext, Executes

LEMMA ReadersHold == ReadSpec => []ReadersInv
<1>1. ASSUME ReadInit PROVE ReadersInv
  <2>1. RunsInv
    BY <1>1 DEF ReadInit, RunsInv
  <2>2. ReaderHolds(Idle)
    <3> SUFFICES ASSUME NEW r, r = Idle PROVE ReaderHolds(r)
      OBVIOUS
    <3>1. /\ DOMAIN r = Fields /\ r.pc = "idle" /\ r.outcome = "none"
          /\ r.filter = {} /\ r.began = 0 /\ r.target = 0 /\ r.found = <<>> /\ r.events = <<>>
      BY DEF Idle, Fields
    <3> QED  BY <2>1, <3>1, RestingReads
  <2> QED  BY <1>1, <2>1, <2>2 DEF ReadInit, ReadersInv
<1> QED  BY <1>1, ReadersKeep, PTL DEF ReadSpec

\* A page that shows a cadence's state, or lists its runs, shows runs of that cadence and of its
\* recoveries only, and none that had started is passed over for an older one, however many pages
\* the walk takes and whatever starts while it walks (cadence_filter, _find_execution_matching_role).
THEOREM CadenceIsShownAlways == ReadSpec => []CadenceIsShown
<1>1. ASSUME ReadersInv PROVE CadenceIsShown
  <2> SUFFICES ASSUME reader.pc = "done", reader.filter # {}
               PROVE  /\ \A i \in Shown : runs[i].role \in ContributingRoles
                      /\ \A i \in Shown, j \in 1 .. reader.began :
                            j > i /\ runs[j].role \in reader.filter => j \in Shown
    BY DEF CadenceIsShown
  <2>1. NewestShown(reader) /\ reader.filter \subseteq ContributingRoles
    BY <1>1 DEF ReadersInv, ReaderHolds, BaseHolds
  <2>2. Shown = ShownBy(reader)
    BY DEF Shown, ShownBy
  <2> QED  BY <2>1, <2>2 DEF NewestShown, Wanted
<1> QED  BY <1>1, ReadersHold, PTL

\* What the verdicts on the work of an execution that has ended mean.
LEMMA VerdictIsOfWork ==
  ASSUME NEW end, end # "RUNNING", NEW states, IsList(states)
  PROVE  LET did   == NamesOf(states)
             whole == Spine \subseteq did \cup Excused \cup UNION {ServedBy[m] : m \in DOMAIN ServedBy \cap did}
             work  == ClassifyWork(end, states)
         IN /\ work = "full_run" => whole
            /\ work \in {"partial_success", "vacuous_success"} => ~whole \/ Spine \cap did = {}
            /\ work = "declared_skip" => did \cap SkipTerminals # {}
            /\ work # "in_flight"
<1> DEFINE did    == NamesOf(states)
           whole  == Spine \subseteq did \cup Excused \cup UNION {ServedBy[m] : m \in DOMAIN ServedBy \cap did}
           work   == ClassifyWork(end, states)
           skips  == states # <<>> /\ states[Len(states)] \in SkipTerminals
<1>1. CASE end \in FailedStatuses
  <2>1. work = "execution_failed"
    BY <1>1 DEF ClassifyWork, FailedStatuses
  <2> QED  BY <2>1
<1>2. CASE end \notin FailedStatuses /\ skips
  <2>1. work = "declared_skip"
    BY <1>2 DEF ClassifyWork
  <2>2. states[Len(states)] \in did
    <3>1. Len(states) \in DOMAIN states
      BY <1>2, ListShrinks DEF Shorter, IsList
    <3> QED  BY <3>1 DEF NamesOf
  <2> QED  BY <1>2, <2>1, <2>2
<1>3. CASE end \notin FailedStatuses /\ ~skips
  <2>1. work = IF Spine \cap did = {} THEN "vacuous_success"
               ELSE IF whole THEN "full_run" ELSE "partial_success"
    BY <1>3 DEF ClassifyWork
  <2> HIDE DEF did, whole, work
  <2>2. /\ work = "full_run" => whole
        /\ work \in {"partial_success", "vacuous_success"} => ~whole \/ Spine \cap did = {}
        /\ work # "declared_skip" /\ work # "in_flight"
    BY <2>1
  <2> QED  BY <2>2 DEF did, whole, work
<1> QED  BY <1>1, <1>2, <1>3

\* What a reader is told of an execution is so, whenever it is told and however the execution goes
\* on between the requests: the stage named as the culprit is the one whose task failed first, and
\* the verdict on its work is that of all it did (_failing_state_from_history, classify_work).
THEOREM ReadingsAreTrue == ReadSpec => []ReadingIsTrue
<1>1. ASSUME ReadersInv, reader.outcome \in {"state", "work"}
      PROVE  /\ StatusHolds(reader) /\ TellsOf(reader)
             /\ reader.target \in DOMAIN runs /\ IsHistory(History(reader.target))
  <2>1. StatusHolds(reader) /\ TellsOf(reader) /\ RunsInv /\ reader.target \in 0 .. Len(runs)
    BY <1>1 DEF ReadersInv, ReaderHolds, BaseHolds
  <2>2. Len(runs) \in Nat /\ DOMAIN runs = 1 .. Len(runs)
    BY <2>1, LenProperties DEF RunsInv
  <2>3. reader.target \in DOMAIN runs
    BY <2>1, <2>2 DEF StatusHolds
  <2> QED  BY <2>1, <2>3, RunShows
<1>2. ASSUME ReadersInv PROVE FailureIsNamed
  <2> SUFFICES ASSUME reader.outcome \in {"state", "work"}, reader.status = "FAILED",
                      Serial(History(reader.target)), TaskFailedFirst(reader.target)
               PROVE  reader.failing = TrueCause(reader.target)[1]
    BY DEF FailureIsNamed
  <2> DEFINE es == History(reader.target)
  <2>1. reader.failing = FailingState(es) /\ IsHistory(es)
    BY <1>1, <1>2 DEF TellsOf
  <2>2. Kinds(es, {"TaskFailed", "ExecutionFailed"}) # {} /\ es[FirstFailure(es)].kind = "TaskFailed"
    BY DEF TaskFailedFirst
  <2>3. TrueCause(reader.target)[1] = ParentOf(es[FirstFailure(es)].state)
    BY DEF TrueCause
  <2> QED  BY <2>1, <2>2, <2>3, FailureIsTrue
<1>3. ASSUME ReadersInv PROVE WorkVerdictIsTrue
  <2> DEFINE es == History(reader.target)
             did == {es[k].state : k \in {j \in DOMAIN es : es[j].kind \in {"TaskStateEntered", "PassStateEntered"}}}
             whole == Spine \subseteq did \cup Excused \cup UNION {ServedBy[m] : m \in DOMAIN ServedBy \cap did}
  <2> SUFFICES ASSUME reader.outcome \in {"state", "work"}
               PROVE  /\ reader.work = "full_run" => whole
                      /\ reader.work \in {"partial_success", "vacuous_success"} => ~whole \/ Spine \cap did = {}
                      /\ reader.work = "declared_skip" => did \cap SkipTerminals # {}
                      /\ reader.work = "in_flight" => reader.status = "RUNNING"
    BY DEF WorkVerdictIsTrue
  <2>1. TellsOf(reader) /\ IsHistory(es)
    BY <1>1, <1>3
  <2>2. IsList(EnteredStates(es)) /\ NamesOf(EnteredStates(es)) = did
    BY <2>1, EnteredAreNamed
  <2>3. CASE reader.status = "RUNNING"
    BY <2>1, <2>3 DEF TellsOf
  <2>4. CASE reader.status # "RUNNING"
    <3>1. reader.work = ClassifyWork(reader.status, EnteredStates(es))
      BY <2>1, <2>4 DEF TellsOf
    <3> HIDE DEF es, did
    <3> QED  BY <2>2, <2>4, <3>1, VerdictIsOfWork
  <2> QED  BY <2>3, <2>4
<1>4. ReadersInv => ReadingIsTrue
  BY <1>2, <1>3 DEF ReadingIsTrue
<1> QED  BY <1>4, ReadersHold, PTL

\* The first execution of a cycle.
LEMMA StartIsFirst ==
  ASSUME RunsInv, NEW found, \A k \in DOMAIN found : found[k].run \in DOMAIN runs,
         NEW key \in KeysOf(found)
  PROVE  /\ StartOf(found, key) \in Nat
         /\ \E k \in Group(found, key) : found[k].run = StartOf(found, key)
         /\ \A k \in Group(found, key) : StartOf(found, key) <= found[k].run
<1> DEFINE group == {found[k].run : k \in Group(found, key)}
<1>1. group \in SUBSET Nat
  <2>1. DOMAIN runs = 1 .. Len(runs) /\ Len(runs) \in Nat
    BY LenProperties DEF RunsInv
  <2> QED  BY <2>1 DEF Group
<1>2. group # {}
  BY DEF KeysOf, Group
<1>3. StartOf(found, key) = Min(group)
  BY DEF StartOf
<1>4. \A k \in Group(found, key) : found[k].run \in group
  OBVIOUS
<1>5. ASSUME NEW i \in group PROVE \E k \in Group(found, key) : found[k].run = i
  BY <1>5
<1> HIDE DEF group
<1>6. Min(group) \in group /\ \A i \in group : Min(group) <= i
  BY <1>1, <1>2, MinIsLeast
<1> QED  BY <1>1, <1>3, <1>4, <1>5, <1>6

\* The cause a window gives of an execution that failed is the true one.
LEMMA CauseIsTrue ==
  ASSUME ReadersInv, reader.outcome = "window", NEW k \in DOMAIN reader.found,
         reader.found[k].status \in FailedStatuses,
         TaskFailedFirst(reader.found[k].run), Serial(History(reader.found[k].run))
  PROVE  /\ Fingerprint(reader.found[k], reader.histories) = TrueCause(reader.found[k].run)
         /\ ~Unresolved(reader.found[k], reader.histories)
<1> DEFINE i  == reader.found[k].run
           es == History(i)
<1>1. FoundHolds(reader) /\ WindowHolds(reader) /\ RunsInv
  BY DEF ReadersInv, ReaderHolds, BaseHolds
<1>2. i \in DOMAIN runs /\ i \in DOMAIN reader.histories /\ reader.histories[i] = es
  BY <1>1 DEF FoundHolds, WindowHolds
<1>3. IsHistory(es)
  BY <1>1, <1>2, RunShows
<1>4. Kinds(es, {"TaskFailed", "ExecutionFailed"}) # {} /\ es[FirstFailure(es)].kind = "TaskFailed"
  BY DEF TaskFailedFirst
<1>5. /\ FailingState(es) = ParentOf(es[FirstFailure(es)].state)
      /\ FailureError(es) = es[FirstFailure(es)].error
      /\ FailingState(es) # "none"
  <2> HIDE DEF es
  <2>1. Serial(es)
    BY DEF es
  <2> QED  BY <1>3, <1>4, <2>1, FailureIsTrue
<1>6. TrueCause(i) = <<ParentOf(es[FirstFailure(es)].state), es[FirstFailure(es)].error>>
  BY DEF TrueCause
<1>7. Fingerprint(reader.found[k], reader.histories) = <<FailingState(es), FailureError(es)>>
  BY <1>2 DEF Fingerprint
<1> QED  BY <1>2, <1>5, <1>6, <1>7 DEF Unresolved

\* A cycle of a window calls a cause new only if no execution scanned for an earlier cycle failed of
\* it first, in a cycle the window shows or in one it drops, and a repeat only if one did
\* (build_reliability_window labels before it trims).
THEOREM CausesKeepHistory == ReadSpec => []CausesKeepTheirHistory
<1>1. ASSUME ReadersInv PROVE CausesKeepTheirHistory
  <2> DEFINE found == reader.found
             histories == reader.histories
             plain(k) == LET i == found[k].run IN TaskFailedFirst(i) /\ Serial(History(i))
             before(c, f) ==
                \E k \in DOMAIN found :
                    LET i == found[k].run
                    IN /\ found[k].status \in FailedStatuses /\ TaskFailedFirst(i) /\ Serial(History(i))
                       /\ CycleKeyOf(i) \notin {NoDay, c.key}
                       /\ \E j \in DOMAIN found :
                             /\ CycleKeyOf(found[j].run) = CycleKeyOf(i)
                             /\ \A a \in c.attempts : found[j].run < a.run
                       /\ TrueCause(i) = f
  <2> SUFFICES ASSUME reader.outcome = "window", NEW c \in reader.window
               PROVE  /\ \A f \in c.new : ~before(c, f)
                      /\ \A f \in c.repeats : before(c, f) \/ \E k \in DOMAIN found : ~plain(k)
    BY DEF CausesKeepTheirHistory
  <2>1. RunsInv /\ FoundHolds(reader) /\ WindowHolds(reader)
    BY <1>1 DEF ReadersInv, ReaderHolds, BaseHolds
  <2>2. PICK key \in KeysOf(found) : c = CycleOf(found, key, Earlier(found, key), histories)
    BY <2>1 DEF WindowHolds, BuildReliabilityWindow
  <2>3. /\ c.key = key
        /\ c.new = CausesOf(found, key, histories)
                      \ UNION {CausesOf(found, e, histories) : e \in Earlier(found, key)}
        /\ c.repeats \subseteq UNION {CausesOf(found, e, histories) : e \in Earlier(found, key)}
        /\ \A a \in c.attempts : \E k \in Group(found, key) : a.run = found[k].run
        /\ \A k \in Group(found, key) : \E a \in c.attempts : a.run = found[k].run
    <3> DEFINE attempt(k) == [run |-> found[k].run, status |-> found[k].status,
                              work |-> ClassifyWork(found[k].status, EnteredStateNames(histories[found[k].run]))]
    <3>1. /\ c.key = key /\ c.attempts = {attempt(k) : k \in Group(found, key)}
          /\ c.new = CausesOf(found, key, histories)
                        \ UNION {CausesOf(found, e, histories) : e \in Earlier(found, key)}
          /\ c.repeats = CausesOf(found, key, histories)
                        \cap UNION {CausesOf(found, e, histories) : e \in Earlier(found, key)}
      BY <2>2 DEF CycleOf
    <3>2. \A k : attempt(k).run = found[k].run
      OBVIOUS
    <3> HIDE DEF attempt
    <3> QED  BY <3>1, <3>2
  <2>4. \A k \in DOMAIN found : found[k].run \in DOMAIN runs /\ found[k].run \in Nat
    <3>1. DOMAIN runs = 1 .. Len(runs) /\ Len(runs) \in Nat
      BY <2>1, LenProperties DEF RunsInv
    <3> QED  BY <2>1, <3>1 DEF FoundHolds
  <2>5. ASSUME NEW k \in DOMAIN found, found[k].status \in FailedStatuses, plain(k)
        PROVE  /\ Fingerprint(found[k], histories) = TrueCause(found[k].run)
               /\ ~Unresolved(found[k], histories)
    BY <1>1, <2>5, CauseIsTrue
  <2> HIDE DEF found, histories
  <2>6. ASSUME NEW f \in c.new, before(c, f) PROVE FALSE
    <3>1. PICK k \in DOMAIN found :
             /\ found[k].status \in FailedStatuses /\ plain(k)
             /\ CycleKeyOf(found[k].run) \notin {NoDay, key}
             /\ \E j \in DOMAIN found :
                   /\ CycleKeyOf(found[j].run) = CycleKeyOf(found[k].run)
                   /\ \A a \in c.attempts : found[j].run < a.run
             /\ TrueCause(found[k].run) = f
      BY <2>3, <2>6
    <3> DEFINE e == CycleKeyOf(found[k].run)
    <3>2. e \in KeysOf(found) /\ k \in Group(found, e)
      BY <3>1 DEF KeysOf, Group
    <3>3. f \in CausesOf(found, e, histories)
      BY <2>5, <3>1, <3>2 DEF CausesOf
    <3>4. PICK j \in Group(found, e) : \A a \in c.attempts : found[j].run < a.run
      BY <3>1 DEF Group
    <3> HIDE DEF e
    <3>5. StartOf(found, e) \in Nat /\ StartOf(found, e) <= found[j].run /\ found[j].run \in Nat
      <4>1. j \in DOMAIN found
        BY DEF Group
      <4> QED  BY <2>1, <2>4, <3>2, <4>1, StartIsFirst
    <3>6. PICK l \in Group(found, key) : found[l].run = StartOf(found, key)
      BY <2>1, <2>4, StartIsFirst
    <3>7. found[j].run < StartOf(found, key) /\ StartOf(found, key) \in Nat
      BY <2>1, <2>3, <2>4, <3>4, <3>6, StartIsFirst
    <3>8. StartOf(found, e) < StartOf(found, key)
      BY <3>5, <3>7
    <3>9. e \in Earlier(found, key)
      BY <3>2, <3>8 DEF Earlier
    <3> QED  BY <2>3, <2>6, <3>3, <3>9
  <2>7. ASSUME NEW f \in c.repeats, \A k \in DOMAIN found : plain(k) PROVE before(c, f)
    <3>1. PICK e \in Earlier(found, key) : f \in CausesOf(found, e, histories)
      BY <2>3, <2>7
    <3>2. e \in KeysOf(found) /\ StartOf(found, e) < StartOf(found, key)
      BY <3>1 DEF Earlier
    <3>3. PICK k \in Group(found, e) : found[k].status \in FailedStatuses
                                       /\ f = Fingerprint(found[k], histories)
      BY <3>1 DEF CausesOf
    <3>4. k \in DOMAIN found /\ CycleKeyOf(found[k].run) = e
      BY DEF Group
    <3>5. TrueCause(found[k].run) = f /\ plain(k)
      BY <2>5, <2>7, <3>3, <3>4
    <3>6. StartOf(found, e) \in Nat /\ StartOf(found, key) \in Nat
      BY <2>1, <2>4, <3>2, StartIsFirst
    <3>7. e \notin {NoDay, key}
      BY <3>2, <3>6 DEF KeysOf
    <3>8. PICK j \in Group(found, e) : found[j].run = StartOf(found, e)
      BY <2>1, <2>4, <3>2, StartIsFirst
    <3>9. j \in DOMAIN found /\ CycleKeyOf(found[j].run) = e
      BY DEF Group
    <3>10. ASSUME NEW a \in c.attempts PROVE found[j].run < a.run
      <4>1. PICK l \in Group(found, key) : a.run = found[l].run
        BY <2>3
      <4>2. StartOf(found, key) <= a.run /\ a.run \in Nat
        <5>1. l \in DOMAIN found
          BY DEF Group
        <5> QED  BY <2>1, <2>4, <4>1, <5>1, StartIsFirst
      <4> QED  BY <3>2, <3>6, <3>8, <4>2
    <3> QED  BY <2>3, <3>3, <3>4, <3>5, <3>7, <3>9, <3>10
  <2> QED  BY <2>6, <2>7
<1> QED  BY <1>1, ReadersHold, PTL
===============================================================================
