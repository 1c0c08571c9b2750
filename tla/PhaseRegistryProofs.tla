------------------------- MODULE PhaseRegistryProofs -------------------------
(***************************************************************************)
(* Proofs about PhaseRegistry, for any number of runs, phases, artifacts   *)
(* and executions, any configuration of each run, and any faults.          *)
(***************************************************************************)
EXTENDS PhaseRegistry, TLAPS

\* A token, where there is one, names the execution that wrote the marker.
Honest(m) == m \in Marker => m.token \in {m.origin, NoToken}

HonestMarkers ==
  /\ \A n \in Namespaces, p \in Phase : Honest(marker[n][p])
  /\ \A r \in Run, p \in Phase : Honest(cache[r][p])

\* The cached marker of p may earn run r a skip as far as its text goes.
Acceptable(r, p) ==
  /\ OkMarker(cache[r][p])
  /\ Refusal(cache[r][p], cfg[r]) = "none"

\* Phases whose marker a run looks at before deciding.
Judged(r) == AutoSkip \ cfg[r].force

\* While the artifacts are probed, the keys no longer to be probed were seen.
ProbeInv ==
  \A r \in Run :
    /\ at[r] \in {"judge", "check"} => cur[r] \in Judged(r)
    /\ at[r] = "check" => /\ Acceptable(r, cur[r])
                          /\ cache[r][cur[r]].arts \subseteq seen[r] \cup todo[r]

\* A positive artifact check is never overtaken: its phase is not computed again,
\* so the marker it was made for is still the cached one.
PresentInv ==
  \A r \in Run, p \in Phase :
    /\ checks[r][p] # "unchecked" => p \in Judged(r)
    /\ checks[r][p] = "present" =>
         /\ Acceptable(r, p)
         /\ cache[r][p].arts \subseteq seen[r]
         /\ cur[r] = p => at[r] \notin {"body", "finally"}

\* Artifacts are probed only while no answer is cached.
UncheckedInv == \A r \in Run : at[r] = "check" => checks[r][cur[r]] = "unchecked"

SkippedInv == \A r \in Run : \A p \in skipped[r] : checks[r][p] = "present"

\* The inductive invariant.
IInv == TypeOK /\ HonestMarkers /\ ProbeInv /\ PresentInv /\ SkippedInv /\ UncheckedInv

-----------------------------------------------------------------------------
LEMMA KeyFacts ==
  ASSUME NEW token \in Execution \cup {NoToken}
  PROVE  MarkerKey(token) \in Namespaces
BY DEF MarkerKey, Namespaces

LEMMA ParseFacts ==
  ASSUME NEW obj \in Marker \cup {Absent, Corrupt}, Honest(obj)
  PROVE  /\ Parse(obj) \in Marker \cup {Absent}
         /\ Honest(Parse(obj))
         /\ Parse(obj) # Unread
BY RegistryAssumption DEF Parse, Honest

LEMMA EndMarkerFacts ==
  ASSUME TypeOK, NEW r \in Run
  PROVE  EndMarker(r) \in Marker /\ Honest(EndMarker(r))
BY DEF TypeOK, RunConfig, EndMarker, Marker, Honest

LEMMA InitIInv == Init => IInv
<1> SUFFICES ASSUME Init PROVE IInv
  OBVIOUS
<1>1. \A p \in Phase : marker[Shared][p] \in Leftovers[p]
  BY DEF Init, Namespaces
<1>2. \A n \in Rehearsal, p \in Phase : marker[n][p] = Absent
  BY RegistryAssumption DEF Init, Namespaces
<1>3. marker \in [Namespaces -> [Phase -> Marker \cup {Absent, Corrupt}]]
  <2>1. PICK left \in [Phase -> UNION {Leftovers[p] : p \in Phase}] :
          /\ \A p \in Phase : left[p] \in Leftovers[p]
          /\ marker = [n \in Namespaces |->
                         IF n = Shared THEN left ELSE [p \in Phase |-> Absent]]
    BY DEF Init
  <2>2. left \in [Phase -> Marker \cup {Absent, Corrupt}]
    BY <2>1, RegistryAssumption
  <2>3. [p \in Phase |-> Absent] \in [Phase -> Marker \cup {Absent, Corrupt}]
    OBVIOUS
  <2> QED
    BY <2>1, <2>2, <2>3
<1>4. cfg \in [Run -> RunConfig]
  BY RegistryAssumption DEF Init
<1>5. TypeOK
  <2>1. (CHOOSE p \in Phase : TRUE) \in Phase
    BY RegistryAssumption
  <2> QED
    BY <1>3, <1>4, <2>1 DEF Init, TypeOK, Places, Exceptions
<1>6. HonestMarkers
  BY <1>1, <1>2, RegistryAssumption DEF Init, HonestMarkers, Honest, Namespaces
<1>7. ProbeInv /\ PresentInv /\ SkippedInv /\ UncheckedInv
  BY DEF Init, ProbeInv, PresentInv, SkippedInv, UncheckedInv
<1> QED
  BY <1>5, <1>6, <1>7 DEF IInv

-----------------------------------------------------------------------------
(* One lemma per action. *)

LEMMA StartStep ==
  ASSUME IInv, NEW r \in Run, Start(r)
  PROVE  IInv'
<1> USE DEF IInv, Goto
<1>1. TypeOK'
  BY RegistryAssumption DEF TypeOK, Places, Exceptions, Start, decision, block, dog
<1>2. HonestMarkers'
  BY RegistryAssumption DEF TypeOK, HonestMarkers, Start, decision, block, dog
<1>3. ProbeInv'
  BY RegistryAssumption DEF TypeOK, ProbeInv, Acceptable, Judged, Start, decision, block, dog
<1>4. PresentInv'
  BY RegistryAssumption DEF TypeOK, PresentInv, ProbeInv, Acceptable, Judged, Start, decision, block, dog
<1>5. SkippedInv'
  BY RegistryAssumption DEF TypeOK, SkippedInv, Start, decision, block, dog
<1>6. UncheckedInv'
  BY DEF TypeOK, UncheckedInv, Start, decision, block
<1> QED
  BY <1>1, <1>2, <1>3, <1>4, <1>5, <1>6

LEMMA EnterStep ==
  ASSUME IInv, NEW r \in Run, NEW p \in Phase, Enter(r, p)
  PROVE  IInv'
<1> USE DEF IInv, Goto
<1>1. TypeOK'
  <2>1. /\ marker' \in [Namespaces -> [Phase -> Marker \cup {Absent, Corrupt}]]
        /\ artifact' \in SUBSET Artifact
    BY RegistryAssumption DEF TypeOK, Enter, BeginBody, Skip, decision, block, dog
  <2>2. at' \in [Run -> Places] /\ cfg' \in [Run -> RunConfig]
    BY RegistryAssumption DEF TypeOK, Places, Enter, BeginBody, Skip, decision, block, dog
  <2>3. cache' \in [Run -> [Phase -> Marker \cup {Absent, Unread}]]
    BY RegistryAssumption DEF TypeOK, Enter, BeginBody, Skip, decision, block, dog
  <2>4. checks' \in [Run -> [Phase -> {"unchecked", "present", "missing"}]]
    BY RegistryAssumption DEF TypeOK, Enter, BeginBody, Skip, decision, block, dog
  <2>5. /\ cur' \in [Run -> Phase] /\ todo' \in [Run -> SUBSET Artifact]
        /\ declared' \in [Run -> SUBSET Artifact]
    BY RegistryAssumption DEF TypeOK, Marker, OkMarker, Enter, BeginBody, Skip, decision, block, dog
  <2>6. /\ status' \in [Run -> {"ok", "error"}] /\ errors' \in [Run -> SUBSET Phase]
        /\ raised' \in [Run -> Exceptions]
    BY RegistryAssumption DEF TypeOK, Exceptions, Enter, BeginBody, Skip, decision, block, dog
  <2>7. armed' \subseteq Run /\ tripped' \subseteq Run /\ pending' \subseteq Run
    BY RegistryAssumption DEF TypeOK, Enter, BeginBody, Skip, decision, block, dog
  <2>8. /\ entries' \in [Run -> Nat] /\ faults' \in Nat
        /\ skipped' \in [Run -> SUBSET Phase] /\ seen' \in [Run -> SUBSET Artifact]
    BY RegistryAssumption DEF TypeOK, Enter, BeginBody, Skip, decision, block, dog
  <2> QED
    BY <2>1, <2>2, <2>3, <2>4, <2>5, <2>6, <2>7, <2>8 DEF TypeOK
<1>2. HonestMarkers'
  BY RegistryAssumption DEF TypeOK, HonestMarkers, Enter, BeginBody, Skip, decision, block, dog
<1>3. ProbeInv'
  BY RegistryAssumption DEF TypeOK, ProbeInv, Acceptable, Judged, Enter, BeginBody, Skip, decision, block, dog
<1>4. PresentInv'
  BY RegistryAssumption DEF TypeOK, PresentInv, ProbeInv, Acceptable, Judged, Enter, BeginBody, Skip, decision, block, dog
<1>5. SkippedInv'
  BY RegistryAssumption DEF TypeOK, SkippedInv, Enter, BeginBody, Skip, decision, block, dog
<1>6. UncheckedInv'
  BY DEF TypeOK, UncheckedInv, Enter, BeginBody, Skip, decision, block
<1> QED
  BY <1>1, <1>2, <1>3, <1>4, <1>5, <1>6

LEMMA ReadMarkerStep ==
  ASSUME IInv, NEW r \in Run, ReadMarker(r)
  PROVE  IInv'
<1> USE DEF IInv, Goto
<1>a. cfg[r].token \in Execution \cup {NoToken} /\ cur[r] \in Phase
  BY DEF TypeOK, RunConfig
<1>b. MarkerKey(cfg[r].token) \in Namespaces
  BY <1>a, KeyFacts
<1> DEFINE m == Parse(marker[MarkerKey(cfg[r].token)][cur[r]])
<1>c. m \in Marker \cup {Absent} /\ Honest(m)
  BY <1>a, <1>b, ParseFacts DEF TypeOK, HonestMarkers
<1>d. ~OkMarker(Unread)
  BY RegistryAssumption DEF OkMarker
<1>e. cache' = [cache EXCEPT ![r][cur[r]] = m]
  BY DEF ReadMarker
<1>f. at[r] = "judge" /\ cache[r][cur[r]] = Unread
  BY DEF ReadMarker
<1>g. UNCHANGED <<marker, artifact, at, cfg, checks, todo, seen, block, dog, errors,
                 raised, entries, faults, skipped>>
  BY DEF ReadMarker
<1> HIDE DEF m
<1>1. TypeOK'
  BY <1>a, <1>c, <1>d, <1>e, <1>f, <1>g, RegistryAssumption DEF TypeOK, Places, Exceptions, decision, block, dog
<1>2. HonestMarkers'
  BY <1>a, <1>c, <1>d, <1>e, <1>f, <1>g, RegistryAssumption DEF TypeOK, HonestMarkers, decision, block, dog
<1>3. ProbeInv'
  BY <1>a, <1>c, <1>d, <1>e, <1>f, <1>g, RegistryAssumption DEF TypeOK, ProbeInv, Acceptable, Judged, decision, block, dog
<1>4. PresentInv'
  BY <1>a, <1>c, <1>d, <1>e, <1>f, <1>g, RegistryAssumption DEF TypeOK, PresentInv, ProbeInv, Acceptable, Judged, decision, block, dog
<1>5. SkippedInv'
  BY <1>a, <1>c, <1>d, <1>e, <1>f, <1>g, RegistryAssumption DEF TypeOK, SkippedInv, decision, block, dog
<1>6. UncheckedInv'
  BY DEF TypeOK, UncheckedInv, ReadMarker, decision, block
<1> QED
  BY <1>1, <1>2, <1>3, <1>4, <1>5, <1>6

LEMMA JudgeStep ==
  ASSUME IInv, NEW r \in Run, Judge(r)
  PROVE  IInv'
<1> USE DEF IInv, Goto
<1>1. TypeOK'
  <2>1. /\ marker' \in [Namespaces -> [Phase -> Marker \cup {Absent, Corrupt}]]
        /\ artifact' \in SUBSET Artifact
    BY RegistryAssumption DEF TypeOK, Judge, BeginBody, Skip, decision, block, dog
  <2>2. at' \in [Run -> Places] /\ cfg' \in [Run -> RunConfig]
    BY RegistryAssumption DEF TypeOK, Places, Judge, BeginBody, Skip, decision, block, dog
  <2>3. cache' \in [Run -> [Phase -> Marker \cup {Absent, Unread}]]
    BY RegistryAssumption DEF TypeOK, Judge, BeginBody, Skip, decision, block, dog
  <2>4. checks' \in [Run -> [Phase -> {"unchecked", "present", "missing"}]]
    BY RegistryAssumption DEF TypeOK, Judge, BeginBody, Skip, decision, block, dog
  <2>5. /\ cur' \in [Run -> Phase] /\ todo' \in [Run -> SUBSET Artifact]
        /\ declared' \in [Run -> SUBSET Artifact]
    BY RegistryAssumption DEF TypeOK, Marker, OkMarker, Judge, BeginBody, Skip, decision, block, dog
  <2>6. /\ status' \in [Run -> {"ok", "error"}] /\ errors' \in [Run -> SUBSET Phase]
        /\ raised' \in [Run -> Exceptions]
    BY RegistryAssumption DEF TypeOK, Exceptions, Judge, BeginBody, Skip, decision, block, dog
  <2>7. armed' \subseteq Run /\ tripped' \subseteq Run /\ pending' \subseteq Run
    BY RegistryAssumption DEF TypeOK, Judge, BeginBody, Skip, decision, block, dog
  <2>8. entries' \in [Run -> Nat] /\ faults' \in Nat /\ seen' \in [Run -> SUBSET Artifact]
    BY DEF TypeOK, Judge
  <2>9. skipped' \in [Run -> SUBSET Phase]
    <3>1. skipped' = skipped \/ skipped' = [skipped EXCEPT ![r] = @ \cup {cur[r]}]
      BY DEF Judge
    <3> QED
      BY <3>1 DEF TypeOK
  <2> QED
    BY <2>1, <2>2, <2>3, <2>4, <2>5, <2>6, <2>7, <2>8, <2>9 DEF TypeOK
<1>2. HonestMarkers'
  BY RegistryAssumption DEF TypeOK, HonestMarkers, Judge, BeginBody, Skip, decision, block, dog
<1>3. ProbeInv'
  BY RegistryAssumption DEF TypeOK, ProbeInv, Acceptable, Judged, Judge, BeginBody, Skip, decision, block, dog
<1>4. PresentInv'
  BY RegistryAssumption DEF TypeOK, PresentInv, ProbeInv, Acceptable, Judged, Judge, BeginBody, Skip, decision, block, dog
<1>5. SkippedInv'
  <2>1. checks' = checks
    BY DEF Judge
  <2>2. \/ skipped' = skipped
        \/ /\ checks[r][cur[r]] = "present"
           /\ skipped' = [skipped EXCEPT ![r] = @ \cup {cur[r]}]
    BY DEF Judge
  <2>3. \A q \in Run : \A p \in skipped'[q] :
          p \in skipped[q] \/ (q = r /\ p = cur[r] /\ checks[r][cur[r]] = "present")
    BY <2>2 DEF TypeOK
  <2> QED
    BY <2>1, <2>3 DEF SkippedInv
<1>6. UncheckedInv'
  BY DEF TypeOK, UncheckedInv, Judge, BeginBody, Skip, decision, block
<1> QED
  BY <1>1, <1>2, <1>3, <1>4, <1>5, <1>6

LEMMA CheckStep ==
  ASSUME IInv, NEW r \in Run, Check(r)
  PROVE  IInv'
<1> USE DEF IInv, Goto
<1> DEFINE p == cur[r]
<1>0. /\ at[r] = "check" /\ p \in Phase
      /\ UNCHANGED <<marker, artifact, cfg, cache, cur, declared, status, armed, tripped,
                    pending, errors, raised, entries, faults, skipped>>
  BY DEF Check, TypeOK, block, dog
<1>1. /\ p \in Judged(r) /\ Acceptable(r, p)
      /\ cache[r][p].arts \subseteq seen[r] \cup todo[r]
  BY <1>0 DEF ProbeInv
<1>2. ASSUME NEW a \in todo[r],
             todo' = [todo EXCEPT ![r] = @ \ {a}],
             seen' = [seen EXCEPT ![r] = @ \cup {a}],
             UNCHANGED <<checks, at>>
      PROVE  IInv'
  <2>1. TypeOK'
    BY <1>0, <1>2 DEF TypeOK
  <2>2. HonestMarkers'
    BY <1>0 DEF HonestMarkers
  <2>3. ProbeInv'
    BY <1>0, <1>1, <1>2 DEF TypeOK, ProbeInv, Acceptable, Judged
  <2>4. PresentInv'
    BY <1>0, <1>2 DEF TypeOK, PresentInv, Acceptable, Judged
  <2>5. SkippedInv'
    BY <1>0, <1>2 DEF SkippedInv
  <2>6. UncheckedInv'
    BY <1>0, <1>2 DEF UncheckedInv
  <2> QED
    BY <2>1, <2>2, <2>3, <2>4, <2>5, <2>6
<1>3. ASSUME NEW answer \in {"missing", "present"},
             answer = "present" => todo[r] = {},
             checks' = [checks EXCEPT ![r][p] = answer],
             todo' = [todo EXCEPT ![r] = {}],
             at' = [at EXCEPT ![r] = "judge"],
             UNCHANGED seen
      PROVE  IInv'
  <2>1. TypeOK'
    <3>1. checks' \in [Run -> [Phase -> {"unchecked", "present", "missing"}]]
      BY <1>0, <1>3 DEF TypeOK
    <3> QED
      BY <1>0, <1>3, <3>1 DEF TypeOK, Places
  <2>2. HonestMarkers'
    BY <1>0 DEF HonestMarkers
  <2>3. ProbeInv'
    BY <1>0, <1>1, <1>3 DEF TypeOK, ProbeInv, Acceptable, Judged
  <2>4. PresentInv'
    BY <1>0, <1>1, <1>3 DEF TypeOK, PresentInv, Acceptable, Judged
  <2>5. SkippedInv'
    <3>1. checks[r][p] = "unchecked"
      BY <1>0 DEF UncheckedInv
    <3> QED
      BY <1>0, <1>3, <3>1 DEF TypeOK, SkippedInv
  <2>6. UncheckedInv'
    BY <1>0, <1>3 DEF TypeOK, UncheckedInv
  <2> QED
    BY <2>1, <2>2, <2>3, <2>4, <2>5, <2>6
<1>4. ASSUME todo[r] = {}, UNCHANGED todo
      PROVE  todo' = [todo EXCEPT ![r] = {}]
  BY <1>4 DEF TypeOK
<1> QED
  BY <1>2, <1>3, <1>4 DEF Check

LEMMA ReadFailsStep ==
  ASSUME IInv, NEW r \in Run, ReadFails(r)
  PROVE  IInv'
<1> USE DEF IInv, Goto
<1>1. TypeOK'
  BY RegistryAssumption DEF TypeOK, Places, Exceptions, ReadFails, Fault, decision, block, dog
<1>2. HonestMarkers'
  BY RegistryAssumption DEF TypeOK, HonestMarkers, ReadFails, Fault, decision, block, dog
<1>3. ProbeInv'
  BY RegistryAssumption DEF TypeOK, ProbeInv, Acceptable, Judged, ReadFails, Fault, decision, block, dog
<1>4. PresentInv'
  BY RegistryAssumption DEF TypeOK, PresentInv, ProbeInv, Acceptable, Judged, ReadFails, Fault, decision, block, dog
<1>5. SkippedInv'
  BY RegistryAssumption DEF TypeOK, SkippedInv, ReadFails, Fault, decision, block, dog
<1>6. UncheckedInv'
  BY DEF TypeOK, UncheckedInv, ReadFails, decision, block
<1> QED
  BY <1>1, <1>2, <1>3, <1>4, <1>5, <1>6

LEMMA SaveStep ==
  ASSUME IInv, NEW r \in Run, NEW a \in Artifact, Save(r, a)
  PROVE  IInv'
<1> USE DEF IInv, Goto
<1>1. TypeOK'
  BY RegistryAssumption DEF TypeOK, Places, Exceptions, Save, decision, block, dog
<1>2. HonestMarkers'
  BY RegistryAssumption DEF TypeOK, HonestMarkers, Save, decision, block, dog
<1>3. ProbeInv'
  BY RegistryAssumption DEF TypeOK, ProbeInv, Acceptable, Judged, Save, decision, block, dog
<1>4. PresentInv'
  BY RegistryAssumption DEF TypeOK, PresentInv, ProbeInv, Acceptable, Judged, Save, decision, block, dog
<1>5. SkippedInv'
  BY RegistryAssumption DEF TypeOK, SkippedInv, Save, decision, block, dog
<1>6. UncheckedInv'
  BY DEF TypeOK, UncheckedInv, Save, decision, block
<1> QED
  BY <1>1, <1>2, <1>3, <1>4, <1>5, <1>6

LEMMA RecordArtifactStep ==
  ASSUME IInv, NEW r \in Run, NEW a \in Artifact, RecordArtifact(r, a)
  PROVE  IInv'
<1> USE DEF IInv, Goto
<1>1. TypeOK'
  BY RegistryAssumption DEF TypeOK, Places, Exceptions, RecordArtifact, decision, block, dog
<1>2. HonestMarkers'
  BY RegistryAssumption DEF TypeOK, HonestMarkers, RecordArtifact, decision, block, dog
<1>3. ProbeInv'
  BY RegistryAssumption DEF TypeOK, ProbeInv, Acceptable, Judged, RecordArtifact, decision, block, dog
<1>4. PresentInv'
  BY RegistryAssumption DEF TypeOK, PresentInv, ProbeInv, Acceptable, Judged, RecordArtifact, decision, block, dog
<1>5. SkippedInv'
  BY RegistryAssumption DEF TypeOK, SkippedInv, RecordArtifact, decision, block, dog
<1>6. UncheckedInv'
  BY DEF TypeOK, UncheckedInv, RecordArtifact, decision, block
<1> QED
  BY <1>1, <1>2, <1>3, <1>4, <1>5, <1>6

LEMMA BodyEndsStep ==
  ASSUME IInv, NEW r \in Run, BodyEnds(r)
  PROVE  IInv'
<1> USE DEF IInv, Goto
<1>1. TypeOK'
  BY RegistryAssumption DEF TypeOK, Places, Exceptions, BodyEnds, decision, block, dog
<1>2. HonestMarkers'
  BY RegistryAssumption DEF TypeOK, HonestMarkers, BodyEnds, decision, block, dog
<1>3. ProbeInv'
  BY RegistryAssumption DEF TypeOK, ProbeInv, Acceptable, Judged, BodyEnds, decision, block, dog
<1>4. PresentInv'
  BY RegistryAssumption DEF TypeOK, PresentInv, ProbeInv, Acceptable, Judged, BodyEnds, decision, block, dog
<1>5. SkippedInv'
  BY RegistryAssumption DEF TypeOK, SkippedInv, BodyEnds, decision, block, dog
<1>6. UncheckedInv'
  BY DEF TypeOK, UncheckedInv, BodyEnds, decision, block
<1> QED
  BY <1>1, <1>2, <1>3, <1>4, <1>5, <1>6

LEMMA TripStep ==
  ASSUME IInv, NEW r \in Run, Trip(r)
  PROVE  IInv'
<1> USE DEF IInv, Goto
<1>1. TypeOK'
  BY RegistryAssumption DEF TypeOK, Places, Exceptions, Trip, decision, block, dog
<1>2. HonestMarkers'
  BY RegistryAssumption DEF TypeOK, HonestMarkers, Trip, decision, block, dog
<1>3. ProbeInv'
  BY RegistryAssumption DEF TypeOK, ProbeInv, Acceptable, Judged, Trip, decision, block, dog
<1>4. PresentInv'
  BY RegistryAssumption DEF TypeOK, PresentInv, ProbeInv, Acceptable, Judged, Trip, decision, block, dog
<1>5. SkippedInv'
  BY RegistryAssumption DEF TypeOK, SkippedInv, Trip, decision, block, dog
<1>6. UncheckedInv'
  BY DEF TypeOK, UncheckedInv, Trip, decision, block
<1> QED
  BY <1>1, <1>2, <1>3, <1>4, <1>5, <1>6

LEMMA InterruptStep ==
  ASSUME IInv, NEW r \in Run, Interrupt(r)
  PROVE  IInv'
<1> USE DEF IInv, Goto
<1>1. TypeOK'
  BY RegistryAssumption DEF TypeOK, Places, Exceptions, Interrupt, decision, block, dog
<1>2. HonestMarkers'
  BY RegistryAssumption DEF TypeOK, HonestMarkers, Interrupt, decision, block, dog
<1>3. ProbeInv'
  BY RegistryAssumption DEF TypeOK, ProbeInv, Acceptable, Judged, Interrupt, decision, block, dog
<1>4. PresentInv'
  BY RegistryAssumption DEF TypeOK, PresentInv, ProbeInv, Acceptable, Judged, Interrupt, decision, block, dog
<1>5. SkippedInv'
  BY RegistryAssumption DEF TypeOK, SkippedInv, Interrupt, decision, block, dog
<1>6. UncheckedInv'
  BY DEF TypeOK, UncheckedInv, Interrupt, decision, block
<1> QED
  BY <1>1, <1>2, <1>3, <1>4, <1>5, <1>6

LEMMA WriteMarkerStep ==
  ASSUME IInv, NEW r \in Run, WriteMarker(r)
  PROVE  IInv'
<1> USE DEF IInv, Goto
<1>a. cfg[r].token \in Execution \cup {NoToken} /\ cur[r] \in Phase
  BY DEF TypeOK, RunConfig
<1>b. MarkerKey(cfg[r].token) \in Namespaces
  BY <1>a, KeyFacts
<1>c. EndMarker(r) \in Marker /\ Honest(EndMarker(r))
  BY EndMarkerFacts
<1>1. TypeOK'
  <2>1. /\ marker' \in [Namespaces -> [Phase -> Marker \cup {Absent, Corrupt}]]
        /\ artifact' \in SUBSET Artifact
    BY <1>a, <1>b, <1>c, RegistryAssumption DEF TypeOK, WriteMarker, Leave, decision, block, dog
  <2>2. at' \in [Run -> Places] /\ cfg' \in [Run -> RunConfig]
    BY <1>a, <1>b, <1>c, RegistryAssumption DEF TypeOK, Places, WriteMarker, Leave, decision, block, dog
  <2>3. cache' \in [Run -> [Phase -> Marker \cup {Absent, Unread}]]
    BY <1>a, <1>b, <1>c, RegistryAssumption DEF TypeOK, WriteMarker, Leave, decision, block, dog
  <2>4. checks' \in [Run -> [Phase -> {"unchecked", "present", "missing"}]]
    BY <1>a, <1>b, <1>c, RegistryAssumption DEF TypeOK, WriteMarker, Leave, decision, block, dog
  <2>5. /\ cur' \in [Run -> Phase] /\ todo' \in [Run -> SUBSET Artifact]
        /\ declared' \in [Run -> SUBSET Artifact]
    BY <1>a, <1>b, <1>c, RegistryAssumption DEF TypeOK, Marker, OkMarker, WriteMarker, Leave, decision, block, dog
  <2>6. /\ status' \in [Run -> {"ok", "error"}] /\ errors' \in [Run -> SUBSET Phase]
        /\ raised' \in [Run -> Exceptions]
    BY <1>a, <1>b, <1>c, RegistryAssumption DEF TypeOK, Exceptions, WriteMarker, Leave, decision, block, dog
  <2>7. armed' \subseteq Run /\ tripped' \subseteq Run /\ pending' \subseteq Run
    BY <1>a, <1>b, <1>c, RegistryAssumption DEF TypeOK, WriteMarker, Leave, decision, block, dog
  <2>8. /\ entries' \in [Run -> Nat] /\ faults' \in Nat
        /\ skipped' \in [Run -> SUBSET Phase] /\ seen' \in [Run -> SUBSET Artifact]
    BY <1>a, <1>b, <1>c, RegistryAssumption DEF TypeOK, WriteMarker, Leave, decision, block, dog
  <2> QED
    BY <2>1, <2>2, <2>3, <2>4, <2>5, <2>6, <2>7, <2>8 DEF TypeOK
<1>2. HonestMarkers'
  BY <1>a, <1>b, <1>c, RegistryAssumption DEF TypeOK, HonestMarkers, WriteMarker, Leave, decision, block, dog
<1>3. ProbeInv'
  BY <1>a, <1>b, <1>c, RegistryAssumption DEF TypeOK, ProbeInv, Acceptable, Judged, WriteMarker, Leave, decision, block, dog
<1>4. PresentInv'
  BY <1>a, <1>b, <1>c, RegistryAssumption DEF TypeOK, PresentInv, ProbeInv, Acceptable, Judged, WriteMarker, Leave, decision, block, dog
<1>5. SkippedInv'
  BY <1>a, <1>b, <1>c, RegistryAssumption DEF TypeOK, SkippedInv, WriteMarker, Leave, decision, block, dog
<1>6. UncheckedInv'
  BY DEF TypeOK, UncheckedInv, WriteMarker, Leave, decision, block
<1> QED
  BY <1>1, <1>2, <1>3, <1>4, <1>5, <1>6

LEMMA WriteMarkerFailsStep ==
  ASSUME IInv, NEW r \in Run, WriteMarkerFails(r)
  PROVE  IInv'
<1> USE DEF IInv, Goto
<1>a. cfg[r].token \in Execution \cup {NoToken} /\ cur[r] \in Phase
  BY DEF TypeOK, RunConfig
<1>b. MarkerKey(cfg[r].token) \in Namespaces
  BY <1>a, KeyFacts
<1>c. EndMarker(r) \in Marker /\ Honest(EndMarker(r))
  BY EndMarkerFacts
<1>d. \/ marker' = marker
      \/ marker' = [marker EXCEPT ![MarkerKey(cfg[r].token)][cur[r]] = EndMarker(r)]
  BY DEF WriteMarkerFails
<1>e. UNCHANGED <<artifact, cache>>
  BY DEF WriteMarkerFails, decision
<1>1. TypeOK'
  <2>1. /\ marker' \in [Namespaces -> [Phase -> Marker \cup {Absent, Corrupt}]]
        /\ artifact' \in SUBSET Artifact
    <3>1. CASE marker' = marker
      BY <3>1, <1>e DEF TypeOK
    <3>2. CASE marker' = [marker EXCEPT ![MarkerKey(cfg[r].token)][cur[r]] = EndMarker(r)]
      BY <3>2, <1>a, <1>b, <1>c, <1>e DEF TypeOK
    <3> QED
      BY <3>1, <3>2, <1>d
  <2>2. at' \in [Run -> Places] /\ cfg' \in [Run -> RunConfig]
    BY <1>a, <1>b, <1>c, RegistryAssumption DEF TypeOK, Places, WriteMarkerFails, Fault, Leave, decision, block, dog
  <2>3. cache' \in [Run -> [Phase -> Marker \cup {Absent, Unread}]]
    BY <1>a, <1>b, <1>c, RegistryAssumption DEF TypeOK, WriteMarkerFails, Fault, Leave, decision, block, dog
  <2>4. checks' \in [Run -> [Phase -> {"unchecked", "present", "missing"}]]
    BY <1>a, <1>b, <1>c, RegistryAssumption DEF TypeOK, WriteMarkerFails, Fault, Leave, decision, block, dog
  <2>5. /\ cur' \in [Run -> Phase] /\ todo' \in [Run -> SUBSET Artifact]
        /\ declared' \in [Run -> SUBSET Artifact]
    BY <1>a, <1>b, <1>c, RegistryAssumption DEF TypeOK, Marker, OkMarker, WriteMarkerFails, Fault, Leave, decision, block, dog
  <2>6. /\ status' \in [Run -> {"ok", "error"}] /\ errors' \in [Run -> SUBSET Phase]
        /\ raised' \in [Run -> Exceptions]
    BY <1>a, <1>b, <1>c, RegistryAssumption DEF TypeOK, Exceptions, WriteMarkerFails, Fault, Leave, decision, block, dog
  <2>7. armed' \subseteq Run /\ tripped' \subseteq Run /\ pending' \subseteq Run
    BY <1>a, <1>b, <1>c, RegistryAssumption DEF TypeOK, WriteMarkerFails, Fault, Leave, decision, block, dog
  <2>8. /\ entries' \in [Run -> Nat] /\ faults' \in Nat
        /\ skipped' \in [Run -> SUBSET Phase] /\ seen' \in [Run -> SUBSET Artifact]
    BY <1>a, <1>b, <1>c, RegistryAssumption DEF TypeOK, WriteMarkerFails, Fault, Leave, decision, block, dog
  <2> QED
    BY <2>1, <2>2, <2>3, <2>4, <2>5, <2>6, <2>7, <2>8 DEF TypeOK
<1>2. HonestMarkers'
  <2>1. CASE marker' = marker
    BY <2>1, <1>e DEF HonestMarkers
  <2>2. CASE marker' = [marker EXCEPT ![MarkerKey(cfg[r].token)][cur[r]] = EndMarker(r)]
    BY <2>2, <1>a, <1>b, <1>c, <1>e DEF TypeOK, HonestMarkers
  <2> QED
    BY <2>1, <2>2, <1>d
<1>3. ProbeInv'
  BY <1>a, <1>b, <1>c, RegistryAssumption DEF TypeOK, ProbeInv, Acceptable, Judged, WriteMarkerFails, Fault, Leave, decision, block, dog
<1>4. PresentInv'
  BY <1>a, <1>b, <1>c, RegistryAssumption DEF TypeOK, PresentInv, ProbeInv, Acceptable, Judged, WriteMarkerFails, Fault, Leave, decision, block, dog
<1>5. SkippedInv'
  BY <1>a, <1>b, <1>c, RegistryAssumption DEF TypeOK, SkippedInv, WriteMarkerFails, Fault, Leave, decision, block, dog
<1>6. UncheckedInv'
  BY DEF TypeOK, UncheckedInv, WriteMarkerFails, Leave, decision, block
<1> QED
  BY <1>1, <1>2, <1>3, <1>4, <1>5, <1>6

LEMMA KillStep ==
  ASSUME IInv, NEW r \in Run, Kill(r)
  PROVE  IInv'
<1> USE DEF IInv, Goto
<1>1. TypeOK'
  BY RegistryAssumption DEF TypeOK, Places, Exceptions, Kill, Fault, decision, block, dog
<1>2. HonestMarkers'
  BY RegistryAssumption DEF TypeOK, HonestMarkers, Kill, Fault, decision, block, dog
<1>3. ProbeInv'
  BY RegistryAssumption DEF TypeOK, ProbeInv, Acceptable, Judged, Kill, Fault, decision, block, dog
<1>4. PresentInv'
  BY RegistryAssumption DEF TypeOK, PresentInv, ProbeInv, Acceptable, Judged, Kill, Fault, decision, block, dog
<1>5. SkippedInv'
  BY RegistryAssumption DEF TypeOK, SkippedInv, Kill, Fault, decision, block, dog
<1>6. UncheckedInv'
  BY DEF TypeOK, UncheckedInv, Kill, decision, block
<1> QED
  BY <1>1, <1>2, <1>3, <1>4, <1>5, <1>6

LEMMA PruneStep ==
  ASSUME IInv, NEW a \in Artifact, Prune(a)
  PROVE  IInv'
<1> USE DEF IInv, Goto
<1>1. TypeOK'
  BY RegistryAssumption DEF TypeOK, Places, Exceptions, Prune, Fault, decision, block, dog
<1>2. HonestMarkers'
  BY RegistryAssumption DEF TypeOK, HonestMarkers, Prune, Fault, decision, block, dog
<1>3. ProbeInv'
  BY RegistryAssumption DEF TypeOK, ProbeInv, Acceptable, Judged, Prune, Fault, decision, block, dog
<1>4. PresentInv'
  BY RegistryAssumption DEF TypeOK, PresentInv, ProbeInv, Acceptable, Judged, Prune, Fault, decision, block, dog
<1>5. SkippedInv'
  BY RegistryAssumption DEF TypeOK, SkippedInv, Prune, Fault, decision, block, dog
<1>6. UncheckedInv'
  BY DEF TypeOK, UncheckedInv, Prune, decision, block
<1> QED
  BY <1>1, <1>2, <1>3, <1>4, <1>5, <1>6

LEMMA DoneStep ==
  ASSUME IInv, NEW r \in Run, Done(r)
  PROVE  IInv'
<1> USE DEF IInv, Goto
<1>1. TypeOK'
  BY RegistryAssumption DEF TypeOK, Places, Exceptions, Done, decision, block, dog
<1>2. HonestMarkers'
  BY RegistryAssumption DEF TypeOK, HonestMarkers, Done, decision, block, dog
<1>3. ProbeInv'
  BY RegistryAssumption DEF TypeOK, ProbeInv, Acceptable, Judged, Done, decision, block, dog
<1>4. PresentInv'
  BY RegistryAssumption DEF TypeOK, PresentInv, ProbeInv, Acceptable, Judged, Done, decision, block, dog
<1>5. SkippedInv'
  BY RegistryAssumption DEF TypeOK, SkippedInv, Done, decision, block, dog
<1>6. UncheckedInv'
  BY DEF TypeOK, UncheckedInv, Done, decision, block
<1> QED
  BY <1>1, <1>2, <1>3, <1>4, <1>5, <1>6

-----------------------------------------------------------------------------
LEMMA NextStep == IInv /\ [Next]_vars => IInv'
<1> SUFFICES ASSUME IInv, [Next]_vars PROVE IInv'
  OBVIOUS
<1>1. ASSUME NEW r \in Run, Start(r) PROVE IInv'
  BY <1>1, StartStep
<1>2. ASSUME NEW r \in Run, NEW p \in Phase, Enter(r, p) PROVE IInv'
  BY <1>2, EnterStep
<1>3. ASSUME NEW r \in Run, ReadMarker(r) PROVE IInv'
  BY <1>3, ReadMarkerStep
<1>4. ASSUME NEW r \in Run, Judge(r) PROVE IInv'
  BY <1>4, JudgeStep
<1>5. ASSUME NEW r \in Run, Check(r) PROVE IInv'
  BY <1>5, CheckStep
<1>6. ASSUME NEW r \in Run, ReadFails(r) PROVE IInv'
  BY <1>6, ReadFailsStep
<1>7. ASSUME NEW r \in Run, BodyEnds(r) PROVE IInv'
  BY <1>7, BodyEndsStep
<1>8. ASSUME NEW r \in Run, Trip(r) PROVE IInv'
  BY <1>8, TripStep
<1>9. ASSUME NEW r \in Run, Interrupt(r) PROVE IInv'
  BY <1>9, InterruptStep
<1>10. ASSUME NEW r \in Run, WriteMarker(r) PROVE IInv'
  BY <1>10, WriteMarkerStep
<1>11. ASSUME NEW r \in Run, WriteMarkerFails(r) PROVE IInv'
  BY <1>11, WriteMarkerFailsStep
<1>12. ASSUME NEW r \in Run, Kill(r) PROVE IInv'
  BY <1>12, KillStep
<1>13. ASSUME NEW r \in Run, Done(r) PROVE IInv'
  BY <1>13, DoneStep
<1>14. ASSUME NEW r \in Run, NEW a \in Artifact, Save(r, a) PROVE IInv'
  BY <1>14, SaveStep
<1>15. ASSUME NEW r \in Run, NEW a \in Artifact, RecordArtifact(r, a) PROVE IInv'
  BY <1>15, RecordArtifactStep
<1>16. ASSUME NEW a \in Artifact, Prune(a) PROVE IInv'
  BY <1>16, PruneStep
<1>17. ASSUME UNCHANGED vars PROVE IInv'
  BY <1>17 DEF vars, decision, block, dog, IInv, TypeOK, HonestMarkers, ProbeInv,
     PresentInv, SkippedInv, UncheckedInv, Acceptable, Judged
<1> QED
  BY <1>1, <1>2, <1>3, <1>4, <1>5, <1>6, <1>7, <1>8, <1>9, <1>10, <1>11, <1>12, <1>13, <1>14, <1>15, <1>16, <1>17 DEF Next

LEMMA SpecIInv == Spec => []IInv
BY InitIInv, NextStep, PTL DEF Spec

\* Every variable keeps its type.
THEOREM TypeCorrect == Spec => []TypeOK
BY SpecIInv, PTL DEF IInv

\* An auto-skip always rests on an ok marker all of whose artifacts this process found.
THEOREM EvidencedSkips == Spec => []SkipIsEvidenced
<1>1. IInv => SkipIsEvidenced
  BY DEF IInv, SkippedInv, PresentInv, SkipIsEvidenced, TypeOK, Acceptable
<1> QED
  BY <1>1, SpecIInv, PTL

\* A run that demands attributed markers and knows its name never skips on the
\* output of a rehearsal other than itself, whichever rehearsals lost their token.
THEOREM OwnEvidence == Spec => []SkipsOnOwnEvidence
<1>1. IInv => SkipsOnOwnEvidence
  <2> SUFFICES ASSUME IInv, NEW r \in Run, NEW p \in skipped[r],
                      cfg[r].strict, cfg[r].token # NoToken
               PROVE  cache[r][p].origin \in (Execution \ Rehearsal) \cup {cfg[r].token}
    BY DEF SkipsOnOwnEvidence
  <2>1. p \in Phase
    BY DEF IInv, TypeOK
  <2>2. /\ cache[r][p] \in Marker
        /\ Refusal(cache[r][p], cfg[r]) = "none"
        /\ cache[r][p].token \in {cache[r][p].origin, NoToken}
    BY <2>1 DEF IInv, SkippedInv, PresentInv, Acceptable, OkMarker, HonestMarkers, Honest
  <2>3. /\ ~(cache[r][p].token \in Rehearsal /\ cache[r][p].token # cfg[r].token)
        /\ cache[r][p].token # NoToken
    BY <2>2 DEF Refusal
  <2> QED
    BY <2>2, <2>3, RegistryAssumption DEF Marker
<1> QED
  BY <1>1, SpecIInv, PTL

\* The only steps that store a marker are the two ends of a block; a rehearsal that
\* knows its name stores it in its own namespace, so the shared key never names one.
LEMMA MarkerSteps ==
  ASSUME Next
  PROVE  \/ marker' = marker
         \/ \E r \in Run :
              marker' = [marker EXCEPT ![MarkerKey(cfg[r].token)][cur[r]] = EndMarker(r)]
<1>1. ASSUME NEW r \in Run, Judge(r) PROVE marker' = marker
  BY <1>1 DEF Judge
<1>2. ASSUME NEW r \in Run, NEW p \in Phase, Enter(r, p) PROVE marker' = marker
  BY <1>2 DEF Enter
<1>3. ASSUME NEW r \in Run,
             \/ Start(r) \/ ReadMarker(r) \/ Check(r) \/ ReadFails(r) \/ BodyEnds(r)
             \/ Trip(r) \/ Interrupt(r) \/ Kill(r) \/ Done(r)
             \/ \E a \in Artifact : Save(r, a) \/ RecordArtifact(r, a)
      PROVE  marker' = marker
  BY <1>3 DEF Start, ReadMarker, Check, ReadFails, BodyEnds, Trip, Interrupt, Kill, Done, Save,
              RecordArtifact
<1>4. ASSUME NEW a \in Artifact, Prune(a) PROVE marker' = marker
  BY <1>4 DEF Prune
<1>5. ASSUME NEW r \in Run, WriteMarker(r) \/ WriteMarkerFails(r)
      PROVE  \/ marker' = marker
             \/ marker' = [marker EXCEPT ![MarkerKey(cfg[r].token)][cur[r]] = EndMarker(r)]
  BY <1>5 DEF WriteMarker, WriteMarkerFails
<1> QED
  BY <1>1, <1>2, <1>3, <1>4, <1>5 DEF Next

\* No rehearsal that knows its name leaves a marker at the key production runs read,
\* whatever is killed, retried or written twice.
THEOREM SharedMarkers == Spec => []SharedMarkersNameNoRehearsal
<1>1. Init => SharedMarkersNameNoRehearsal
  BY DEF Init, SharedMarkersNameNoRehearsal, Namespaces
<1>2. IInv /\ SharedMarkersNameNoRehearsal /\ [Next]_vars => SharedMarkersNameNoRehearsal'
  <2> SUFFICES ASSUME IInv, SharedMarkersNameNoRehearsal, [Next]_vars
               PROVE  SharedMarkersNameNoRehearsal'
    OBVIOUS
  <2>1. CASE marker' = marker
    BY <2>1 DEF SharedMarkersNameNoRehearsal
  <2>2. ASSUME NEW r \in Run,
               marker' = [marker EXCEPT ![MarkerKey(cfg[r].token)][cur[r]] = EndMarker(r)]
        PROVE  SharedMarkersNameNoRehearsal'
    <3>1. marker[Shared] \in [Phase -> Marker \cup {Absent, Corrupt}] /\ cur[r] \in Phase
      BY DEF IInv, TypeOK, Namespaces
    <3>2. MarkerKey(cfg[r].token) = Shared => EndMarker(r).token \notin Rehearsal
      BY RegistryAssumption DEF MarkerKey, EndMarker
    <3>3. MarkerKey(cfg[r].token) # Shared => marker'[Shared] = marker[Shared]
      BY <2>2 DEF IInv, TypeOK, Namespaces
    <3>4. MarkerKey(cfg[r].token) = Shared =>
            marker'[Shared] = [marker[Shared] EXCEPT ![cur[r]] = EndMarker(r)]
      BY <2>2 DEF IInv, TypeOK, Namespaces
    <3> QED
      BY <3>1, <3>2, <3>3, <3>4 DEF SharedMarkersNameNoRehearsal
  <2> QED
    BY <2>1, <2>2, MarkerSteps DEF vars
<1> QED
  BY <1>1, <1>2, SpecIInv, PTL DEF Spec

\* All three: a skip rests on a complete marker, and on one the run may use.
THEOREM EarnedSkips == Spec => []SkipIsEarned
BY OwnEvidence, EvidencedSkips, SharedMarkers, PTL DEF SkipIsEarned

\* A process never computes a phase it has auto-skipped.
THEOREM StableSkips == Spec => SkipIsStable
<1> DEFINE A == \A r \in Run : at[r] # "body" /\ at'[r] = "body" => cur'[r] \notin skipped[r]
<1>1. IInv /\ [Next]_vars => [A]_vars
  <2> SUFFICES ASSUME IInv, Next, NEW r \in Run, at[r] # "body", at'[r] = "body"
               PROVE  cur'[r] \notin skipped[r]
    OBVIOUS
  <2>1. IInv'
    BY NextStep
  <2>2. cur'[r] \in skipped'[r] => FALSE
    BY <2>1 DEF IInv, SkippedInv, PresentInv, TypeOK
  <2>3. skipped[r] \subseteq skipped'[r]
    <3>1. \A q \in Run : Judge(q) => \/ skipped' = skipped
                                    \/ skipped' = [skipped EXCEPT ![q] = @ \cup {cur[q]}]
      BY DEF Judge
    <3>2. (\E q \in Run : Judge(q)) \/ skipped' = skipped
      BY DEF Next, Start, Enter, ReadMarker, Check, ReadFails, BodyEnds, Trip, Interrupt,
         WriteMarker, WriteMarkerFails, Kill, Done, Save, RecordArtifact, Prune
    <3> QED
      BY <3>1, <3>2 DEF IInv, TypeOK
  <2> QED
    BY <2>2, <2>3
<1> QED
  BY <1>1, SpecIInv, PTL DEF Spec, SkipIsStable
=============================================================================
