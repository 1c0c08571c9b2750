---------------------------- MODULE PhaseRegistry ----------------------------
(***************************************************************************)
(* nousergon_lib/phase_registry.py: completion markers on S3 and the       *)
(* skip-or-run decision they earn.  Several processes (runs) work on one   *)
(* date at once or one after the other: a production execution, its        *)
(* relaunches, a rehearsal, an ad-hoc run.  Each has its own PhaseRegistry *)
(* with its own caches; they meet only in the markers and the artifacts    *)
(* stored on S3.  Every S3 request is a step of its own.                   *)
(*                                                                         *)
(* A phase with a hard cap has a watchdog thread.  Its trip and the        *)
(* KeyboardInterrupt it sends to the main thread are separate steps: the   *)
(* interrupt is delivered wherever the main thread has got to by then.     *)
(***************************************************************************)
EXTENDS Naturals, FiniteSets

CONSTANTS
  Run,          \* processes, each with a registry of its own
  Phase,        \* phase names
  Artifact,     \* artifact keys
  Execution,    \* Step Functions execution names
  Rehearsal,    \* those that start with REHEARSAL_EXECUTION_PREFIX
  NoToken,      \* RUN_TOKEN empty; also the origin of an ad-hoc run
  Shared,       \* the namespace of every run that is not a known rehearsal
  Configs,      \* for each run, the configurations it may be started with
  AutoSkip,     \* phases entered with supports_auto_skip=True
  Capped,       \* phases with a hard cap
  Leftovers,    \* for each phase, what earlier runs may have left at its shared key
  Absent, Corrupt, Unread,
  MaxEntries,   \* bound: phases entered by one run
  MaxFaults     \* bound: kills, failed S3 requests and pruned artifacts

\* A marker as stored; origin is the execution that really wrote it, which the
\* code does not store and only the properties read.
Marker == [token : Execution \cup {NoToken}, status : {"ok", "error"},
           arts : SUBSET Artifact, origin : Execution \cup {NoToken}]

\* A run knows its execution name or has lost it (token = NoToken).
RunConfig ==
  {c \in [exec : Execution \cup {NoToken}, token : Execution \cup {NoToken},
          strict : BOOLEAN, force : SUBSET Phase, skip : SUBSET Phase,
          only : SUBSET Phase] : c.token \in {c.exec, NoToken}}

ASSUME RegistryAssumption ==
  /\ Rehearsal \subseteq Execution
  /\ NoToken \notin Execution
  /\ Phase # {}
  /\ Shared \notin Rehearsal
  /\ Configs \in [Run -> SUBSET RunConfig]
  /\ AutoSkip \subseteq Phase /\ Capped \subseteq Phase
  /\ Absent \notin Marker /\ Corrupt \notin Marker /\ Unread \notin Marker
  /\ Absent # Corrupt /\ Absent # Unread
  /\ Leftovers \in [Phase -> SUBSET (Marker \cup {Absent, Corrupt})]
  /\ \A p \in Phase : \A m \in Leftovers[p] :
       m \in Marker => m.token \in {m.origin, NoToken}
  /\ MaxEntries \in Nat /\ MaxFaults \in Nat

VARIABLES
  marker,     \* S3: the marker object of each namespace and phase
  artifact,   \* S3: the artifact keys that exist
  at,         \* where each run is
  cfg,        \* the configuration of each run
  cache,      \* _markers
  checks,     \* _artifact_checks
  cur,        \* the phase being entered or run
  todo,       \* declared keys that _first_missing_artifact has still to probe
  declared,   \* ctx._artifact_keys
  status,     \* status of the phase block so far
  errors,     \* phase_errors
  raised,     \* the exception that last left phase(), if any
  armed,      \* runs: the watchdog timer of the current phase is running
  tripped,    \* runs: watchdog_state["tripped"] of the current phase
  pending,    \* runs: a watchdog's KeyboardInterrupt is on its way
  entries, faults,
  skipped,    \* history: phases a run auto-skipped on a marker
  seen        \* history: artifact keys a run's own probes found

decision == <<cache, checks, todo, seen>>
block == <<cur, declared, status>>
dog == <<armed, tripped, pending>>
vars == <<marker, artifact, at, cfg, decision, block, dog, errors, raised,
          entries, faults, skipped>>

Namespaces == {Shared} \cup Rehearsal
Places == {"new", "between", "judge", "check", "body", "finally", "ended"}
Exceptions == {"none", "Exception", "PhaseTimeoutError", "KeyboardInterrupt"}

TypeOK ==
  /\ marker \in [Namespaces -> [Phase -> Marker \cup {Absent, Corrupt}]]
  /\ artifact \in SUBSET Artifact
  /\ at \in [Run -> Places]
  /\ cfg \in [Run -> RunConfig]
  /\ cache \in [Run -> [Phase -> Marker \cup {Absent, Unread}]]
  /\ checks \in [Run -> [Phase -> {"unchecked", "present", "missing"}]]
  /\ cur \in [Run -> Phase]
  /\ todo \in [Run -> SUBSET Artifact]
  /\ declared \in [Run -> SUBSET Artifact]
  /\ status \in [Run -> {"ok", "error"}]
  /\ errors \in [Run -> SUBSET Phase]
  /\ raised \in [Run -> Exceptions]
  /\ armed \subseteq Run /\ tripped \subseteq Run /\ pending \subseteq Run
  /\ entries \in [Run -> Nat] /\ faults \in Nat
  /\ skipped \in [Run -> SUBSET Phase]
  /\ seen \in [Run -> SUBSET Artifact]

-----------------------------------------------------------------------------
\* _marker_key: a rehearsal that knows its name has a namespace of its own.
MarkerKey(token) == IF token \in Rehearsal THEN token ELSE Shared

\* What _read_marker makes of the object: a corrupt one is treated as absent.
Parse(obj) == IF obj \in Marker THEN obj ELSE Absent

\* A mutant of Refusal: a marker without a token is accepted from anybody.
RefusalByNameOnly(m, c) ==
  IF m.token \in Rehearsal /\ m.token # c.token THEN "marker_from_rehearsal" ELSE "none"

\* _marker_provenance_refusal: why the marker may not earn this run a skip.
Refusal(m, c) ==
  IF m.token \in Rehearsal /\ m.token # c.token THEN "marker_from_rehearsal"
  ELSE IF c.strict /\ c.token # NoToken /\ m.token = NoToken
       THEN "marker_unattributed" ELSE "none"

OkMarker(m) == m \in Marker /\ m.status = "ok"

Init ==
  /\ \E left \in [Phase -> UNION {Leftovers[p] : p \in Phase}] :
       /\ \A p \in Phase : left[p] \in Leftovers[p]
       /\ marker = [n \in Namespaces |-> IF n = Shared THEN left ELSE [p \in Phase |-> Absent]]
  /\ artifact = {}
  /\ at = [r \in Run |-> "new"]
  /\ cfg \in [Run -> UNION {Configs[r] : r \in Run}]
  /\ \A r \in Run : cfg[r] \in Configs[r]
  /\ cache = [r \in Run |-> [p \in Phase |-> Unread]]
  /\ checks = [r \in Run |-> [p \in Phase |-> "unchecked"]]
  /\ cur = [r \in Run |-> CHOOSE p \in Phase : TRUE]
  /\ todo = [r \in Run |-> {}]
  /\ declared = [r \in Run |-> {}]
  /\ status = [r \in Run |-> "ok"]
  /\ errors = [r \in Run |-> {}]
  /\ raised = [r \in Run |-> "none"]
  /\ armed = {} /\ tripped = {} /\ pending = {}
  /\ entries = [r \in Run |-> 0]
  /\ faults = 0
  /\ skipped = [r \in Run |-> {}]
  /\ seen = [r \in Run |-> {}]

-----------------------------------------------------------------------------
Goto(r, place) == at' = [at EXCEPT ![r] = place]
Fault == faults < MaxFaults /\ faults' = faults + 1

\* The process starts and builds its registry.
Start(r) ==
  /\ at[r] = "new"
  /\ Goto(r, "between")
  /\ UNCHANGED <<marker, artifact, cfg, decision, block, dog, errors, raised,
                 entries, faults, skipped>>

\* should_run says run: the block starts, its watchdog with it.
BeginBody(r, p) ==
  /\ Goto(r, "body")
  /\ declared' = [declared EXCEPT ![r] = {}]
  /\ status' = [status EXCEPT ![r] = "ok"]
  /\ armed' = IF p \in Capped THEN armed \cup {r} ELSE armed \ {r}
  /\ tripped' = tripped \ {r}
  /\ raised' = [raised EXCEPT ![r] = "none"]
  /\ UNCHANGED pending

\* should_run says skip: the block runs with ctx.skipped and loads its artifacts.
Skip(r) ==
  /\ Goto(r, "between")
  /\ UNCHANGED <<declared, status, dog, raised>>

\* phase(p) is entered; the part of should_run that needs no S3 request.
Enter(r, p) ==
  /\ at[r] = "between"
  /\ entries[r] < MaxEntries
  /\ entries' = [entries EXCEPT ![r] = @ + 1]
  /\ cur' = [cur EXCEPT ![r] = p]
  /\ \/ p \notin cfg[r].only /\ Skip(r)
     \/ p \in cfg[r].only /\ p \in cfg[r].skip /\ Skip(r)
     \/ /\ p \in cfg[r].only \ cfg[r].skip
        /\ \/ p \in cfg[r].force /\ BeginBody(r, p)
           \/ p \notin cfg[r].force \cup AutoSkip /\ BeginBody(r, p)
           \/ /\ p \in AutoSkip \ cfg[r].force
              /\ Goto(r, "judge")
              /\ UNCHANGED <<declared, status, dog, raised>>
  /\ UNCHANGED <<marker, artifact, cfg, decision, errors, faults, skipped>>

\* A mutant of ReadMarker: the marker is fetched again on every decision.
ReadMarkerUncached(r) ==
  /\ at[r] = "judge"
  /\ cache' = [cache EXCEPT ![r][cur[r]] = Parse(marker[MarkerKey(cfg[r].token)][cur[r]])]
  /\ UNCHANGED <<marker, artifact, at, cfg, checks, todo, seen, block, dog, errors,
                 raised, entries, faults, skipped>>

\* _read_marker: one get_object per phase and registry, then the cache.
ReadMarker(r) ==
  /\ at[r] = "judge"
  /\ cache[r][cur[r]] = Unread
  /\ cache' = [cache EXCEPT ![r][cur[r]] = Parse(marker[MarkerKey(cfg[r].token)][cur[r]])]
  /\ UNCHANGED <<marker, artifact, at, cfg, checks, todo, seen, block, dog, errors,
                 raised, entries, faults, skipped>>

\* The rest of should_run, on the cached marker.
Judge(r) ==
  LET p == cur[r]
      m == cache[r][p]
      ok == OkMarker(m)
      why == Refusal(m, cfg[r])
  IN /\ at[r] = "judge"
     /\ m # Unread
     /\ \/ /\ ~ok
           /\ BeginBody(r, p)
           /\ UNCHANGED <<checks, todo, skipped>>
        \/ /\ ok /\ why # "none"
           /\ BeginBody(r, p)
           /\ UNCHANGED <<checks, todo, skipped>>
        \/ /\ ok /\ why = "none" /\ checks[r][p] = "missing"
           /\ BeginBody(r, p)
           /\ UNCHANGED <<checks, todo, skipped>>
        \/ /\ ok /\ why = "none" /\ checks[r][p] = "present"
           /\ Skip(r)
           /\ skipped' = [skipped EXCEPT ![r] = @ \cup {p}]
           /\ UNCHANGED <<checks, todo>>
        \/ /\ ok /\ why = "none" /\ checks[r][p] = "unchecked"
           /\ Goto(r, "check")
           /\ todo' = [todo EXCEPT ![r] = m.arts]
           /\ UNCHANGED <<checks, skipped, declared, status, dog, raised>>
     /\ UNCHANGED <<marker, artifact, cfg, cache, seen, cur, errors, entries, faults>>

\* _first_missing_artifact: one head_object per declared key, until one is absent;
\* the answer is cached for the registry's life.
Check(r) ==
  /\ at[r] = "check"
  /\ \/ \E a \in todo[r] :
          \/ /\ a \in artifact
             /\ todo' = [todo EXCEPT ![r] = @ \ {a}]
             /\ seen' = [seen EXCEPT ![r] = @ \cup {a}]
             /\ UNCHANGED <<checks, at>>
          \/ /\ a \notin artifact
             /\ checks' = [checks EXCEPT ![r][cur[r]] = "missing"]
             /\ todo' = [todo EXCEPT ![r] = {}]
             /\ Goto(r, "judge")
             /\ UNCHANGED seen
     \/ /\ todo[r] = {}
        /\ checks' = [checks EXCEPT ![r][cur[r]] = "present"]
        /\ Goto(r, "judge")
        /\ UNCHANGED <<todo, seen>>
  /\ UNCHANGED <<marker, artifact, cfg, cache, block, dog, errors, raised, entries,
                 faults, skipped>>

\* Any other S3 error while deciding is raised out of phase(), before the block.
ReadFails(r) ==
  /\ \/ at[r] = "judge" /\ cache[r][cur[r]] = Unread
     \/ at[r] = "check" /\ todo[r] # {}
  /\ Fault
  /\ raised' = [raised EXCEPT ![r] = "Exception"]
  /\ todo' = [todo EXCEPT ![r] = {}]
  /\ \E place \in {"between", "ended"} : Goto(r, place)
  /\ UNCHANGED <<marker, artifact, cfg, cache, checks, seen, block, dog, errors,
                 entries, skipped>>

-----------------------------------------------------------------------------
\* The block stores an artifact, or declares one (record_artifact).  Nothing ties
\* the two together: a declared artifact may never have reached S3.
Save(r, a) ==
  /\ at[r] = "body"
  /\ artifact' = artifact \cup {a}
  /\ UNCHANGED <<marker, at, cfg, decision, block, dog, errors, raised, entries,
                 faults, skipped>>

RecordArtifact(r, a) ==
  /\ at[r] = "body"
  /\ declared' = [declared EXCEPT ![r] = @ \cup {a}]
  /\ UNCHANGED <<marker, artifact, at, cfg, decision, cur, status, dog,
                 errors, raised, entries, faults, skipped>>

\* The block ends, or an exception of its own leaves it.
BodyEnds(r) ==
  /\ at[r] = "body"
  /\ Goto(r, "finally")
  /\ \/ UNCHANGED <<status, raised>>
     \/ /\ status' = [status EXCEPT ![r] = "error"]
        /\ raised' = [raised EXCEPT ![r] = "Exception"]
  /\ UNCHANGED <<marker, artifact, cfg, decision, cur, declared, dog, errors,
                 entries, faults, skipped>>

\* The timer thread runs _fire: the flag first, then the dump and the interrupt.
Trip(r) ==
  /\ r \in armed
  /\ armed' = armed \ {r}
  /\ tripped' = tripped \cup {r}
  /\ pending' = pending \cup {r}
  /\ UNCHANGED <<marker, artifact, at, cfg, decision, block, errors, raised, entries,
                 faults, skipped>>

\* The KeyboardInterrupt reaches the main thread.  In a block it is mapped by the
\* flag of THAT block's watchdog; elsewhere nothing maps it, and in the finally
\* clause it cuts the clause short (before the marker is written).
Interrupt(r) ==
  /\ r \in pending
  /\ at[r] # "ended"
  /\ pending' = pending \ {r}
  /\ \/ /\ at[r] = "body"
        /\ status' = [status EXCEPT ![r] = "error"]
        /\ raised' = [raised EXCEPT ![r] =
                        IF r \in tripped THEN "PhaseTimeoutError" ELSE "KeyboardInterrupt"]
        /\ Goto(r, "finally")
        /\ UNCHANGED <<armed, tripped>>
     \/ /\ at[r] # "body"
        /\ raised' = [raised EXCEPT ![r] = "KeyboardInterrupt"]
        /\ armed' = armed \ {r}
        /\ Goto(r, "ended")
        /\ UNCHANGED <<status, tripped>>
  /\ UNCHANGED <<marker, artifact, cfg, decision, cur, declared, errors,
                 entries, faults, skipped>>

\* The marker that the finally clause of phase() builds.
EndMarker(r) == [token |-> cfg[r].token, status |-> status[r],
                 arts |-> declared[r], origin |-> cfg[r].exec]

\* The context manager is left: its locals are gone and the timer is cancelled.  An
\* exception goes on to the caller, which may swallow it and enter the next phase.
Leave(r) ==
  /\ \/ Goto(r, "between")
     \/ status[r] = "error" /\ Goto(r, "ended")
  /\ declared' = [declared EXCEPT ![r] = {}]
  /\ status' = [status EXCEPT ![r] = "ok"]
  /\ armed' = armed \ {r}
  /\ tripped' = tripped \ {r}
  /\ UNCHANGED <<cur, pending, raised>>

\* _write_marker: put_object, and only then the cache and phase_errors.
WriteMarker(r) ==
  /\ at[r] = "finally"
  /\ marker' = [marker EXCEPT ![MarkerKey(cfg[r].token)][cur[r]] = EndMarker(r)]
  /\ cache' = [cache EXCEPT ![r][cur[r]] = EndMarker(r)]
  /\ errors' = [errors EXCEPT ![r] = IF status[r] = "error" THEN @ \cup {cur[r]} ELSE @]
  /\ Leave(r)
  /\ UNCHANGED <<artifact, cfg, checks, todo, seen, entries, faults, skipped>>

\* The write fails, or only its reply is lost: a warning, and the pipeline goes on.
WriteMarkerFails(r) ==
  /\ at[r] = "finally"
  /\ Fault
  /\ \/ UNCHANGED marker
     \/ marker' = [marker EXCEPT ![MarkerKey(cfg[r].token)][cur[r]] = EndMarker(r)]
  /\ Leave(r)
  /\ UNCHANGED <<artifact, cfg, decision, errors, entries, skipped>>

\* Spot reclaim, box crash: nothing of the process is left.
Kill(r) ==
  /\ at[r] \notin {"new", "ended"}
  /\ Fault
  /\ Goto(r, "ended")
  /\ armed' = armed \ {r}
  /\ pending' = pending \ {r}
  /\ UNCHANGED <<marker, artifact, cfg, decision, block, tripped, errors, raised,
                 entries, skipped>>

\* A lifecycle rule or an operator removes an artifact.
Prune(a) ==
  /\ a \in artifact
  /\ Fault
  /\ artifact' = artifact \ {a}
  /\ UNCHANGED <<marker, at, cfg, decision, block, dog, errors, raised, entries,
                 skipped>>

Done(r) ==
  /\ at[r] = "between"
  /\ entries[r] = MaxEntries
  /\ Goto(r, "ended")
  /\ UNCHANGED <<marker, artifact, cfg, decision, block, dog, errors, raised, entries,
                 faults, skipped>>

Next ==
  \/ \E r \in Run :
       \/ Start(r) \/ ReadMarker(r) \/ Judge(r) \/ Check(r) \/ ReadFails(r)
       \/ BodyEnds(r) \/ Trip(r) \/ Interrupt(r) \/ WriteMarker(r)
       \/ WriteMarkerFails(r) \/ Kill(r) \/ Done(r)
       \/ \E p \in Phase : Enter(r, p)
       \/ \E a \in Artifact : Save(r, a) \/ RecordArtifact(r, a)
  \/ \E a \in Artifact : Prune(a)

Spec == Init /\ [][Next]_vars
-----------------------------------------------------------------------------
(* Properties *)

\* A production run that demands attributed markers never skips a phase on
\* output a rehearsal produced, whichever rehearsals lost their token; and a
\* rehearsal that knows its name skips only on its own work
\* (_marker_key and _marker_provenance_refusal together).
SkipsOnOwnEvidence ==
  \A r \in Run : \A p \in skipped[r] :
    LET c == cfg[r] IN
      c.strict /\ c.token # NoToken =>
        cache[r][p].origin \in (Execution \ Rehearsal) \cup {c.token}

\* A phase is auto-skipped only on a marker with status=ok, every declared artifact
\* of which this very process has found on S3 (artifact-validated checkpoints).
SkipIsEvidenced ==
  \A r \in Run : \A p \in skipped[r] :
    /\ OkMarker(cache[r][p])
    /\ cache[r][p].arts \subseteq seen[r]

\* No marker at the key every production run reads names a rehearsal, other than
\* one left there before the namespaces existed.
SharedMarkersNameNoRehearsal ==
  \A p \in Phase :
    LET m == marker[Shared][p] IN
      m \in Marker /\ m.token \in Rehearsal => m \in Leftovers[p]

\* A skip rests on evidence that is complete and that the run may use, and what every
\* production run reads was left by no rehearsal that knew its name.
SkipIsEarned == SkipsOnOwnEvidence /\ SkipIsEvidenced /\ SharedMarkersNameNoRehearsal

\* A process that once skipped a phase never computes it later, whatever other runs
\* do to the marker and the artifacts meanwhile: its phases see one decision.
SkipIsStable ==
  [][\A r \in Run : at[r] # "body" /\ at'[r] = "body" => cur'[r] \notin skipped[r]]_vars

\* "has a status=ok marker but its declared artifact is absent - marker INVALID,
\* re-running the phase": a phase is re-run for a missing artifact only if an
\* artifact its marker declares is missing. The code does not keep it; no run checks it.
ReRunsOnlyWhenMissing ==
  [][\A r \in Run :
       at[r] = "judge" /\ at'[r] = "body" /\ OkMarker(cache[r][cur[r]])
         /\ Refusal(cache[r][cur[r]], cfg[r]) = "none" =>
           ~(cache[r][cur[r]].arts \subseteq artifact)]_vars

\* The watchdog's KeyboardInterrupt is mapped to PhaseTimeoutError by the phase it
\* was armed for: it never reaches the caller as a bare KeyboardInterrupt. The code does
\* not keep it; no run checks it.
WatchdogInterruptIsMapped == \A r \in Run : raised[r] # "KeyboardInterrupt"
=============================================================================
