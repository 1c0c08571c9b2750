----------------------------- MODULE HealthStamp -----------------------------
(***************************************************************************)
(* The records a process leaves on the live surfaces of the research       *)
(* bucket: the stamp of src/src/nousergon_lib/health.py at the end of a    *)
(* module's run, and the row of src/src/nousergon_lib/fleet_check_result.py*)
(* that the console reads.  A rehearsal's records go to a namespace of its *)
(* own (src/src/nousergon_lib/rehearsal.py).  A process may claim outputs  *)
(* it did not make, may die, and any S3 call may fail; readers ask how     *)
(* their upstream modules are.                                             *)
(*                                                                         *)
(* A run is one process; times are ticks.  Writing the outputs themselves  *)
(* is the caller's and external.                                           *)
(***************************************************************************)
EXTENDS Integers, FiniteSets

CONSTANTS
    Processes,
    ProcessOf,      \* process -> [module, name, role, test, declares]
    StampKeyOf,     \* module -> its key (HEALTH_KEYS: two modules may share one)
    Artifacts,
    ClaimedCadences,    \* what a check claims its cadence is; an event-driven one has none
    Buffer,         \* the ticks of _ARTIFACT_FRESHNESS_BUFFER_SECONDS
    MaxStampAge,         \* max_age_hours of an upstream check, in ticks
    StampHorizon,        \* the last tick
    StampFaults     \* how many S3 calls may fail

VARIABLES
    clock,
    written,        \* artifact -> the tick it was last written, or Absent
    process,        \* process -> where its run is, and what it has to say
    stamps,         \* live key -> the stamp last put there, or Unstamped
    consoleRow,     \* the live row of the check, or Unstamped
    upstream,       \* the last answer of check_upstream_health
    stampFaults

stampVars == <<clock, written, process, stamps, consoleRow, upstream, stampFaults>>

Absent == -1
NoKey == "none"
Unstamped == [status |-> "absent", lastSuccess |-> Absent, by |-> "nobody", since |-> 0,
              unverified |-> {}]
Unasked == [module |-> "none", status |-> "unasked", stale |-> TRUE, at |-> 0]
IdleProcess == [pc |-> "idle", start |-> 0, produced |-> {}, left |-> {}, unverified |-> {},
         troubled |-> "no", payload |-> Unstamped]

Modules == DOMAIN StampKeyOf
StampKeys == {StampKeyOf[m] : m \in Modules}
Module(p) == ProcessOf[p].module
Declares(p) == ProcessOf[p].declares       \* deliverables [artifact, required]

(* A run is of a known module, and declares outputs of its own keys.        *)
ASSUME StampAssumption ==
    /\ Buffer \in Nat /\ MaxStampAge \in Nat /\ NoKey \notin Artifacts
    /\ \A p \in Processes :
           /\ p # "nobody" /\ Module(p) \in Modules
           /\ \A d \in Declares(p) : d.artifact \in Artifacts \cup {NoKey}

StampInit ==
    /\ clock = 0 /\ stampFaults = 0
    /\ written = [a \in Artifacts |-> Absent]
    /\ process = [p \in Processes |-> IdleProcess]
    /\ stamps = [k \in StampKeys |-> Unstamped] /\ consoleRow = Unstamped
    /\ upstream = Unasked

-----------------------------------------------------------------------------
(* Is this process part of a rehearsal?  Its execution's name says so, or   *)
(* the role its launcher set.                                              *)
IsRehearsal(p) == ProcessOf[p].name = "rehearsal" \/ ProcessOf[p].role = "rehearsal"

(* namespaced_key: a rehearsal's record never lands at the live key.       *)
AtLiveKey(p) == ~IsRehearsal(p)

Fails == stampFaults < StampFaults /\ stampFaults' = stampFaults + 1
Works == UNCHANGED stampFaults

BeginRun(p) ==
    /\ process[p].pc = "idle"
    /\ process' = [process EXCEPT ![p].pc = "running", ![p].start = clock]
    /\ UNCHANGED <<clock, written, stamps, consoleRow, upstream, stampFaults>>

WriteOutput(p, d) ==
    /\ process[p].pc = "running" /\ d.artifact # NoKey /\ written[d.artifact] # clock
    /\ written' = [written EXCEPT ![d.artifact] = clock]
    /\ UNCHANGED <<clock, process, stamps, consoleRow, upstream, stampFaults>>

(* write_health is called with what the run says it produced, whatever it  *)
(* did; the claims with a key are to be verified, unless no client can be   *)
(* had, when all stand as declared.                                        *)
CallWriteHealth(p, claims, troubled) ==
    LET keyed == {d \in claims : d.artifact # NoKey}
    IN  /\ process[p].pc = "running"
        /\ \/ /\ Works
              /\ process' = [process EXCEPT ![p].pc = "verify", ![p].produced = claims,
                                 ![p].left = keyed, ![p].troubled = troubled]
           \/ /\ Fails /\ keyed # {}
              /\ process' = [process EXCEPT ![p].pc = "verify", ![p].produced = claims,
                                 ![p].unverified = keyed, ![p].troubled = troubled]
        /\ UNCHANGED <<clock, written, stamps, consoleRow, upstream>>

(* Mutant: an object that is there counts, of whatever run.                *)
FreshWhenPresent(at, since) == at # Absent

(* A claim stands when its object was touched in this run's window.        *)
IsFresh(at, since) == at # Absent /\ at >= since - Buffer

(* verify_fresh_s3: confirmed absence or staleness takes the claim back; an *)
(* answer that could not be had leaves it as declared.                     *)
VerifyFreshS3(p, d) ==
    /\ process[p].pc = "verify" /\ d \in process[p].left
    /\ \/ /\ Works
          /\ process' = [process EXCEPT ![p].left = @ \ {d},
                 ![p].produced = IF IsFresh(written[d.artifact], process[p].start)
                                 THEN @ ELSE @ \ {d}]
       \/ /\ Fails
          /\ process' = [process EXCEPT ![p].left = @ \ {d}, ![p].unverified = @ \cup {d}]
    /\ UNCHANGED <<clock, written, stamps, consoleRow, upstream>>

MissingRequired(declared, produced) == {d \in declared : d.required /\ d \notin produced}

DeriveStatus(declared, produced, troubled) ==
    IF troubled = "error" \/ MissingRequired(declared, produced) # {} THEN "failed"
    ELSE IF declared = {} \/ troubled = "warnings" \/ produced # declared THEN "degraded"
    ELSE "ok"

(* Mutant: a failed run is a success of its own, to the reader's clock.    *)
SuccessOfAnyRun(status) == clock

LastSuccess(status) == IF status = "failed" THEN Absent ELSE clock

BuildHealthPayload(p) ==
    LET status == DeriveStatus(Declares(p), process[p].produced, process[p].troubled)
    IN  /\ process[p].pc = "verify" /\ process[p].left = {}
        /\ process' = [process EXCEPT ![p].pc = "put",
               ![p].payload = [status |-> status, lastSuccess |-> LastSuccess(status), by |-> p,
                               since |-> process[p].start, unverified |-> process[p].unverified]]
        /\ UNCHANGED <<clock, written, stamps, consoleRow, upstream, stampFaults>>

(* A put that fails is logged and swallowed: the old stamp stays.          *)
PutStamp(p) ==
    /\ process[p].pc = "put"
    /\ process' = [process EXCEPT ![p].pc = "done"]
    /\ \/ /\ Works
          /\ stamps' = IF AtLiveKey(p) THEN [stamps EXCEPT ![StampKeyOf[Module(p)]] =
                                                process[p].payload]
                       ELSE stamps
       \/ Fails /\ UNCHANGED stamps
    /\ UNCHANGED <<clock, written, consoleRow, upstream>>

(* build refuses a cadence that would make every publish stale at once.     *)
NoCadence == -1
Buildable(cadence) == cadence = NoCadence \/ cadence > 0

(* emit: a dry run and a process under test write nothing; a put that fails *)
(* is swallowed.                                                           *)
EmitResult(p, status, cadence, dryRun) ==
    /\ process[p].pc \in {"running", "done"} /\ Buildable(cadence)
    /\ process' = [process EXCEPT ![p].pc = "told"]
    /\ \/ /\ Works
          /\ consoleRow' = IF dryRun \/ ProcessOf[p].test \/ ~AtLiveKey(p) THEN consoleRow
                           ELSE [Unstamped EXCEPT !.status = status, !.lastSuccess = clock,
                                                  !.by = p]
       \/ Fails /\ UNCHANGED consoleRow
    /\ UNCHANGED <<clock, written, stamps, upstream>>

(* check_upstream_health: a stamp that cannot be read is no stamp; a failed *)
(* run, or one too long ago, is stale.                                     *)
CheckUpstreamHealth(m) ==
    LET stamp == stamps[StampKeyOf[m]]
        fresh == stamp.lastSuccess # Absent /\ clock - stamp.lastSuccess <= MaxStampAge
        answer(status, stale) == [module |-> m, status |-> status, stale |-> stale, at |-> clock]
    IN  /\ \/ /\ Works
              /\ upstream' = IF stamp = Unstamped THEN answer("unknown", TRUE)
                             ELSE answer(stamp.status, ~fresh)
           \/ Fails /\ upstream' = answer("unknown", TRUE)
        /\ UNCHANGED <<clock, written, process, stamps, consoleRow>>

Die(p) ==
    /\ process[p].pc \in {"running", "verify", "put"}
    /\ process' = [process EXCEPT ![p].pc = "dead"]
    /\ UNCHANGED <<clock, written, stamps, consoleRow, upstream, stampFaults>>

StampTick ==
    /\ clock < StampHorizon /\ clock' = clock + 1
    /\ UNCHANGED <<written, process, stamps, consoleRow, upstream, stampFaults>>

StampNext ==
    \/ \E p \in Processes :
          \/ BeginRun(p) \/ BuildHealthPayload(p) \/ PutStamp(p) \/ Die(p)
          \/ \E d \in Declares(p) : WriteOutput(p, d) \/ VerifyFreshS3(p, d)
          \/ \E claims \in SUBSET Declares(p), troubled \in {"no", "warnings", "error"} :
                CallWriteHealth(p, claims, troubled)
          \/ \E status \in {"ok", "error"}, cadence \in ClaimedCadences, dryRun \in BOOLEAN :
                EmitResult(p, status, cadence, dryRun)
    \/ \E m \in Modules : CheckUpstreamHealth(m)
    \/ StampTick

StampSpec == StampInit /\ [][StampNext]_stampVars

-----------------------------------------------------------------------------
AllClaims == UNION {Declares(p) : p \in Processes}
StampType == [status : {"absent", "ok", "degraded", "failed", "error"},
              lastSuccess : Nat \cup {Absent}, by : Processes \cup {"nobody"}, since : Nat,
              unverified : SUBSET AllClaims]
ProcessType == [pc : {"idle", "running", "verify", "put", "done", "told", "dead"},
                start : Nat, produced : SUBSET AllClaims, left : SUBSET AllClaims,
                unverified : SUBSET AllClaims, troubled : {"no", "warnings", "error"},
                payload : StampType]

(* Every variable holds a value of its kind.                               *)
StampTypeOK ==
    /\ clock \in Nat
    /\ written \in [Artifacts -> Nat \cup {Absent}]
    /\ process \in [Processes -> ProcessType]
    /\ stamps \in [StampKeys -> StampType] /\ consoleRow \in StampType

(* If a record says ok, its run declared something, and everything with a   *)
(* key required of it was written since that run began.                    *)
Earned(stamp) == stamp.status = "ok" =>
    /\ Declares(stamp.by) # {}
    /\ \A d \in Declares(stamp.by) :
          d.required /\ d.artifact # NoKey /\ d \notin stamp.unverified
             => written[d.artifact] # Absent
                /\ written[d.artifact] >= stamp.since - Buffer

(* A stamp that says ok was earned, by the store's own record: a claim      *)
(* outlives a stale or missing object only when S3 would not say            *)
(* (health.py:152, "config#3153").                                          *)
OkIsProduced == \A k \in StampKeys : Earned(stamps[k])

(* A module that its reader takes for fresh has had a run of its own (or of *)
(* the module it shares its stamp with) that was no rehearsal, did not fail, *)
(* and ended within the age; the console's row is of no rehearsal and no     *)
(* test either.                                                              *)
FreshSurfaceRanLive ==
    /\ ~upstream.stale =>
           \E p \in Processes :
              /\ StampKeyOf[Module(p)] = StampKeyOf[upstream.module]
              /\ ProcessOf[p].name # "rehearsal" /\ ProcessOf[p].role # "rehearsal"
              /\ process[p].payload.status \in {"ok", "degraded"}
              /\ process[p].payload.lastSuccess >= upstream.at - MaxStampAge
    /\ consoleRow # Unstamped =>
           LET p == ProcessOf[consoleRow.by]
           IN  p.name # "rehearsal" /\ p.role # "rehearsal" /\ ~p.test
=============================================================================
