------------------------------ MODULE Substrate ------------------------------
(***************************************************************************)
(* The substrate health checker, src/src/nousergon_lib/transparency.py: a  *)
(* check walks the rows of the transparency inventory in order, asks of     *)
(* each whether its producer is switched off, looks for the artifact of one *)
(* source after the other (a fixed key, or the newest of a dated family),   *)
(* judges what it reads, and then publishes metrics, pages and exits.       *)
(* Producers write and operators flip schedules between any two of those    *)
(* steps, and any call may fail.                                            *)
(*                                                                          *)
(* An object is <<key, slot>>: the slot of a dated key is the day in its    *)
(* name, that of a fixed key is 0.  A file is what the assertions can tell  *)
(* of it.  The producers, the schedules and the metric store are external.  *)
(***************************************************************************)
EXTENDS Integers, Sequences, FiniteSets, FiniteSetsExt, SequencesExt, Lists

CONSTANTS
    Inventories,    \* the inventories a check may be given: rows' names, in order
    InventoryRow,   \* row -> [cadence, effective, gated, nonFatal, sources]
    SubstrateKeys,
    FilesOf,        \* key -> the files its producer may write there
    Machines,       \* the state machines a success rate is asked of
    Tallies,        \* the <<succeeded, failed>> a machine may have
    Envs,           \* [name, role, krepis]: what a check is started with
    SubstrateDays,
    BatchSize,      \* metrics of one put_metric_data
    MaxChecks, MaxStirs, SubstrateFaults

VARIABLES
    calendar,       \* the calendar
    objects,        \* <<key, slot>> -> [on, file], or Missing
    tallies,        \* machine -> its executions in the window
    schedule,       \* ENABLED or DISABLED, the gated rows' producers
    check,          \* the check under way
    metrics,        \* metric -> the value it last had, and the check that put it
    stirs, substrateFaults

substrateVars == <<calendar, objects, tallies, schedule, check, metrics, stirs, substrateFaults>>
world == <<calendar, objects, tallies, schedule, stirs>>

Missing == [on |-> -1, file |-> "none"]
NoneFound == <<"none", 0>>
NoValue == -1
ObjectDays == 0 .. SubstrateDays
InventoryRows == DOMAIN InventoryRow

AllSources == UNION {Range(InventoryRow[row].sources) : row \in InventoryRows}
Dated(key) == \E src \in AllSources : src.dated /\ key \in {src.key, src.companion}
ObjectKinds == {"s3_json", "s3_csv", "s3_parquet", "sqlite_via_s3"}

(* A row is not called as the count of the failing ones is.  A key is dated  *)
(* for all its sources or for none, and only a dated source has a companion, *)
(* as in transparency_inventory.yaml.                                        *)
ASSUME SubstrateAssumption ==
    /\ BatchSize \in Nat \ {0} /\ SubstrateDays \in Nat /\ "failed" \notin InventoryRows
    /\ "none" \notin SubstrateKeys
    /\ Inventories \subseteq Seq(InventoryRows)
    /\ \A row \in InventoryRows :
          /\ InventoryRow[row].effective \in Int
          /\ Len(InventoryRow[row].sources) \in Nat \ {0}
          /\ DOMAIN InventoryRow[row].sources = 1 .. Len(InventoryRow[row].sources)
    /\ \A src \in AllSources :
          /\ src.kind \in ObjectKinds \cup {"cloudwatch"}
          /\ src.kind # "cloudwatch" =>
                /\ src.key \in SubstrateKeys /\ src.companion \in SubstrateKeys \cup {"none"}
                /\ src.dated \in BOOLEAN /\ src.maxAge \in Int
                /\ ~src.dated => ~Dated(src.key) /\ src.companion = "none"

IdleCheck == [n |-> 0, pc |-> "idle", inventory |-> <<>>, day |-> 0, todo |-> <<>>,
              source |-> 0, object |-> NoneFound, hint |-> FALSE, results |-> <<>>, quiet |-> FALSE, alert |-> FALSE, left |-> <<>>,
              emitted |-> "no", paged |-> "no", exit |-> 0, clean |-> TRUE]

SubstrateInit ==
    /\ calendar = 1 /\ stirs = 0 /\ substrateFaults = 0
    /\ objects = [o \in SubstrateKeys \X ObjectDays |-> Missing]
    /\ tallies \in [Machines -> Tallies]
    /\ schedule \in {"ENABLED", "DISABLED"}
    /\ check = IdleCheck
    /\ metrics = [metric \in InventoryRows \cup {"failed"} |-> <<0, 0>>]

Answers == substrateFaults' = substrateFaults
Breaks == substrateFaults < SubstrateFaults /\ substrateFaults' = substrateFaults + 1

-----------------------------------------------------------------------------
(* Judging a file.                                                          *)

EvalOp(value, op, target) ==
    /\ value # NoValue
    /\ CASE op = "gte" -> value >= target
         [] op = "gt"  -> value > target
         [] op = "lte" -> value <= target
         [] op = "lt"  -> value < target
         [] op = "eq"  -> value = target
         [] OTHER      -> FALSE

(* A source with no assertion on a value has op "none".                     *)
ValueHolds(src, file) == src.op = "none" \/ EvalOp(file.value, src.op, src.target)

(* A benign status of the producer's comes before every assertion.          *)
JsonVerdict(src, file) ==
    IF ~file.parses THEN "bad"
    ELSE IF file.status \in src.benign THEN "degraded"
    ELSE IF src.present \subseteq file.names /\ ValueHolds(src, file) THEN "ok" ELSE "bad"

(* The null rule looks at the rows after a date; the latest row must exist. *)
CsvVerdict(src, file) ==
    IF /\ file.parses /\ src.present \subseteq file.names
       /\ file.rows = 0 \/ (src.nonNull \subseteq file.names /\ src.nonNull \cap file.nulls = {})
       /\ src.op = "none" \/ (file.rows > 0 /\ ValueHolds(src, file))
    THEN "ok" ELSE "bad"

ParquetVerdict(src, file) ==
    IF /\ file.parses /\ src.present \cup src.nonNull \subseteq file.names
       /\ src.nonNull \cap file.nulls = {}
    THEN "ok" ELSE "bad"

(* A table without columns is a table that is not there.                    *)
SqliteVerdict(src, file) ==
    IF file.parses /\ file.names # {} /\ src.present \subseteq file.names THEN "ok" ELSE "bad"

FileVerdict(src, file) ==
    CASE src.kind = "s3_json"        -> JsonVerdict(src, file)
      [] src.kind = "s3_csv"         -> CsvVerdict(src, file)
      [] src.kind = "s3_parquet"     -> ParquetVerdict(src, file)
      [] src.kind = "sqlite_via_s3"  -> SqliteVerdict(src, file)

(* Every machine must have run, and succeeded often enough.                 *)
SuccessRateHolds(src) ==
    \A m \in src.machines :
        LET ran == tallies[m][1] + tallies[m][2]
        IN  ran > 0 /\ 100 * tallies[m][1] >= src.target * ran
DatapointsHold(src) == SumFunction([m \in src.machines |-> tallies[m][1]]) >= src.target

CloudWatchVerdict(src) ==
    IF CASE src.op = "success_rate_pct_gte" -> SuccessRateHolds(src)
         [] src.op = "datapoints_gte"       -> DatapointsHold(src)
         [] OTHER                           -> FALSE
    THEN "ok" ELSE "bad"

-----------------------------------------------------------------------------
(* Finding the object.  A HEAD that fails, for whatever reason, finds none. *)

(* Mutant: the walk runs forward, from the oldest day still young enough.   *)
OldestFirst(key, day, maxAge, denied) ==
    LET seen == {d \in ObjectDays : /\ day - d \in 0 .. maxAge /\ <<key, d>> \notin denied
                               /\ objects[<<key, d>>] # Missing}
    IN  IF seen = {} THEN NoneFound ELSE <<key, Min(seen)>>

WalkBack(key, day, maxAge, denied) ==
    LET seen == {d \in ObjectDays : /\ day - d \in 0 .. maxAge /\ <<key, d>> \notin denied
                               /\ objects[<<key, d>>] # Missing}
    IN  IF seen = {} THEN NoneFound ELSE <<key, Max(seen)>>

(* The age of a fixed key is the day it was written; of a dated one, the day*)
(* in its name.                                                             *)
ResolveAndAge(src, day, denied) ==
    IF src.dated THEN WalkBack(src.key, day, src.maxAge, denied)
    ELSE IF <<src.key, 0>> \notin denied /\ objects[<<src.key, 0>>] # Missing
            /\ calendar - objects[<<src.key, 0>>].on <= src.maxAge
         THEN <<src.key, 0>> ELSE NoneFound

CompanionPresent(src, day, denied) ==
    /\ src.companion # "none"
    /\ WalkBack(src.companion, day, src.maxAge, denied) # NoneFound

-----------------------------------------------------------------------------
(* The check, row by row.                                                   *)

Wanted(cadence) == IF cadence = "weekly" THEN {"weekly", "daily"} ELSE {cadence}
FilterRows(inventory, cadence) ==
    Among(inventory, {row \in InventoryRows : InventoryRow[row].cadence \in Wanted(cadence)})

(* The one definition when this krepis has it, else the two inputs it reads.*)
RehearsalToken(env) ==
    IF env.krepis THEN env.name = "rehearsal" \/ env.role = "rehearsal"
    ELSE env.name = "rehearsal" \/ (env.name = "none" /\ env.role = "rehearsal")

StartCheck(inventory, cadence, env, alert, noEmit) ==
    /\ check.pc \in {"idle", "done"} /\ check.n < MaxChecks
    /\ check' = [IdleCheck EXCEPT
           !.n = check.n + 1, !.pc = "row", !.day = calendar, !.todo = FilterRows(inventory, cadence),
           !.inventory = inventory,
           !.quiet = RehearsalToken(env), !.alert = alert,
           !.emitted = IF noEmit THEN "refused" ELSE "no"]
    /\ UNCHANGED <<world, metrics, substrateFaults>>

Row == Head(check.todo)
Source == InventoryRow[Row].sources[check.source]
Concluded(status) ==
    LET told == check.results
    IN  [check EXCEPT !.pc = "row", !.todo = Tail(@), !.source = 0, !.hint = FALSE,
             !.object = NoneFound,
             !.results = [row \in DOMAIN told \cup {Row} |->
                             IF row \in DOMAIN told THEN told[row] ELSE status]]

(* After a source that did not hold: the next, or the row's own verdict.    *)
NextSource(hint) ==
    LET degraded == check.hint \/ hint
    IN  IF check.source < Len(InventoryRow[Row].sources)
        THEN [check EXCEPT !.pc = "source", !.source = @ + 1, !.hint = degraded,
                           !.object = NoneFound]
        ELSE Concluded(IF InventoryRow[Row].nonFatal \/ degraded THEN "degraded" ELSE "fail")

After(verdict) == IF verdict = "ok" THEN Concluded("ok") ELSE NextSource(verdict = "degraded")

(* Only a rule read as DISABLED gates its row.                              *)
RowGates(state) == state = "DISABLED"

BeginRow ==
    /\ check.pc = "row" /\ check.todo # <<>>
    /\ \E state \in {schedule, "unreadable"} :
          /\ IF state = "unreadable" THEN InventoryRow[Row].gated /\ Breaks ELSE Answers
          /\ check' = IF check.day < InventoryRow[Row].effective THEN Concluded("not_yet_effective")
                      ELSE IF InventoryRow[Row].gated /\ RowGates(state) THEN Concluded("gated")
                      ELSE [check EXCEPT !.pc = "source", !.source = 1,
                                         !.clean = state # "unreadable"]
    /\ UNCHANGED <<world, metrics>>

(* Look for the object; a missing one may be excused by its companion.  The *)
(* code asks for one day after the other, then for the companion's days:    *)
(* here it is one step, and a write that would come between two of those    *)
(* requests disturbs the row, before the step or after it.                  *)
LookForObject ==
    /\ check.pc = "source" /\ Source.kind # "cloudwatch"
    /\ \E denied \in {{}} \cup {{o} : o \in DOMAIN objects} :
          /\ IF denied = {} THEN Answers
             ELSE Breaks /\ \E o \in denied : o[1] \in {Source.key, Source.companion} /\ objects[o] # Missing
          /\ LET found == ResolveAndAge(Source, check.day, denied)
                 next == IF found # NoneFound
                         THEN [check EXCEPT !.pc = "get", !.object = found]
                         ELSE After(IF CompanionPresent(Source, check.day, denied)
                                    THEN "ok" ELSE "bad")
             IN  check' = [next EXCEPT !.clean = check.clean /\ denied = {}]
    /\ UNCHANGED <<world, metrics>>

(* Read what was found, as it is by now; an exception is a failed source.   *)
ReadObject ==
    /\ check.pc = "get"
    /\ \/ Answers /\ check' = After(FileVerdict(Source, objects[check.object].file))
       \/ Breaks /\ check' = [NextSource(FALSE) EXCEPT !.clean = FALSE]
    /\ UNCHANGED <<world, metrics>>

AskCloudWatch ==
    /\ check.pc = "source" /\ Source.kind = "cloudwatch"
    /\ \/ Answers /\ check' = After(CloudWatchVerdict(Source))
       \/ Breaks /\ check' = [NextSource(FALSE) EXCEPT !.clean = FALSE]
    /\ UNCHANGED <<world, metrics>>

-----------------------------------------------------------------------------
(* Telling of it.                                                           *)

With(results, status) == {row \in DOMAIN results : results[row] = status}
Failing == With(check.results, "fail")
RowValue(status) == IF status \in {"ok", "not_yet_effective", "degraded", "gated"} THEN 1 ELSE 0
MetricData ==
    Among(check.inventory, DOMAIN check.results) \o <<"ok", "failed", "degraded", "pending", "gated">>

(* Mutant: only the first batch goes out.                                  *)
FirstBatch(data) == SubSeq(data, 1, Min({BatchSize, Len(data)}))

(* Everything is put, the last batch a short one.                           *)
Batches(data) == data

ReportDone ==
    /\ check.pc = "row" /\ check.todo = <<>>
    /\ check' = [check EXCEPT !.pc = "emit",
           !.left = IF check.quiet \/ check.emitted = "refused" THEN <<>> ELSE Batches(MetricData)]
    /\ UNCHANGED <<world, metrics, substrateFaults>>

(* A batch that cannot be put takes the rest with it, and nothing more.     *)
PutBatch ==
    /\ check.pc = "emit" /\ check.left # <<>>
    /\ \/ /\ Answers
          /\ LET size == Min({BatchSize, Len(check.left)})
                 batch == Range(SubSeq(check.left, 1, size))
             IN  /\ metrics' = [m \in DOMAIN metrics |->
                        IF m \notin batch THEN metrics[m]
                        ELSE <<IF m = "failed" THEN Cardinality(Failing)
                               ELSE RowValue(check.results[m]), check.n>>]
                 /\ check' = [check EXCEPT !.left = SubSeq(@, size + 1, Len(@))]
       \/ /\ Breaks /\ UNCHANGED metrics
          /\ check' = [check EXCEPT !.left = <<>>, !.emitted = "failed"]
    /\ UNCHANGED world

PageAndExit ==
    /\ check.pc = "emit" /\ check.left = <<>>
    /\ LET pages == Failing # {} /\ check.alert /\ ~check.quiet
           left(paged) == check' = [check EXCEPT !.pc = "done", !.paged = paged,
                                        !.exit = IF Failing = {} THEN 0 ELSE 1]
       IN  \/ Answers /\ left(IF pages THEN "yes" ELSE "no")
           \/ Breaks /\ pages /\ left("failed")
    /\ UNCHANGED <<world, metrics>>

-----------------------------------------------------------------------------
(* The world outside.                                                       *)

(* What changes while a row is being judged may change its verdict.         *)
Disturbs == check' = IF check.pc \in {"source", "get"} THEN [check EXCEPT !.clean = FALSE] ELSE check

WriteObject(key, file) ==
    /\ stirs < MaxStirs /\ stirs' = stirs + 1
    /\ objects' = [objects EXCEPT ![<<key, IF Dated(key) THEN calendar ELSE 0>>] =
                      [on |-> calendar, file |-> file]]
    /\ Disturbs
    /\ UNCHANGED <<calendar, tallies, schedule, metrics, substrateFaults>>

FlipSchedule ==
    /\ stirs < MaxStirs /\ stirs' = stirs + 1
    /\ schedule' = IF schedule = "ENABLED" THEN "DISABLED" ELSE "ENABLED"
    /\ Disturbs
    /\ UNCHANGED <<calendar, objects, tallies, metrics, substrateFaults>>

DayPasses ==
    /\ calendar < SubstrateDays /\ calendar' = calendar + 1
    /\ Disturbs
    /\ UNCHANGED <<objects, tallies, schedule, metrics, stirs, substrateFaults>>

SubstrateNext ==
    \/ \E inventory \in Inventories, cadence \in {"weekly", "daily", "per_event"}, env \in Envs,
          alert, noEmit \in BOOLEAN : StartCheck(inventory, cadence, env, alert, noEmit)
    \/ BeginRow \/ LookForObject \/ ReadObject \/ AskCloudWatch
    \/ ReportDone \/ PutBatch \/ PageAndExit
    \/ \E key \in SubstrateKeys : \E file \in FilesOf[key] : WriteObject(key, file)
    \/ FlipSchedule \/ DayPasses

SubstrateSpec == SubstrateInit /\ [][SubstrateNext]_substrateVars

-----------------------------------------------------------------------------
(* What a source is worth, said over the whole store at once: its newest     *)
(* object that is young enough, or its companion when there is none.         *)
Young(src, o) == check.day - o[2] \in 0 .. src.maxAge
NewestOf(src, key) ==
    LET there == {o \in DOMAIN objects : o[1] = key /\ objects[o] # Missing
                    /\ IF src.dated THEN Young(src, o) ELSE calendar - objects[o].on <= src.maxAge}
    IN  {o \in there : \A other \in there : other[2] <= o[2]}
Worth(src) ==
    IF src.kind = "cloudwatch" THEN CloudWatchVerdict(src)
    ELSE LET newest == NewestOf(src, src.key)
         IN  IF newest # {} THEN FileVerdict(src, objects[CHOOSE o \in newest : TRUE].file)
             ELSE IF src.companion # "none" /\ NewestOf(src, src.companion) # {} THEN "ok"
             ELSE "bad"
WorthOf(row) == {Worth(InventoryRow[row].sources[i]) : i \in DOMAIN InventoryRow[row].sources}

(* The verdict the store as a whole gives a row: due or not, gated by a rule *)
(* that is DISABLED, or else what its sources are worth.                     *)
EarnedVerdict(row, status, clean) ==
    LET due == check.day >= InventoryRow[row].effective
    IN  /\ status = "not_yet_effective" <=> ~due
        /\ status = "gated" => InventoryRow[row].gated /\ schedule = "DISABLED"
        /\ clean /\ due /\ status # "gated" =>
              /\ status = "ok" <=> "ok" \in WorthOf(row)
              /\ status = "fail" <=> WorthOf(row) = {"bad"} /\ ~InventoryRow[row].nonFatal

(* The verdict of a row during which no call failed and nothing changed is   *)
(* what the store as a whole says of it; and whatever fails, a row that is    *)
(* not judged on its sources has a rule that is DISABLED, never one that      *)
(* could not be read (transparency.py:_rule_state, "must never gate a row").  *)
VerdictIsEarned ==
    [][\A row \in DOMAIN check'.results \ DOMAIN check.results :
          EarnedVerdict(row, check'.results[row], check'.clean)]_substrateVars

(* A failing row is heard of: the process exits 1, and unless it was told not *)
(* to, or the call failed, the row's metric is 0, the count says how many     *)
(* failed, and somebody is paged.  A rehearsal leaves no mark on either.      *)
FailureIsHeard ==
    check.pc = "done" =>
        /\ check.exit = 1 <=> Failing # {}
        /\ check.quiet => check.paged = "no" /\ \A m \in DOMAIN metrics : metrics[m][2] # check.n
        /\ ~check.quiet /\ check.emitted = "no" =>
              /\ \A row \in Failing : metrics[row] = <<0, check.n>>
              /\ metrics["failed"] = <<Cardinality(Failing), check.n>>
        /\ ~check.quiet /\ check.alert /\ Failing # {} => check.paged # "no"
=============================================================================
