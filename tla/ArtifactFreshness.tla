-------------------------- MODULE ArtifactFreshness --------------------------
(***************************************************************************)
(* The freshness monitor, src/src/nousergon_lib/artifact_freshness.py.     *)
(* A registry of artifact rows is validated, then swept: each row is       *)
(* probed with a LIST of its prefix (shared by the rows of one sweep) or a *)
(* HEAD of its key, judged by the recency of its newest instance, re-graded*)
(* against its local deadline, and the gaps are routed over the dependency *)
(* graph so that only their root causes page.  Producers keep writing      *)
(* while a sweep runs, and a probe may be refused.                         *)
(*                                                                         *)
(* Time is counted in hours, 24 to a UTC day; day 0 is a Monday.  A key is *)
(* a sequence of tokens and a template is a key that may hold the tokens   *)
(* DateToken ({date}, {trading_day}, {cycle_label}), Star and PartStar.    *)
(* The calendar (trading_calendar) and the object store are external.      *)
(***************************************************************************)
EXTENDS Integers, Sequences, FiniteSets, FiniteSetsExt, SequencesExt, Lists

CONSTANTS
    Registries,     \* candidate registries: sequences of rows
    Keys,           \* the object keys producers write
    Dates,          \* the tokens that are ISO dates
    Instants,       \* the hours at which something may happen
    Holidays,       \* weekdays on which the exchange is closed
    DstEnds,        \* first UTC day on standard time
    ListCap,        \* objects a LIST returns before it is cut off
    Contents,       \* key -> the row counts its producer may write (NoTime: unreadable)
    MaxWrites, MaxRefusals, MaxSweeps

DateToken == "{date}"
Star      == "*"
PartStar  == "v*"
NoTime    == -1

-----------------------------------------------------------------------------
(* The calendar.                                                           *)

Hour(t)       == t % 24
UtcDay(t)     == t \div 24
Weekday(d)    == d % 7
TradingDay(d) == Weekday(d) <= 4 /\ d \notin Holidays
ZoneOffset(d) == IF d < DstEnds THEN 4 ELSE 5
LocalDay(t)   == (t - ZoneOffset(UtcDay(t))) \div 24
LocalHour(d, h) == 24 * d + h + ZoneOffset(d)

LastClosedTradingDay(t) ==
    Max({d \in UtcDay(t) - 10 .. UtcDay(t) : TradingDay(d) /\ LocalHour(d, 16) <= t})
PreviousTradingDay(day) == Max({d \in day - 10 .. day - 1 : TradingDay(d)})
SubtractTradingDays(day, n) ==
    LET back[i \in 0 .. n] == IF i = 0 THEN day ELSE PreviousTradingDay(back[i - 1])
    IN  back[n]

LastWeekday(d, dow) == d - ((Weekday(d) - dow) % 7)
MostRecentWeekday(d) == Max({e \in d - 2 .. d : Weekday(e) <= 4})

-----------------------------------------------------------------------------
(* Rows and what makes a registry legal.                                   *)

Cadences  == {"saturday_sf", "sunday_sf", "weekday_sf", "eod_sf", "continuous", "event_driven"}
Calendars == {"all_days", "trading_days", "market_hours"}

RunCalendar(row) ==
    IF row.run_calendar # "none" THEN row.run_calendar
    ELSE IF row.active_hours # <<>> THEN "market_hours" ELSE "all_days"

Wildcards(tmpl) == {i \in DOMAIN tmpl : tmpl[i] \in {Star, PartStar}}

ValidKeyTemplate(tmpl) ==
    /\ Cardinality(Wildcards(tmpl)) <= 1
    /\ \A i \in Wildcards(tmpl) : tmpl[i] = Star /\ i < Len(tmpl)

ValidActiveWindow(row) ==
    /\ row.run_calendar # "none" => row.run_calendar \in Calendars /\ row.cadence = "continuous"
    /\ RunCalendar(row) = "market_hours" => row.active_hours # <<>>
    /\ row.active_hours # <<>> =>
          /\ row.cadence = "continuous"
          /\ Len(row.active_hours) = 2
          /\ 0 <= row.active_hours[1] /\ row.active_hours[1] < row.active_hours[2]
          /\ row.active_hours[2] <= 24

ValidLivenessVia(row) ==
    IF row.cadence = "event_driven"
    THEN row.liveness_via # "none" /\ row.liveness_via # row.id
    ELSE row.liveness_via = "none"

ValidDeadline(row) == row.deadline = NoTime \/ row.deadline \in 0 .. 23

SlaIsRead(row) ==
    \/ row.cadence # "continuous"
    \/ RunCalendar(row) = "all_days"
    \/ row.interval < 24
    \/ row.sla = 0

ValidRow(row) ==
    /\ row.cadence \in Cadences
    /\ ValidLivenessVia(row)
    /\ row.severity \in {"warning", "critical"}
    /\ row.sla >= 0 /\ row.grace >= 0
    /\ row.cadence = "continuous" => row.interval > 0
    /\ ValidActiveWindow(row)
    /\ row.id \notin row.depends_on
    /\ ValidKeyTemplate(row.key) /\ ValidKeyTemplate(row.recovery)
    /\ row.absence_expected => row.cadence = "event_driven" /\ row.liveness_via # "none"
    /\ ValidDeadline(row)
    /\ SlaIsRead(row)

(* The dependency graph: Ids, and the direct upstreams and dependents.     *)
Ids(reg)          == {reg[i].id : i \in DOMAIN reg}
RowOf(reg, id)    == reg[CHOOSE i \in DOMAIN reg : reg[i].id = id]
Upstream(reg, id) == RowOf(reg, id).depends_on
Dependents(reg, id) == {b \in Ids(reg) : id \in Upstream(reg, b)}
Leaves(reg)       == {a \in Ids(reg) : Dependents(reg, a) = {}}

(* What is reached from seed: in every set that holds seed and, with each of *)
(* its ids, the ids that step leads to.                                      *)
Closure(step, seed) ==
    {a \in DOMAIN step :
        \A S \in SUBSET DOMAIN step : seed \subseteq S /\ (\A b \in S : step[b] \subseteq S) => a \in S}

Ancestors(reg, id) ==
    Closure([a \in Ids(reg) |-> Upstream(reg, a)], Upstream(reg, id))

ReachableLeaves(reg, id) ==
    Closure([a \in Ids(reg) |-> Dependents(reg, a)], {id}) \cap Leaves(reg)

Acyclic(reg) == \A a \in Ids(reg) : a \notin Ancestors(reg, a)

BuildsGraph(reg) ==
    /\ Cardinality(Ids(reg)) = Len(reg)
    /\ \A i \in DOMAIN reg : reg[i].depends_on \subseteq Ids(reg)
    /\ \A i \in DOMAIN reg : reg[i].cadence = "event_driven" =>
          /\ reg[i].liveness_via \in Ids(reg)
          /\ RowOf(reg, reg[i].liveness_via).cadence # "event_driven"
    /\ Acyclic(reg)

RegistryLoads(reg) == (\A i \in DOMAIN reg : ValidRow(reg[i])) /\ BuildsGraph(reg)

-----------------------------------------------------------------------------
(* The cycle a row is in, and the oldest instance that still counts.       *)

SaturdayTick == 9
WeekdayAnchor == 9
EodAnchor     == 17
StaleDays     == 10

WeeklyTick(dow, t) ==
    LET tick == 24 * LastWeekday(UtcDay(t), dow) + SaturdayTick
    IN  IF tick > t THEN tick - 7 * 24 ELSE tick

WeekdayTick(anchor, t) ==
    LET d == MostRecentWeekday(UtcDay(t))
    IN  IF LocalHour(d, anchor) > t
        THEN LocalHour(MostRecentWeekday(d - 1), anchor)
        ELSE LocalHour(d, anchor)

CycleTick(row, t) ==
    CASE row.cadence = "saturday_sf"  -> WeeklyTick(5, t)
      [] row.cadence = "sunday_sf"    -> WeeklyTick(6, t)
      [] row.cadence = "weekday_sf"   -> WeekdayTick(WeekdayAnchor, t)
      [] row.cadence = "eod_sf"       -> WeekdayTick(EodAnchor, t)
      [] row.cadence = "continuous"   -> (t \div row.interval) * row.interval
      [] row.cadence = "event_driven" -> 24 * UtcDay(t)

DedupKey(row, t) == <<row.id, CycleTick(row, t)>>

CycleLength(row) ==
    CASE row.cadence \in {"saturday_sf", "sunday_sf"} -> 7 * 24
      [] row.cadence = "continuous" -> row.interval
      [] OTHER -> 24

FreshnessFloor(row, t) ==
    CASE row.cadence \in {"saturday_sf", "sunday_sf"} -> t - 24 * StaleDays
      [] row.cadence \in {"weekday_sf", "eod_sf"} ->
            24 * PreviousTradingDay(LastClosedTradingDay(t))
      [] row.cadence = "continuous" ->
            IF RunCalendar(row) # "all_days" /\ row.interval >= 24
            THEN 24 * SubtractTradingDays(LastClosedTradingDay(t), (row.interval + 23) \div 24)
            ELSE t - (row.interval + row.sla)
      [] OTHER -> 0

LeadingEdge(row, t) ==
    t < 24 * UtcDay(t) + row.active_hours[1] + row.interval + row.sla

ContinuousIdle(row, t) ==
    /\ RunCalendar(row) # "all_days"
    /\ \/ ~TradingDay(UtcDay(t))
       \/ /\ RunCalendar(row) = "market_hours"
          /\ \/ Hour(t) \notin row.active_hours[1] .. row.active_hours[2] - 1
             \/ LeadingEdge(row, t)

-----------------------------------------------------------------------------
(* Probes: a HEAD, or a LIST filtered to the row's own instances.          *)

FirstVariable(tmpl) == {i \in DOMAIN tmpl : tmpl[i] \in {DateToken, Star, PartStar}}
IsTemplated(tmpl)   == FirstVariable(tmpl) # {}
ListablePrefix(tmpl) == SubSeq(tmpl, 1, Min(FirstVariable(tmpl)) - 1)
KeySuffix(tmpl) ==
    LET dates == {i \in DOMAIN tmpl : tmpl[i] = DateToken}
        after == IF dates # {} THEN Max(dates) ELSE Max(FirstVariable(tmpl))
    IN  SubSeq(tmpl, after + 1, Len(tmpl))

MatchesKeyTemplate(key, tmpl) ==
    /\ Len(key) = Len(tmpl)
    /\ \A i \in DOMAIN tmpl :
          \/ tmpl[i] = Star
          \/ tmpl[i] = DateToken /\ key[i] \in Dates
          \/ tmpl[i] = key[i]

IsInstance(key, tmpl) ==
    IF Wildcards(tmpl) # {} THEN MatchesKeyTemplate(key, tmpl)
    ELSE IsPrefix(ListablePrefix(tmpl), key) /\ IsSuffix(KeySuffix(tmpl), key)

ListPrefix(bucket, prefix, refused) ==
    LET seen == {k \in Keys : bucket[k].at # NoTime /\ IsPrefix(prefix, k)}
    IN  IF refused \/ Cardinality(seen) > ListCap
        THEN [objects |-> {}, error |-> TRUE]
        ELSE [objects |-> {[key |-> k, at |-> bucket[k].at] : k \in seen}, error |-> FALSE]

NothingFound(err) == [key |-> <<>>, at |-> NoTime, error |-> err]

NewestUnderPrefix(entry, tmpl) ==
    LET mine == {o \in entry.objects : IsInstance(o.key, tmpl)}
        newest == CHOOSE o \in mine : \A p \in mine : p.at <= o.at
    IN  IF entry.error \/ mine = {} THEN NothingFound(entry.error)
        ELSE [key |-> newest.key, at |-> newest.at, error |-> FALSE]

HeadObject(bucket, key, refused) ==
    IF refused \/ key \notin Keys \/ bucket[key].at = NoTime THEN NothingFound(refused)
    ELSE [key |-> key, at |-> bucket[key].at, error |-> FALSE]

-----------------------------------------------------------------------------
(* The verdict on one row.                                                 *)

Verdict(state, probe) == [state |-> state, at |-> probe.at, key |-> probe.key]
NoProbe == NothingFound(FALSE)

(* What the substrate check answers before it looks at the store, or       *)
(* "probe" when it must look.                                              *)
Gate(row, t) ==
    CASE row.cadence = "event_driven" -> "fresh"
      [] row.cadence # "event_driven" /\ t - 24 * row.created < row.grace * CycleLength(row)
           -> "grace_period"
      [] OTHER ->
           IF \/ /\ row.calendar_aware /\ row.cadence \in {"weekday_sf", "eod_sf"}
                 /\ ~TradingDay(UtcDay(CycleTick(row, t)))
              \/ row.cadence = "continuous" /\ ContinuousIdle(row, t)
           THEN "fresh" ELSE "probe"

Recency(row, t, canonical, recovered) ==
    LET newest == IF recovered.at > canonical.at THEN recovered ELSE canonical
    IN  CASE canonical.error -> Verdict("probe_failed", NoProbe)
          [] ~canonical.error /\ newest.at = NoTime -> Verdict("missing", NoProbe)
          [] OTHER -> Verdict(IF newest.at >= FreshnessFloor(row, t) THEN "fresh" ELSE "stale",
                              newest)

(* Mutant: an instance of the local day is on time whatever its hour.      *)
ApplyAnyHourDeadline(row, v, t) ==
    LET day == LocalDay(t)
        due == LocalHour(day, row.deadline)
    IN  IF row.deadline = NoTime \/ ~TradingDay(day) \/ v.state = "probe_failed" THEN v
        ELSE IF t < due
        THEN IF v.state \in {"missing", "stale"} THEN [v EXCEPT !.state = "fresh"] ELSE v
        ELSE [v EXCEPT !.state =
                IF v.at = NoTime THEN "missing"
                ELSE IF LocalHour(day, 0) <= v.at THEN "fresh" ELSE "stale"]

ApplyLocalDeadline(row, v, t) ==
    LET day == LocalDay(t)
        due == LocalHour(day, row.deadline)
    IN  IF row.deadline = NoTime \/ ~TradingDay(day) \/ v.state = "probe_failed" THEN v
        ELSE IF t < due
        THEN IF v.state \in {"missing", "stale"} THEN [v EXCEPT !.state = "fresh"] ELSE v
        ELSE [v EXCEPT !.state =
                IF v.at = NoTime THEN "missing"
                ELSE IF LocalHour(day, 0) <= v.at /\ v.at <= due THEN "fresh" ELSE "stale"]

CheckFreshness(row, t, canonical, recovered) ==
    LET g == Gate(row, t)
    IN  ApplyLocalDeadline(row,
            IF g = "probe" THEN Recency(row, t, canonical, recovered)
            ELSE Verdict(g, NoProbe), t)

(* The content predicate, asked of the instance a fresh verdict was taken  *)
(* over.                                                                   *)
CheckCompleteness(row, bucket, key) ==
    IF bucket[key].count = NoTime THEN "probe_failed"
    ELSE IF bucket[key].count < row.min_count THEN "incomplete" ELSE "complete"

-----------------------------------------------------------------------------
(* The verdicts of a sweep, rolled up and routed.                          *)

Satisfied == {"fresh", "grace_period"}
Gaps      == {"missing", "stale"}

CycleCompletion(reg, verdicts) ==
    LET states == {verdicts[a].state : a \in {b \in Ids(reg) : RowOf(reg, b).severity = "critical"}}
    IN  CASE states \cap Gaps # {} -> "incomplete"
          [] states \cap Gaps = {} /\ "probe_failed" \in states -> "indeterminate"
          [] OTHER -> "complete"

GapsUpstream(reg, verdicts, id) == {u \in Upstream(reg, id) : verdicts[u].state \in Gaps}

RootCauses(reg, verdicts, id) ==
    {u \in Closure([a \in Ids(reg) |-> GapsUpstream(reg, verdicts, a)],
                   GapsUpstream(reg, verdicts, id)) :
        GapsUpstream(reg, verdicts, u) = {}}

(* Mutant: a cause pages only when every deliverable below it is lost.     *)
DecisionOnTotalLoss(reg, verdicts, id) ==
    LET lost == {l \in ReachableLeaves(reg, id) : verdicts[l].state \notin Satisfied}
    IN  CASE verdicts[id].state \in Satisfied ->
                [class |-> "ok", page |-> FALSE, roots |-> {}]
          [] verdicts[id].state \notin Satisfied /\ GapsUpstream(reg, verdicts, id) # {} ->
                [class |-> "blocked", page |-> FALSE, roots |-> RootCauses(reg, verdicts, id)]
          [] OTHER ->
                [class |-> IF verdicts[id].state = "probe_failed" THEN "degraded" ELSE "failed",
                 page  |-> lost = ReachableLeaves(reg, id), roots |-> {id}]

Decision(reg, verdicts, id) ==
    LET lost == {l \in ReachableLeaves(reg, id) : verdicts[l].state \notin Satisfied}
    IN  CASE verdicts[id].state \in Satisfied ->
                [class |-> "ok", page |-> FALSE, roots |-> {}]
          [] verdicts[id].state \notin Satisfied /\ GapsUpstream(reg, verdicts, id) # {} ->
                [class |-> "blocked", page |-> FALSE, roots |-> RootCauses(reg, verdicts, id)]
          [] OTHER ->
                [class |-> IF verdicts[id].state = "probe_failed" THEN "degraded" ELSE "failed",
                 page  |-> lost # {}, roots |-> {id}]

LeafAlertDecisions(reg, verdicts) == [a \in Ids(reg) |-> Decision(reg, verdicts, a)]

(* Keys are finitely many; a key, a template and a registry are lists.  The *)
(* exchange's calendar has the trading days that legal rows count back.     *)
ASSUME FreshAssumption ==
    /\ IsFiniteSet(Keys) /\ \A k \in Keys : IsList(k)
    /\ Instants \subseteq Nat /\ Instants # {}
    /\ \A reg \in Registries :
          /\ IsList(reg)
          /\ \A i \in DOMAIN reg : IsList(reg[i].key) /\ IsList(reg[i].recovery)
          /\ RegistryLoads(reg) =>
                \A i \in DOMAIN reg : \A t \in Instants : FreshnessFloor(reg[i], t) \in Int

-----------------------------------------------------------------------------
VARIABLES
    registry,   \* the registry being loaded
    phase,      \* "load", "refused", "idle", "sweeping" or "judged"
    now,        \* the hour
    store,      \* key -> [at, count]: when it was last written, what it holds
    row,        \* index of the row the sweep probes next
    cache,      \* listings of this sweep: prefix -> entry
    verdicts,   \* id -> verdict, of the rows probed so far
    decisions,  \* id -> alert decision, once the sweep is judged
    completion, \* the rollup, once the sweep is judged
    pages,      \* dedup keys under which a page was sent
    begun,      \* the store when the sweep began
    missed,     \* <<id, local day>> of deadlines a sweep saw missed
    writes, refusals, sweeps

freshVars == <<registry, phase, now, store, row, cache, verdicts, decisions, completion,
          pages, begun, missed, writes, refusals, sweeps>>

Empty == [x \in {} |-> {}]
NoObject == [at |-> NoTime, count |-> NoTime]

FreshInit ==
    /\ registry \in Registries
    /\ phase = "load"
    /\ now = Min(Instants)
    /\ store = [k \in Keys |-> NoObject]
    /\ row = 1
    /\ cache = Empty /\ verdicts = Empty /\ decisions = Empty
    /\ completion = "none"
    /\ pages = {} /\ begun = store /\ missed = {}
    /\ writes = 0 /\ refusals = 0 /\ sweeps = 0

(* The registry is built into specs and a graph, or refused as a whole.    *)
Load ==
    /\ phase = "load"
    /\ phase' = IF RegistryLoads(registry) THEN "idle" ELSE "refused"
    /\ UNCHANGED <<registry, now, store, row, cache, verdicts, decisions, completion, pages,
                   begun, missed, writes, refusals, sweeps>>

(* Hours go by between sweeps; a sweep itself takes seconds.              *)
TimePasses ==
    /\ phase \in {"idle", "judged"}
    /\ \E t \in Instants : t > now
    /\ now' = Min({t \in Instants : t > now})
    /\ phase' = "idle"
    /\ verdicts' = Empty /\ decisions' = Empty /\ completion' = "none"
    /\ UNCHANGED <<registry, store, row, cache, begun, pages, missed, writes, refusals, sweeps>>

(* A key some row of the registry would list or read.                      *)
Watched(k) ==
    \E i \in DOMAIN registry : \E tmpl \in {registry[i].key, registry[i].recovery} \ {<<>>} :
        IF IsTemplated(tmpl) THEN IsPrefix(ListablePrefix(tmpl), k) ELSE k = tmpl

(* A producer writes a key, whole or short.                                *)
Produce(k, n) ==
    /\ Watched(k)
    /\ phase \in {"idle", "sweeping", "judged"}
    /\ writes < MaxWrites
    /\ store' = [store EXCEPT ![k] = [at |-> now, count |-> n]]
    /\ writes' = writes + 1
    /\ UNCHANGED <<registry, phase, now, row, cache, verdicts, decisions, completion, pages,
                   begun, missed, refusals, sweeps>>

(* A sweep starts; its listing cache is empty, Judge having dropped the    *)
(* last one.                                                               *)
StartSweep ==
    /\ phase \in {"idle", "judged"}
    /\ sweeps < MaxSweeps
    /\ phase' = "sweeping"
    /\ sweeps' = sweeps + 1
    /\ row' = 1 /\ verdicts' = Empty /\ decisions' = Empty
    /\ completion' = "none"
    /\ begun' = store
    /\ UNCHANGED <<registry, now, store, cache, pages, missed, writes, refusals>>

(* One listing per prefix and sweep: the entry, errors included, is kept.  *)
Entry(prefix, refused) ==
    IF prefix \in DOMAIN cache THEN cache[prefix] ELSE ListPrefix(store, prefix, refused)

Probe(tmpl, refused) ==
    IF IsTemplated(tmpl) THEN NewestUnderPrefix(Entry(ListablePrefix(tmpl), refused), tmpl)
    ELSE HeadObject(store, tmpl, refused)

Remember(tmpls, refused) ==
    LET prefixes == {ListablePrefix(t) : t \in {u \in tmpls : IsTemplated(u)}}
    IN  cache' = [p \in DOMAIN cache \cup prefixes |-> Entry(p, refused)]

(* check_freshness of one row, with its completeness probe and the memory  *)
(* of a deadline seen missed.                                              *)
CheckRow(refused) ==
    /\ phase = "sweeping" /\ row <= Len(registry)
    /\ refused => refusals < MaxRefusals
    /\ LET r == registry[row]
           probed == Gate(r, now) = "probe"
           recovered == IF r.recovery = <<>> THEN NoProbe ELSE Probe(r.recovery, refused)
           v == CheckFreshness(r, now,
                    IF probed THEN Probe(r.key, refused) ELSE NoProbe,
                    IF probed THEN recovered ELSE NoProbe)
           full == IF v.state = "fresh" /\ v.key # <<>> /\ r.min_count > 0
                   THEN CheckCompleteness(r, store, v.key) ELSE "unasked"
       IN /\ refused => probed
          /\ verdicts' = [a \in DOMAIN verdicts \cup {r.id} |->
                             IF a = r.id
                             THEN [state |-> v.state, at |-> v.at, key |-> v.key, full |-> full]
                             ELSE verdicts[a]]
          /\ IF probed /\ ~Probe(r.key, refused).error
             THEN Remember({r.key, r.recovery} \ {<<>>}, refused)
             ELSE IF probed THEN Remember({r.key}, refused) ELSE UNCHANGED cache
          /\ missed' = IF /\ r.deadline # NoTime /\ v.state \in Gaps
                          /\ TradingDay(LocalDay(now))
                          /\ now > LocalHour(LocalDay(now), r.deadline)
                       THEN missed \cup {<<r.id, LocalDay(now)>>} ELSE missed
    /\ row' = row + 1
    /\ refusals' = IF refused THEN refusals + 1 ELSE refusals
    /\ UNCHANGED <<registry, phase, now, store, decisions, completion, pages, begun, writes,
                   sweeps>>

(* Mutant: the listing cache outlives the sweep, as a module-level one.    *)
JudgeKeepingCache ==
    /\ phase = "sweeping" /\ row > Len(registry)
    /\ phase' = "judged"
    /\ decisions' = LeafAlertDecisions(registry, verdicts)
    /\ completion' = CycleCompletion(registry, verdicts)
    /\ pages' = pages \cup {DedupKey(RowOf(registry, a), now) :
                               a \in {b \in Ids(registry) : decisions'[b].page}}
    /\ row' = 1 /\ begun' = [k \in Keys |-> NoObject]
    /\ UNCHANGED <<registry, now, store, cache, verdicts, missed, writes, refusals, sweeps>>

(* The sweep's verdicts are rolled up and routed, and its causes paged     *)
(* under the cycle's key; the listing cache is dropped with the sweep.     *)
Judge ==
    /\ phase = "sweeping" /\ row > Len(registry)
    /\ phase' = "judged"
    /\ decisions' = LeafAlertDecisions(registry, verdicts)
    /\ completion' = CycleCompletion(registry, verdicts)
    /\ pages' = pages \cup {DedupKey(RowOf(registry, a), now) :
                               a \in {b \in Ids(registry) : decisions'[b].page}}
    /\ row' = 1 /\ cache' = Empty /\ begun' = [k \in Keys |-> NoObject]
    /\ UNCHANGED <<registry, now, store, verdicts, missed, writes, refusals, sweeps>>

FreshNext ==
    \/ Load
    \/ TimePasses
    \/ \E k \in Keys : \E n \in Contents[k] : Produce(k, n)
    \/ StartSweep
    \/ \E refused \in BOOLEAN : CheckRow(refused)
    \/ Judge

FreshSpec == FreshInit /\ [][FreshNext]_freshVars

-----------------------------------------------------------------------------
(* Properties.                                                             *)

(* A verdict is about this sweep's store, not an earlier one: a row read   *)
(* as missing or stale had no instance inside its floor when the sweep     *)
(* began, whatever listing answered it, and a row read as fresh from the   *)
(* store has such an instance, of its own shape.  It is what the lifetime  *)
(* of the listing cache, the cut-off LIST and the wildcard filter of       *)
(* _newest_under_prefix are about.                                         *)
OwnInstance(k, tmpl) == IF IsTemplated(tmpl) THEN IsInstance(k, tmpl) ELSE k = tmpl
VerdictIsOfThisSweep ==
    \A i \in DOMAIN registry :
        LET r == registry[i]
            Inside(k) == begun[k].at # NoTime /\ begun[k].at >= FreshnessFloor(r, now)
        IN  (phase = "sweeping" /\ r.id \in DOMAIN verdicts /\ r.deadline = NoTime) =>
            LET v == verdicts[r.id] IN
            /\ v.state \in Gaps => \A k \in Keys : OwnInstance(k, r.key) => ~Inside(k)
            /\ (v.state = "fresh" /\ v.at # NoTime) =>
                  /\ v.at >= FreshnessFloor(r, now) /\ v.at <= store[v.key].at
                  /\ \E t \in {r.key} \cup ({r.recovery} \ {<<>>}) : OwnInstance(v.key, t)

(* No deliverable is lost in silence: when a sweep is judged, a terminal   *)
(* row that did not land names root causes, and each of them has paged     *)
(* under this cycle's key.  leaf_alert_decisions suppresses a page twice   *)
(* (blocked upstream, healed downstream); together the two rules must      *)
(* leave somebody to page.                                                 *)
NoSilentLoss ==
    phase = "judged" =>
        \A l \in Leaves(registry) : verdicts[l].state \notin Satisfied =>
            /\ decisions[l].roots # {}
            /\ \A a \in decisions[l].roots :
                  decisions[a].page /\ DedupKey(RowOf(registry, a), now) \in pages

(* A deadline once missed stays missed for that local day: a write that    *)
(* comes too late never turns a later sweep's verdict back to fresh        *)
(* (apply_local_deadline).  Rows with a recovery source are left out, and  *)
(* days on which a gate, a grace period or an idle calendar, does not look *)
(* at some hour past the deadline: a refused recovery LIST, and a gate,    *)
(* can read as missing what a later sweep finds.                           *)
PastDeadline(r, day, t) == t > LocalHour(day, r.deadline)
IsLookedAt(r, day) ==
    \A t \in Instants : LocalDay(t) = day /\ PastDeadline(r, day, t) => Gate(r, t) = "probe"
MissedStaysMissed ==
    \A i \in DOMAIN registry :
        LET r == registry[i] IN
        (/\ phase \in {"sweeping", "judged"} /\ r.id \in DOMAIN verdicts
         /\ r.recovery = <<>> /\ IsLookedAt(r, LocalDay(now))
         /\ <<r.id, LocalDay(now)>> \in missed)
        => verdicts[r.id].state \in Gaps \cup {"probe_failed"}

(* What the liveness_via contract says ("the proxy going stale is what     *)
(* pages"): a stale or missing anchor of an event_driven row has a root    *)
(* cause that pages.  The code does not keep it when the anchor's only     *)
(* dependents are event_driven rows, which always count as landed; no run  *)
(* checks it.                                                              *)
StaleAnchorPages ==
    phase = "judged" =>
        \A i \in DOMAIN registry : registry[i].cadence = "event_driven" =>
            LET anchor == registry[i].liveness_via IN
            verdicts[anchor].state \in Gaps =>
                \E a \in decisions[anchor].roots : decisions[a].page
=============================================================================
