------------------------------ MODULE PipelineRead ------------------------------
(***************************************************************************)
(* The readers of a state machine's executions: read_pipeline_state,       *)
(* list_recent_pipeline_runs and read_reliability_window                   *)
(* (src/src/nousergon_lib/pipeline_status/read.py), the window of cycles   *)
(* they fill (cycles.py) and the verdict on one execution (work.py).       *)
(*                                                                         *)
(* Executions are external: each follows a script of history events, one   *)
(* or several at a time, and may be aborted.  A reader lists them newest   *)
(* first, page by page, describes them one by one and reads a history page *)
(* by page, every request a step, while they run and others start.         *)
(***************************************************************************)
EXTENDS Integers, Sequences, FiniteSets, FiniteSetsExt, Lists

CONSTANTS
    Scripts,            \* script -> [events, status]: what an execution may go through
    Roles,              \* the roles in the executions' inputs, "untagged" for none
    CadenceRoles, RecoveryRoles,
    Days,               \* run dates, 1, 2, ...
    Spine,              \* PIPELINE_STAGE_ORDER, of this state machine
    Excused, ServedBy,  \* stages no definition has (yet, or any more); predecessor -> stages
    SkipTerminals,      \* SKIP_TERMINALS
    WaitGrouping,       \* WAIT_GROUPING: companion -> parent
    Registry,           \* the states lookup_registry knows
    HistoryPageSize, ListPageSize, SearchLimit, ScanLimit, RecentLimit, MaxCycles,
    MaxRuns, Reads, Faults  \* bounds

VARIABLES
    runs,       \* the executions, by start: [role, stated, day, script, at, stopped]
    reader,     \* the read under way, or its result
    readBudget

readVars == <<runs, reader, readBudget>>

NoDay == 0
ContributingRoles == CadenceRoles \cup RecoveryRoles

(* History events; every event that enters a state, Task or not, carries   *)
(* its name under the same key.                                            *)
Event(kind, key, state, error) == [kind |-> kind, key |-> key, state |-> state, error |-> error]
Entered(s)  == Event("TaskStateEntered", "stateEnteredEventDetails", s, "none")
Passed(s)   == Event("PassStateEntered", "stateEnteredEventDetails", s, "none")
Exited(s)   == Event("TaskStateExited", "stateExitedEventDetails", s, "none")
Failed(s, err)  == Event("TaskFailed", "taskFailedEventDetails", s, err)
RunFailed(err)  == Event("ExecutionFailed", "executionFailedEventDetails", "none", err)
(* The name under a key.  A TaskFailed event itself names no state.        *)
NameUnder(e, key) == IF e.key = key THEN e.state ELSE "none"

Script(i)  == Scripts[runs[i].script]
History(i) == SubSeq(Script(i).events, 1, runs[i].at)
RunStatus(i)  == IF runs[i].stopped THEN "ABORTED"
              ELSE IF runs[i].at = Len(Script(i).events) THEN Script(i).status ELSE "RUNNING"

(* A history names what it enters, and a task that fails was entered, has   *)
(* not been left and says of what it failed; a script comes to an end.       *)
IsHistory(es) ==
    /\ IsList(es)
    /\ \A k \in DOMAIN es :
          LET e == es[k] IN
          /\ e.kind = "TaskStateEntered" => e = Entered(e.state)
          /\ e.key = "stateEnteredEventDetails" <=> e.kind \in {"TaskStateEntered", "PassStateEntered"}
          /\ e.key = "stateEnteredEventDetails" => e.state # "none"
          /\ e.kind = "TaskFailed" =>
                /\ e.error # "none"
                /\ \E j \in 1 .. k - 1 : /\ es[j] = Entered(e.state)
                                         /\ \A l \in j + 1 .. k - 1 : es[l] # Exited(e.state)

ASSUME ReadAssumption ==
    /\ {HistoryPageSize, ListPageSize, SearchLimit, ScanLimit, RecentLimit} \subseteq Nat \ {0}
    /\ \A s \in DOMAIN Scripts : /\ IsHistory(Scripts[s].events)
                                 /\ Scripts[s].status \in {"SUCCEEDED", "FAILED", "TIMED_OUT"}
    /\ \A s \in DOMAIN WaitGrouping : WaitGrouping[s] # "none"

-----------------------------------------------------------------------------
(* One history, projected.                                                 *)
ParentOf(s)  == IF s \in DOMAIN WaitGrouping THEN WaitGrouping[s] ELSE s
Kinds(es, K) == {k \in DOMAIN es : es[k].kind \in K}
TaskEvents   == {"TaskStateEntered", "TaskStateExited"}

Mentions(es, p)    == {k \in Kinds(es, TaskEvents) : ParentOf(es[k].state) = p}
HasExit(es, p)     == \E k \in Mentions(es, p) : es[k].kind = "TaskStateExited"
Mentioned(es)      == {ParentOf(es[k].state) : k \in Kinds(es, TaskEvents)}

(* _materialize_tasks: a TaskFailed goes to the last row opened without an *)
(* exit, if there is one.                                                  *)
Blamed(es, k) ==
    LET before == SubSeq(es, 1, k - 1)
        open   == {p \in Mentioned(before) : ~HasExit(before, p)}
    IN {p \in open : \A q \in open : Min(Mentions(before, q)) <= Min(Mentions(before, p))}

RowStatus(es, p) ==
    IF \E k \in Kinds(es, {"TaskFailed"}) : p \in Blamed(es, k) THEN "FAILED"
    ELSE IF HasExit(es, p) THEN "SUCCEEDED" ELSE "RUNNING"

MaterializeTasks(es) == [p \in Mentioned(es) \cap Registry |-> RowStatus(es, p)]

(* _failing_state_from_history: the last Task state entered before the     *)
(* first failure.                                                          *)
FirstFailure(es) == Min(Kinds(es, {"TaskFailed", "ExecutionFailed"}))

FailingState(es) ==
    LET failures == Kinds(es, {"TaskFailed", "ExecutionFailed"})
        prior    == {k \in Kinds(es, {"TaskStateEntered"}) : k < FirstFailure(es)}
    IN IF failures = {} THEN "none"
       ELSE IF prior = {} THEN es[FirstFailure(es)].error ELSE ParentOf(es[Max(prior)].state)

FailureError(es) ==
    LET named == {k \in Kinds(es, {"TaskFailed", "ExecutionFailed"}) : es[k].error # "none"}
    IN IF named = {} THEN "none" ELSE es[Min(named)].error

(* work.entered_states_from_history and read._entered_state_names.         *)
EnteredStates(es) ==
    LET named == Among(es, {es[k] : k \in {j \in DOMAIN es :
                                NameUnder(es[j], "stateEnteredEventDetails") # "none"}})
    IN [k \in DOMAIN named |-> named[k].state]
EnteredStateNames(es) ==
    LET named == Among(es, {es[k] : k \in {j \in DOMAIN es :
                                /\ es[j].kind = "TaskStateEntered"
                                /\ NameUnder(es[j], "taskStateEnteredEventDetails") # "none"}})
    IN [k \in DOMAIN named |-> ParentOf(named[k].state)]

NamesOf(states) == {states[k] : k \in DOMAIN states}
FailedStatuses  == {"FAILED", "TIMED_OUT", "ABORTED"}

ClassifyWork(status, states) ==
    LET entered == NamesOf(states)
        served  == UNION {ServedBy[m] : m \in DOMAIN ServedBy \cap entered}
    IN CASE status = "RUNNING" -> "in_flight"
         [] status \in FailedStatuses -> "execution_failed"
         [] /\ status \notin {"RUNNING"} \cup FailedStatuses
            /\ states # <<>> /\ states[Len(states)] \in SkipTerminals -> "declared_skip"
         [] OTHER -> IF Spine \cap entered = {} THEN "vacuous_success"
                     ELSE IF Spine \subseteq entered \cup Excused \cup served THEN "full_run"
                     ELSE "partial_success"

-----------------------------------------------------------------------------
(* The window.  A summary is [run, status]; found is newest first.         *)
ExplicitRunDate(i) == runs[i].stated
RunDate(i) == IF runs[i].stated # NoDay THEN runs[i].stated ELSE runs[i].day
CycleKeyOf(i) ==
    IF runs[i].role = "untagged" THEN ExplicitRunDate(i)
    ELSE IF runs[i].role \in ContributingRoles THEN RunDate(i) ELSE NoDay

Fingerprint(s, histories) ==
    <<FailingState(histories[s.run]), FailureError(histories[s.run])>>
Unresolved(s, histories) == FailingState(histories[s.run]) = "none"

Group(found, key)  == {k \in DOMAIN found : CycleKeyOf(found[k].run) = key}
KeysOf(found)      == {CycleKeyOf(found[k].run) : k \in DOMAIN found} \ {NoDay}
StartOf(found, key) == Min({found[k].run : k \in Group(found, key)})

CausesOf(found, key, histories) ==
    {Fingerprint(found[k], histories) : k \in
        {j \in Group(found, key) : found[j].status \in FailedStatuses /\ ~Unresolved(found[j], histories)}}

CycleOf(found, key, earlier, histories) ==
    LET causes == CausesOf(found, key, histories)
        seen   == UNION {CausesOf(found, e, histories) : e \in earlier}
    IN [key |-> key, start |-> StartOf(found, key),
        attempts |-> {[run |-> found[k].run, status |-> found[k].status,
                       work |-> ClassifyWork(found[k].status, EnteredStateNames(histories[found[k].run]))] :
                      k \in Group(found, key)},
        new |-> causes \ seen, repeats |-> causes \cap seen]

Earlier(found, key) == {e \in KeysOf(found) : StartOf(found, e) < StartOf(found, key)}
Later(found, key)   == {l \in KeysOf(found) : StartOf(found, l) > StartOf(found, key)}

(* Labelled first, trimmed from the old end afterwards.                    *)
(* Mutant: trimmed first.                                                  *)
BuildTrimmedWindow(found, histories) ==
    LET kept == {key \in KeysOf(found) : Cardinality(Later(found, key)) < MaxCycles}
    IN {CycleOf(found, key, Earlier(found, key) \cap kept, histories) : key \in kept}

BuildReliabilityWindow(found, histories) ==
    LET kept == {key \in KeysOf(found) : Cardinality(Later(found, key)) < MaxCycles}
    IN {CycleOf(found, key, Earlier(found, key), histories) : key \in kept}

(* What a page says of a window: the clean streak, and whether the last    *)
(* cycle to judge repeated a cause.                                        *)
Judged(cycles) == {c \in cycles : /\ \A a \in c.attempts : a.status # "RUNNING"
                                  /\ \E a \in c.attempts : a.work # "declared_skip"}
FirstAttempt(c) == CHOOSE a \in c.attempts : a.run = c.start
CleanStreak(cycles) ==
    Cardinality({c \in Judged(cycles) : \A d \in Judged(cycles) :
                    d.start >= c.start => FirstAttempt(d).work = "full_run"})
Looping(cycles) ==
    \E c \in Judged(cycles) : /\ c.repeats # {}
                              /\ \A d \in Judged(cycles) : d.start <= c.start

-----------------------------------------------------------------------------
(* The executions.                                                         *)
Latest == IF runs = <<>> THEN 1 ELSE runs[Len(runs)].day

StartExecution(role, stated, day, script) ==
    /\ Len(runs) < MaxRuns
    /\ day >= Latest
    /\ runs' = Append(runs, [role |-> role, stated |-> stated, day |-> day, script |-> script,
                             at |-> 0, stopped |-> FALSE])
    /\ UNCHANGED <<reader, readBudget>>

Advance(i, n) ==
    /\ RunStatus(i) = "RUNNING"
    /\ runs[i].at + n <= Len(Script(i).events)
    /\ runs' = [runs EXCEPT ![i].at = @ + n]
    /\ UNCHANGED <<reader, readBudget>>

Abort(i) ==
    /\ RunStatus(i) = "RUNNING" /\ readBudget.faults > 0
    /\ runs' = [runs EXCEPT ![i].stopped = TRUE]
    /\ readBudget' = [readBudget EXCEPT !.faults = @ - 1]
    /\ UNCHANGED reader

-----------------------------------------------------------------------------
(* The readers.  ask is "state" (read_pipeline_state), "work"              *)
(* (read_work_outcome), "recent" or "window".                              *)
Idle == [pc |-> "idle", ask |-> "none", filter |-> {}, limit |-> 0, cap |-> 0, began |-> 0,
         below |-> 0, page |-> <<>>, more |-> FALSE, inspected |-> 0, found |-> <<>>,
         target |-> 0, status |-> "none", events |-> <<>>, histories |-> <<>>,
         outcome |-> "none", failing |-> "none", rows |-> <<>>, work |-> "none", window |-> {}, streak |-> 0, looping |-> FALSE]

(* Mutant: the filter lets every role stand in for the cadence.            *)
AnyRoleFilter(role) == {role} \cup (Roles \ {"untagged"})
CadenceFilter(role) == {role} \cup RecoveryRoles

Begin(ask, filter, limit, cap) ==
    /\ reader.pc = "idle" /\ readBudget.reads > 0
    /\ reader' = [Idle EXCEPT !.pc = "list", !.ask = ask, !.filter = filter, !.limit = limit,
                              !.cap = cap, !.began = Len(runs), !.below = Len(runs) + 1]
    /\ readBudget' = [readBudget EXCEPT !.reads = @ - 1]
    /\ UNCHANGED runs

BeginState(role) == Begin("state", CadenceFilter(role), 1, SearchLimit)
BeginLatest      == Begin("state", {}, 1, 1)
BeginRecent(filter) ==
    Begin("recent", filter, RecentLimit,
          IF filter = {} THEN RecentLimit ELSE Min({RecentLimit * 5, SearchLimit}))
BeginWindow      == Begin("window", {}, ScanLimit, ScanLimit)

BeginTarget(ask, i) ==
    /\ reader.pc = "idle" /\ readBudget.reads > 0
    /\ reader' = [Idle EXCEPT !.pc = "describe", !.ask = ask, !.target = i, !.began = Len(runs)]
    /\ readBudget' = [readBudget EXCEPT !.reads = @ - 1]
    /\ UNCHANGED runs

(* The end of a walk over the pages.                                       *)
Walked(r) ==
    CASE r.ask = "state" -> [r EXCEPT !.pc = "done", !.outcome = "no_executions"]
      [] r.ask = "recent" -> [r EXCEPT !.pc = "done", !.outcome = "list"]
      [] r.ask = "window" -> [r EXCEPT !.pc = "histories"]

(* What a list says of an execution; its role and day are the run's own.   *)
Summary(i) == [run |-> i, status |-> RunStatus(i)]

(* A page of executions, newest first; the token goes on below the last.   *)
ListPage ==
    /\ reader.pc = "list"
    /\ LET top == IF reader.inspected = 0 THEN Len(runs) ELSE reader.below - 1
           n == Min({ListPageSize, reader.cap - reader.inspected})
           page == [k \in 1 .. Min({n, top}) |-> top + 1 - k]
       IN reader' = IF page = <<>> THEN Walked(reader)
                    ELSE [reader EXCEPT !.pc = "page", !.page = page, !.more = top > n,
                                        !.below = top + 1 - Len(page)]
    /\ UNCHANGED <<runs, readBudget>>

AfterPage(r) ==
    IF r.page # <<>> THEN r
    ELSE IF r.more /\ r.inspected < r.cap THEN [r EXCEPT !.pc = "list"]
    ELSE Walked(r)

(* The next execution of the page: taken, or walked past.                  *)
DescribeListed ==
    /\ reader.pc = "page"
    /\ LET i == Head(reader.page)
           past == [reader EXCEPT !.page = Tail(@), !.inspected = @ + 1]
           wanted == reader.filter = {} \/ runs[i].role \in reader.filter
           kept == [past EXCEPT !.found = Append(@, Summary(i))]
       IN reader' = IF ~wanted THEN AfterPage(past)
                    ELSE IF reader.ask = "state" THEN [past EXCEPT !.pc = "describe", !.target = i]
                    ELSE IF Len(kept.found) >= reader.limit THEN Walked(kept)
                    ELSE AfterPage(kept)
    /\ UNCHANGED <<runs, readBudget>>

Describe ==
    /\ reader.pc = "describe"
    /\ reader' = [reader EXCEPT !.pc = "history", !.status = RunStatus(reader.target)]
    /\ UNCHANGED <<runs, readBudget>>

Projected(r) ==
    [r EXCEPT !.pc = "done", !.outcome = r.ask,
              !.failing = IF r.status = "FAILED" THEN FailingState(r.events) ELSE "none",
              !.rows = MaterializeTasks(r.events),
              !.work = ClassifyWork(r.status, EnteredStates(r.events))]

(* Mutant: the first page is the history.                                  *)
ReadFirstPage ==
    /\ reader.pc = "history"
    /\ LET all == History(reader.target)
       IN reader' = Projected([reader EXCEPT !.events = SubSeq(all, 1, Min({HistoryPageSize, Len(all)}))])
    /\ UNCHANGED <<runs, readBudget>>

ReadHistoryPage ==
    /\ reader.pc = "history"
    /\ LET all  == History(reader.target)
           upto == Min({Len(reader.events) + HistoryPageSize, Len(all)})
           read == [reader EXCEPT !.events = SubSeq(all, 1, upto)]
       IN reader' = IF upto < Len(all) THEN read ELSE Projected(read)
    /\ UNCHANGED <<runs, readBudget>>

(* The window's histories, oldest execution first, then the window.        *)
ReadHistories ==
    /\ reader.pc = "histories"
    /\ LET left == {k \in DOMAIN reader.found : reader.found[k].run \notin DOMAIN reader.histories}
           i    == reader.found[Max(left)].run
           window == BuildReliabilityWindow(reader.found, reader.histories)
       IN reader' =
            IF left = {} THEN [reader EXCEPT !.pc = "done", !.outcome = "window", !.window = window,
                                             !.streak = CleanStreak(window), !.looping = Looping(window)]
            ELSE [reader EXCEPT !.histories = [j \in DOMAIN @ \cup {i} |-> IF j = i THEN History(i) ELSE @[j]]]
    /\ UNCHANGED <<runs, readBudget>>

(* A request is denied, throttled or fails: a typed exception, no result.  *)
RequestFails ==
    /\ reader.pc \notin {"idle", "done"} /\ readBudget.faults > 0
    /\ reader' = [Idle EXCEPT !.pc = "done", !.outcome = "error"]
    /\ readBudget' = [readBudget EXCEPT !.faults = @ - 1]
    /\ UNCHANGED runs

Leave ==
    /\ reader.pc = "done"
    /\ reader' = Idle
    /\ UNCHANGED <<runs, readBudget>>

ReadInit ==
    /\ runs = <<>>
    /\ reader = Idle
    /\ readBudget = [reads |-> Reads, faults |-> Faults]

ReadNext ==
    \/ \E role \in Roles, stated \in Days \cup {NoDay}, day \in Days, s \in DOMAIN Scripts :
          StartExecution(role, stated, day, s)
    \/ \E i \in DOMAIN runs : Abort(i) \/ \E n \in 1 .. Len(Script(i).events) : Advance(i, n)
    \/ \E role \in CadenceRoles : BeginState(role)
    \/ \E filter \in {{}} \cup {CadenceFilter(r) : r \in CadenceRoles} : BeginRecent(filter)
    \/ \E i \in DOMAIN runs, ask \in {"state", "work"} : BeginTarget(ask, i)
    \/ BeginLatest \/ BeginWindow \/ ListPage \/ DescribeListed \/ Describe
    \/ ReadHistoryPage \/ ReadHistories \/ RequestFails \/ Leave

ReadSpec == ReadInit /\ [][ReadNext]_readVars

-----------------------------------------------------------------------------
(* At most one Task state at a time is open in a history.                  *)
Serial(es) ==
    \A k \in DOMAIN es :
        Cardinality({s \in {es[j].state : j \in Kinds(es, {"TaskStateEntered"})} :
            \E j \in 1 .. k : /\ es[j] = Entered(s)
                              /\ \A l \in (j + 1) .. k : es[l] # Exited(s)}) <= 1

(* The cause of a run that failed, as its executions know it.              *)
TrueCause(i) ==
    LET es == History(i)
        k  == FirstFailure(es)
    IN <<ParentOf(es[k].state), es[k].error>>
TaskFailedFirst(i) == LET es == History(i) IN Kinds(es, {"TaskFailed", "ExecutionFailed"}) # {}
                                              /\ es[FirstFailure(es)].kind = "TaskFailed"

(* A run read as FAILED names the stage whose task failed first, however   *)
(* many pages its history has, if its states ran one after the other       *)
(* (read.py's _failing_state_from_history; in a Parallel state the last    *)
(* branch entered is named, whichever failed).                             *)
FailureIsNamed ==
    reader.outcome \in {"state", "work"} /\ reader.status = "FAILED"
        => \/ ~Serial(History(reader.target)) \/ ~TaskFailedFirst(reader.target)
           \/ reader.failing = TrueCause(reader.target)[1]

(* The verdict on the work of an execution is that of all it did: a full   *)
(* run entered the whole spine, a skip ended in a declared terminal, and a *)
(* run that entered all of it is never called partial or vacuous, though   *)
(* the execution goes on between the requests (work.py's classify_work).   *)
WorkVerdictIsTrue ==
    reader.outcome \in {"state", "work"} =>
        LET es    == History(reader.target)
            did   == {es[k].state : k \in {j \in DOMAIN es : es[j].kind \in {"TaskStateEntered", "PassStateEntered"}}}
            whole == Spine \subseteq did \cup Excused \cup UNION {ServedBy[m] : m \in DOMAIN ServedBy \cap did}
        IN /\ reader.work = "full_run" => whole
           /\ reader.work \in {"partial_success", "vacuous_success"} => ~whole \/ Spine \cap did = {}
           /\ reader.work = "declared_skip" => did \cap SkipTerminals # {}
           /\ reader.work = "in_flight" => reader.status = "RUNNING"

(* What a reader is told of an execution, its culprit and its work, is so. *)
ReadingIsTrue == FailureIsNamed /\ WorkVerdictIsTrue

(* The executions an answer speaks of.                                     *)
Shown == {reader.found[k].run : k \in DOMAIN reader.found} \cup ({reader.target} \ {0})

(* What a page shows as a cadence's state, or lists for it, is of that     *)
(* cadence or one of its recoveries, and no newer one that had started     *)
(* when the walk began is passed over: an exercise or a smoke run neither  *)
(* hides a failed cadence run nor stands in for it (roles.py's             *)
(* cadence_filter, read.py's _find_execution_matching_role).               *)
CadenceIsShown ==
    reader.pc = "done" /\ reader.outcome \in {"state", "list"} /\ reader.filter # {}
        => /\ \A i \in Shown : runs[i].role \in ContributingRoles
           /\ \A i \in Shown, j \in 1 .. reader.began :
                 j > i /\ runs[j].role \in reader.filter => j \in Shown

(* A cause is called new in a cycle of the window only if no execution     *)
(* scanned for an earlier cycle failed of it first, also one of a cycle    *)
(* the window then drops; and a repeat only if one did (cycles.py's        *)
(* build_reliability_window).                                              *)
CausesKeepTheirHistory ==
    reader.outcome = "window" =>
        \A c \in reader.window :
            LET before(f) == \E k \in DOMAIN reader.found :
                    LET i == reader.found[k].run
                    IN /\ reader.found[k].status \in FailedStatuses /\ TaskFailedFirst(i) /\ Serial(History(i))
                       /\ CycleKeyOf(i) \notin {NoDay, c.key}
                       /\ \E j \in DOMAIN reader.found :
                             /\ CycleKeyOf(reader.found[j].run) = CycleKeyOf(i)
                             /\ \A a \in c.attempts : reader.found[j].run < a.run
                       /\ TrueCause(i) = f
            IN (\A f \in c.new : ~before(f))
               /\ (\A f \in c.repeats : before(f) \/ \E k \in DOMAIN reader.found :
                      LET i == reader.found[k].run IN ~Serial(History(i)) \/ ~TaskFailedFirst(i))

(* The clean streak is the "trailing settled cycles that succeeded on the  *)
(* first attempt" (cycles.py's clean_streak): it is not zero when the last *)
(* cycle to judge had one attempt, which succeeded and entered the spine.  *)
CleanStreakCounts ==
    reader.outcome = "window" =>
        \A c \in Judged(reader.window) : \A a \in c.attempts :
            /\ c.attempts = {a} /\ \A d \in Judged(reader.window) : d.start <= c.start
            /\ a.status = "SUCCEEDED"
            /\ Spine \subseteq {ParentOf(History(a.run)[k].state) : k \in Kinds(History(a.run), {"TaskStateEntered"})}
            => reader.streak > 0

(* What read.py says of its rows: a wait companion extends its stage, and a*)
(* state entered and not exited is running, so a row reads SUCCEEDED only  *)
(* when neither the stage nor its companion is open.  The code does not    *)
(* keep it; no run checks it.                                              *)
WaitingIsNotDone ==
    reader.outcome = "state" =>
        \A p \in DOMAIN reader.rows : reader.rows[p] = "SUCCEEDED" =>
            LET last == Max(Mentions(reader.events, p)) IN reader.events[last].kind = "TaskStateExited"
=============================================================================
