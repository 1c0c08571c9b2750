# Specifications of nousergon-lib

TLA+ modules, TLC runs and TLAPS proofs about the parts of `nousergon_lib` that
decide something under interleaving, failure or a long sequence of legal calls.
Sources are under `src/src/nousergon_lib/` (paths below are relative to it unless
they start with `src/`). `PROJECT.json` lists components, runs, mutants, the map from
definitions to source lines, findings, hazards and theorems.

The library is a set of components used by several other repositories: Lambda
dispatchers, Step Functions, spot boxes and dashboards. There is no server; the
components meet in S3 objects, EC2 tags, GitHub issues and SQL rows, and most of
what is hard here is what several short-lived processes do to one such object.

## Inventory

| component | state | operations | hard behaviour |
|---|---|---|---|
| `dispatch_lease.py` | one S3 object per lane, a soft TTL in its body | `acquire_lease` (conditional PUT, read back, stale recovery, force), `release_lease` | every request interleaves with other callers'; lost replies; swallowed delete failures; no fencing |
| `phase_registry.py` | markers and artifacts on S3; caches per process | `should_run`, `phase`, `record_artifact`, `_write_marker`, the watchdog thread | relaunches, rehearsals and ad-hoc runs of one date; kills between artifact and marker; an asynchronous interrupt |
| `arena/` | append-only arm register, the slot's pointer, cycle records | `register`, `retire`, `rank_pairwise`, `decide_pointer`, `evaluate_retirements`, `run_cycle` | sequences of cycles; Condorcet cycles; controls that beat everybody; the crash between pointer and register |
| `spot_dispatch.py` | EC2 instances and tags | probe, launch with fallback, SSM wait, send command, terminate | probe-then-launch, late SSM agent, failed terminate |
| `run_manifest.py`, `run_identity.py` | one manifest per run, lineage of outputs | `run_unit`, `record_output`, identity | version captured after the write; manifest write in `finally` |
| `pipeline_status/`: cycles | the declared registry, execution histories, the completion marker | cycle verdict, coverage sweep, `augment_marker` | several executions make one cycle; unconditional read-merge-write |
| `pipeline_status/`: readers | none of their own | state of a run, recent runs, reliability window | paged reads of executions that go on; exercises and recoveries between cadence runs |
| `artifact_freshness.py` | a registry of rows, one listing cache per sweep | validate, sweep, re-grade, route, dedup | producers write during a sweep; refused and cut-off listings; deadlines across midnight and clock changes; two rules that suppress pages |
| `artifact_resolution.py`, `signals.py` | dated S3 keys | windowed walk back | late and truncated runs, corrupt candidates, the latest pointer |
| `gates/`, `gate_alerts.py` | a rolling GitHub issue, stored gate results and ladders | read clauses, build and compare ladders, find or create, comment, deliver | find-then-create under a lagging index; lost replies; denied reads between clauses |
| `merge_queue.py`, `pr_path_guard.py`, `workflow_health_semantics.py` | none of their own | grade a head's workflows | required checks read place by place; allowlists brought by the request itself |
| `cost_gate/` | a budget document | grade a diff | requests graded against their own base; Denies that stop subtracting |
| `groom_eligibility.py` | none of its own | slot and trigger decisions, strikes | relabelling between count and listing; small queues bundled upward at a manual dispatch |
| `egress/` | a cache of clean digests, configuration on disk | scan, forward with a retry, relay | configuration refreshed by another thread, retried POST, answers that break off |
| `github_app.py` | token cache, lock | cached mint, clear | expiry margin, rotations one parameter at a time |
| `rag/` | SQL rows, parquet mirror, score cache | ingest, mirror, list, search, rerank | exists-then-insert; a crash before the mirror; writers during a paged read |
| `arcticdb.py` | versioned frames, membership map | correct, read settled rows, roster as of a day | library, map and index change at different times; pruning |
| `health.py`, `fleet_check_result.py`, `rehearsal.py` | live stamps and console rows | claim, verify, stamp, emit, check upstream | claims on another run's output; failed calls; rehearsals and tests beside live runs |
| `transparency.py` | metrics | check an inventory, publish, page | rows judged while producers write; refused lookups; partial batches |
| `decision_capture.py`, `eval_artifacts.py`, `sft.py` | S3 records | capture | one writer per key |
| `preflight.py`, other guards, `contracts/`, `quant/`, configuration, `scripts/` | none, or read once | checks and computations | no concurrency; numerics |
| `locks.py`, `alerts.py`, `ec2_spot.py`, ... | none | rebind modules of the external `krepis` package | not code of this repository |

How they interact: a dispatcher takes the lane's lease, probes for a running box,
launches one and releases the lease when something observes the work as done. The box
runs a pipeline whose phases go through a phase registry, record a run manifest, leave
dated artifacts and a health stamp; freshness, resolution, transparency and pipeline status read those
artifacts and the Step Functions history afterwards; gates turn readings into issues, with App
tokens. The arena runs once per slot and cycle on the scores such pipelines leave. Agents on the
boxes speak to the outside through the egress proxy; changes to all of it pass the workflow guards, the
merge queue and the cost gate. Between components there are only objects in stores: no
calls back, no shared memory. Within one process the token cache and the proxy's scan cache are
shared by threads.

What makes each correct:

- lease: who was not displaced is alone; only a race, a force or a late release
  displaces; a lane never stays blocked.
- phase registry: a skip rests on evidence the process has verified itself and that
  is its own kind's; it is never taken back; production markers are never replaced by
  a rehearsal's.
- arena: the served arm is never retired; the pool never falls below its floor; the
  cap neither retires too early nor because of controls; an earned promotion settles.
- spot dispatch: at most one box per lane while the probe works; no orphan unless the
  terminate itself failed; the lane is worked on.
- run manifest: a run that was not killed leaves a manifest or a raised error, and
  the lineage names what the run itself published.
- pipeline status: a cycle is complete exactly when its executions together are, and a verdict called
  terminal stays; rehearsals never count; a sweep that does not page had reason not to; a
  page shows the right execution, its first failure and its work.
- freshness: a verdict is of this sweep's store; a lost deliverable pages; a missed deadline
  stays missed.
- resolution: what is found is the freshest of its window.
- gates: one rolling issue per title, one record a day, MET only on measured clauses, no headline without its
  update.
- guards: a green head is declared, and reports what the queue waits for; spend on the default branch was
  approved, as far as the diff showed it; what a groom dispatch counts is worked by the boxes it launches.
- egress: what is forwarded was clean under the rules in force; the client's answer tells what the upstream did.
- tokens: a served token fits the request and lasts; a cleared cache keeps no old one.
- stores: one row per document and the mirror its image; ranks by a search's own scores; as-of reads answered as of.
- health, transparency: ok was produced; live surfaces are of live runs; a failing row is heard.

## What is modelled

### DispatchLease.tla

`lease` is the object under the lane's key. Each caller's `pc` is its place between
two S3 requests of `acquire_lease`; `holder`, `existing` are its locals; `grant` is the
body of the `acquired=True` result it works under; `displaced` is history. Each request
is one action (`FirstPut`, `Read`, `Recover`, `SecondPut`, `ForceDelete`, `ForcePut`,
`Release`); `TryPut` includes the lost reply, after which the client library's retry
meets the caller's own object; `DeleteBestEffort` includes the swallowed failure;
`Abort` is an exception or a killed Lambda.

Time is relative: the code only asks whether `ttl_epoch > now`, so a body carries its
remaining time and `Tick` ages every copy of every body. The state space is finite
without a bound on the clock. All callers read one clock. The recheck of a body that
was read at one time and judged later is folded into `Recover`/`Yield`: staleness of a
body in memory cannot go away.

Properties: `LaneIsOwned` (two callers that were not displaced never hold the lane at once, and a live
grant is the object stored), `DisplacementNeedsRaceOrForce` (an action property naming the only three ways to
lose a lane) and `StaleLeaseIsRetaken` (liveness).

### PhaseRegistry.tla

`marker` and `artifact` are S3; everything else belongs to a run (a process with its
own registry): `cache` is `_markers`, `checks` is `_artifact_checks`, `at` its place.
`Enter`, `ReadMarker`, `Judge`, `Check` are `should_run` request by request; `Save`,
`RecordArtifact`, `BodyEnds` the phase block; `WriteMarker` and `WriteMarkerFails` the
`finally` clause with everything that follows it (`Leave`). `Trip` and `Interrupt`
are the timer thread and the delivery of its `KeyboardInterrupt` wherever the main
thread is by then. A marker carries `origin`, the execution that really wrote it: the code
does not store it, and only properties read it.

`Kill`, `Prune`, `ReadFails` and `WriteMarkerFails` share the fault budget `MaxFaults`.

### Arena.tla

`created`, `filed`, `retired` are the register; `pointer` is what the slot serves;
`cycle` is the `ArenaCycle` in progress. What arms scored is data: one `Sheet` per pair
(length of the common window, mean difference, information-ratio difference, confidence
bounds), chosen freely from `Evidences` by every cycle and read from either side by
`Window`. `Decide` is `decide_pointer` with all its branches, `Retirements` the loop of
`evaluate_retirements`, `RunCycle` is `run_cycle`. `max()` and the sorted order pick one
arm; they are sets of the arms no other outranks, which have one element because both orders
are total.

The slot is not in this repository. It is taken to store the pointer first and to
append the retirements after it, and can stop at either place. With the opposite
order a crash could retire an arm that is still served; `ServingArmIsActive`, and the proof of it,
depend on this assumption.

### RunManifest.tla and RunLog.tla

A run is one call of `run_unit`; `at` is its place, `status` and `outputs` are its local
and its context, `wrote` the version it stored last under each key (which the code does
not know). `objects` holds every version stored under a key, in the order the store saw
them; `manifests` is the store under the manifest keys. `Publish` is the body's own
write, `RecordOutput` is `record_output` with its `HeadObject`, and several
runs interleave between the two. `WriteManifest` is the `finally` clause, `Return` what
follows it, `SinkFails` a write that raises, with the manifest stored or not, `Kill` a process
that dies. Each run has a sink: S3, a local directory (which has no `head`), or
none (a dry run). An output carries `own`, the run's own version at that moment; only properties read it.

`RunLog` is what a run with a sink promises: at most one record, never changed, and nobody
told of an end before its record is durable. `ImplementsRunLog` maps `record` to the status
in the filed manifest and `told` to what the caller knows; `WriteManifest` is `File`, `Return`
is `Tell`, a refusal, a failing sink and a kill are `Lose`, all else stutters, and so does a dry
run.

Assumed: run ids (ULIDs with 80 random bits) are distinct; a dry run's body stores
nothing, as the docstring of `run_unit` asks of its caller. `outputs` is a set: a run that
records one output twice with the same lineage is not told apart from one that does so once.

### SpotDispatch.tla

The functions of `spot_dispatch.py` as a dispatcher Lambda strings them together, several calls
of one lane at once. `box` is EC2's view of the lane's instances; `at` is the request a call is
about to make, `found`, `dying`, `mine`, `why` its locals, `degraded` that its probe failed and it
went on. `Probe`/`ProbeFails` are `running_instance_ids`; `ReadStates`, `ReadRequests`,
`ImminentFails` the two requests of `termination_imminent`; `LaunchOnDemand`, `LaunchSpot`,
`SpotRefused`, `LaunchFallback` are `launch_with_fallback`; `WaitRunning`, `Ping`, `WaitFails`
are `wait_ssm_online`; `Send`, `SendFails` `send_async_command`; `Tag`, `Terminate`,
`TerminateFails` `terminate_on_failure`. `Kill` ends the Lambda anywhere. EC2, the
SSM agent and the spot market (`Boot`, `Register`, `Notice`, `Reclaim`, `Vanish`) and the work
(`Finish`) are external. `since` and `orphans` are history. The tags a box is given when it is
terminated are left out: nothing in this repository reads them.

The dispatchers live in other repositories. The order of the calls is taken from the module's and the
functions' docstrings; both reactions to a failed probe that these name (give up,
or go on and say so) are allowed. `DescribeInstances` is taken to be up to
date, and ids are used again only when the instance is forgotten and no call names it. A call's
locals are reset as soon as nothing reads them any more.

### CycleShape.tla and CycleSweep.tla

`CycleShape` has the pure functions of `pipeline_status/`: `classify_work` of one execution,
`Verdict` (the fold of `build_cycle_shape`, branch by branch), `is_terminal`,
`verdict_trustworthy`, `RowState` and `Alerts` of a sweep. What `registry.py` declares (spine, retiring
stages, cadence markers, superseded stages) are constants; pending and retiring stages
act alike in every function and are one set. `Graph` is what the state machine's definition lets one
execution enter. A stage's recorded verdict keeps only whether it is a pass, a
finding or neither.

`CycleSweep` puts these functions between steps. `order`, `launch`, `phase`, `walk`, `open` are the
executions of one cycle, `recorded` the verdict objects their stages leave through `krepis`, `marker` the
completion marker; `Start`, `Enter`, `Finish`, `Close` (the marker's write, and the sweep's own state
right after it) and `End` are Step Functions and external. A sweep is `LoadVerdicts`, `List` (the
newest executions, as far as the walk's cap reaches), `Describe` and `History` of each, `Fold`
(`sweep_coverage`, and the read of the marker), `PutMarker`; `WalkFails` is a failed request. It runs
as the state of one of the executions (`observer`), or from outside. What an execution
is named by, the role and whether it is a rehearsal, is in `launch`.

Left out: the second, dated partition and the second key (`partition.py`), verdicts that cannot be
parsed or belong to an undeclared stage, a finding threshold other than zero, publishing. `Leave`
resets what no later step reads. An execution's walk is a set: order only matters for its last
state, which `phase` says is a skip terminal or not.

### PipelineRead.tla

`runs` are the executions of one state machine, each following a script of history events, in order of
start; `StartExecution`, `Advance` and `Abort` are Step Functions and external. `reader` is the one read under
way: `BeginState`/`BeginRecent`/`BeginLatest`/`BeginTarget`/`BeginWindow` are the entry points of `read.py`
(the page of a cadence, a list of runs, one execution, its work alone, the reliability window), and `ListPage`,
`DescribeListed`, `Describe`, `ReadHistoryPage`, `ReadHistories` their requests, page by page. An answer is
computed when the last request is in: `_materialize_tasks` (rows), `_failing_state_from_history`,
`classify_work`, `build_reliability_window`. `RequestFails` is a refused request. An event has a kind, the
key its details stand under, a state and an error; the key matters to the finding below.

### ArtifactFreshness.tla

`registry` is a sequence of rows as they are declared (cadence, key template, recovery key, SLA, deadline, gates,
dependencies); `Load` accepts or refuses it by the validators of `ArtifactSpec` and of the graph. `Produce` writes
under a key; `StartSweep`, then `CheckRow` once per row (probe by HEAD or through the sweep's listing `cache`,
judge by the cadence's floor, idle gates, minimum count and local deadline), then `Judge` (root causes, suppression,
dedup keys, cycle completion). A key is a sequence of tokens, a template may hold `{date}`, `*` or a partial
wildcard; time is in hours, with a holiday, a weekend and a clock change. `begun` (the store when the sweep began) and
`missed` are history.

### ArtifactWindow.tla

`Look` is one request of a walk: `resolve_windowed_artifact` with or without pointer, `get_json_windowed`,
`load_json_with_fallback`. `Publish` and `MovePointer` are pipeline runs, late and truncated ones included; the
pointer is a copy of a day's artifact (`latest`), made in the run's own time (`due`), so that a late run moves it back. `steady`
(history) is what was there and readable from the walk's first request to its last, `told` the days that went into
the pointer and had no older one put over them.

The window of the signals chain is the one in the code: so many calendar days, without the weekends among them. Its
documentation speaks of so many weekdays; `WeekdaysComeFirst` states that, and `signals_window` refutes it.

### GateLadder.tla and GateReport.tla

`GateLadder` has the pure part of `gates/`: one document or issue to a clause, clauses to a state, gates to a
ladder and two ladders to what moved. `GateReport` runs it: a reporter reads clause by clause, compares, publishes
the ladder, finds or creates the rolling issue, posts the update, delivers the headline, files a history row
and rewrites the issue's index (`ReadClause`, `Compare`, `PublishLadder`, `FindOrCreate`, `CreateIssue`,
`PostComment`, `Deliver`, `FileHistoryRow`, `UpdateIssueBody`); a recorder lists the comments and posts one record. A
request can be refused, or land and lose its reply; `Reindex` lets the search catch up; a failed job
begins again. The jobs are in the adopting repositories; their order is the one the package's docstrings fix.

### WorkflowGuards.tla, CostGate.tla, GroomQueue.tla

`WorkflowGuards`: `main` is the tree of workflow files, `review` the pull request being graded.
`ListRulesets`, `ReadRuleset`, `ReadClassic` are `required_contexts` endpoint by endpoint while `Administer`
changes them; `Grade` is `coverage_gaps`, `guard_is_required` and the path guard's `check`; `Close` merges
or drops; `ReadDeclarations` is the nightly reader of `workflow_health_semantics`. `HostReports` says which contexts the
host would report, independently of the guard's own matching.

`CostGate`: a tree gives each slot an item or nothing; `OpenRequest`/`AmendRequest` edit a branch, `RunGate` is
`grade` and the CLI's exit, `Merge` takes what is green, `UpgradeLedger` is a new budget. A setting that is left out has no
line (`LinesOf`), so a diff that takes one away adds none, and the gate sees nothing of it. `excused` (history) is what
came to bill in one of the ways a diff does not show: by deleted lines only, over a base the gate had not seen, or
by a schedule it counts as not graded.

`GroomQueue`: `Count` is the dispatcher's pass (stuck issues are routed to people, the rest counted), `DecideTrigger` the
scheduled decision, which launches for every tier with an issue, and `DecideSlot` the manual dispatch of one tier, in any
order of tiers, with a P0 or none and any waits the caller tells (0 when it tells none). `Launch` boots a box for a decision,
`List` lists the issues anew under its filter, `Engage` works on one and records the disposition; `File`, `Relabel` and
`Rule` are everybody else. `kept`, `owed`, `worn` and `passed` (history) say who was counted and not relabelled since,
who had its strikes then, and who was owed a box and given none.

### Substrate.tla

One check of the transparency inventory: `BeginRow` (effective date and gate), `LookForObject` (fixed key or
the whole walk-back, and the companion's after it), `ReadObject` (JSON, CSV, parquet, SQLite), `AskCloudWatch`, then `PutBatch`
per metric batch and `PageAndExit`. The code's walk is one HEAD a day; it is one step here, as a row written to between its
requests is excused from what is claimed of it, and a write between two of those HEADs comes before or after the step. `WriteObject`, `FlipSchedule` and `DayPasses` are the world's.
`WorthOf` (what the store as a whole says of a row) is a definition of its own, which the verdicts are compared with.

### HealthStamp.tla

A process runs (`BeginRun`), writes outputs, claims them (`CallWriteHealth`), has the claims verified one
HEAD at a time (`VerifyFreshS3`), derives a payload and puts it (`BuildHealthPayload`, `PutStamp`), or emits a console row
(`EmitResult`); it can die anywhere and any call can fail. `CheckUpstreamHealth` is the reader.
Rehearsals go by name or by role to a namespace of their own; two modules may share a key.

### AppTokens.tla and EgressProxy.tla

`AppTokens`: `Lock` with the look-up, `ReadCredential` (three requests) and `MintInstallationToken` are
`installation_token` of several threads; `Rotate` replaces one parameter of the App's credentials, `ClearCache` waits for the
lock. A token keeps two ends: the expiry the code believes, and the real one, which differ when GitHub's reply does
not parse.

`EgressProxy`: a thread per request goes `Receive`, `ReadSignature`, `RefreshConfig`, `Lookup` (a leaf at a time, as the cache's lock
is held for one), `Gitleaks`, `MarkClean`, `Attempt` (twice at most), `Relay`. `EditRules` is the configuration on disk. An attempt may break off
while it is sent and still have an answer to be salvaged, to work the upstream did or refused to do; an error of no listed kind ends
the thread. `served` and `replies` are what really happened on the wire.

### RagStore.tla and PriceStore.tla

`RagStore`: `CheckDuplicate`, `InsertDocument`, `MirrorDocument` are one ingestion, with refusals, lost replies,
`KillIngest` and retries; `BeginListing`/`ListPage` the batch reader; `BeginSearch`, `VectorSearch`,
`KeywordSearch`, `Retrieve` a search by any method, reranked or not, with the least-recently-used score cache. Scores are
integers, `Finer` units to a decimal that is shown; what is shown of a side, and the blend before it is sorted, are rounded as
in the code (`Rounded`, halves up where Python's floats go either way), and the weight is any fraction.

`PriceStore`: `WriteDay` is a producer (which may prune), `WriteCorrection` and `ReadSettledOnly` are this
code; `DayBegins`, `UpdateLibrary`, `RefreshMembership` move index, library and map independently;
`AskSymbols`/`ListSymbols` are `get_universe_symbols(as_of)`, `BeginLoad`/`LoadFrames` the frame loader.

### Runs of several parts

`MCDispatch`, `MCMonitors`, `MCCalls`, `MCStores` and `MCReviews` put several modules into one run. Their parts share no state in the
code either, so a variable (`monitor`, `part`, `scene`) picks, in the initial state, the part that a history is about; the others
rest. This is a choice of histories, not a restriction of the parts: what one part can do is what its
own module says, within its scene's bounds. A scene narrows who takes part (which ingestion jobs, which file
of a tree, which rows; two counters that are alike are told up to their order, and of two free requests or boxes the first is taken) so that all the combinations that matter together are met without those that do not.
In `MCDispatch` the other part rests in a state of its own in which its liveness properties hold: a lease nobody asks for, and a lane
on whose box work goes on. The fairness of a part is asked of it while it is looked at (`Looked`).

## Runs

| run | result | what it shows |
|---|---|---|
| `dispatch` | pass, deadlock checked, 693,089 states | the lease: the safety of the lane and the liveness of a stale one, with two callers, TTLs 1 and 2, force, releases, two faults; the boxes: two overlapping calls on one lane of two instances, one fault: no duplicate of a box the probe found, no unexplained orphan, and the lane is worked again and again |
| `lease_singleton` | violation | the documented singleton fails without any fault or force |
| `phases` | pass, 4.9 million states | a strict production run beside a relaunch, a rehearsal (with or without token) or an ad-hoc run; two entries each, one fault |
| `arena` | pass, deadlock checked, 531,461 states | two weeks of cycles, four real arms and a control, three configurations |
| `manifest` | pass, 1.9 million states | two runs of one unit on a versioned key, an unversioned one and a library reference, in S3, the second also in a directory or dry; one fault; the refinement of `RunLog` |
| `cycle` | pass, 1.4 million states | two executions, one of which may be a rehearsal, and a sweep within or outside: a terminal verdict is never undone by what its executions do next, COMPLETED by nothing, and a sweep that does not page has reason not to |
| `monitors` | pass, 631,367 states | freshness: three registries of three rows, and one for each reason to refuse one, two sweeps at six instants, two writes and a refused probe; executions: one history read page by page, a walk over four runs of several roles, a window of three cycles; stamps: five processes, one failed call |
| `reader_streak` | violation | the reader never sees an entered state, so no cycle counts as clean |
| `calls` | pass, 1.0 million states | tokens: two threads, two requests, a full rotation; proxy: three requests over three leaves, an edit of the rules, two faults, a cache of two digests |
| `stores` | pass, 771,519 states | four pairs of ingestion jobs under faults and retries, three beside searches, three versions of prices, rosters over three days, three writes and the pointer's moves beside a walk of four days, two reporters and a recorder |
| `signals_window` | violation | a weekday within the documented reach of the signals chain is not asked for |
| `reviews` | pass, 380,604 states | two heads over two workflow files and eight allowlists, two edits of required checks beside one head, two requests on each of six cost files, the groom queue under triggers and manual dispatches of any tier, with one issue over three counts or relabelled twice over two, or two issues over one, four inventories of one or two rows |

Bounds. Two callers show every pairwise race on one key; what needs a third (two that
were displaced and one that was not) is covered by the proof. TTL 2 lets a lease age while a call
is under way, TTL 1 lets it expire there; a fresh one and a stale one can then be
in memory at once. Two faults allow a lost reply followed by a failed recovery. Two runs and
two entries per run let a phase be entered, recomputed and entered again while another
process does the same. Four arms are the smallest pool in which the cap (2),
the floor (2), and a three-cycle with an arm outside it all bind; every tournament
over them is tried up to the two pairs that are fixed, plus the readings that are no
verdict (never met, too young, tied, unsupported, not estimable). Two
runs, with two versions of one key, show what one run's write does between the other's write
and its look; more runs are covered by the proof. Two calls and two instances allow every order of one
call's probe, launch and clean-up against another's and a reclaim in between; the tag and the terminate
can always fail, and so can any one other request. Two executions of a cycle, in a spine of two stages,
are enough for one to supply what the other lacks, for one to excuse it by a marker, and for one to end or start
while the other is read; one sweep meets every one of their steps between any two of its requests. One stage records
verdicts. The sweep's own stage is not among the declared ones, so the row state SELF is not met; nor are findings.

In `monitors` pages hold two entries and a listing is cut off after two objects, so that every paged read needs a second
page; a window keeps one cycle of three, so that trimming happens; the instants lie before and after a
deadline, a weekend's clock change and a holiday; ages of stamps reach past the limit. In `calls` a token lives three
ticks with a margin of one, so that it can be good, within its margin and dead; two threads meet at the lock, one of them
amid its reads; the cache of two digests evicts under three leaves. In `stores` the reranker's cache holds
two scores where a search brings three, the mirror's listing has pages of one key, a walk of
three days meets a weekend and a non-date, a listing of comments reaches its ceiling. In `reviews`
requests are edited up to three times so that a Deny can be brought, relied on and taken away; a wait told is
long or none and the floor is two, so that the floor and both escape valves decide; a batch holds three metrics where a check brings more;
a line leaves the budget while a template or a source file is edited; while administrators edit, the heads opened are those on
which only the merge-queue guard has something to say.

`PhaseRegistry`'s, `RunManifest`'s and `CycleSweep`'s runs end, and so do those of several parts, whose budgets run out; their
configurations switch the deadlock check off, and so do the runs that look for a violation.

Fairness. `Fairness` of DispatchLease: a call that was entered goes on, as it
waits for nothing (weak fairness on each caller's acquire steps); the scheduler calls
again and again (weak fairness on `Call`, EventBridge's schedule); time passes.
`Abort`, faults, forces and releases are not fair.
`SpotFairness` of SpotDispatch: a call that was entered goes on (its waits have budgets, so `WaitFails` is
among its steps), the schedule calls again, EC2 boots, reclaims and forgets instances and the agent
registers in the end. Faults, notices and the end of the work are not fair: `LaneIsWorked`
does not rest on work that ends. It excepts a lane with an orphan: the
probe takes it for a worker for as long as it lives, and nothing in this code looks at what it does.
`DispatchSpec` asks each of them of the part that is looked at.
The other parts have no liveness property: their processes are short-lived jobs and requests that somebody else's
schedule starts.

## Proofs

TLAPS proves, for all values of the constants that satisfy the named assumptions:

- `AdmissionProofs`, the lease: `TypeCorrect`, `GrantIsEvidenced`, `OneHolder`,
  `DisplacementIsExplained`. `OneHolderUnlessDisplaced` is not inductive; it follows
  from `LiveGrantIsStored` (two unexpired grants that are both the stored object have
  one owner), which in turn needs that every grant and every holder of a call carries
  its caller's name. That strengthening is preserved by every action, `Tick` included, because aging
  maps equal bodies to equal bodies. The action property follows from it.
- `PhaseRegistryProofs`: `TypeCorrect`, `EvidencedSkips`, `OwnEvidence`, `StableSkips`.
  The invariant says where each run's probes stand: the keys still to be probed and those seen
  cover the cached marker's, a positive check means all are seen, and a skipped phase
  has a cached ok marker and a positive check. The provenance part says that a marker
  with a token has it from the execution that wrote it.
- `StoresProofs`, the arena: `TypeCorrect`, `ServesActive`, `CapRespectsCap`, `FloorHolds`,
  `PromotionSettles`, `OrderKeepsCap`. The cycle in progress is tied to the register it was computed from:
  while a cycle is open no arm is retired and new arms are only added, so
  what the cycle retires leaves the floor and excludes the decided champion. `CapRespectsCap`
  rests on a counting lemma (losses to real arms are at most the pool minus one);
  `PromotionSettles` on the antisymmetry of a head-to-head (`Window` flips its sign). `OrderKeepsCap`: with no cycle among
  the readings the arms over the cap are lost to by all others in turn, so that the least element of any larger
  set is one of them, and the cap's worth of arms is kept.

- `RunRecordProofs`, the manifest: `TypeCorrect`, `LineageHolds`, `ManifestsComplete`, `Refines`.
  `LineageIsOwnOrOvertaken` speaks of outputs only; the invariant adds that no version
  after the one a run stored last is its own (`WroteIsLast`), so what a look finds above it
  is another's. `FiledAsEnded` says that a filed manifest is the one its run would build
  from its final state, and that a run's caller knows something exactly when it
  has ended; completeness follows, and with it the refinement: when the caller is told,
  the record of that very status is there.

- `SpotDispatchProofs`: `TypeCorrect`, `OrphansExplained`, `NoDuplicates`. The invariant
  has two parts beyond types. A call names an instance exactly between its launch and its clean-up,
  so that an instance nobody names has been left by some step (`Placed`). A call that is about to
  launch and whose probe worked has accounted for every healthy box: it was found and is not
  known to be dying, or it was launched since the probe (`Seen`); every other step only makes boxes less
  healthy, which is what `Seen` needs of them.

- `CycleSweepProofs`: `TypeCorrect`, `TerminalStays`, `CompletedHolds`, `QuietHolds`, for any number of
  executions and of sweeps that overlap. Three facts about the fold carry them: more executions and
  longer walks keep COMPLETED (`CompletedGrows`); equal walks, with the same ones declining and the
  same ones but the observer running, give the same verdict (`SameVerdict`); a
  terminal verdict short of COMPLETED was folded from no running contributor but the observer
  (`TerminalVerdict`). The invariant says what a half-done walk knows (`Gathered`: the states read of an
  execution are a part of its walk, and all of it once its status was final), that nothing a
  terminal result rests on still moves but the observer's own end (`Settled`), and that a
  marker's COMPLETED is one of the whole cycle (`MarkerStands`). `Progress` collects what no step of an execution
  undoes; a sweep that stands still keeps its part of the invariant under it. `DueAssumption`,
  a stage of the spine that no mark excuses, is needed: without it a cycle that misses
  nothing although nothing was entered is COMPLETED while its execution runs, and SKIPPED once that ends at a
  skip terminal.

- `ServicesProofs`, the tokens: `TokensInv`, `FittingTokens`, `SoundCache`, for any threads, requests, lives and rotations. A thread
  that reads or mints holds the lock (`LockIsHeld`), so one mint is under way at a time and is due when it
  begins (`MintIsDue`); the cache holds what was minted last for its key since the last clear
  (`MintsAreCached`, `CachedFits`), whose generation is not older than the clear's, as the clear waits for the lock
  (`NothingCleared`). That a served token has its margin left rests on the believed end being no later than the real one.

- `RunRecordProofs`, the stamps: `StampsInv`, `EarnedStamps`, `LiveSurfaces`, for any processes, keys, clocks and faults. Writes only
  make artifacts newer, so a claim that was verified stands (`ClaimsStand`), and so does the payload built of such claims
  (`PayloadsHold`) and the stamp put from it (`StampsAreOfRuns`), whoever shares its key and whoever dies between the steps.

- `RunRecordProofs`, the freshness monitor: `LossesAreHeard`, `VerdictsAreOfThisSweep`, `MissedIsMissed`, for any registry, keys, calendar,
  writes and refused probes. What is reached over the dependencies is the least set closed under them (`Closure`), so no recursion is needed:
  of the gaps above a lost row, one with the least number of ancestors has no gap above it, as a loaded registry has no cycle, and that one is
  the root cause; the lost row is a leaf below it, so it pages. Within a sweep a listing has every object as it was when the sweep began
  or newer, and lacks only what was written in the very hour (`EntryHolds`), so whichever row's listing answers, the verdict holds of the sweep's store
  (`VerdictHolds`). Once a deadline was missed, whatever is on time in the store, or in a listing, has something later beside it, which is newer
  (`LateStore`, `LateEntry`, `MissedInv`), and the newest is what is judged; that needs a row whose gates let every later sweep of the day look.

- `RunRecordProofs`, the readers: `ReadingsAreTrue`, `CadenceIsShownAlways`, `CausesKeepHistory`, for any scripts, page sizes, limits and
  window. An execution keeps what it was started with, and stays as it is once it has ended (`GoesOn`), so what was read of an ended one stays true
  while others start, go on and are aborted (`ReaderStays`). A walk has taken all that is wanted above the place it went down to, and nothing else
  (`SeenDownTo`); a page is the stretch below that place (`PageHolds`). In a history with one task open at a time the last task entered
  before the first failure is the one that failed, as two open ones would be two (`FailureIsTrue`). A cycle starts with its first execution
  (`StartIsFirst`), so a cycle with an execution before all of this one's is an earlier one, also if the window drops it.

- `ServicesProofs`, the proxy: `ProxyForwardsCleanBodies`, `ProxyAnswersTell`, for any bodies, rule sets, threads and any size of
  the cache. A digest in the cache was let pass by the rule set the cache was last refreshed for or a later one, unless its
  scan was overtaken (`CacheIsHonest`); a thread amid its look-up has, for every leaf it is past, a rule set that vouches for it,
  no older than the one it will answer for, or the leaf is still to be scanned (`ScansHold`). Eviction and refreshes only take away,
  and a look-up brings `sig` down to what its hit is worth, which is why `sig`, and not the rules at the start, is what the theorem names.

- `ServicesProofs`, the tracker: `ShownIsTrueAlways`, `RetryLeavesNoSecondEver`, for any ladder, jobs and faults. Issues and
  comments are only added (`Grows`), so a link that was good stays good (`ToldInv`); a job reads the
  clauses in their order, the least unread one next, so that when none is unread all were read, and what it read as
  met was met at some moment of its run (`ReadingInv`, `ClaimInv`). One recorder has one record, as it posts only where a full
  listing showed none (`RecordInv`), and issues are two only after two searches that overlapped (`IssueInv`).

- `StoresProofs`, the stores: `AsOfIsAnsweredAlways` (a version's rows never change, `VersionInv`; the map
  reaches to some day, and since that day the roster it lacks did not change, `RosterInv`), `FreshestIsFound` (a walk's
  keys come each once and newest first, `Orderly`; what is still sure to be there is still before it, `Covers`; so
  what it finds first is the freshest, `Fresh`; the pointer is of the last artifact put into it, and every day still `told` is no later), `CorpusStaysConsistent` (a job about to insert saw no row of its document, `AskedInv`;
  what the mirror lacks has a reason or is under way, `MirrorInv`; a page takes the least keys beyond its place, so that what
  was there when the listing began is in a page or still beyond, `CorpusInv`), `RankedAlways` (what the cache remembers is the
  model's score of a row for a query under both their names, `CacheInv`; the lists of a search hold committed rows and descend
  by their scores, `Sided`; rounding and normalising keep the order of a side's scores, though not
  its strictness, `RoundedGrows`, `ShownOrders`, `NormalizedOrders`, so that the blend follows both sides up to ties, `BlendedFollows`, and a side alone is
  sorted by what it shows, `SideIsSorted`; and a stable sort has before an element all that are ahead of it, `AheadIsBefore`; rows are
  only added, so an answer stays as it was true, `SidesStand`).

- `AdmissionProofs`, the reviews: `CountedIsReached` (what a dispatch or a box is owed is still labelled as it was counted, so the
  box lists it; a bundle's group is that of its highest tier; an issue that had its strikes when counted is stalled until a person rules on it, and so
  listed by no box of that count, `BoxHolds`), `GreenRunsWhatIsDeclared` and `GreenHeadReports` (what a review holds at each place of its requests,
  `ReviewHolds`; the emitted contexts cover, level by level of called workflows, what the host reports, `ReportsAreDeep`; what stayed required
  all along was read by whichever request came to it, `SteadyStands`), `ShownSpendIsStopped` (what a diff shows of a thing that bills is a
  finding or noted as not graded, so a green request adds nothing but what is excused, `MergeExcuses`; what adds no line is no part of that), `FailuresAreHeard` (a verdict
  that was told stays in what is to be put, whatever batch fails, `ToldSoFar`), `VerdictsAreEarned` (an undisturbed check knows of the sources behind
  its place that none held and which were degraded, and of an object it found that it is the newest, `Weighed`; the walk back
  over the days finds the greatest, `WalkFinds`).

The theorems about conjunctive properties (`OwnedLane`, `EarnedSkips`, `DueRetirements`, `TrueManifests`,
`StandingVerdicts`) put together those named before them. `SharedMarkers` is inductive by itself once a marker's
origin is known.

`DataLemmas` has the lemmas about data these proofs share: greatest and least elements of finite sets of naturals, lists that grow,
shrink, change at a place and are joined, what `Among` (in `Lists`) keeps of a list and in which order. Induction over data is out of the provers' reach as a rule with a predicate
for its parameter; where a proof needs it, it takes the least counterexample instead (`LeastNatural`, from the
well-foundedness of the naturals), as in `NthIsThere`, `GreatestNatural`, `PageIsNext` and `OrderKeepsCap`. Recursive functions of bounded
depth (called workflows) are unfolded one level at a time. Eight modules hold theorems, so that one holds the proofs of several components.

Definitions of the models that the proofs needed in another form say the same as before, and their runs and mutants are as they
were: a filter or a sort that was a recursion over a sequence is a function (`Among`, `NewestFirst`, `Ranked`), a CHOOSE over pairs has a name (`NextUp`), a union
is made of named parts (`BilledGrants` and the rest), a cache is filled at once and not entry by entry (`Recached`), what is reached over a graph is a least closed set (`Closure`).
One property was corrected by its proof: `RankedByOwnScores` is false of a blend that gives the keyword side no weight, or rounds a difference
away, where chunks the vector side cannot tell apart stay in its order; `Tied` names that case.

`TypeCorrect` is needed by all others of its component; where no run lists a type invariant, it is proved. The assumptions are those of the modules,
evaluated by every run of the module: `LeaseAssumption`, `RegistryAssumption`, `ArenaAssumption`, `ManifestAssumption`,
`NoManifestAssumption`, `DispatchAssumption`, `CycleAssumption`, `DueAssumption`, `StampAssumption`, and

- `TokenAssumption`: an assumed life not longer than the real one and longer than the margin;
- `ProxyAssumption`: rule sets are numbered from 1, and a body is a list of leaves or no JSON;
- `ReportAssumption`: no job is a reporter and a recorder, and phases and clauses come in finite lists;
- `PriceAssumption`, `WindowAssumption`: days, versions and ages are numbers, a column is corrected or it is not;
- `RagAssumption`: a page has a row or more, a rerank sees at least as many as it returns, scores are numbers (a cosine counted
  up from -1, which min-max does not notice), the weight is a fraction of any denominator, and the document type is a column of the
  slot (`rag/schema.sql:30-47`), so that articles of one slot agree on being news;
- `GuardAssumption`: jobs of one file have names of their own, an absent file has none, and no file is called "none" or "lib";
- `CostAssumption`: a pattern of a known service matches actions of that service only;
- `GroomAssumption`: issues are finitely many, the floor and the strike limit are numbers, the limit at least one;
- `FreshAssumption`: hours are numbers, keys are finitely many, keys, templates and registries are lists, and the calendar has a session among
  the days each floor looks at, so that a floor is a number;
- `ReadAssumption`: pages and limits are not empty; a history is a list in which a task that fails was entered, has not been left and names an error;
  an execution that is not aborted ends as SUCCEEDED, FAILED or TIMED_OUT;
- `SubstrateAssumption`: a batch holds a metric or more, a row is not called as the count of the failing ones is and has a source or more; a key is
  dated for all its sources or for none, and only a dated source has a companion (`transparency_inventory.yaml:256-257`).

Only model-checked: `StaleLeaseIsRetaken` and `LaneIsWorked` (liveness, out of the prover's reach). The violation runs are counterexamples, not theorems.

## Where code and documentation differ

Three differences have a run (see "findings"): the lease is no singleton while a stale one is recovered
(`lease_singleton`), no cycle ever counts as clean because the reader looks for entered states
under a key that no event has (`reader_streak`), and the signals chain asks for the weekdays among the last calendar days where it
promises so many weekdays (`signals_window`; `signals.py:45-46` says that nothing is ever written on a Saturday, `:3` that it is written on
Saturdays only, and `:54-56` that a Monday's run sees the Saturday's snapshot, which it does through `latest.json` alone). Others were met while modelling and have no run of their own.

Arena, dispatch, phases, cycles:

- `arena/engine.py:922` "At most one challenger can clear it" and `:302` "The winner,
  when one exists, is unique" do not hold when two challengers have no verdict on each other.
- `arena/engine.py:1524` says that on the floor "it is the WORST arms that survive";
  the loop retires the worst first, so the best survive.
- `arena/ranking.py:26-35`: with five arms, a cap of three and a Condorcet cycle among the last three, all three
  are retired and two remain; `arena/ranking.py:40` says retirement never consults the ordering, but
  `evaluate_retirements` sorts by it, and the order decides who goes when the floor binds.
- Under `promote_against=incumbent` the pointer can move back and forth on unchanged
  evidence with a Condorcet cycle; `EveryArmSettles` is therefore about `every_arm`.
- `arena/arms.py:406-413` calls `active_arms(as_of)` of a past day point-in-time; line 417 reads the current
  `retired_date`, so that a later retirement takes the arm out of every past day.
- `spot_dispatch.py:424-427` says the tag tells the dispatcher's kill from the spot market's; the tag is set
  before the terminate and whatever the box does, so a box reclaimed meanwhile carries it too.
- `phase_registry.py:453`: the answer of the first look at a marker's artifacts is kept for the process, so that a phase is re-run for an
  artifact that is there by then.
  `phase_registry.py:573` with `:199-202`: a watchdog that trips while the phase ends can deliver its
  interrupt outside the `try` that turns it into a timeout. Lines 600-605 log "Phase compute succeeded" also when the block failed.
- `run_manifest.py:482-506` lets a reader "fetch the exact object this run published"; what is recorded is what the look finds, which is
  another run's object when that run wrote between the put and the look.
- `pipeline_status/coverage.py:361-368`: an absence can be asserted of a stage that is still running, in a cycle that counts as
  complete already (`cycle_shape.py:685`), or that recorded its verdict after the verdicts were loaded (`coverage.py:880`). `cycle_shape.py:464` trusts SKIPPED under an exhausted walk, where an unseen
  contributor may have worked; lines 456-459 give the reason for COMPLETED only.
- `pipeline_status/completion_marker.py:160` "Every field the state machine wrote is preserved untouched": of the marker that
  was read; one written between the read and the put is replaced by the older one.
- `pipeline_status/read.py:390-489`: a stage is shown SUCCEEDED while its wait companion is open. `_failing_state_from_history` blames the
  first task that failed, also when it was retried or caught; a state that was retried and succeeded keeps FAILED; a failure
  inside a Parallel is laid at the door of the branch entered last. A scan that is cut short can drop the oldest cycle's first attempt.

Freshness, resolution, stamps, inventory:

- `artifact_freshness.py:138-139` "The proxy going stale is what pages": not when its only dependents are event-driven rows, which always count as
  landed. After the deadline, idle and grace verdicts become "missing". `check_completeness` is said never to race
  the other probe, but may work from an older listing.
- `artifact_resolution.py:185`: the pointer is looked at before the dated window, so that a resolution for a past
  date can return later data, and earlier data once a late run has moved it back. A date that is not ISO raises in the windowed reader when it meets a corrupt object.
- A late put of an older run's stamp overwrites the newer one when runs of one module overlap. `fleet_check_result.py` says a
  failed emit shows as a gap; the earlier row stays, and without a cadence it is never stale. The status "error" is never produced.
- `rehearsal.py:17` "never a rehearsal to one layer and live to another": the transparency check's own fallback decides
  differently for a plain token under the rehearsal role. In its walk-back, a HEAD that fails for any reason counts as absent.

Reviews and gates:

- `gates/tracker.py`: `comment_bodies` raises at exactly 1000 comments; its message says "more than".
- Merge queue: `job_name_matches` lets `(.+)` cover a leg the matrix does not have; required contexts are read place by place, so one that
  an administrator moves meanwhile is missed; the emitted contexts count a caller's bare name,
  which `reusable_calls` says is none. A workflow comment calls the guard "deliberately NOT a required check" where
  `guard_is_required` makes it one.
- Groom: the comment at `groom_eligibility.py:343-346` has a trigger launch "a run per tier that clears the floor"; `decide_trigger`
  launches for every tier that has an issue, as its own docstring says.
- Cost gate: that what is on the base branch "was already approved" is false of a Deny that is removed, an Effect that is flipped, a
  NotAction that shrinks, and a retry policy that is deleted adds no line and is never graded (`excused` in the model). A schedule whose target alone changes passes the pre-filter. The
  "SHORTEST gap" of a cron ignores the one across the wrap. A line that begins with `++ ` is taken for a header; a bare
  `*` in a list is not seen by the line fallback.

Calls and stores:

- `egress/proxy.py:254-259` "a rule tightening always re-scans from scratch" is untrue of a scan that straddles a refresh. An
  error outside the transient ones ends the thread without an answer or a count. `routes.py` says the upstream is chosen
  by a header; the proxy has one fixed host.
- `rag`: `ingest_document` says it returns None on failure, but raises; a second document with the same external id raises on the
  unique index; news without one can be stored twice by two jobs and is skipped on any row of its slot.
  `RerankCache.make_key` speaks of a hash of the content; rows without an id share one key.

## Not modelled, and why

Components without a module are listed in `PROJECT.json` with the reason.

- The quant library and `arena/confseq.py` are floating-point mathematics, outside both tools. The interval is data of `Arena`.
- Decision capture and evaluation artifacts write one object at a key of its own; preflight, guards and probes give one verdict
  of what they read at once; declarations and schemas hold tables. None has a state another step could disturb.
- `krepis` shims hold no code; environment and configuration are read once; build and scripts are tooling.

Inside the modelled parts: logging, timing fields, serialisation of register and cycle, `run_cycle`'s feasibility checks,
the wording of reasons, pages and issues, and the parsers of JSON, YAML and source text are left out. What a parser finds is data of the
model, with "does not parse" among the values wherever the code has a path for it.

## Plan

1. A lane: SpotDispatch composed with DispatchLease; an abstract lane with at most one worker, and
   the conditions under which the composition implements it.
2. CycleSweep: two sweeps at once in a run (the theorems cover any number), the sweep's own stage among
   the declared ones, and an abstract cycle with one verdict that only becomes terminal once.
3. HealthStamp: overlapping runs of one module, and which of their stamps remains.
4. Proofs: the abstract specifications of items 1 and 2, shown to be implemented step by step.

At most twelve runs are kept; a violation run gives way when a passing run needs its place.
