------------------------------ MODULE CycleSweep ------------------------------
(***************************************************************************)
(* The executions of a cycle, the verdict objects of their stages, the      *)
(* completion marker, and the sweeps that read and augment them.            *)
(***************************************************************************)
EXTENDS CycleShape

VARIABLES
  order,     \* the executions that have started, newest first, as ListExecutions has them
  launch, phase, walk, open,  \* of each: its input, its phase, the states it has entered,
                              \* and those of its stages that have not ended
  recorded,  \* the verdict objects of the stages
  marker,    \* the completion marker: who wrote the envelope, and the cycle block
  at, observer, verdicts, todo, exhausted, seen, got, held, \* locals of each sweep
  result     \* what its last fold said

executions == <<order, launch, phase, walk, open, recorded>>
locals == <<observer, verdicts, todo, exhausted, seen, got, held>>
vars == <<executions, marker, at, locals, result>>

Marker == [envelope : Exec \cup {NoExec}, verdict : CycleVerdict \cup {"unknown"},
           observer : Exec \cup {NoExec}]
NoMarker == [envelope |-> NoExec, verdict |-> "unknown", observer |-> NoExec]

\* read: the cycle could be read.  of: its contributors.
Result == [read : BOOLEAN, verdict : CycleVerdict, of : SUBSET Exec,
           observer : Exec \cup {NoExec}]
NoResult == [read |-> FALSE, verdict |-> "incomplete", of |-> {}, observer |-> NoExec]

TypeOK ==
  /\ order \in Seq(Exec)
  /\ launch \in [Exec -> Launch]
  /\ phase \in [Exec -> {"none", "running", "closing", "succeeded", "skipped", "failed"}]
  /\ walk \in [Exec -> SUBSET State] /\ open \in [Exec -> SUBSET (Declared \cup {OwnStage})]
  /\ recorded \in [Declared -> VerdictStatus]
  /\ marker \in Marker
  /\ at \in [Sweep -> {"idle", "list", "describe", "history", "put", "done"}]
  /\ observer \in [Sweep -> Exec \cup {NoExec}]
  /\ verdicts \in [Sweep -> [Declared -> VerdictStatus]]
  /\ todo \in [Sweep -> Seq(Exec)]
  /\ exhausted \in [Sweep -> BOOLEAN]
  /\ seen \in [Sweep -> SUBSET Exec]
  /\ got \in [Sweep -> [Exec -> Outcome]]
  /\ held \in [Sweep -> Marker]
  /\ result \in [Sweep -> Result]

Init ==
  /\ order = <<>>
  /\ launch \in Launches
  /\ phase = [x \in Exec |-> "none"]
  /\ walk = [x \in Exec |-> {}] /\ open = [x \in Exec |-> {}]
  /\ recorded = [s \in Declared |-> "none"]
  /\ marker = NoMarker
  /\ at = [w \in Sweep |-> "idle"]
  /\ observer = [w \in Sweep |-> NoExec]
  /\ verdicts = [w \in Sweep |-> [s \in Declared |-> "none"]]
  /\ todo = [w \in Sweep |-> <<>>] /\ exhausted = [w \in Sweep |-> FALSE]
  /\ seen = [w \in Sweep |-> {}]
  /\ got = [w \in Sweep |-> [x \in Exec |-> NoOutcome]]
  /\ held = [w \in Sweep |-> NoMarker]
  /\ result = [w \in Sweep |-> NoResult]

-----------------------------------------------------------------------------
(* Step Functions and the stages *)

sweeps == <<at, locals, result>>
Set(f, x, value) == [f EXCEPT ![x] = value]

Start(x) ==
  /\ phase[x] = "none"
  /\ order' = <<x>> \o order
  /\ phase' = Set(phase, x, "running")
  /\ UNCHANGED <<launch, walk, open, recorded, marker, sweeps>>

\* It enters a stage of the graph, or a state that says something about one.
Enter(x, s) ==
  /\ phase[x] = "running"
  /\ s \notin walk[x] \cup {OwnStage} /\ walk[x] \cup {s} \in Graph
  /\ walk' = Set(walk, x, walk[x] \cup {s})
  /\ open' = Set(open, x, open[x] \cup ({s} \cap Declared))
  /\ UNCHANGED <<order, launch, phase, recorded, marker, sweeps>>

\* A stage ends.  It has recorded its verdict, or was denied that.
Finish(x, s) ==
  /\ s \in open[x]
  /\ s = OwnStage => \A w \in Sweep : observer[w] # x
  /\ open' = Set(open, x, open[x] \ {s})
  /\ \/ s \in Declared /\ \E v \in Recordings : recorded' = Set(recorded, s, v)
     \/ UNCHANGED recorded
  /\ UNCHANGED <<order, launch, phase, walk, marker, sweeps>>

\* WriteCompletionMarker, and the sweep's state right after it.
Close(x) ==
  /\ phase[x] = "running" /\ open[x] = {}
  /\ phase' = Set(phase, x, "closing")
  /\ walk' = Set(walk, x, walk[x] \cup {OwnStage}) /\ open' = Set(open, x, {OwnStage})
  /\ marker' = [NoMarker EXCEPT !.envelope = x]
  /\ UNCHANGED <<order, launch, recorded, sweeps>>

\* It succeeds, or ends at a skip terminal, or fails; it is never started again.
End(x) ==
  /\ \/ phase[x] = "closing" /\ open[x] = {} /\ phase' = Set(phase, x, "succeeded")
     \/ phase[x] = "running" /\ open[x] = {} /\ phase' = Set(phase, x, "skipped")
     \/ phase[x] \in {"running", "closing"} /\ phase' = Set(phase, x, "failed")
  /\ open' = Set(open, x, {})
  /\ UNCHANGED <<order, launch, walk, recorded, marker, sweeps>>

status(x) == CASE phase[x] \in {"none", "running", "closing"} -> "RUNNING"
               [] phase[x] \in {"succeeded", "skipped"} -> "SUCCEEDED"
               [] phase[x] = "failed" -> "FAILED"
Now == [x \in Exec |-> [status |-> status(x), skip |-> phase[x] = "skipped",
                        states |-> walk[x]]]

-----------------------------------------------------------------------------
(* read_coverage_sweep *)

\* A rehearsal is no part of the cycle, but for a sweep that it runs itself; nor is an
\* execution of another role.
Contributes(x, obs) ==
  /\ launch[x].rehearsal => x = obs
  /\ launch[x].role \in CONTRIBUTING_ROLES \cup {"untagged"}

\* A sweep is done with what it has read.
Leave(w, place, said) ==
  /\ at' = Set(at, w, place)
  /\ result' = Set(result, w, said)
  /\ verdicts' = Set(verdicts, w, [s \in Declared |-> "none"])
  /\ todo' = Set(todo, w, <<>>) /\ exhausted' = Set(exhausted, w, FALSE)
  /\ seen' = Set(seen, w, {}) /\ got' = Set(got, w, [x \in Exec |-> NoOutcome])
  /\ observer' = IF place = "done" THEN Set(observer, w, NoExec) ELSE observer

\* The sweep is invoked, from within an execution or not, and _load_verdicts reads what the
\* stages have recorded.  (Where that fails the sweep has not run.)
LoadVerdicts(w) ==
  /\ at[w] = "idle"
  /\ at' = Set(at, w, "list")
  /\ \E x \in {y \in Exec : OwnStage \in open[y]} \cup {NoExec} : observer' = Set(observer, w, x)
  /\ verdicts' = Set(verdicts, w, recorded)
  /\ UNCHANGED <<executions, marker, todo, exhausted, seen, got, held, result>>

\* ListExecutions: the newest ones, as many as the walk cap leaves beside the executions of
\* other cycles.
List(w) ==
  /\ at[w] = "list"
  /\ at' = Set(at, w, "describe")
  /\ \E k \in 0..Len(order), capped \in BOOLEAN :
       /\ k < Len(order) => capped
       /\ todo' = Set(todo, w, SubSeq(order, 1, k)) /\ exhausted' = Set(exhausted, w, capped)
  /\ UNCHANGED <<executions, marker, observer, verdicts, seen, got, held, result>>

\* DescribeExecution of the next row.
Describe(w) ==
  /\ at[w] = "describe" /\ todo[w] # <<>>
  /\ LET x == Head(todo[w])
     IN IF Contributes(x, observer[w])
        THEN /\ at' = Set(at, w, "history")
             /\ seen' = Set(seen, w, seen[w] \cup {x})
             /\ got' = [got EXCEPT ![w][x].status = status(x)]
             /\ UNCHANGED todo
        ELSE todo' = Set(todo, w, Tail(todo[w])) /\ UNCHANGED <<at, seen, got>>
  /\ UNCHANGED <<executions, marker, observer, verdicts, exhausted, held, result>>

\* GetExecutionHistory, to its end.
History(w) ==
  /\ at[w] = "history"
  /\ LET x == Head(todo[w])
     IN got' = [got EXCEPT ![w][x].skip = phase[x] = "skipped", ![w][x].states = walk[x]]
  /\ at' = Set(at, w, "describe")
  /\ todo' = Set(todo, w, Tail(todo[w]))
  /\ UNCHANGED <<executions, marker, observer, verdicts, exhausted, seen, held, result>>

\* A request of the walk fails: the sweep falls back to the declared stages, and pages.
WalkFails(w) ==
  /\ at[w] \in {"list", "describe", "history"}
  /\ Leave(w, "done", NoResult)
  /\ UNCHANGED <<executions, marker, held>>

\* What the sweep makes of what it has read, once it has read it all.
CycleOf(w) == Verdict(seen[w], got[w], observer[w])
Entered(w) == Walks(seen[w], got[w])
Own(w) == IF observer[w] = NoExec THEN NoExec ELSE OwnStage
Deferred(w) == ~is_terminal(CycleOf(w)) \/ ~verdict_trustworthy(CycleOf(w), exhausted[w])
Quiet(w, skips) == ~Alerts(Entered(w), verdicts[w], skips, Own(w), Deferred(w))

\* The stages it says have recorded nothing, where it stands behind that.
Absent(w) == IF Deferred(w) THEN {} ELSE Rows("ABSENT", Entered(w), verdicts[w], {}, Own(w))

Said(w) ==
  [read |-> TRUE, verdict |-> CycleOf(w), of |-> seen[w], observer |-> observer[w]]

\* sweep_coverage on what was read, and read_marker: the marker is held for the merge, or
\* is absent or unreadable, and then nothing is written.
Fold(w) ==
  /\ at[w] = "describe" /\ todo[w] = <<>>
  /\ \/ /\ marker.envelope # NoExec
        /\ Leave(w, "put", Said(w))
        /\ held' = Set(held, w, marker)
     \/ Leave(w, "done", Said(w)) /\ UNCHANGED held
  /\ UNCHANGED <<executions, marker>>

merge_cycle_shape(m, said) == [m EXCEPT !.verdict = said.verdict, !.observer = said.observer]

\* The merged marker is stored, unconditionally, or the request fails.
PutMarker(w) ==
  /\ at[w] = "put"
  /\ marker' = merge_cycle_shape(held[w], result[w]) \/ UNCHANGED marker
  /\ at' = Set(at, w, "done")
  /\ observer' = Set(observer, w, NoExec) /\ held' = Set(held, w, NoMarker)
  /\ UNCHANGED <<executions, verdicts, todo, exhausted, seen, got, result>>

-----------------------------------------------------------------------------
Next ==
  \/ \E x \in Exec : Start(x) \/ Close(x) \/ End(x)
  \/ \E x \in Exec, s \in State : Enter(x, s) \/ Finish(x, s)
  \/ \E w \in Sweep : \/ LoadVerdicts(w) \/ List(w) \/ Describe(w) \/ History(w) \/ WalkFails(w)
                      \/ Fold(w) \/ PutMarker(w)

Spec == Init /\ [][Next]_vars
-----------------------------------------------------------------------------
(* Properties *)

Cycle(obs) == {x \in Exec : phase[x] # "none" /\ Contributes(x, obs)}

\* "The cycle has reached a verdict that will not change by waiting": the executions a
\* terminal verdict was folded from, each read at a moment of its own while it may have run,
\* still fold to that verdict, whatever they did since.
TerminalVerdictStays ==
  \A w \in Sweep : result[w].read /\ is_terminal(result[w].verdict) =>
    Verdict(result[w].of, Now, result[w].observer) = result[w].verdict

\* "a COMPLETED verdict is still trustworthy (the union only grows)": neither the executions
\* that the walk did not reach, nor those started since, nor a marker merged from an older
\* envelope take it back.
CompletedStands ==
  LET Stands(verdict, obs) == verdict = "completed" => Verdict(Cycle(obs), Now, obs) = verdict
  IN /\ Stands(marker.verdict, marker.observer)
     /\ \A w \in Sweep : result[w].read => Stands(result[w].verdict, result[w].observer)

\* What a sweep or the marker says of a cycle stays true of it.
VerdictsStand == TerminalVerdictStays /\ CompletedStands

\* A sweep that does not page, whatever its caller declared skipped, has a verdict object of
\* every stage that was entered, and no stage of the spine was left out but by declaration.
QuietIsEarned ==
  \A w \in Sweep : at[w] = "describe" /\ todo[w] = <<>> =>
    \A skips \in SkipInputs : Quiet(w, skips) =>
      \A s \in Declared \ {OwnStage} :
        \/ recorded[s] # "none"
        \/ s \notin Entered(w) /\ (s \in Spine => s \in skips)

\* "``ABSENT`` means "expected, entered, and recorded nothing" - a claim only a cycle that has
\* stopped changing can support": when a sweep stands behind an absence, there is no verdict
\* object, and no contributor is still in the stage. The code does not keep it; no run checks it.
AbsentIsSilence ==
  [][\A w \in Sweep : Fold(w) =>
       \A s \in Absent(w) :
         recorded[s] = "none" /\ \A x \in seen[w] : s \notin open[x]]_vars
=============================================================================
