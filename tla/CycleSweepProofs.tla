--------------------------- MODULE CycleSweepProofs ---------------------------
(* What a sweep concludes about a cycle that goes on while it is read. *)
EXTENDS CycleSweep, TLAPS

-----------------------------------------------------------------------------
(* The pure functions *)

\* The verdict on one execution that matters to a cycle's.
LEMMA Classified ==
  ASSUME NEW o \in Outcome
  PROVE  /\ classify_work(o) = "in_flight" <=> o.status = "RUNNING"
         /\ classify_work(o) = "skipped" <=> o.status = "SUCCEEDED" /\ o.skip
BY DEF Outcome, classify_work

LEMMA InWalks ==
  ASSUME NEW X, NEW out, NEW s
  PROVE  s \in Walks(X, out) <=> \E x \in X : s \in out[x].states
BY DEF Walks

\* More executions that have entered more miss less.
LEMMA MissingShrinks ==
  ASSUME NEW A, NEW B, A \subseteq B
  PROVE  Missing(B, Skipped(B) \cup Served(B)) \subseteq Missing(A, Skipped(A) \cup Served(A))
<1>1. Skipped(A) \subseteq Skipped(B)
  BY DEF Skipped
<1>2. Served(A) \subseteq Served(B)
  BY DEF Served
<1> QED  BY <1>1, <1>2 DEF Missing

\* Where nothing is missing something of the spine was entered: a stage is always due.
LEMMA NothingMissing ==
  ASSUME NEW A, Missing(A, Skipped(A) \cup Served(A)) = {}
  PROVE  Spine \cap A # {}
<1>1. PICK s \in Spine : s \notin Retiring /\ \A m \in Mark : s \notin SkipsOf[m] \cup ServedBy[m]
  BY DueAssumption
<1>2. s \notin Skipped(A) /\ s \notin Served(A)
  BY <1>1 DEF Skipped, Served
<1> QED  BY <1>1, <1>2 DEF Missing

\* COMPLETED is kept by more executions and by longer walks.
LEMMA CompletedGrows ==
  ASSUME NEW X, NEW Y, NEW out, NEW out2, NEW obs, X \subseteq Y,
         \A x \in X : out[x].states \subseteq out2[x].states,
         Verdict(X, out, obs) = "completed"
  PROVE  Verdict(Y, out2, obs) = "completed"
<1>1. X # {} /\ CycleMissing(X, out) = {}
  BY DEF Verdict
<1>2. Walks(X, out) \subseteq Walks(Y, out2)
  BY InWalks
<1>3. CycleMissing(Y, out2) = {}
  BY <1>1, <1>2, MissingShrinks DEF CycleMissing
<1>4. Spine \cap Walks(Y, out2) # {}
  BY <1>3, NothingMissing DEF CycleMissing
<1> QED  BY <1>1, <1>3, <1>4 DEF Verdict

\* The verdict depends on the walks, on who declined, and on who but the observer runs.
LEMMA SameVerdict ==
  ASSUME NEW X, NEW out, NEW out2, NEW obs,
         \A x \in X : out[x].states = out2[x].states,
         \A x \in X : classify_work(out[x]) = "skipped" <=> classify_work(out2[x]) = "skipped",
         \A x \in X \ {obs} :
           classify_work(out[x]) = "in_flight" <=> classify_work(out2[x]) = "in_flight"
  PROVE  Verdict(X, out, obs) = Verdict(X, out2, obs)
<1>1. Walks(X, out) = Walks(X, out2)
  <2>1. \A s : s \in Walks(X, out) <=> s \in Walks(X, out2)
    BY InWalks
  <2> QED  BY <2>1
<1>2. CycleMissing(X, out) = CycleMissing(X, out2)
  BY <1>1 DEF CycleMissing
<1> QED  BY <1>1, <1>2 DEF Verdict

LEMMA VerdictType ==
  ASSUME NEW X, NEW out, NEW obs
  PROVE  Verdict(X, out, obs) \in CycleVerdict
BY DEF Verdict, CycleVerdict

\* A terminal verdict that is not COMPLETED was folded from no running execution but the
\* observer, and SKIPPED from none at all.
LEMMA TerminalVerdict ==
  ASSUME NEW X \in SUBSET Exec, NEW out \in [Exec -> Outcome], NEW obs,
         is_terminal(Verdict(X, out, obs)), Verdict(X, out, obs) # "completed"
  PROVE  /\ \A x \in X \ {obs} : out[x].status # "RUNNING"
         /\ Verdict(X, out, obs) = "skipped" => \A x \in X : out[x].status # "RUNNING"
<1>1. \A x \in X : out[x] \in Outcome
  OBVIOUS
<1> DEFINE declined == \A x \in X : classify_work(out[x]) = "skipped"
           running == \E x \in X \ {obs} : classify_work(out[x]) = "in_flight"
<1>2. declined \/ (~running /\ Verdict(X, out, obs) # "skipped")
  BY DEF Verdict, is_terminal
<1>3. CASE declined
  BY <1>1, <1>3, Classified DEF Outcome
<1>4. CASE ~running /\ Verdict(X, out, obs) # "skipped"
  BY <1>1, <1>4, Classified
<1> QED  BY <1>2, <1>3, <1>4

-----------------------------------------------------------------------------
(* The invariant *)

Over(x) == phase[x] \in {"succeeded", "skipped", "failed"}

\* x has entered all it will enter, and will not end at a skip terminal.
Closed(x) == phase[x] \in {"closing", "succeeded", "failed"}

\* The sweep's state is entered last, and what is listed has started.
Placed ==
  /\ \A x \in Exec : OwnStage \in open[x] => phase[x] = "closing"
  /\ \A i \in 1..Len(order) : phase[order[i]] # "none"

\* What was read of x is a part of its walk; once x is over, and both its status and its
\* history were read, it is all there is to know of x; of the observer the walk is.
ReadSoFar(w, x) ==
  /\ got[w][x].states \subseteq walk[x]
  /\ got[w][x].skip => phase[x] = "skipped"
  /\ got[w][x].status # "RUNNING" => Over(x) /\ got[w][x].status = status(x)
ReadAll(w, x) ==
  /\ got[w][x].status # "RUNNING" =>
       got[w][x].states = walk[x] /\ got[w][x].skip = (phase[x] = "skipped")
  /\ x = observer[w] => got[w][x].states = walk[x]

Unread(w, x) == at[w] = "history" /\ x = Head(todo[w])

\* Where a sweep stands in between its requests.
Gathered(w) ==
  /\ at[w] \in {"idle", "list", "put", "done"} => seen[w] = {}
  /\ at[w] = "history" => todo[w] # <<>>
  /\ \A i \in 1..Len(todo[w]) : phase[todo[w][i]] # "none"
  /\ \A s \in Declared : verdicts[w][s] # "none" => recorded[s] # "none"
  /\ \A x \in Exec : x = observer[w] => Closed(x)
  /\ seen[w] \subseteq Cycle(observer[w])
  /\ \A x \in Exec : ReadSoFar(w, x)
  /\ \A x \in seen[w] : ~Unread(w, x) => ReadAll(w, x)

\* What a terminal result rests on moves no more, but for the observer's own end.
Settled(w) ==
  /\ result[w].of \subseteq Cycle(result[w].observer)
  /\ is_terminal(result[w].verdict) =>
       /\ Verdict(result[w].of, Now, result[w].observer) = result[w].verdict
       /\ result[w].verdict # "completed" =>
            \A x \in result[w].of :
              Over(x) \/ (result[w].verdict = "incomplete" /\ x = result[w].observer /\ Closed(x))

MarkerStands ==
  marker.verdict = "completed" =>
    Verdict(Cycle(marker.observer), Now, marker.observer) = "completed"

IInv ==
  /\ TypeOK /\ Placed /\ MarkerStands
  /\ \A w \in Sweep : Gathered(w) /\ Settled(w)

-----------------------------------------------------------------------------
(* Types *)

ExecTyped ==
  /\ order \in Seq(Exec)
  /\ launch \in [Exec -> Launch]
  /\ phase \in [Exec -> {"none", "running", "closing", "succeeded", "skipped", "failed"}]
  /\ walk \in [Exec -> SUBSET State] /\ open \in [Exec -> SUBSET (Declared \cup {OwnStage})]
  /\ recorded \in [Declared -> VerdictStatus]
  /\ marker \in Marker
SweepTyped ==
  /\ at \in [Sweep -> {"idle", "list", "describe", "history", "put", "done"}]
  /\ observer \in [Sweep -> Exec \cup {NoExec}]
  /\ verdicts \in [Sweep -> [Declared -> VerdictStatus]]
  /\ todo \in [Sweep -> Seq(Exec)]
  /\ exhausted \in [Sweep -> BOOLEAN]
  /\ seen \in [Sweep -> SUBSET Exec]
  /\ got \in [Sweep -> [Exec -> Outcome]]
  /\ held \in [Sweep -> Marker]
  /\ result \in [Sweep -> Result]

LEMMA TypeParts == TypeOK <=> ExecTyped /\ SweepTyped
BY DEF TypeOK, ExecTyped, SweepTyped

LEMMA Empties ==
  /\ NoOutcome \in Outcome /\ NoMarker \in Marker /\ NoResult \in Result
  /\ [s \in Declared |-> "none"] \in [Declared -> VerdictStatus]
BY DEF NoOutcome, Outcome, NoMarker, Marker, NoResult, Result, VerdictStatus, CycleVerdict

LEMMA NowType ==
  ASSUME ExecTyped
  PROVE  /\ Now \in [Exec -> Outcome]
         /\ \A x \in Exec : /\ Now[x].states = walk[x] /\ Now[x].status = status(x)
                            /\ Now[x].skip = (phase[x] = "skipped")
                            /\ status(x) # "RUNNING" <=> Over(x)
                            /\ status(x) = "SUCCEEDED" <=> phase[x] \in {"succeeded", "skipped"}
<1>1. ASSUME NEW x \in Exec
      PROVE  /\ status(x) \in {"RUNNING", "SUCCEEDED", "FAILED"}
             /\ status(x) # "RUNNING" <=> Over(x)
             /\ status(x) = "SUCCEEDED" <=> phase[x] \in {"succeeded", "skipped"}
  BY <1>1 DEF ExecTyped, status, Over
<1>2. \A x \in Exec : walk[x] \in SUBSET State
  BY DEF ExecTyped
<1> QED  BY <1>1, <1>2 DEF Now, Outcome

LEMMA InitIInv == Init => IInv
<1> SUFFICES ASSUME Init PROVE IInv
  OBVIOUS
<1>1. ExecTyped
  BY Empties, CycleAssumption DEF Init, ExecTyped, VerdictStatus
<1>2. SweepTyped
  BY Empties DEF Init, SweepTyped
<1>3. Placed /\ MarkerStands
  BY DEF Init, Placed, MarkerStands, NoMarker
<1>4. ASSUME NEW w \in Sweep PROVE Gathered(w) /\ Settled(w)
  <2>1. \A x \in Exec : x # observer[w]
    BY CycleAssumption DEF Init
  <2>2. \A x \in Exec : ReadSoFar(w, x)
    BY DEF Init, ReadSoFar, NoOutcome
  <2>3. Gathered(w)
    BY <2>1, <2>2 DEF Init, Gathered
  <2>4. Settled(w)
    <3>1. Verdict({}, Now, NoExec) = "incomplete"
      BY DEF Verdict
    <3>2. result[w] = NoResult
      BY DEF Init
    <3> QED  BY <3>1, <3>2 DEF Settled, NoResult
  <2> QED  BY <2>3, <2>4
<1> QED  BY <1>1, <1>2, <1>3, <1>4, TypeParts DEF IInv

-----------------------------------------------------------------------------
(* The executions *)

\* What no step undoes.
Progress ==
  /\ launch' = launch
  /\ \A x \in Exec : walk[x] \subseteq walk'[x]
  /\ \A x \in Exec : Over(x) \/ Closed(x) => walk'[x] = walk[x]
  /\ \A x \in Exec : Over(x) => phase'[x] = phase[x]
  /\ \A x \in Exec : Closed(x) => phase'[x] \in {"closing", "succeeded", "failed"}
  /\ \A x \in Exec : phase[x] # "none" => phase'[x] # "none"
  /\ \A s \in Declared : recorded[s] # "none" => recorded'[s] # "none"

ExecStep(x) ==
  Start(x) \/ Close(x) \/ End(x) \/ \E s \in State : Enter(x, s) \/ Finish(x, s)

\* One execution moves on.
LEMMA ExecMoves ==
  ASSUME ExecTyped, Placed, NEW x \in Exec, ExecStep(x)
  PROVE  /\ ExecTyped' /\ Placed' /\ Progress
         /\ marker' = marker \/ marker'.verdict = "unknown"
         /\ UNCHANGED sweeps
<1> USE DEF ExecTyped, Set, Progress, Over, Closed
<1>1. CASE Start(x)
  <2>1. /\ order' \in Seq(Exec) /\ Len(order') = Len(order) + 1 /\ order'[1] = x
        /\ \A i \in 1..Len(order) : order'[i + 1] = order[i]
    BY <1>1 DEF Start
  <2>2. ASSUME NEW i \in 1..Len(order')
        PROVE  order'[i] = x \/ \E j \in 1..Len(order) : order'[i] = order[j]
    <3>1. i = 1 \/ (i - 1 \in 1..Len(order) /\ i = (i - 1) + 1)
      BY <2>1
    <3> QED  BY <2>1, <3>1
  <2>3. phase'[x] = "running" /\ \A y \in Exec : y # x => phase'[y] = phase[y]
    BY <1>1 DEF Start
  <2>4. \A j \in 1..Len(order) : order[j] \in Exec /\ phase[order[j]] # "none"
    BY DEF Placed
  <2>5. \A i \in 1..Len(order') : phase'[order'[i]] # "none"
    BY <2>2, <2>3, <2>4
  <2> QED  BY <1>1, <2>1, <2>3, <2>5 DEF Start, Placed
<1>2. CASE Close(x)
  <2>1. NoMarker \in Marker /\ marker' = [NoMarker EXCEPT !.envelope = x]
    BY <1>2, Empties DEF Close
  <2>2. marker' \in Marker /\ marker'.verdict = "unknown"
    BY <2>1 DEF Marker, NoMarker
  <2>3. OwnStage \in State
    BY DEF State
  <2>4. phase' \in [Exec -> {"none", "running", "closing", "succeeded", "skipped", "failed"}]
        /\ phase'[x] = "closing" /\ \A y \in Exec : y # x => phase'[y] = phase[y]
    BY <1>2 DEF Close
  <2>5. \A j \in 1..Len(order) : order[j] \in Exec
    OBVIOUS
  <2> QED  BY <1>2, <2>2, <2>3, <2>4, <2>5 DEF Close, Placed
<1>3. CASE End(x)
  <2>1. /\ phase[x] \in {"running", "closing"} /\ phase'[x] \in {"succeeded", "skipped", "failed"}
        /\ phase[x] = "closing" => phase'[x] # "skipped"
        /\ \A y \in Exec : y # x => phase'[y] = phase[y]
    BY <1>3 DEF End
  <2>2. \A j \in 1..Len(order) : order[j] \in Exec
    OBVIOUS
  <2>3. phase' \in [Exec -> {"none", "running", "closing", "succeeded", "skipped", "failed"}]
    BY <1>3 DEF End
  <2> QED  BY <1>3, <2>1, <2>2, <2>3 DEF End, Placed
<1>4. ASSUME NEW s \in State, Enter(x, s) PROVE ExecTyped' /\ Placed' /\ Progress /\ UNCHANGED <<marker, sweeps>>
  BY <1>4 DEF Enter, Placed
<1>5. ASSUME NEW s \in State, Finish(x, s) PROVE ExecTyped' /\ Placed' /\ Progress /\ UNCHANGED <<marker, sweeps>>
  BY <1>5, CycleAssumption DEF Finish, Placed
<1> QED  BY <1>1, <1>2, <1>3, <1>4, <1>5 DEF ExecStep, Start, Close, End

\* The same of the next state.
LEMMA NowTypeNext ==
  ASSUME ExecTyped'
  PROVE  /\ Now' \in [Exec -> Outcome]
         /\ \A x \in Exec : /\ Now'[x].states = walk'[x] /\ Now'[x].status = status(x)'
                            /\ Now'[x].skip = (phase'[x] = "skipped")
                            /\ status(x)' # "RUNNING" <=> Over(x)'
                            /\ status(x)' = "SUCCEEDED" <=> phase'[x] \in {"succeeded", "skipped"}
<1>1. ASSUME NEW x \in Exec
      PROVE  /\ status(x)' \in {"RUNNING", "SUCCEEDED", "FAILED"}
             /\ status(x)' # "RUNNING" <=> Over(x)'
             /\ status(x)' = "SUCCEEDED" <=> phase'[x] \in {"succeeded", "skipped"}
  BY <1>1 DEF ExecTyped, status, Over
<1>2. \A x \in Exec : walk'[x] \in SUBSET State
  BY DEF ExecTyped
<1> QED  BY <1>1, <1>2 DEF Now, Outcome

LEMMA StandsOn ==
  ASSUME ExecTyped, ExecTyped', Progress, NEW X \in SUBSET Exec, NEW Y, X \subseteq Y, NEW obs,
         Verdict(X, Now, obs) = "completed"
  PROVE  Verdict(Y, Now', obs) = "completed"
<1>1. \A x \in X : Now[x].states \subseteq Now'[x].states
  BY NowType, NowTypeNext DEF Progress
<1> QED  BY <1>1, CompletedGrows

\* While the executions move on, a sweep stands where it stood.
Idle(w) ==
  /\ at'[w] = at[w] /\ observer'[w] = observer[w] /\ verdicts'[w] = verdicts[w]
  /\ todo'[w] = todo[w] /\ seen'[w] = seen[w] /\ got'[w] = got[w]

LEMMA GatheredKept ==
  ASSUME ExecTyped, ExecTyped', SweepTyped, Progress, NEW w \in Sweep, Gathered(w), Idle(w)
  PROVE  Gathered(w)'
<1>1. \A i \in 1..Len(todo'[w]) : phase'[todo'[w][i]] # "none"
  BY DEF Gathered, Idle, Progress, SweepTyped
<1>2. \A x \in Exec : x = observer'[w] => Closed(x)'
  BY DEF Gathered, Idle, Progress, Closed
<1>3. seen'[w] \subseteq Cycle(observer[w])'
  BY DEF Gathered, Idle, Progress, Cycle, Contributes
<1>4. ASSUME NEW x \in Exec PROVE ReadSoFar(w, x)'
  <2>1. Over(x) => phase'[x] = phase[x] /\ status(x)' = status(x)
    BY DEF Progress, status
  <2>2. phase[x] = "skipped" => Over(x)
    BY DEF Over
  <2>3. Over(x) => Over(x)'
    BY <2>1 DEF Over
  <2> QED  BY <2>1, <2>2, <2>3 DEF Gathered, Idle, Progress, ReadSoFar
<1>5. ASSUME NEW x \in seen'[w], ~Unread(w, x)' PROVE ReadAll(w, x)'
  <2>1. x \in Exec /\ ReadAll(w, x) /\ ReadSoFar(w, x)
    BY <1>5 DEF Gathered, Idle, Unread, SweepTyped
  <2> QED  BY <2>1, <1>5 DEF Gathered, Idle, Progress, ReadAll, ReadSoFar
<1> QED  BY <1>1, <1>2, <1>3, <1>4, <1>5 DEF Gathered, Idle, Progress

LEMMA SettledKept ==
  ASSUME ExecTyped, ExecTyped', SweepTyped, Progress, NEW w \in Sweep, Settled(w),
         result'[w] = result[w]
  PROVE  Settled(w)'
<1> DEFINE X == result[w].of
           obs == result[w].observer
<1>1. X \in SUBSET Exec
  BY DEF SweepTyped, Result
<1>2. result'[w].of \subseteq Cycle(result[w].observer)'
  BY DEF Settled, Progress, Cycle, Contributes
<1>3. ASSUME is_terminal(result[w].verdict)
      PROVE  /\ Verdict(X, Now', obs) = result[w].verdict
             /\ result[w].verdict # "completed" =>
                  \A x \in X : Over(x)' \/ (result[w].verdict = "incomplete" /\ x = obs /\ Closed(x)')
  <2>1. CASE result[w].verdict = "completed"
    BY <1>1, <1>3, <2>1, StandsOn DEF Settled
  <2>2. CASE result[w].verdict # "completed"
    <3>1. \A x \in X : Over(x) \/ (result[w].verdict = "incomplete" /\ x = obs /\ Closed(x))
      BY <1>3, <2>2 DEF Settled
    <3>2. \A x \in X : Over(x)' \/ (result[w].verdict = "incomplete" /\ x = obs /\ Closed(x)')
      BY <1>1, <3>1 DEF Progress, Over, Closed
    <3>3. ASSUME NEW x \in X
          PROVE  /\ Now[x].states = Now'[x].states
                 /\ classify_work(Now[x]) = "skipped" <=> classify_work(Now'[x]) = "skipped"
                 /\ x # obs => (classify_work(Now[x]) = "in_flight"
                                  <=> classify_work(Now'[x]) = "in_flight")
      <4>1. x \in Exec /\ Now[x] \in Outcome /\ Now'[x] \in Outcome
        BY <1>1, NowType, NowTypeNext
      <4>2. walk'[x] = walk[x]
        BY <4>1, <3>1 DEF Progress
      <4>3. CASE Over(x)
        BY <4>1, <4>2, <4>3, NowType, NowTypeNext, Classified DEF Progress, Over
      <4>4. CASE x = obs /\ Closed(x)
        <5>1. phase[x] # "skipped" /\ phase'[x] # "skipped"
          BY <4>1, <4>4 DEF Progress, Closed
        <5> QED  BY <4>1, <4>2, <4>4, <5>1, NowType, NowTypeNext, Classified
      <4> QED  BY <3>1, <4>3, <4>4
    <3>4. Verdict(X, Now, obs) = Verdict(X, Now', obs)
      BY <3>3, SameVerdict
    <3> QED  BY <1>3, <3>2, <3>4 DEF Settled
  <2> QED  BY <2>1, <2>2
<1> QED  BY <1>2, <1>3 DEF Settled

LEMMA MarkerKept ==
  ASSUME ExecTyped, ExecTyped', Progress, MarkerStands,
         marker' = marker \/ marker'.verdict = "unknown"
  PROVE  MarkerStands'
<1> SUFFICES ASSUME marker'.verdict = "completed"
             PROVE  Verdict(Cycle(marker.observer)', Now', marker.observer) = "completed"
  BY DEF MarkerStands
<1>1. marker' = marker
  OBVIOUS
<1>2. Cycle(marker.observer) \subseteq Cycle(marker.observer)' /\ Cycle(marker.observer) \subseteq Exec
  BY <1>1 DEF Progress, Cycle, Contributes
<1> QED  BY <1>1, <1>2, StandsOn DEF MarkerStands

-----------------------------------------------------------------------------
(* The sweeps *)

SweepStep(w) ==
  LoadVerdicts(w) \/ List(w) \/ Describe(w) \/ History(w) \/ WalkFails(w) \/ Fold(w)
    \/ PutMarker(w)

\* A sweep reads the executions, and leaves them and the other sweeps alone.
LEMMA OnlyReads ==
  ASSUME NEW w \in Sweep, SweepStep(w)
  PROVE  UNCHANGED executions
BY DEF SweepStep, LoadVerdicts, List, Describe, History, WalkFails, Fold, PutMarker

LEMMA StillThere ==
  ASSUME ExecTyped, Placed, UNCHANGED executions, marker' \in Marker
  PROVE  ExecTyped' /\ Placed' /\ Progress
BY DEF ExecTyped, Placed, executions, Progress, Over, Closed

LEMMA OneAtATime ==
  ASSUME SweepTyped, NEW w \in Sweep, SweepStep(w), NEW v \in Sweep, v # w
  PROVE  Idle(v) /\ result'[v] = result[v]
<1> USE DEF SweepTyped, Set, Idle
<1>1. CASE LoadVerdicts(w)
  BY <1>1 DEF LoadVerdicts
<1>2. CASE List(w)
  BY <1>2 DEF List
<1>3. CASE Describe(w)
  BY <1>3 DEF Describe
<1>4. CASE History(w)
  BY <1>4 DEF History
<1>5. CASE WalkFails(w)
  BY <1>5 DEF WalkFails, Leave
<1>6. CASE Fold(w)
  BY <1>6 DEF Fold, Leave
<1>7. CASE PutMarker(w)
  BY <1>7 DEF PutMarker
<1> QED  BY <1>1, <1>2, <1>3, <1>4, <1>5, <1>6, <1>7 DEF SweepStep

LEMMA LoadVerdictsKeeps ==
  ASSUME ExecTyped, SweepTyped, Placed, NEW w \in Sweep, Gathered(w), LoadVerdicts(w)
  PROVE  SweepTyped' /\ Gathered(w)' /\ result'[w] = result[w]
<1>1. SweepTyped'
  BY DEF LoadVerdicts, Set, SweepTyped, ExecTyped
<1>2. \A x \in Exec : x = observer'[w] => Closed(x)'
  BY CycleAssumption DEF LoadVerdicts, Set, SweepTyped, executions, Placed, Closed
<1>3. at[w] = "idle" /\ seen'[w] = {} /\ at'[w] = "list" /\ verdicts'[w] = recorded
  BY DEF LoadVerdicts, Gathered, Set, SweepTyped
<1>4. \A x \in Exec : ReadSoFar(w, x)'
  BY DEF LoadVerdicts, Gathered, executions, ReadSoFar, Over, status
<1> QED  BY <1>1, <1>2, <1>3, <1>4 DEF LoadVerdicts, Gathered, executions

LEMMA ListKeeps ==
  ASSUME ExecTyped, SweepTyped, Placed, NEW w \in Sweep, Gathered(w), List(w)
  PROVE  SweepTyped' /\ Gathered(w)' /\ result'[w] = result[w]
<1>1. PICK k \in 0..Len(order), capped \in BOOLEAN :
        todo' = Set(todo, w, SubSeq(order, 1, k)) /\ exhausted' = Set(exhausted, w, capped)
  BY DEF List
<1>2. SubSeq(order, 1, k) \in Seq(Exec) /\ Len(SubSeq(order, 1, k)) = k
      /\ \A i \in 1..k : SubSeq(order, 1, k)[i] = order[i]
  BY DEF ExecTyped
<1>3. SweepTyped'
  BY <1>1, <1>2 DEF List, Set, SweepTyped
<1>4. \A i \in 1..Len(todo'[w]) : phase'[todo'[w][i]] # "none"
  BY <1>1, <1>2 DEF List, Set, SweepTyped, Placed, executions
<1>5. at[w] = "list" /\ seen'[w] = {} /\ at'[w] = "describe"
  BY DEF List, Gathered, Set, SweepTyped
<1>6. \A x \in Exec : ReadSoFar(w, x)' /\ (x = observer'[w] => Closed(x)')
  BY DEF List, Gathered, executions, ReadSoFar, Over, status, Closed
<1> QED  BY <1>3, <1>4, <1>5, <1>6 DEF List, Gathered, executions

\* The next row is an execution that has started, and the rest have.
LEMMA NextRow ==
  ASSUME SweepTyped, NEW w \in Sweep, Gathered(w), todo[w] # <<>>
  PROVE  /\ Head(todo[w]) \in Exec /\ phase[Head(todo[w])] # "none"
         /\ Tail(todo[w]) \in Seq(Exec)
         /\ \A i \in 1..Len(Tail(todo[w])) : phase[Tail(todo[w])[i]] # "none"
<1>1. todo[w] \in Seq(Exec) /\ Len(todo[w]) \in Nat \ {0}
  BY DEF SweepTyped
<1>2. \A i \in 1..Len(todo[w]) : phase[todo[w][i]] # "none"
  BY DEF Gathered
<1>3. Head(todo[w]) = todo[w][1] /\ Len(Tail(todo[w])) = Len(todo[w]) - 1
      /\ \A i \in 1..Len(Tail(todo[w])) : Tail(todo[w])[i] = todo[w][i + 1]
  BY <1>1
<1>4. \A i \in 1..Len(Tail(todo[w])) : i + 1 \in 1..Len(todo[w])
  BY <1>1, <1>3
<1> QED  BY <1>1, <1>2, <1>3, <1>4

LEMMA DescribeKeeps ==
  ASSUME ExecTyped, SweepTyped, NEW w \in Sweep, Gathered(w), Describe(w)
  PROVE  SweepTyped' /\ Gathered(w)' /\ result'[w] = result[w]
<1> DEFINE x == Head(todo[w])
<1>1. at[w] = "describe" /\ todo[w] # <<>> /\ UNCHANGED <<executions, observer, verdicts, result>>
  BY DEF Describe
<1>2. /\ x \in Exec /\ phase[x] # "none" /\ Tail(todo[w]) \in Seq(Exec)
      /\ \A i \in 1..Len(Tail(todo[w])) : phase[Tail(todo[w])[i]] # "none"
  BY <1>1, NextRow
<1>3. \A y \in Exec : y = observer'[w] => Closed(y)'
  BY <1>1 DEF Gathered, executions, Closed
<1>4. CASE Contributes(x, observer[w])
  <2> DEFINE read == [got[w][x] EXCEPT !.status = status(x)]
  <2>1. /\ at' = [at EXCEPT ![w] = "history"] /\ todo' = todo
        /\ seen' = [seen EXCEPT ![w] = seen[w] \cup {x}]
        /\ got' = [got EXCEPT ![w] = [got[w] EXCEPT ![x] = read]]
    BY <1>4 DEF Describe, Set
  <2>2. got[w] \in [Exec -> Outcome]
    BY DEF SweepTyped
  <2>3. /\ read \in Outcome /\ read.status = status(x)
        /\ read.states = got[w][x].states /\ read.skip = got[w][x].skip
        /\ status(x) # "RUNNING" => Over(x)
    BY <1>2, <2>2, NowType DEF Outcome
  <2>4. got' \in [Sweep -> [Exec -> Outcome]] /\ got'[w] = [got[w] EXCEPT ![x] = read]
    BY <1>2, <2>1, <2>2, <2>3 DEF SweepTyped
  <2>5. SweepTyped'
    BY <1>1, <1>2, <2>1, <2>4 DEF SweepTyped, Describe
  <2>6. seen'[w] \subseteq Cycle(observer[w])'
    BY <1>1, <1>2, <1>4, <2>1 DEF SweepTyped, Gathered, Cycle, Contributes, executions
  <2>7. ASSUME NEW y \in Exec PROVE ReadSoFar(w, y)'
    <3>1. ReadSoFar(w, y)
      BY DEF Gathered
    <3>2. CASE y = x
      BY <1>1, <1>2, <2>2, <2>3, <2>4, <3>1, <3>2 DEF ReadSoFar, executions, Over, status
    <3>3. CASE y # x
      BY <1>1, <1>2, <2>2, <2>4, <3>1, <3>3 DEF ReadSoFar, executions, Over, status
    <3> QED  BY <3>2, <3>3
  <2>8. ASSUME NEW y \in seen'[w], ~Unread(w, y)' PROVE ReadAll(w, y)'
    <3>1. y # x /\ y \in seen[w] /\ y \in Exec
      BY <2>1, <2>8 DEF Unread, SweepTyped
    <3>2. ReadAll(w, y)
      BY <1>1, <3>1 DEF Gathered, Unread
    <3> QED  BY <1>1, <1>2, <2>2, <2>4, <3>1, <3>2 DEF ReadAll, executions
  <2> QED  BY <1>1, <1>3, <2>1, <2>5, <2>6, <2>7, <2>8 DEF Gathered, executions, SweepTyped
<1>5. CASE ~Contributes(x, observer[w])
  <2>1. todo' = [todo EXCEPT ![w] = Tail(todo[w])] /\ UNCHANGED <<at, seen, got, exhausted, held>>
    BY <1>5 DEF Describe, Set
  <2>2. SweepTyped'
    BY <1>1, <1>2, <2>1 DEF SweepTyped
  <2>3. \A y \in Exec : ReadSoFar(w, y)'
    BY <1>1, <2>1 DEF Gathered, ReadSoFar, executions, Over, status
  <2>4. \A y \in seen'[w] : ReadAll(w, y)'
    BY <1>1, <2>1 DEF Gathered, Unread, ReadAll, executions
  <2>5. seen'[w] \subseteq Cycle(observer[w])'
    BY <1>1, <2>1 DEF Gathered, Cycle, Contributes, executions
  <2> QED  BY <1>1, <1>2, <1>3, <2>1, <2>2, <2>3, <2>4, <2>5 DEF Gathered, executions, SweepTyped
<1> QED  BY <1>4, <1>5

LEMMA HistoryKeeps ==
  ASSUME ExecTyped, SweepTyped, NEW w \in Sweep, Gathered(w), History(w)
  PROVE  SweepTyped' /\ Gathered(w)' /\ result'[w] = result[w]
<1> DEFINE x == Head(todo[w])
           read == [got[w][x] EXCEPT !.skip = phase[x] = "skipped", !.states = walk[x]]
<1>1. /\ at[w] = "history" /\ at' = [at EXCEPT ![w] = "describe"]
      /\ todo' = [todo EXCEPT ![w] = Tail(todo[w])]
      /\ UNCHANGED <<executions, observer, verdicts, exhausted, seen, held, result>>
  BY DEF History, Set
<1>2. got' = [got EXCEPT ![w] = [got[w] EXCEPT ![x] = read]]
  BY DEF History
<1>3. /\ x \in Exec /\ Tail(todo[w]) \in Seq(Exec)
      /\ \A i \in 1..Len(Tail(todo[w])) : phase[Tail(todo[w])[i]] # "none"
  BY <1>1, NextRow DEF Gathered
<1>4. got[w] \in [Exec -> Outcome]
  BY DEF SweepTyped
<1>5. /\ read \in Outcome /\ read.status = got[w][x].status
      /\ read.states = walk[x] /\ read.skip = (phase[x] = "skipped")
  BY <1>3, <1>4 DEF Outcome, ExecTyped
<1>6. got' \in [Sweep -> [Exec -> Outcome]] /\ got'[w] = [got[w] EXCEPT ![x] = read]
  BY <1>2, <1>3, <1>4, <1>5 DEF SweepTyped
<1>7. SweepTyped'
  BY <1>1, <1>3, <1>6 DEF SweepTyped
<1>8. seen'[w] \subseteq Cycle(observer[w])' /\ \A y \in Exec : y = observer'[w] => Closed(y)'
  BY <1>1 DEF Gathered, Cycle, Contributes, executions, Closed
<1>9. ASSUME NEW y \in Exec PROVE ReadSoFar(w, y)'
  <2>1. ReadSoFar(w, y)
    BY DEF Gathered
  <2>2. CASE y = x
    BY <1>1, <1>4, <1>5, <1>6, <2>1, <2>2 DEF ReadSoFar, executions, Over, status
  <2>3. CASE y # x
    BY <1>1, <1>4, <1>6, <2>1, <2>3 DEF ReadSoFar, executions, Over, status
  <2> QED  BY <2>2, <2>3
<1>10. ASSUME NEW y \in seen'[w] PROVE ReadAll(w, y)'
  <2>1. y \in Exec /\ y \in seen[w]
    BY <1>1 DEF SweepTyped
  <2>2. CASE y = x
    BY <1>1, <1>4, <1>5, <1>6, <2>1, <2>2 DEF ReadAll, executions
  <2>3. CASE y # x
    <3>1. ReadAll(w, y)
      BY <2>1, <2>3 DEF Gathered, Unread
    <3> QED  BY <1>1, <1>4, <1>6, <2>1, <2>3, <3>1 DEF ReadAll, executions
  <2> QED  BY <2>2, <2>3
<1> QED  BY <1>1, <1>3, <1>7, <1>8, <1>9, <1>10 DEF Gathered, executions, SweepTyped

\* A sweep that has left holds nothing that it has read.
LEMMA LeaveKeeps ==
  ASSUME ExecTyped, SweepTyped, NEW w \in Sweep, Gathered(w), UNCHANGED executions,
         NEW place \in {"put", "done"}, NEW said \in Result, Leave(w, place, said),
         held' \in [Sweep -> Marker]
  PROVE  SweepTyped' /\ Gathered(w)' /\ result'[w] = said
<1>1. observer' \in [Sweep -> Exec \cup {NoExec}] /\ observer'[w] \in {observer[w], NoExec}
  BY DEF Leave, Set, SweepTyped
<1>2. SweepTyped' /\ result'[w] = said
  <2>1. [x \in Exec |-> NoOutcome] \in [Exec -> Outcome] /\ <<>> \in Seq(Exec)
    BY Empties
  <2>2. /\ verdicts' \in [Sweep -> [Declared -> VerdictStatus]]
        /\ got' \in [Sweep -> [Exec -> Outcome]]
    BY <2>1, Empties DEF Leave, Set, SweepTyped
  <2>3. /\ at' \in [Sweep -> {"idle", "list", "describe", "history", "put", "done"}]
        /\ result' \in [Sweep -> Result] /\ result'[w] = said
    BY DEF Leave, Set, SweepTyped
  <2>4. /\ todo' \in [Sweep -> Seq(Exec)] /\ exhausted' \in [Sweep -> BOOLEAN]
        /\ seen' \in [Sweep -> SUBSET Exec]
    BY <2>1 DEF Leave, Set, SweepTyped
  <2> QED  BY <1>1, <2>2, <2>3, <2>4 DEF SweepTyped
<1>3. /\ at'[w] = place /\ seen'[w] = {} /\ todo'[w] = <<>>
      /\ verdicts'[w] = [s \in Declared |-> "none"]
      /\ got'[w] = [x \in Exec |-> NoOutcome]
  BY DEF Leave, Set, SweepTyped
<1>4. \A x \in Exec : x = observer'[w] => Closed(x)'
  BY <1>1, CycleAssumption DEF Gathered, executions, Closed
<1>5. \A x \in Exec : ReadSoFar(w, x)'
  BY <1>3 DEF ReadSoFar, NoOutcome
<1> QED  BY <1>2, <1>3, <1>4, <1>5 DEF Gathered

LEMMA WalkFailsKeeps ==
  ASSUME ExecTyped, SweepTyped, NEW w \in Sweep, Gathered(w), WalkFails(w)
  PROVE  SweepTyped' /\ Gathered(w)' /\ Settled(w)'
<1>1. SweepTyped' /\ Gathered(w)' /\ result'[w] = NoResult
  BY LeaveKeeps, Empties DEF WalkFails, SweepTyped
<1>2. Verdict({}, Now', NoExec) = "incomplete"
  BY DEF Verdict
<1> QED  BY <1>1, <1>2 DEF Settled, NoResult

\* A sweep that has read to the end of its list: what it read of a contributor that no longer
\* ran is all there is, and of its own execution the walk is.
LEMMA FoldSettles ==
  ASSUME ExecTyped, SweepTyped, NEW w \in Sweep, Gathered(w),
         at[w] = "describe", is_terminal(CycleOf(w))
  PROVE  /\ Verdict(seen[w], Now, observer[w]) = CycleOf(w)
         /\ CycleOf(w) # "completed" =>
              \A x \in seen[w] :
                Over(x) \/ (CycleOf(w) = "incomplete" /\ x = observer[w] /\ Closed(x))
<1> DEFINE X == seen[w]
           obs == observer[w]
<1>1. /\ X \in SUBSET Exec /\ got[w] \in [Exec -> Outcome]
      /\ \A x \in X : ReadSoFar(w, x) /\ ReadAll(w, x) /\ (x = obs => Closed(x))
  BY DEF SweepTyped, Gathered, Unread
<1>2. CASE CycleOf(w) = "completed"
  <2>1. \A x \in X : got[w][x].states \subseteq Now[x].states
    BY <1>1, NowType DEF ReadSoFar
  <2> QED  BY <1>2, <2>1, CompletedGrows DEF CycleOf
<1>3. CASE CycleOf(w) # "completed"
  <2>1. /\ \A x \in X \ {obs} : got[w][x].status # "RUNNING"
        /\ CycleOf(w) = "skipped" => \A x \in X : got[w][x].status # "RUNNING"
    BY <1>1, <1>3, TerminalVerdict DEF CycleOf
  <2>2. CycleOf(w) \in {"skipped", "incomplete"}
    BY <1>3, VerdictType DEF CycleOf, CycleVerdict, is_terminal
  <2>3. \A x \in X : Over(x) \/ (CycleOf(w) = "incomplete" /\ x = obs /\ Closed(x))
    BY <1>1, <2>1, <2>2 DEF ReadSoFar
  <2>4. ASSUME NEW x \in X
        PROVE  /\ got[w][x].states = Now[x].states
               /\ classify_work(got[w][x]) = "skipped" <=> classify_work(Now[x]) = "skipped"
               /\ x # obs => (classify_work(got[w][x]) = "in_flight"
                                <=> classify_work(Now[x]) = "in_flight")
    <3>1. /\ x \in Exec /\ got[w][x] \in Outcome /\ Now[x] \in Outcome
          /\ ReadSoFar(w, x) /\ ReadAll(w, x)
      BY <1>1, NowType
    <3>2. CASE got[w][x].status # "RUNNING"
      <4>1. got[w][x].states = Now[x].states /\ got[w][x].skip = Now[x].skip
            /\ got[w][x].status = Now[x].status
        BY <3>1, <3>2, NowType DEF ReadSoFar, ReadAll
      <4> QED  BY <3>1, <4>1, Classified
    <3>3. CASE x = obs
      <4>1. ~got[w][x].skip /\ ~Now[x].skip
        BY <1>1, <3>1, <3>3, NowType DEF ReadSoFar, Closed
      <4> QED  BY <3>1, <3>3, <4>1, NowType, Classified DEF ReadAll
    <3> QED  BY <2>1, <3>2, <3>3
  <2>5. Verdict(X, got[w], obs) = Verdict(X, Now, obs)
    BY <2>4, SameVerdict
  <2> QED  BY <2>3, <2>5 DEF CycleOf
<1> QED  BY <1>2, <1>3

LEMMA FoldKeeps ==
  ASSUME ExecTyped, SweepTyped, NEW w \in Sweep, Gathered(w), Fold(w)
  PROVE  SweepTyped' /\ Gathered(w)' /\ Settled(w)'
<1>1. Said(w) \in Result
  BY VerdictType DEF Said, Result, CycleOf, SweepTyped
<1>2. PICK place \in {"put", "done"} : Leave(w, place, Said(w)) /\ held' \in [Sweep -> Marker]
  BY DEF Fold, Set, SweepTyped, ExecTyped
<1>3. at[w] = "describe" /\ UNCHANGED executions
  BY DEF Fold
<1>4. SweepTyped' /\ Gathered(w)' /\ result'[w] = Said(w)
  BY <1>1, <1>2, <1>3, LeaveKeeps
<1>5. Now' = Now /\ \A x \in Exec : (Over(x)' <=> Over(x)) /\ (Closed(x)' <=> Closed(x))
  BY <1>3 DEF executions, Now, status, Over, Closed
<1>6. /\ Said(w).of = seen[w] /\ Said(w).observer = observer[w] /\ Said(w).verdict = CycleOf(w)
      /\ seen[w] \subseteq Exec
  BY DEF Said, SweepTyped
<1>7. (result[w].of \subseteq Cycle(result[w].observer))'
  BY <1>3, <1>4, <1>6 DEF Gathered, Cycle, Contributes, executions
<1>8. is_terminal(CycleOf(w)) =>
        /\ Verdict(seen[w], Now', observer[w]) = CycleOf(w)
        /\ CycleOf(w) # "completed" =>
             \A x \in seen[w] :
               Over(x)' \/ (CycleOf(w) = "incomplete" /\ x = observer[w] /\ Closed(x)')
  BY <1>3, <1>5, <1>6, FoldSettles
<1> QED  BY <1>4, <1>6, <1>7, <1>8 DEF Settled

\* Whatever the marker was merged from, the verdict in it is one that stands.
LEMMA PutMarkerKeeps ==
  ASSUME ExecTyped, SweepTyped, NEW w \in Sweep, Gathered(w), Settled(w), MarkerStands,
         PutMarker(w)
  PROVE  /\ SweepTyped' /\ Gathered(w)' /\ result'[w] = result[w]
         /\ marker' \in Marker /\ MarkerStands'
<1>1. /\ at[w] = "put" /\ at' = [at EXCEPT ![w] = "done"]
      /\ observer' = [observer EXCEPT ![w] = NoExec] /\ held' = [held EXCEPT ![w] = NoMarker]
      /\ UNCHANGED <<executions, verdicts, todo, exhausted, seen, got, result>>
  BY DEF PutMarker, Set
<1>2. SweepTyped'
  BY <1>1, Empties DEF SweepTyped
<1>3. Gathered(w)'
  <2>1. seen'[w] = {} /\ at'[w] = "done" /\ observer'[w] = NoExec
    BY <1>1 DEF Gathered, SweepTyped
  <2>2. \A x \in Exec : ReadSoFar(w, x)'
    BY <1>1 DEF Gathered, ReadSoFar, executions, Over, status
  <2> QED  BY <1>1, <2>1, <2>2, CycleAssumption DEF Gathered, executions
<1>4. Now' = Now
  BY <1>1 DEF executions, Now, status
<1>5. CASE UNCHANGED marker
  <2>1. Cycle(marker.observer)' = Cycle(marker.observer)
    BY <1>1, <1>5 DEF executions, Cycle, Contributes
  <2> QED  BY <1>1, <1>2, <1>3, <1>4, <1>5, <2>1 DEF MarkerStands, ExecTyped
<1>6. CASE marker' = merge_cycle_shape(held[w], result[w])
  <2>1. held[w] \in Marker /\ result[w] \in Result
    BY DEF SweepTyped
  <2>2. /\ marker' \in Marker /\ marker'.verdict = result[w].verdict
        /\ marker'.observer = result[w].observer
    BY <1>6, <2>1 DEF merge_cycle_shape, Marker, Result
  <2>3. ASSUME marker'.verdict = "completed"
        PROVE  Verdict(Cycle(marker.observer)', Now', marker'.observer) = "completed"
    <3>1. Verdict(result[w].of, Now, result[w].observer) = "completed"
      BY <2>2, <2>3 DEF Settled, is_terminal
    <3>2. result[w].of \subseteq Cycle(marker.observer)'
      BY <1>1, <2>2 DEF Settled, Cycle, Contributes, executions
    <3> QED  BY <1>4, <2>2, <3>1, <3>2, CompletedGrows
  <2> QED  BY <1>1, <1>2, <1>3, <2>2, <2>3 DEF MarkerStands
<1> QED  BY <1>5, <1>6 DEF PutMarker

-----------------------------------------------------------------------------
(* The theorems *)

LEMMA NextIInv == IInv /\ [Next]_vars => IInv'
<1> SUFFICES ASSUME IInv, [Next]_vars PROVE IInv'
  OBVIOUS
<1>1. /\ ExecTyped /\ SweepTyped /\ Placed /\ MarkerStands
      /\ \A w \in Sweep : Gathered(w) /\ Settled(w)
  BY TypeParts DEF IInv
<1>2. SUFFICES ExecTyped' /\ SweepTyped' /\ Placed' /\ MarkerStands'
               /\ \A w \in Sweep : Gathered(w)' /\ Settled(w)'
  <2>1. TypeOK' <=> ExecTyped' /\ SweepTyped'
    BY DEF TypeOK, ExecTyped, SweepTyped
  <2> QED  BY <2>1 DEF IInv
<1>3. ASSUME ExecTyped', Placed', Progress, UNCHANGED sweeps,
             marker' = marker \/ marker'.verdict = "unknown"
      PROVE  SweepTyped' /\ MarkerStands' /\ \A w \in Sweep : Gathered(w)' /\ Settled(w)'
  <2>1. \A w \in Sweep : Idle(w) /\ result'[w] = result[w]
    BY <1>3 DEF sweeps, locals, Idle
  <2>2. SweepTyped'
    BY <1>1, <1>3 DEF SweepTyped, sweeps, locals
  <2> QED  BY <1>1, <1>3, <2>1, <2>2, MarkerKept, GatheredKept, SettledKept
<1>4. ASSUME NEW x \in Exec, ExecStep(x)
      PROVE  ExecTyped' /\ SweepTyped' /\ Placed' /\ MarkerStands'
             /\ \A w \in Sweep : Gathered(w)' /\ Settled(w)'
  BY <1>1, <1>3, <1>4, ExecMoves
<1>5. ASSUME NEW w \in Sweep, SweepStep(w)
      PROVE  ExecTyped' /\ SweepTyped' /\ Placed' /\ MarkerStands'
             /\ \A v \in Sweep : Gathered(v)' /\ Settled(v)'
  <2>1. UNCHANGED executions
    BY <1>5, OnlyReads
  <2>2. ASSUME marker' \in Marker, marker' = marker \/ MarkerStands', SweepTyped',
               Gathered(w)', result'[w] = result[w] \/ Settled(w)'
        PROVE  ExecTyped' /\ Placed' /\ MarkerStands' /\ \A v \in Sweep : Gathered(v)' /\ Settled(v)'
    <3>1. ExecTyped' /\ Placed' /\ Progress
      BY <1>1, <2>1, <2>2, StillThere
    <3>2. MarkerStands'
      BY <1>1, <2>2, <3>1, MarkerKept
    <3>3. Settled(w)'
      BY <1>1, <2>2, <3>1, SettledKept
    <3>4. ASSUME NEW v \in Sweep, v # w PROVE Gathered(v)' /\ Settled(v)'
      <4>1. Idle(v) /\ result'[v] = result[v]
        BY <1>1, <1>5, <3>4, OneAtATime
      <4> QED  BY <1>1, <3>1, <4>1, GatheredKept, SettledKept
    <3> QED  BY <2>2, <3>1, <3>2, <3>3, <3>4
  <2>3. marker \in Marker
    BY <1>1 DEF ExecTyped
  <2>4. CASE LoadVerdicts(w)
    BY <1>1, <2>2, <2>3, <2>4, LoadVerdictsKeeps DEF LoadVerdicts
  <2>5. CASE List(w)
    BY <1>1, <2>2, <2>3, <2>5, ListKeeps DEF List
  <2>6. CASE Describe(w)
    BY <1>1, <2>2, <2>3, <2>6, DescribeKeeps DEF Describe
  <2>7. CASE History(w)
    BY <1>1, <2>2, <2>3, <2>7, HistoryKeeps DEF History
  <2>8. CASE WalkFails(w)
    BY <1>1, <2>2, <2>3, <2>8, WalkFailsKeeps DEF WalkFails
  <2>9. CASE Fold(w)
    BY <1>1, <2>2, <2>3, <2>9, FoldKeeps DEF Fold
  <2>10. CASE PutMarker(w)
    BY <1>1, <2>2, <2>10, PutMarkerKeeps
  <2> QED  BY <1>5, <2>4, <2>5, <2>6, <2>7, <2>8, <2>9, <2>10 DEF SweepStep
<1>6. CASE UNCHANGED vars
  <2>1. UNCHANGED <<executions, marker, sweeps>>
    BY <1>6 DEF vars, sweeps
  <2>2. marker' \in Marker
    BY <1>1, <2>1 DEF ExecTyped
  <2> QED  BY <1>1, <1>3, <2>1, <2>2, StillThere
<1> QED  BY <1>4, <1>5, <1>6 DEF Next, ExecStep, SweepStep

\* The invariant holds throughout, whatever the executions and the sweeps do.
THEOREM Invariant == Spec => []IInv
BY InitIInv, NextIInv, PTL DEF Spec

\* Every variable keeps its type.
THEOREM TypeCorrect == Spec => []TypeOK
<1>1. IInv => TypeOK
  BY DEF IInv
<1> QED  BY <1>1, Invariant, PTL

\* What a terminal verdict was folded from still folds to it, whatever the executions did
\* while they were read and since.
THEOREM TerminalStays == Spec => []TerminalVerdictStays
<1>1. IInv => TerminalVerdictStays
  BY DEF IInv, Settled, TerminalVerdictStays
<1> QED  BY <1>1, Invariant, PTL

\* A COMPLETED verdict, of a sweep or in the marker, is one of the whole cycle: of the
\* executions that the walk did not reach as well, and of those started since.
THEOREM CompletedHolds == Spec => []CompletedStands
<1>1. ASSUME IInv PROVE CompletedStands
  <2>1. ASSUME NEW w \in Sweep, result[w].verdict = "completed"
        PROVE  Verdict(Cycle(result[w].observer), Now, result[w].observer) = "completed"
    <3>1. /\ result[w].of \subseteq Cycle(result[w].observer)
          /\ Verdict(result[w].of, Now, result[w].observer) = "completed"
      BY <1>1, <2>1 DEF IInv, Settled, is_terminal
    <3> QED  BY <3>1, CompletedGrows
  <2> QED  BY <1>1, <2>1 DEF IInv, MarkerStands, CompletedStands
<1> QED  BY <1>1, Invariant, PTL

\* Both: what a sweep or the marker says of a cycle stays true of it.
THEOREM StandingVerdicts == Spec => []VerdictsStand
BY TerminalStays, CompletedHolds, PTL DEF VerdictsStand

\* A sweep that does not page has not lost the verdict of a stage that was entered.
THEOREM QuietHolds == Spec => []QuietIsEarned
<1>1. ASSUME IInv PROVE QuietIsEarned
  <2>1. SUFFICES ASSUME NEW w \in Sweep, NEW skips \in SkipInputs, Quiet(w, skips),
                        NEW s \in Declared \ {OwnStage}, recorded[s] = "none"
                 PROVE  s \notin Entered(w) /\ (s \in Spine => s \in skips)
    BY DEF QuietIsEarned
  <2>2. verdicts[w][s] = "none"
    BY <1>1, <2>1 DEF IInv, Gathered
  <2>3. s # Own(w)
    BY CycleAssumption DEF Own, State
  <2>4. /\ s \notin Rows("ABSENT", Entered(w), verdicts[w], skips, Own(w))
        /\ s \notin Spine \cap Rows("NOT_ENTERED", Entered(w), verdicts[w], skips, Own(w))
    BY <2>1 DEF Quiet, Alerts
  <2>5. RowState(s, Entered(w), verdicts[w], skips, Own(w)) # "ABSENT"
        /\ (s \in Spine => RowState(s, Entered(w), verdicts[w], skips, Own(w)) # "NOT_ENTERED")
    BY <2>4 DEF Rows
  <2> QED  BY <2>2, <2>3, <2>5 DEF RowState
<1> QED  BY <1>1, Invariant, PTL

==============================================================================
