------------------------------ MODULE CycleShape ------------------------------
(***************************************************************************)
(* nousergon_lib/pipeline_status: one cycle of a pipeline, as its coverage  *)
(* sweeps read it.  work.py judges one execution, cycle_shape.py folds the  *)
(* executions of the cycle into one verdict, coverage.py compares the       *)
(* stages they entered with the verdicts these left, completion_marker.py   *)
(* merges the shape into the marker that the state machine wrote.           *)
(*                                                                          *)
(* Executions run while a sweep reads them, and a sweep may run as a state  *)
(* of one of them (the observer).  Every request is a step.                 *)
(***************************************************************************)
EXTENDS Naturals, Sequences, FiniteSets

CONSTANTS
  Exec,      \* executions of the state machine whose key is this cycle's
  NoExec,
  Sweep,     \* coverage sweeps that may overlap
  Launches,  \* what the executions may be started as
  Spine,     \* PIPELINE_STAGE_ORDER: the stages whose entry is what the cycle means
  Declared,  \* pipeline_stages of the artifact registry: the stages that record a verdict
  OwnStage,  \* the stage that a sweep within an execution is
  Retiring,  \* PENDING_DEFINITION_STAGES and RETIRING_DEFINITION_STAGES
  Mark,      \* other states that say something about stages
  SkipsOf,   \* CADENCE_SKIP_MARKER_STAGES: the stages that entering a mark declares skipped
  ServedBy,  \* SUPERSEDED_STAGES: the stages whose predecessor a mark is
  Graph,     \* the sets of states that one execution can have entered at some moment
  SkipInputs, \* the declared_skips that callers pass
  Recordings  \* bound: the verdicts that stages record

CADENCE_ROLES == {"weekly", "daily", "eod"}
RECOVERY_ROLES == {"watch-rerun", "recovery"}
CONTRIBUTING_ROLES == CADENCE_ROLES \cup RECOVERY_ROLES
Role == CONTRIBUTING_ROLES \cup {"untagged", "exercise", "smoke"}

\* The role in the input of an execution, and whether its name or input says rehearsal.
Launch == [role : Role, rehearsal : BOOLEAN]

State == Spine \cup Declared \cup Mark \cup {OwnStage}

\* What the verdict object of a stage says, if there is one.
VerdictStatus == {"none", "COVERED", "FINDING", "UNMEASURED"}

ASSUME CycleAssumption ==
  /\ NoExec \notin Exec \cup State
  /\ Launches \subseteq [Exec -> Launch]
  /\ OwnStage \notin Spine
  /\ Mark \cap (Spine \cup Declared \cup {OwnStage}) = {}
  /\ Retiring \subseteq Spine
  /\ SkipsOf \in [Mark -> SUBSET Spine] /\ ServedBy \in [Mark -> SUBSET Spine]
  /\ Graph \subseteq SUBSET State /\ SkipInputs \subseteq SUBSET State
  /\ Recordings \subseteq VerdictStatus \ {"none"}

\* Some stage of the spine is due whatever the marks say.
ASSUME DueAssumption ==
  \E s \in Spine : s \notin Retiring /\ \A m \in Mark : s \notin SkipsOf[m] \cup ServedBy[m]

CycleVerdict == {"completed", "skipped", "incomplete", "in_flight"}

\* What DescribeExecution and the history say of an execution: its status, whether its last
\* state is a skip terminal, and the states it has entered.
Outcome == [status : {"RUNNING", "SUCCEEDED", "FAILED"}, skip : BOOLEAN, states : SUBSET State]
NoOutcome == [status |-> "RUNNING", skip |-> FALSE, states |-> {}]

-----------------------------------------------------------------------------
(* classify_work *)

Missing(entered, excused) == {s \in Spine : s \notin entered \cup Retiring \cup excused}
Served(states) == UNION {ServedBy[m] : m \in Mark \cap states}

classify_work(o) ==
  IF o.status = "RUNNING" THEN "in_flight"
  ELSE IF o.status = "FAILED" THEN "incomplete"
  ELSE IF o.skip THEN "skipped"
  ELSE IF Spine \cap o.states = {} \/ Missing(o.states, Served(o.states)) # {} THEN "incomplete"
  ELSE "completed"

(* build_cycle_shape: X are the contributors, out what was read of each *)

Walks(X, out) == UNION {out[x].states : x \in X}
Skipped(states) == UNION {SkipsOf[m] : m \in Mark \cap states}
CycleMissing(X, out) ==
  Missing(Walks(X, out), Skipped(Walks(X, out)) \cup Served(Walks(X, out)))

\* A mutant: a running execution is asked about before the missing stages are.
VerdictRunningFirst(X, out, observer) ==
  IF \E x \in X \ {observer} : classify_work(out[x]) = "in_flight" THEN "in_flight"
  ELSE IF X # {} /\ CycleMissing(X, out) = {} THEN "completed"
  ELSE "incomplete"
Verdict(X, out, observer) ==
  LET nothing == Spine \cap Walks(X, out) = {}
      declined == \A x \in X : classify_work(out[x]) = "skipped"
      running == \E x \in X \ {observer} : classify_work(out[x]) = "in_flight"
  IN IF X = {} THEN "incomplete"
     ELSE IF nothing /\ declined THEN "skipped"
     ELSE IF CycleMissing(X, out) = {} THEN "completed"
     ELSE IF declined THEN "skipped"
     ELSE IF running THEN "in_flight"
     ELSE "incomplete"

is_terminal(verdict) == verdict # "in_flight"
verdict_trustworthy(verdict, exhausted) == exhausted => verdict \in {"completed", "skipped"}

-----------------------------------------------------------------------------
(* sweep_coverage: entered are the states that the contributors entered, verdicts what the *)
(* stages recorded, skips what the caller declared, own the stage that the sweep is        *)

RowState(s, entered, verdicts, skips, own) ==
  IF verdicts[s] # "none" THEN verdicts[s]
  ELSE IF s = own THEN "SELF"
  ELSE IF s \in entered THEN "ABSENT"
  ELSE IF s \in skips THEN "DECLARED_SKIP"
  ELSE "NOT_ENTERED"

Rows(row, entered, verdicts, skips, own) ==
  {s \in Declared : RowState(s, entered, verdicts, skips, own) = row}

\* Mutant: a deferred sweep says nothing.
AlertsUnlessDeferred(entered, verdicts, skips, own, deferred) ==
  ~deferred /\ \E row \in {"ABSENT", "FINDING", "NOT_ENTERED"} :
                 Rows(row, entered, verdicts, skips, own) # {}

\* CoverageSweep.alert_conditions, for a sweep that has read the cycle.
Alerts(entered, verdicts, skips, own, deferred) ==
  \/ deferred
  \/ Rows("ABSENT", entered, verdicts, skips, own) # {}
  \/ Spine \cap Rows("NOT_ENTERED", entered, verdicts, skips, own) # {}
  \/ ~(skips \subseteq Declared) \/ skips \cap entered # {}
  \/ Rows("FINDING", entered, verdicts, skips, own) # {}
=============================================================================
