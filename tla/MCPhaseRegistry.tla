--------------------------- MODULE MCPhaseRegistry ---------------------------
(* Values for the runs of PhaseRegistry: one production and one rehearsal       *)
(* execution, two processes, and the markers earlier runs may have left behind. *)
EXTENDS PhaseRegistry, TLC

CONSTANTS r1, r2, p1, p2, a1, weekly, rehearsal

Conf(exec, token, strict) ==
  [exec |-> exec, token |-> token, strict |-> strict, force |-> {}, skip |-> {},
   only |-> Phase]

\* r1 is a strict production run; r2 is a relaunch of it that forces p1, a
\* rehearsal that knows its name, one that has lost it, or an ad-hoc run that
\* skips p1 by flag and computes p2, which is not auto-skippable.
TwoRuns ==
  (r1 :> {[Conf(weekly, weekly, TRUE) EXCEPT !.only = {p1}]}) @@
  (r2 :> {[Conf(weekly, weekly, TRUE) EXCEPT !.force = {p1}, !.only = {p1}],
          [Conf(rehearsal, rehearsal, TRUE) EXCEPT !.only = {p1}],
          [Conf(rehearsal, NoToken, FALSE) EXCEPT !.only = {p1}],
          [Conf(NoToken, NoToken, FALSE) EXCEPT !.skip = {p1}]})

OldRehearsal == [token |-> rehearsal, status |-> "ok", arts |-> {a1}, origin |-> rehearsal]
OldWeekly == [token |-> weekly, status |-> "ok", arts |-> {a1}, origin |-> weekly]

SomeLeftovers == (p1 :> {Absent, Corrupt, OldRehearsal}) @@ (p2 :> {Absent})

\* One production run alone, after another one of the same execution.
LoneRun == r1 :> {Conf(weekly, weekly, TRUE)}
OneLeftover == p1 :> {OldWeekly}
=============================================================================
