-------------------------------- MODULE Arena --------------------------------
(***************************************************************************)
(* nousergon_lib/arena: the append-only arm register (arms.py), the        *)
(* pairwise ranking (ranking.py) and one cycle of a slot's arena           *)
(* (engine.py): decide the pointer, then evaluate retirements.             *)
(*                                                                         *)
(* What the arms scored is data.  A cycle sees, for every pair of arms,    *)
(* one Sheet: the statistics of the pair's longest common window.  The     *)
(* sheets of a cycle are chosen freely from Evidences.                     *)
(*                                                                         *)
(* The slot that calls run_cycle lives outside this repository.  It is     *)
(* taken to store the pointer first and to append the retirements after    *)
(* it, and it can stop at either place; the next cycle starts over.        *)
(* Dates are weeks, the cadence of the cycle.                              *)
(***************************************************************************)
EXTENDS Integers, FiniteSets, FiniteSetsExt

CONSTANTS
  Arm,        \* arm ids, numbered in their sorted order
  Control,    \* synthetic benchmarks: ArmRecord.control
  Evidences,  \* what the series of a cycle may show
  Unfits,     \* sets of arms that may fail a serving precondition together
  Configs,    \* ArenaConfig values of the slot
  Founders,   \* arms whose rows are in the register from the start
  Created,    \* values of created_date for the arms registered later
  NoArm,      \* None for an arm
  NoValue,    \* None for a statistic
  Never,      \* None for a date
  MaxWeek     \* bound: weeks played

Pair == {p \in Arm \X Arm : p[1] < p[2]}

\* The common window of a pair, from the side of its first arm: its length (0 when
\* it is not measurable), the mean paired difference, the difference of information
\* ratios, and the ends of the confidence sequence.
Sheet == [weeks : Nat, mean : Int, ratio : Int \cup {NoValue}, lower : Int, upper : Int]

ArenaConfig ==
  {c \in [promote_evidence : {"point", "anytime_valid"},
          promote_statistic : {"mean_diff", "information_ratio"},
          promote_against : {"incumbent", "every_arm"},
          retire_evidence : {"point", "anytime_valid"},
          cap : Nat, grace_weeks : Nat, promote_min_weeks : Nat, min_active_arms : Nat] :
     /\ c.min_active_arms >= 2 /\ c.min_active_arms <= c.cap
     /\ c.grace_weeks >= 1 /\ c.promote_min_weeks >= 1
     /\ c.promote_against = "every_arm" => c.promote_evidence = "point"
     /\ c.promote_statistic = "information_ratio" => c.promote_evidence = "point"}

ASSUME ArenaAssumption ==
  /\ Arm \subseteq Nat /\ IsFiniteSet(Arm)
  /\ Control \subseteq Arm /\ Founders \subseteq Arm
  /\ Evidences \subseteq [Pair -> Sheet]
  /\ Unfits \subseteq SUBSET Arm
  /\ Configs \subseteq ArenaConfig
  /\ Created \in [Arm -> SUBSET Nat]
  /\ NoArm \notin Arm /\ NoValue \notin Int /\ Never \notin Nat
  /\ MaxWeek \in Nat

VARIABLES
  config,     \* the slot's configuration
  week,       \* today
  created,    \* record.created_date of each registered arm
  filed,      \* ArmState.filed_date
  retired,    \* ArmState.retired_date
  pointer,    \* the arm the slot serves
  stage,      \* what the slot has done of the cycle in progress
  cycle       \* the ArenaCycle it holds

register == <<created, filed, retired>>
vars == <<config, week, register, pointer, stage, cycle>>

-----------------------------------------------------------------------------
(* The register (arms.py) *)

Registered == {a \in Arm : filed[a] # Never}

\* ArmState.exists_at.
ExistsAt(d) == {a \in Registered : created[a] <= d /\ filed[a] <= d}

\* ArmRegister.active_arms: whoever is not retired NOW and existed at d.
ActiveArms(d) == {a \in ExistsAt(d) : retired[a] = Never}

\* _promotable_arms: controls excluded.
PromotableArms(d) == ActiveArms(d) \ Control

-----------------------------------------------------------------------------
(* The pairwise ranking (window.py, ranking.py) *)

Neg(v) == IF v = NoValue THEN NoValue ELSE -v
Flip(s) == [weeks |-> s.weeks, mean |-> -s.mean, ratio |-> Neg(s.ratio),
            lower |-> -s.upper, upper |-> -s.lower]

\* pair_on_common_window: one window for the pair, whichever arm it is read from.
Window(ev, a, b) == IF a < b THEN ev[<<a, b>>] ELSE Flip(ev[<<b, a>>])

Measurable(ev, a, b) == a # b /\ Window(ev, a, b).weeks > 0

\* _verdict: a wins the head-to-head with b.
Beats(ev, mode, a, b) ==
  /\ Measurable(ev, a, b)
  /\ IF mode = "anytime_valid" THEN Window(ev, a, b).lower > 0
                               ELSE Window(ev, a, b).mean > 0

BeatenBy(ev, mode, arms, a) == {b \in arms : Beats(ev, mode, b, a)}
Copeland(ev, mode, arms, a) ==
  Cardinality({b \in arms : Beats(ev, mode, a, b)}) - Cardinality(BeatenBy(ev, mode, arms, a))

MarginOver(ev, arms, a) ==
  LET met == {b \in arms : Measurable(ev, a, b)}
  IN [sum |-> MapThenSumSet(LAMBDA b : Window(ev, a, b).mean, met),
      n |-> IF met = {} THEN 1 ELSE Cardinality(met)]

\* PairwiseRanking.ordering: Copeland score, mean margin, age, arm id.
RanksBefore(ev, mode, arms, since, a, b) ==
  LET ca == Copeland(ev, mode, arms, a)
      cb == Copeland(ev, mode, arms, b)
      ma == MarginOver(ev, arms, a)
      mb == MarginOver(ev, arms, b)
  IN \/ ca > cb
     \/ (ca = cb /\ ma.sum * mb.n > mb.sum * ma.n)
     \/ /\ ca = cb /\ ma.sum * mb.n = mb.sum * ma.n
        /\ since[a] < since[b] \/ (since[a] = since[b] /\ a < b)

\* _has_cycle: some set of arms in which every arm is beaten by another one.
CyclesPresent(ev, mode, arms) ==
  \E S \in (SUBSET arms) \ {{}} : \A a \in S : BeatenBy(ev, mode, S, a) # {}

-----------------------------------------------------------------------------
(* The pointer (engine.py, decide_pointer) *)

\* promotion_statistic.
Statistic(c, s) == IF c.promote_statistic = "information_ratio" THEN s.ratio ELSE s.mean

AgeEligible(c, s) == s.weeks >= c.promote_min_weeks

\* _rival_blockers: the rivals that arm a does not outperform; a rival without a
\* verdict does not block.
RivalBlockers(c, ev, rivals, a) ==
  {b \in rivals : /\ Measurable(ev, a, b)
                  /\ LET v == Statistic(c, Window(ev, a, b)) IN v # NoValue /\ v <= 0}

\* A mutant of Promotable: the lead over the incumbent is all that counts.
PromotableOnLead(c, ev, challengers, inc) ==
  {a \in challengers :
     /\ Measurable(ev, a, inc)
     /\ LET s == Window(ev, a, inc) IN
          AgeEligible(c, s) /\ Statistic(c, s) # NoValue /\ Statistic(c, s) > 0}

\* _promotable: the challengers allowed to take the pointer.
Promotable(c, ev, challengers, inc) ==
  {a \in challengers :
     /\ Measurable(ev, a, inc)
     /\ AgeEligible(c, Window(ev, a, inc))
     /\ IF c.promote_evidence = "point"
          THEN /\ Statistic(c, Window(ev, a, inc)) # NoValue
               /\ Statistic(c, Window(ev, a, inc)) > 0
               /\ c.promote_against = "every_arm" => RivalBlockers(c, ev, challengers, a) = {}
          ELSE Window(ev, a, inc).lower > 0}

\* The key max() ranks a challenger on; a statistic that is not estimable sorts last.
RankKey(c, s) == IF c.promote_evidence = "point" THEN Statistic(c, s) ELSE s.lower
Outranks(c, ev, inc, a, b) ==
  LET ka == RankKey(c, Window(ev, a, inc))
      kb == RankKey(c, Window(ev, b, inc))
  IN \/ ka # NoValue /\ kb = NoValue
     \/ ka # NoValue /\ kb # NoValue /\ ka > kb
     \/ ka = kb /\ a > b


\* What max() and the first of the sorted arms pick: one arm, as both orders are total.
Leaders(c, ev, inc, S) == {a \in S : \A b \in S \ {a} : Outranks(c, ev, inc, a, b)}
FirstRanked(ev, S) ==
  {a \in S : \A b \in S \ {a} : RanksBefore(ev, "point", S, [x \in S |-> 0], a, b)}

\* The incumbent may not serve: promotable, else any measured, else the first arm.
Forced(c, ev, eligible, inc) ==
  LET promotable == Promotable(c, ev, eligible, inc)
      measured == {a \in eligible : Measurable(ev, a, inc)}
  IN IF promotable # {} THEN Leaders(c, ev, inc, promotable)
     ELSE IF measured # {} THEN Leaders(c, ev, inc, measured)
     ELSE {a \in eligible : \A b \in eligible : a <= b}

\* decide_pointer over the series of the active arms; unfit are the arms that fail
\* a serving precondition.
Decide(c, ev, active, unfit, inc) ==
  LET eligible == active \ unfit
      challengers == eligible \ {inc}
      promotable == Promotable(c, ev, challengers, inc)
      Says(arms, status) == {[champion |-> a, status |-> status] : a \in arms}
  IN IF eligible = {} THEN Says({NoArm}, "unservable")
     ELSE IF inc \notin active THEN Says(FirstRanked(ev, eligible), "bootstrap")
     ELSE IF inc \in unfit THEN Says(Forced(c, ev, eligible, inc), "decided")
     ELSE IF \A a \in challengers : ~Measurable(ev, a, inc) THEN Says({inc}, "unmeasurable")
     ELSE IF promotable = {} THEN Says({inc}, "held")
     ELSE Says(Leaders(c, ev, inc, promotable), "decided")

-----------------------------------------------------------------------------
(* Retirements (engine.py, evaluate_retirements) *)

Grown(c, since, d, arms) == {a \in arms : d - since[a] >= c.grace_weeks}

\* At least cap arms beat it: its losses in the ranking of all active arms, less
\* those to a control.
OverCap(c, ev, active, real, a) ==
  Cardinality(BeatenBy(ev, c.retire_evidence, active, a))
    - Cardinality(BeatenBy(ev, c.retire_evidence, active \ real, a)) >= c.cap

Candidates(c, ev, active, real, since, d, champion) ==
  {a \in Grown(c, since, d, real) \ {champion} : OverCap(c, ev, active, real, a)}

\* A mutant of Retirements: the arms retired so far are not counted.
RetirementsUncounted(c, ev, active, real, since, d, champion) ==
  {IF Cardinality(real) - 1 >= c.min_active_arms
     THEN Candidates(c, ev, active, real, since, d, champion) ELSE {}}

\* A mutant of Retirements: the cap is off by one.
RetirementsTooSoon(c, ev, active, real, since, d, champion) ==
  {IF Cardinality(real) - 1 >= c.min_active_arms
     THEN Candidates([c EXCEPT !.cap = @ - 1], ev, active, real, since, d, champion) ELSE {}}

\* The loop over the pool, worst standing first: candidates go until the next one
\* would leave fewer than min_active_arms.
Retirements(c, ev, active, real, since, d, champion) ==
  LET candidates == Candidates(c, ev, active, real, since, d, champion)
      left(R) == Cardinality(real) - Cardinality(R)
  IN {R \in SUBSET candidates :
        /\ R # {} => left(R) >= c.min_active_arms
        /\ R # candidates => left(R) - 1 < c.min_active_arms
        /\ \A a \in R, b \in candidates \ R :
             RanksBefore(ev, c.retire_evidence, active, since, b, a)}

-----------------------------------------------------------------------------
(* The slot *)

NoCycle == [status |-> "none"]
Statuses == {"unservable", "bootstrap", "decided", "unmeasurable", "held"}

\* What the properties read of an ArenaCycle, with the inputs it was computed from.
CycleRecord ==
  {y \in [as_of : 0 .. MaxWeek, ev : Evidences, active : SUBSET Arm, unfit : Unfits,
          incumbent : Arm \cup {NoArm}, champion : Arm \cup {NoArm}, status : Statuses,
          retire : SUBSET Arm] :
     /\ y.champion = NoArm <=> y.status = "unservable"
     /\ y.champion \in y.active \cup {NoArm}
     /\ y.retire \subseteq y.active}

TypeOK ==
  /\ config \in Configs
  /\ week \in 0 .. MaxWeek
  /\ created \in [Arm -> Nat]
  /\ filed \in [Arm -> Nat \cup {Never}]
  /\ retired \in [Arm -> Nat \cup {Never}]
  /\ pointer \in Registered \cup {NoArm}
  /\ stage \in {"idle", "decided", "served"}
  /\ stage = "idle" => cycle = NoCycle
  /\ stage # "idle" => cycle \in CycleRecord /\ cycle.active \subseteq Registered

Init ==
  /\ config \in Configs
  /\ week = 0
  /\ created = [a \in Arm |-> 0]
  /\ filed = [a \in Arm |-> IF a \in Founders THEN 0 ELSE Never]
  /\ retired = [a \in Arm |-> Never]
  /\ pointer = NoArm
  /\ stage = "idle"
  /\ cycle = NoCycle

\* ArmRegister.register, filed today under a declared created_date; a second
\* registration raises.
Register(a) ==
  /\ filed[a] = Never
  /\ \E d \in Created[a] : created' = [created EXCEPT ![a] = d]
  /\ filed' = [filed EXCEPT ![a] = week]
  /\ UNCHANGED <<config, week, retired, pointer, stage, cycle>>

\* Fewer than two active arms make no ranking, and retire nobody.
Retiring(ev, champion) ==
  IF Cardinality(ActiveArms(week)) < 2 THEN {{}}
  ELSE Retirements(config, ev, ActiveArms(week), PromotableArms(week), created, week, champion)

Record(ev, unfit, decision, R) ==
  [as_of |-> week, ev |-> ev, active |-> ActiveArms(week), unfit |-> unfit,
   incumbent |-> pointer, champion |-> decision.champion, status |-> decision.status,
   retire |-> R]

\* A mutant of Cycles: retirements spare the incumbent and not the arm decided.
CyclesSparingIncumbent(ev, unfit) ==
  UNION {{Record(ev, unfit, d, R) : R \in Retiring(ev, pointer)} :
          d \in Decide(config, ev, ActiveArms(week), unfit, pointer)}

\* run_cycle: decide, and only then evaluate the retirements against the arm just
\* decided.  Both orders being total, this is a set of one record.
Cycles(ev, unfit) ==
  UNION {{Record(ev, unfit, d, R) : R \in Retiring(ev, d.champion)} :
          d \in Decide(config, ev, ActiveArms(week), unfit, pointer)}

\* A cycle of today, on any evidence and with any arms unfit to serve.
RunCycle(ev, unfit) ==
  /\ stage = "idle"
  /\ stage' = "decided"
  /\ cycle' \in Cycles(ev, unfit)
  /\ UNCHANGED <<config, week, register, pointer>>

\* The slot stores the pointer.
Serve ==
  /\ stage = "decided"
  /\ stage' = "served"
  /\ pointer' = cycle.champion
  /\ UNCHANGED <<config, week, register, cycle>>

\* The slot appends one retired event for each retirement of the cycle.
Retire ==
  /\ stage = "served"
  /\ stage' = "idle"
  /\ retired' = [a \in Arm |-> IF a \in cycle.retire THEN week ELSE retired[a]]
  /\ cycle' = NoCycle
  /\ UNCHANGED <<config, week, created, filed, pointer>>

\* The slot's process dies with the cycle half published; the cycle is run again.
Crash ==
  /\ stage # "idle"
  /\ stage' = "idle"
  /\ cycle' = NoCycle
  /\ UNCHANGED <<config, week, register, pointer>>

NextWeek ==
  /\ stage = "idle"
  /\ week < MaxWeek
  /\ week' = week + 1
  /\ UNCHANGED <<config, register, pointer, stage, cycle>>

Next ==
  \/ \E a \in Arm : Register(a)
  \/ \E ev \in Evidences, unfit \in Unfits : RunCycle(ev, unfit)
  \/ Serve \/ Retire \/ Crash \/ NextWeek

Spec == Init /\ [][Next]_vars
-----------------------------------------------------------------------------
(* Properties *)

\* The arm the slot serves is never a retired one, whatever is lost between the
\* pointer and the register ("champion: the serving arm is never retired").
ServingArmIsActive == pointer # NoArm => retired[pointer] = Never

\* Once the pool of real arms has min_active_arms, no sequence of cycles strands it
\* below them again, Condorcet cycles in the evidence or not.
PoolStaysAboveFloor ==
  [][Cardinality(PromotableArms(week)) >= config.min_active_arms =>
       Cardinality(PromotableArms(week)') >= config.min_active_arms]_vars

Pool == cycle.active \ Control

\* The cap retires nobody from a pool of real arms that is within the cap, however
\* many controls beat them.
CapRetiresOnlyAboveCap ==
  stage # "idle" /\ cycle.retire # {} => Cardinality(Pool) > config.cap

\* Nobody is retired whom the slot serves, or whom the cap does not ask for.
RetirementsAreDue == ServingArmIsActive /\ CapRetiresOnlyAboveCap

\* Without a Condorcet cycle the rule keeps at least cap arms (ranking.py, "the
\* rule keeps cap arms without ever having to sort them on a common scale").
OrderedPoolKeepsCap ==
  stage # "idle" /\ ~CyclesPresent(cycle.ev, config.retire_evidence, cycle.active)
    /\ Cardinality(Pool) >= config.cap =>
      Cardinality(Pool \ cycle.retire) >= config.cap

\* "resolved conservatively ... nobody extra is retired": the same with cycles. The code does
\* not keep it, with five arms and a cap of three; no run checks it.
CyclesKeepCap ==
  stage # "idle" /\ Cardinality(Pool) >= config.cap =>
    Cardinality(Pool \ cycle.retire) >= config.cap

\* Under promote_against=every_arm an earned promotion settles the pointer: on the
\* same evidence, before or after the retirements of the cycle, whoever else becomes
\* unfit meanwhile, the next decision does not move it again.
EarnedPromotion ==
  /\ stage # "idle"
  /\ cycle.status = "decided" /\ cycle.incumbent \notin cycle.unfit
EveryArmSettles ==
  EarnedPromotion /\ config.promote_against = "every_arm" =>
    \A active \in {cycle.active, cycle.active \ cycle.retire} :
      \A unfit \in SUBSET cycle.active :
        cycle.unfit \cap cycle.active \subseteq unfit /\ cycle.champion \notin unfit =>
            {d.champion : d \in Decide(config, cycle.ev, active, unfit, cycle.champion)}
              = {cycle.champion}
=============================================================================
