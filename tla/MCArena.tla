------------------------------- MODULE MCArena -------------------------------
(* Evidence, configurations and dates for the runs of Arena. *)
EXTENDS Arena, TLC

Lead(weeks, by, support) ==
  [weeks |-> weeks, mean |-> by, ratio |-> by, lower |-> by - support, upper |-> by + support]

Unmet == Lead(0, 0, 0)
Win == Lead(2, 2, 1)        \* a supported lead
Lose == Flip(Win)
Narrow == Lead(2, 1, 2)     \* a lead the confidence sequence does not support
Young == Lead(1, 3, 2)      \* a large lead over a window that is too short
Tied == Lead(2, 0, 1)
Odd == [Win EXCEPT !.ratio = NoValue]   \* no information ratio can be formed

\* Four real arms and a control: the four arms meet in tournaments with every pair
\* but one either way, one pair meets in every other way as well, and the control
\* loses to nobody or was never met.
Real == Arm \ Control
Tournaments ==
  {t \in [{p \in Pair : p[1] \in Real /\ p[2] \in Real} -> {Win, Lose}] :
     \A p \in {<<1, 2>>, <<3, 4>>} \cap DOMAIN t : t[p] = Win}
Meet(t, first, control) ==
  [p \in Pair |-> IF p = <<1, 2>> THEN first ELSE IF p \in DOMAIN t THEN t[p] ELSE control]
FourArms ==
  {Meet(t, first, Unmet) : t \in Tournaments,
                           first \in {Win, Lose, Unmet, Narrow, Young, Tied, Odd}}
    \cup {Meet(t, first, Lose) : t \in Tournaments, first \in {Win, Lose}}

\* Nobody, one arm or another, or everybody fails a serving precondition; the control
\* always does.
SomeUnfit == {Control, {1} \cup Control, {2, 3} \cup Control, Arm}

Base ==
  [promote_evidence |-> "point", promote_statistic |-> "mean_diff",
   promote_against |-> "every_arm", retire_evidence |-> "point",
   cap |-> 2, grace_weeks |-> 1, promote_min_weeks |-> 2, min_active_arms |-> 2]
Strict ==
  [Base EXCEPT !.promote_evidence = "anytime_valid", !.promote_against = "incumbent",
               !.retire_evidence = "anytime_valid"]
Ratios == [Base EXCEPT !.promote_statistic = "information_ratio", !.cap = 3]
BothModes == {Base, Strict, Ratios}

\* An arm that is filed late declares a date that may be past or still to come.
Dates == [a \in Arm |-> {0, 1}]

\* Five real arms, the last three of which beat one another in a circle and lose to
\* the first two.
Circle ==
  {[p \in Pair |-> IF p = <<3, 5>> THEN Lose ELSE Win]}
CapOfThree == {[Base EXCEPT !.cap = 3]}
=============================================================================
