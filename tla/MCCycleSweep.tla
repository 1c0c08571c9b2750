----------------------------- MODULE MCCycleSweep -----------------------------
(* Values for the runs of CycleSweep: two executions, a spine of a stage that is always due *)
(* and one that a cadence marker can excuse.                                               *)
EXTENDS CycleSweep, TLC

CONSTANTS x1, x2, w1, due, parity, mark, own

weekly == [role |-> "weekly", rehearsal |-> FALSE]
rehearsal == [role |-> "watch-rerun", rehearsal |-> TRUE]
MCLaunches == {l \in [{x1, x2} -> {weekly, rehearsal}] : \E x \in {x1, x2} : l[x] = weekly}
MCSkipsOf == [m \in Mark |-> {parity}]
MCServedBy == [m \in Mark |-> {}]
\* The graph chooses between parity and the mark that declares it skipped.
MCGraph == {g \in SUBSET {due, parity, mark} : ~({parity, mark} \subseteq g)}
MCSkipInputs == {{}, {due}}
Symmetric == Permutations({x1, x2})
=============================================================================
