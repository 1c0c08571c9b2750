---------------------------- MODULE MCHealthStamp ----------------------------
(* Runs for TLC: a live one and a rehearsal that share an artifact and a key; *)
(* a module under its other name; a rehearsal by name, which declares nothing;*)
(* a check under test.                                                        *)
EXTENDS HealthStamp

Output(a, r) == [artifact |-> a, required |-> r]
Run(module, name, role, test, declares) ==
    [module |-> module, name |-> name, role |-> role, test |-> test, declares |-> declares]
MCProcessOf ==
    [live  |-> Run("daily_data", "exec", "", FALSE, {Output("a", TRUE), Output(NoKey, FALSE)}),
     again |-> Run("daily_data", "exec", "rehearsal", FALSE, {Output("a", TRUE)}),
     alias |-> Run("data", "exec", "", FALSE, {Output(NoKey, TRUE)}),
     named |-> Run("research", "rehearsal", "", FALSE, {}),
     tried |-> Run("research", "exec", "", TRUE, {})]
MCClaimedCadences == {NoCadence, 0, 1}
MCStampKeyOf == [data |-> "daily_data.json", daily_data |-> "daily_data.json",
                 research |-> "research.json"]

VARIABLE cast       \* the runs there are, and what is done with their records

Casts == {[runs |-> {"live", "again"}, what |-> "claims"],
          [runs |-> {"again", "alias"}, what |-> "upstream"],
          [runs |-> {"named", "tried"}, what |-> "console"]}

MCStampInit == StampInit /\ cast \in Casts

(* Readers come between runs; only the live run is in trouble, or dies.       *)
OfTheCast ==
    /\ \A p \in Processes : process'[p] # process[p] =>
          /\ p \in cast.runs
          /\ process'[p].pc = "told" => cast.what = "console"
          /\ p = "again" => process'[p].troubled = "no" /\ process'[p].pc # "dead"
    /\ upstream' # upstream =>
          /\ cast.what = "upstream" /\ upstream'.module # "data"
          /\ \A p \in cast.runs : process[p].pc \in {"idle", "done"}

MCStampNext == StampNext /\ OfTheCast /\ UNCHANGED cast
MCStampSpec == MCStampInit /\ [][MCStampNext]_<<stampVars, cast>>
=============================================================================
