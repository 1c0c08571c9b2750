---------------------------- MODULE MCSubstrate ----------------------------
(* Inventories of a row or two for TLC, of every kind of source, and files    *)
(* that each assertion can tell apart.                                        *)
EXTENDS Substrate

Plain0 == [kind |-> "s3_json", key |-> "none", dated |-> TRUE, maxAge |-> 1, companion |-> "none",
           benign |-> {}, present |-> {}, nonNull |-> {}, op |-> "none", target |-> 0,
           machines |-> {}]
AnyRow == [cadence |-> "weekly", effective |-> 1, gated |-> FALSE, nonFatal |-> FALSE,
           sources |-> <<>>]

Coverage == [Plain0 EXCEPT !.key = "coverage", !.benign = {"no_recent_sf_run"}, !.op = "gte",
                           !.target = 99]
ConfigChanges  == [Plain0 EXCEPT !.key = "changes", !.companion = "metrics"]
ConfigMetrics  == [Plain0 EXCEPT !.key = "metrics", !.present = {"a"}]
TradeLog == [Plain0 EXCEPT !.kind = "s3_csv", !.key = "trades", !.dated = FALSE, !.present = {"a"},
                           !.nonNull = {"a"}, !.op = "lte", !.target = 1]
Closes   == [Plain0 EXCEPT !.kind = "s3_parquet", !.key = "closes", !.maxAge = 0, !.present = {"a"},
                           !.nonNull = {"b"}]
Risks    == [Plain0 EXCEPT !.kind = "sqlite_via_s3", !.key = "trades", !.dated = FALSE,
                           !.maxAge = 0, !.present = {"a"}]
Rate     == [Plain0 EXCEPT !.kind = "cloudwatch", !.op = "success_rate_pct_gte", !.target = 99,
                           !.machines = {"m1", "m2"}]
Points   == [Rate EXCEPT !.op = "datapoints_gte", !.target = 2, !.machines = {"m1"}]

MCInventoryRow ==
    [agent_decisions  |-> [AnyRow EXCEPT !.sources = <<Coverage>>],
     config_changes   |-> [AnyRow EXCEPT !.sources = <<ConfigChanges, ConfigMetrics>>],
     trade_lineage    |-> [AnyRow EXCEPT !.cadence = "daily", !.effective = 2,
                                         !.sources = <<TradeLog>>],
     data_quality     |-> [AnyRow EXCEPT !.cadence = "daily", !.gated = TRUE,
                                         !.sources = <<Closes>>],
     risk_events      |-> [AnyRow EXCEPT !.cadence = "daily", !.sources = <<Risks>>],
     pipeline_success |-> [AnyRow EXCEPT !.nonFatal = TRUE, !.sources = <<Rate>>],
     agent_quality    |-> [AnyRow EXCEPT !.cadence = "per_event", !.sources = <<Points>>]]
MCInventories == {<<"agent_decisions", "data_quality">>, <<"config_changes">>,
                  <<"trade_lineage", "risk_events">>, <<"pipeline_success", "agent_quality">>}

GoodFile == [parses |-> TRUE, status |-> "ok", names |-> {"a", "b"}, nulls |-> {}, rows |-> 1,
         value |-> 100]
MCFilesOf ==
    [coverage |-> {GoodFile, [GoodFile EXCEPT !.value = 98],
                   [GoodFile EXCEPT !.status = "no_recent_sf_run", !.value = 0]},
     changes  |-> {GoodFile, [GoodFile EXCEPT !.parses = FALSE]},
     metrics  |-> {GoodFile, [GoodFile EXCEPT !.names = {}]},
     trades   |-> {[GoodFile EXCEPT !.value = 1], [GoodFile EXCEPT !.value = 2],
                   [GoodFile EXCEPT !.names = {}, !.value = 1],
                   [GoodFile EXCEPT !.nulls = {"a"}, !.value = 1],
                   [GoodFile EXCEPT !.rows = 0, !.value = NoValue]},
     closes   |-> {GoodFile, [GoodFile EXCEPT !.nulls = {"b"}]}]

MCSubstrateKeys == DOMAIN MCFilesOf
MCTallies == {<<0, 0>>, <<2, 0>>, <<98, 2>>}
Env(name, role, krepis) == [name |-> name, role |-> role, krepis |-> krepis]
MCEnvs == {Env("none", "", TRUE), Env("rehearsal", "", FALSE), Env("exec", "rehearsal", TRUE)}

VARIABLE shelf      \* the inventory looked at, so the artifacts that matter

Sources == UNION {Range(MCInventoryRow[shelf[i]].sources) : i \in DOMAIN shelf}
KeysOfShelf == {src.key : src \in Sources} \cup {src.companion : src \in Sources}

MCSubstrateInit ==
    /\ shelf \in MCInventories /\ SubstrateInit
    /\ {src \in Sources : src.kind = "cloudwatch"} = {} => tallies = [m \in Machines |-> <<0, 0>>]
    /\ tallies["m2"] \in {<<0, 0>>, <<2, 0>>} /\ tallies["m1"][1] >= tallies["m2"][1]
    /\ (\A i \in DOMAIN shelf : ~MCInventoryRow[shelf[i]].gated) => schedule = "ENABLED"

(* A check of the shelf; the switches are tried one at a time.                *)
OfTheShelf ==
    /\ check'.n > check.n =>
          /\ check'.inventory = shelf
          /\ check'.todo = <<>> => check'.quiet
          /\ check'.alert \/ (check'.emitted = "no" /\ ~check'.quiet)
          /\ check'.emitted = "no" \/ ~check'.quiet
    /\ \A o \in DOMAIN objects : objects'[o] # objects[o] => o[1] \in KeysOfShelf
    /\ schedule' # schedule => "data_quality" \in Range(shelf)

shelfVars == <<substrateVars, shelf>>

MCSubstrateNext == SubstrateNext /\ OfTheShelf /\ UNCHANGED shelf
MCSubstrateSpec == MCSubstrateInit /\ [][MCSubstrateNext]_shelfVars
=============================================================================
