------------------------ MODULE MCArtifactFreshness ------------------------
(* Registries of two and three rows for TLC: shared prefixes and a DAG, a   *)
(* deadline beside a wildcard row, a gated row anchored on a session-time   *)
(* producer, and one registry for each reason to refuse one.                *)
EXTENDS ArtifactFreshness

Plain == [id |-> "none", cadence |-> "weekday_sf", key |-> <<"doc">>, recovery |-> <<>>,
          sla |-> 1, severity |-> "critical", calendar_aware |-> TRUE, grace |-> 0, created |-> 0,
          interval |-> 0, run_calendar |-> "none", active_hours |-> <<>>, liveness_via |-> "none",
          absence_expected |-> FALSE, depends_on |-> {}, deadline |-> NoTime, min_count |-> 0]

Signals  == [Plain EXCEPT !.id = "signals", !.key = <<"sig", DateToken, "signals">>]
Ranks    == [Plain EXCEPT !.id = "ranks", !.key = <<"sig", DateToken, "ranks">>,
                          !.depends_on = {"signals"}, !.min_count = 1]
Weekly   == [Plain EXCEPT !.id = "weekly", !.cadence = "saturday_sf", !.key = <<"week">>,
                          !.recovery = <<"sig", DateToken, "week">>, !.depends_on = {"signals"},
                          !.grace = 4]
Feed     == [Plain EXCEPT !.id = "feed", !.key = <<"feed">>, !.deadline = 9]
Rows     == [Plain EXCEPT !.id = "rows", !.cadence = "continuous", !.interval = 24, !.sla = 0,
                          !.run_calendar = "trading_days", !.key = <<"oos", Star, "latest">>]
Sunday   == [Plain EXCEPT !.id = "sunday", !.cadence = "sunday_sf", !.key = <<"doc">>,
                          !.severity = "warning"]
Orders   == [Plain EXCEPT !.id = "orders", !.cadence = "continuous", !.interval = 2,
                          !.active_hours = <<14, 21>>, !.key = <<"doc">>]
Closing  == [Plain EXCEPT !.id = "closing", !.cadence = "eod_sf", !.key = <<"feed">>]
Trades   == [Plain EXCEPT !.id = "trades", !.cadence = "event_driven", !.liveness_via = "orders",
                          !.key = <<"oos", DateToken, "trades">>, !.absence_expected = TRUE,
                          !.depends_on = {"orders"}]

MCLegal == {<<Signals, Ranks, Weekly>>, <<Feed, Rows, Sunday>>, <<Orders, Closing, Trades>>}
MCRefused ==
    {<<[Signals EXCEPT !.depends_on = {"ranks"}], Ranks>>,
     <<Signals, Signals>>,
     <<Ranks>>,
     <<[Rows EXCEPT !.sla = 1]>>,
     <<[Rows EXCEPT !.key = <<"oos", Star>>]>>,
     <<[Feed EXCEPT !.deadline = 24]>>,
     <<Trades, [Trades EXCEPT !.id = "orders", !.liveness_via = "trades", !.depends_on = {}]>>}
MCRegistries == MCLegal \cup MCRefused
MCAnchored == {<<Orders, Closing, Trades>>}

MCKeys == {<<"sig", "d1", "signals">>, <<"sig", "d1", "ranks">>, <<"sig", "d2", "week">>,
           <<"week">>, <<"feed">>, <<"doc">>, <<"oos", "v3", "latest">>,
           <<"oos", "v3", "old", "latest">>}
MCDates == {"d1", "d2"}
MCContents == [k \in MCKeys |-> IF k = <<"sig", "d1", "ranks">> THEN {NoTime, 0, 1} ELSE {1}]

(* Saturday after the tick; Monday before the deadline (the clocks went    *)
(* back on Sunday), at it and before the close; Tuesday, a holiday; eleven *)
(* days later, a Thursday.                                                 *)
MCInstants == {19 * 24 + 10, 21 * 24 + 12, 21 * 24 + 14, 21 * 24 + 20, 22 * 24 + 18,
               31 * 24 + 18}
MCHolidays == {22}
=============================================================================
