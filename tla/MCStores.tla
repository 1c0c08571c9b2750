------------------------------- MODULE MCStores -------------------------------
(* What is kept and reported, for TLC: the stores' readers (documents under   *)
(* faults or under searches, the prices' versions or their roster, the dated  *)
(* artifacts), and the daily report on the promotion gates.  They share       *)
(* nothing, so each history looks at one of them; the others stay as they are.*)
EXTENDS RagStore, PriceStore, ArtifactWindow, GateReport

CONSTANT Casts      \* the ingestion jobs that run together under faults

VARIABLE scene      \* the part looked at, and its ingestion jobs

Scenes == {[part |-> "ingestion", jobs |-> c] : c \in Casts}
          \cup {[part |-> "searches", jobs |-> {"j1", "j2", "j5"}]}
          \cup {[part |-> p, jobs |-> {}] :
                    p \in {"versions", "roster", "window", "report"}}

IdleCast == [jobs |-> {"k"}, writes |-> 0]

Init == /\ scene \in Scenes
        /\ RagInit /\ PriceInit /\ WindowInit /\ ReportInit
        /\ scene.part = "report" \/ cast = IdleCast
        /\ scene.part \in {"roster", "versions"} \/ rosterOn = <<{"s1", "s2"}>>

Cast == \A j \in Ingests \ scene.jobs : ingest'[j] = ingest[j]

(* Beside searches, documents come one after the other.                      *)
OneAtATime == Cardinality({j \in Ingests : ingest'[j].pc \in {"check", "insert", "mirror"}}) <= 1

Next ==
    /\ UNCHANGED scene
    /\ \/ /\ scene.part = "ingestion" /\ RagNext /\ search' = search /\ Cast
          /\ UNCHANGED <<priceVars, windowVars, reportVars>>
       \/ /\ scene.part = "searches" /\ RagNext /\ Cast /\ corpus' = corpus
          /\ ragFaults' = 0 /\ ragRetries' = 0 /\ OneAtATime
          /\ UNCHANGED <<priceVars, windowVars, reportVars>>
       \/ /\ scene.part = "versions" /\ VersionNext
          /\ UNCHANGED <<ragVars, windowVars, reportVars>>
       \/ /\ scene.part = "roster" /\ RosterNext
          /\ UNCHANGED <<ragVars, windowVars, reportVars>>
       \/ /\ scene.part = "window" /\ WindowNext
          /\ UNCHANGED <<ragVars, priceVars, reportVars>>
       \/ /\ scene.part = "report" /\ ReportNext
          /\ UNCHANGED <<ragVars, priceVars, windowVars>>

Spec == Init /\ [][Next]_<<ragVars, priceVars, windowVars, reportVars, scene>>

-----------------------------------------------------------------------------
(* Four rungs of a ladder (two clauses, no gate written, an empty gate, one  *)
(* clause), two reporters on consecutive days and a recorder.                *)
MCPhases == <<[id |-> "p1", gate |-> "g1"], [id |-> "p2", gate |-> "g2"],
              [id |-> "p3", gate |-> "g3"], [id |-> "p4", gate |-> "none"]>>
MCClausesOf == [g1 |-> <<"c1", "c2">>, g2 |-> <<"c3">>, g3 |-> <<>>]
MCDayOf == [r1 |-> 1, r2 |-> 2, k |-> 1]
MCFirstBoard == [states |-> <<"UNMET", "MET", "UNMEASURED">>]
MCReportCasts == {[jobs |-> {"r1"}, writes |-> 2], [jobs |-> {"r1", "k"}, writes |-> 0],
                  [jobs |-> {"r1", "r2"}, writes |-> 0], IdleCast}

-----------------------------------------------------------------------------
(* Two articles of one day and source with identities of their own, an       *)
(* anonymous one, a filing, and a filing without a chunk.                    *)
News(ext, text) == [slot |-> "news", news |-> TRUE, ext |-> ext, chunks |-> 1, filed |-> 2,
                    text |-> text, mirrors |-> TRUE]
Filing(slot, chunks, mirrors) ==
    [slot |-> slot, news |-> FALSE, ext |-> "none", chunks |-> chunks, filed |-> 3, text |-> "c",
     mirrors |-> mirrors]
MCArticleOf == [j1 |-> News("x1", "a"), j2 |-> News("x2", "b"),
                j3 |-> News("none", "a"), j4 |-> News("none", "a"),
                j5 |-> Filing("filing", 1, TRUE), j6 |-> Filing("filing", 1, FALSE),
                j7 |-> [Filing("note", 0, TRUE) EXCEPT !.filed = 1]]
MCCasts == {{"j1", "j2"}, {"j1", "j3"}, {"j3", "j4"}, {"j5", "j6", "j7"}}
MCCloseness == [p |-> [a |-> 7, b |-> 8, c |-> 2], q |-> [a |-> 4, b |-> 4, c |-> 9]]
MCMatches   == [p |-> [a |-> 3, b |-> 1, c |-> 0], q |-> [a |-> 0, b |-> 2, c |-> 6]]
MCJudgement == [p |-> [a |-> 1, b |-> 2, c |-> 3], q |-> [a |-> 6, b |-> 5, c |-> 4]]

MCRosters == {{"s1", "s2"}, {"s2", "s3"}}
=============================================================================
