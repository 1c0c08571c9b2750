------------------------------ MODULE GateLadder ------------------------------
(***************************************************************************)
(* The operators of the promotion gates, src/src/nousergon_lib/gates/: how *)
(* one store object or tracker issue becomes a clause (store.py,           *)
(* tracker.py, clause.py), clauses become a gate's state (result.py), gates*)
(* become a ladder (ladder.py) and two ladders become the lines of a report*)
(* (report.py).  GateReport runs them.                                     *)
(*                                                                         *)
(* What the store holds under a key is "absent", "corrupt" (does not       *)
(* parse), "odd" (parses, without the field the clause asks for), "good" or*)
(* "bad"; an issue reads "closed", "open" or "odd".                        *)
(***************************************************************************)
EXTENDS Integers, Sequences, FiniteSets, FiniteSetsExt, SequencesExt

CONSTANTS
    Phases,         \* the rungs: a sequence of [id, gate], gate "none" if unwritten
    ClausesOf,      \* gate -> the sequence of its clauses
    IssueClauses,   \* the clauses that read a tracker issue
    NotYetDue       \* states a report defers instead of counting as moved

NoDay == 0
NoLink == <<>>

-----------------------------------------------------------------------------
(* One read: absence is an answer, a failure to reach it is not.           *)

Answer(doc)    == [document |-> doc, absent |-> FALSE, problem |-> FALSE, access |-> FALSE]
Absent         == [document |-> "none", absent |-> TRUE, problem |-> FALSE, access |-> FALSE]
Problem(denied) == [document |-> "none", absent |-> FALSE, problem |-> TRUE, access |-> denied]

ReadStoreDocument(content, denied) ==
    CASE denied -> Problem(TRUE)
      [] ~denied /\ content = "absent"  -> Absent
      [] ~denied /\ content = "corrupt" -> Problem(FALSE)
      [] OTHER -> Answer(content)

(* The lenient read of an issue: every fault is an access problem, and so  *)
(* is a state the tracker is not known to have.                            *)
ReadIssue(state, denied) ==
    IF denied \/ state \notin {"open", "closed"} THEN Problem(TRUE) ELSE Answer(state)

(* report.read_optional: no document, and whether that is because none is  *)
(* there or because it could not be read; a denied read and a document that*)
(* does not parse are neither of them fatal.  (An error of any other kind  *)
(* propagates, and leaves the job where a search that fails next leaves it:*)
(* GateReport has only the latter.)                                        *)
NoBoard == [states |-> <<>>]
ReadOptional(content, unreadable) ==
    CASE unreadable -> [document |-> NoBoard, reason |-> "unreadable"]
      [] ~unreadable /\ content = NoBoard -> [document |-> NoBoard, reason |-> "absent"]
      [] OTHER -> [document |-> content, reason |-> "none"]

-----------------------------------------------------------------------------
(* Clauses and gates.                                                      *)

Clause(met)  == [met |-> met, unmeasurable |-> FALSE]

(* Mutant: no data painted green.                                          *)
UnmeasurablePasses == [met |-> TRUE, unmeasurable |-> FALSE]

Unmeasurable == [met |-> FALSE, unmeasurable |-> TRUE]

(* A clause that raises has learned nothing: contained makes a reading of  *)
(* it.                                                                     *)
Contained(read) ==
    IF read.document = "odd" THEN Unmeasurable
    ELSE IF read.problem THEN Unmeasurable
    ELSE Clause(read.document \in {"good", "closed"})

Count(clauses, Test(_)) == Cardinality({i \in DOMAIN clauses : Test(clauses[i])})
MetCount(clauses)       == Count(clauses, LAMBDA c : c.met)

Met(clauses) == clauses # <<>> /\ \A i \in DOMAIN clauses : clauses[i].met

(* <<met, total>>, or nothing when any part of it was not measured.        *)
MetRatio(clauses) ==
    IF clauses = <<>> \/ \E i \in DOMAIN clauses : clauses[i].unmeasurable THEN <<>>
    ELSE <<MetCount(clauses), Len(clauses)>>

GateStateFor(clauses) ==
    CASE \E i \in DOMAIN clauses : clauses[i].unmeasurable -> "UNMEASURABLE"
      [] OTHER -> IF Met(clauses) THEN "MET" ELSE "UNMET"

-----------------------------------------------------------------------------
(* The ladder.                                                             *)

LadderStates == {"MET", "UNMET", "UNMEASURED", "UNMEASURABLE", "OUT_OF_ORDER"}

(* The latest day a reading of the gate was filed, NoDay if none was or    *)
(* the listing was refused.                                                *)
LastRead(filed, gate, refused) ==
    LET days == {k[2] : k \in {f \in filed : f[1] = gate}}
    IN  IF refused \/ days = {} THEN NoDay ELSE Max(days)

GradedPhase(phase, clauses, filed, refused) ==
    [id |-> phase.id, readOn |-> LastRead(filed, phase.gate, refused),
     ratio |-> MetRatio(clauses),
     gate |-> CASE phase.gate = "none" \/ clauses = <<>> -> "UNMEASURED"
                [] OTHER -> IF refused THEN "UNMEASURABLE" ELSE GateStateFor(clauses)]

(* A phase graded while an earlier one is not met is out of order, whatever*)
(* its own gate says.                                                      *)
BuildLadder(readings, filed, refused) ==
    LET graded == [i \in DOMAIN Phases |->
                      GradedPhase(Phases[i], readings[i], filed, Phases[i].gate \in refused)]
        unmet  == {i \in DOMAIN Phases : graded[i].gate # "MET"}
        first  == IF unmet = {} THEN Len(Phases) + 1 ELSE Min(unmet)
    IN  [i \in DOMAIN Phases |->
            LET out == i > first /\ graded[i].readOn # NoDay
            IN  [id |-> graded[i].id, gate |-> graded[i].gate, ratio |-> graded[i].ratio,
                 readOn |-> graded[i].readOn,
                 state |-> IF out THEN "OUT_OF_ORDER" ELSE graded[i].gate,
                 blockedBy |-> IF out THEN Phases[first].id ELSE "none"]]

CurrentPhase(rows) ==
    LET unmet == {i \in DOMAIN rows : rows[i].gate # "MET"}
    IN  IF unmet = {} THEN "complete" ELSE rows[Min(unmet)].id

ConsoleState ==
    [s \in LadderStates |->
        CASE s = "MET" -> "HEALTHY"
          [] s = "UNMET" -> "DEGRADED"
          [] s = "UNMEASURED" -> "UNREPORTED"
          [] OTHER -> "FAILED"]

(* What ladder_payload publishes, once it conforms.                        *)
LadderPayload(rows) ==
    [states |-> [i \in DOMAIN rows |-> rows[i].state],
     console |-> [i \in DOMAIN rows |-> ConsoleState[rows[i].state]],
     current |-> CurrentPhase(rows)]

-----------------------------------------------------------------------------
(* The report.                                                             *)

Move(i, was, now) == [row |-> i, was |-> was, now |-> now]

(* The rows that changed since the previous ladder, those a caller's       *)
(* predicate sets aside kept apart; a row on one side only reads ABSENT or *)
(* VANISHED on the other, and nothing is said over a comparison that did   *)
(* not happen.                                                             *)
MovedSince(previous, payload) ==
    LET was == previous.document.states
        now == payload.states
        Was(i) == IF i \in DOMAIN was THEN was[i] ELSE "ABSENT"
        Now(i) == IF i \in DOMAIN now THEN now[i] ELSE "VANISHED"
        differ == {i \in DOMAIN was \cup DOMAIN now : Was(i) # Now(i)}
        deferred == {i \in differ : Now(i) \in NotYetDue}
        Of(set) == {Move(i, Was(i), Now(i)) : i \in set}
    IN  IF previous.document = NoBoard
        THEN [said |-> FALSE, moves |-> {}, deferred |-> {}]
        ELSE [said |-> TRUE, moves |-> Of(differ \ deferred), deferred |-> Of(deferred)]

(* The history index: the last row of a day in key order wins, and a row   *)
(* that does not parse takes the place of a good one and is said so.       *)
RenderHistoryIndex(rows) ==
    LET days == {rows[i].day : i \in DOMAIN rows}
        last == [d \in days |-> rows[Max({i \in DOMAIN rows : rows[i].day = d})]]
    IN  [d \in days |-> IF last[d].parses THEN last[d].link ELSE <<"unreadable">>]
=============================================================================
