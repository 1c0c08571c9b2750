------------------------------ MODULE PriceStore ------------------------------
(***************************************************************************)
(* The price store of src/src/nousergon_lib/arcticdb.py.  One symbol of the*)
(* universe library is a list of versions: producers write (and may prune),*)
(* write_correction corrects, reports read what is settled and auditors    *)
(* read again as of then.  The library's roster of symbols, and the        *)
(* point-in-time membership map beside it, answer who was in the index on a*)
(* day.                                                                    *)
(*                                                                         *)
(* ArcticDB, the index, and the producers of library and map are external. *)
(***************************************************************************)
EXTENDS Integers, Sequences, FiniteSets, FiniteSetsExt, SequencesExt

CONSTANTS
    Rosters,            \* the rosters the index may have
    Days,               \* how many days go by
    MaxVersions,
    Columns             \* what a report may ask for: with the settled flag or without

ASSUME PriceAssumption == Days \in Nat /\ MaxVersions \in Nat /\ Columns \subseteq BOOLEAN

VARIABLES
    versions,       \* the symbol's versions: [rows, live, by]
    reports,        \* what was published: [version, rows, flagged]
    pruned,         \* the versions a producer's write has pruned
    rosterOn,       \* the index on each day so far
    library,        \* the symbols in the live library
    membership,     \* change day -> the roster just before it
    lookup          \* the lookup under way

priceVars == <<versions, reports, pruned, rosterOn, library, membership, lookup>>
prices == <<versions, reports, pruned>>
roster == <<rosterOn, library, membership, lookup>>

IdleLookup == [pc |-> "idle", asOf |-> 0, asked |-> {}, answer |-> {}, late |-> FALSE]

PriceInit ==
    /\ versions = <<>> /\ reports = {} /\ pruned = {}
    /\ rosterOn \in {<<r>> : r \in Rosters}
    /\ library = rosterOn[1] /\ membership = <<>> /\ lookup = IdleLookup

-----------------------------------------------------------------------------
(* Versions.  A row is <<day, value, flag>>; the value names the version    *)
(* that brought it, the flag is "settled", "unsettled" or "none", as rows   *)
(* older than the column have none.                                        *)

Newest == Len(versions)
Write(rows, prune, by) ==
    /\ versions' = [n \in 1 .. Newest + 1 |->
                       IF n = Newest + 1 THEN [rows |-> rows, live |-> TRUE, by |-> by]
                       ELSE [versions[n] EXCEPT !.live = @ /\ ~prune]]
    /\ UNCHANGED <<reports, roster>>

(* A producer's append: the day's row is settled, or it is an intraday row *)
(* that belongs in the other library.                                      *)
WriteDay(flag, prune) ==
    /\ Newest < MaxVersions
    /\ LET old == IF Newest = 0 THEN {} ELSE versions[Newest].rows
       IN  Write(old \cup {<<Newest + 1, Newest + 1, flag>>}, prune, "producer")
    /\ pruned' = IF prune THEN pruned \cup (1 .. Newest) ELSE pruned

(* Mutant: a correction replaces what it corrects.                         *)
CorrectInPlace(day) ==
    /\ Newest \in 1 .. MaxVersions - 1
    /\ \E row \in versions[Newest].rows : row[1] = day
    /\ Write({IF row[1] = day THEN <<day, Newest + 1, "settled">> ELSE row
                 : row \in versions[Newest].rows}, TRUE, "correction")
    /\ UNCHANGED pruned

(* The whole frame again with one value corrected, pruning nothing.        *)
WriteCorrection(day) ==
    /\ Newest \in 1 .. MaxVersions - 1
    /\ \E row \in versions[Newest].rows : row[1] = day
    /\ Write({IF row[1] = day THEN <<day, Newest + 1, "settled">> ELSE row
                 : row \in versions[Newest].rows}, FALSE, "correction")
    /\ UNCHANGED pruned

(* The rows a settled read returns: those the flag, if it was read and is   *)
(* there, does not rule out.                                               *)
SettledRows(rows, flagged) ==
    IF flagged /\ \E row \in rows : row[3] # "none"
    THEN {row \in rows : row[3] = "settled"} ELSE rows

(* A report reads the current version, and only of the settled library.    *)
ReadSettledOnly(flagged) ==
    /\ Newest > 0
    /\ reports' = reports \cup {[version |-> Newest, flagged |-> flagged,
                                 rows |-> SettledRows(versions[Newest].rows, flagged)]}
    /\ UNCHANGED <<versions, pruned, roster>>

(* The same read as of a version.                                          *)
ReadAsOf(n, flagged) ==
    IF versions[n].live THEN {SettledRows(versions[n].rows, flagged)} ELSE {}

-----------------------------------------------------------------------------
(* The roster.                                                             *)

Today == Len(rosterOn)
Changes == {d \in 2 .. Today : rosterOn[d] # rosterOn[d - 1]}

(* A day begins, and the index may change with it.                         *)
DayBegins(next) ==
    /\ Today < Days
    /\ rosterOn' = Append(rosterOn, next)
    /\ lookup' = [lookup EXCEPT !.late = @ \/ (lookup.pc = "library" /\ next # rosterOn[Today])]
    /\ UNCHANGED <<prices, library, membership>>

UpdateLibrary ==
    /\ library # rosterOn[Today] /\ library' = rosterOn[Today]
    /\ UNCHANGED <<prices, rosterOn, membership, lookup>>

RefreshMembership ==
    /\ Changes # {} /\ DOMAIN membership # Changes
    /\ membership' = [d \in Changes |-> rosterOn[d - 1]]
    /\ UNCHANGED <<prices, rosterOn, library, lookup>>

(* The snapshot of the earliest change after the day; nothing when no      *)
(* change is known after it.                                               *)
PitMembershipAsOf(asOf) ==
    LET later == {d \in DOMAIN membership : d > asOf}
    IN  IF later = {} THEN {} ELSE {membership[Min(later)]}

(* get_universe_symbols: the map is read first; without one it raises.  An *)
(* answer from the library is late when the map or the library had not seen*)
(* a change up to today, or the index changed between the two reads.       *)
AskSymbols(asOf) ==
    /\ lookup.pc \in {"idle", "answered", "raised", "loaded"} /\ asOf <= Today
    /\ LET pit == PitMembershipAsOf(asOf)
           late == pit = {} /\ DOMAIN membership # Changes
       IN  lookup' = [IdleLookup EXCEPT
               !.asOf = asOf, !.late = late,
               !.pc = CASE DOMAIN membership = {} -> "raised"
                        [] OTHER -> IF pit = {} THEN "library" ELSE "answered",
               !.answer = IF pit = {} THEN {} ELSE CHOOSE r \in pit : TRUE]
    /\ UNCHANGED <<prices, rosterOn, library, membership>>

ListSymbols ==
    /\ lookup.pc = "library"
    /\ lookup' = [lookup EXCEPT !.pc = "answered", !.answer = library,
                     !.late = @ \/ library # rosterOn[Today]]
    /\ UNCHANGED <<prices, rosterOn, library, membership>>

(* load_universe_ohlcv: the current symbols, then one batch of reads; what  *)
(* fails, is empty or has left the library is dropped.                     *)
BeginLoad ==
    /\ lookup.pc \in {"idle", "answered", "raised", "loaded"}
    /\ lookup' = [IdleLookup EXCEPT !.pc = "batch", !.asked = library]
    /\ UNCHANGED <<prices, rosterOn, library, membership>>

LoadFrames(failing) ==
    /\ lookup.pc = "batch"
    /\ lookup' = [lookup EXCEPT !.pc = "loaded", !.asked = {},
                               !.answer = (lookup.asked \cap library) \ failing]
    /\ UNCHANGED <<prices, rosterOn, library, membership>>

VersionNext ==
    \/ \E flag \in {"none", "settled", "unsettled"}, prune \in BOOLEAN : WriteDay(flag, prune)
    \/ \E day \in 1 .. MaxVersions : WriteCorrection(day)
    \/ \E flagged \in Columns : ReadSettledOnly(flagged)

RosterNext ==
    \/ \E r \in Rosters : DayBegins(r)
    \/ UpdateLibrary \/ RefreshMembership
    \/ \E d \in 1 .. Days : AskSymbols(d)
    \/ ListSymbols
    \/ BeginLoad
    \/ \E failing \in SUBSET UNION Rosters : LoadFrames(failing)

PriceNext == VersionNext \/ RosterNext

PriceSpec == PriceInit /\ [][PriceNext]_priceVars

-----------------------------------------------------------------------------
(* Properties.                                                             *)

(* What was published can be shown again: read as of its version, a report *)
(* is what it was, however often the values were corrected since; only a   *)
(* producer's own pruning write takes that away.                           *)
PublishedStaysProvable ==
    \A r \in reports :
        \/ ReadAsOf(r.version, r.flagged) = {r.rows}
        \/ r.version \in pruned

(* A roster asked for by its day is the index of that day, neither today's *)
(* nor the day before's.  An answer from the map always is, however old the*)
(* map; one from the library is unless a change had not reached the map or *)
(* the library yet, or came between the reading of the two.                *)
RosterIsOfItsDay ==
    lookup.pc = "answered" => lookup.late \/ lookup.answer = rosterOn[lookup.asOf]

(* What is asked as of a version or of a day is answered as of it.         *)
AsOfIsAnswered == PublishedStaysProvable /\ RosterIsOfItsDay
=============================================================================
