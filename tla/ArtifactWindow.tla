---------------------------- MODULE ArtifactWindow ----------------------------
(***************************************************************************)
(* The readers of dated artifacts: resolve_windowed_artifact and           *)
(* get_json_windowed (src/src/nousergon_lib/artifact_resolution.py) and    *)
(* load_json_with_fallback (signals.py).  Each walks back over dated keys, *)
(* one request at a time, while pipeline runs, late and repeated ones      *)
(* included, write under them and move the pointer.                        *)
(*                                                                         *)
(* A key is the day in it; key 0 is a run date that is no date.  The runs  *)
(* are external: the dated object first, the pointer, a copy of it, later. *)
(***************************************************************************)
EXTENDS Integers, Sequences, FiniteSets, FiniteSetsExt, SequencesExt

CONSTANTS
    LastDay,            \* days are 1 .. LastDay
    Weekend,            \* the days no signals key is made for
    MaxAge,             \* max_age_days
    MaxWeekdays,        \* max_weekdays: calendar days in the code, weekdays in its text
    WindowWrites, WindowFaults

ASSUME WindowAssumption == LastDay \in Nat /\ MaxAge \in Nat /\ MaxWeekdays \in Nat

Literal == 0
Pointer == LastDay + 1
Keys    == Literal .. Pointer

VARIABLES
    object,     \* key -> what is stored: "absent", "good", "corrupt"
    due,        \* the days whose whole artifact is not yet in the pointer
    latest,     \* the day of the artifact in the pointer, 0 at first
    told,       \* the days whose artifact went into it, and no older one after
    walk,       \* the walk under way, and its result
    steady,     \* the keys that were there, good and readable, all through it
    windowWrites, windowFaults

windowVars == <<object, due, latest, told, walk, steady, windowWrites, windowFaults>>
writing    == <<object, due, latest, told, windowWrites>>

Readers == {"resolve", "resolve_pointer", "json", "signals"}
None     == Pointer + 1     \* no key at all
IdleWalk == [pc |-> "idle", reader |-> "none", run |-> 0, left |-> <<>>, found |-> None,
             day |-> 0, told |-> {}]

WindowInit ==
    /\ object = [k \in Keys |-> "absent"] /\ due = {} /\ latest = 0 /\ told = {}
    /\ walk = IdleWalk /\ steady = {}
    /\ windowWrites = 0 /\ windowFaults = 0

(* A run leaves the artifact of a day, whole or cut short, over whatever   *)
(* was there; the pointer follows a whole one, in the run's own time.      *)
Publish(k, content) ==
    /\ k # Pointer /\ windowWrites < WindowWrites
    /\ object' = [object EXCEPT ![k] = content]
    /\ due' = IF content = "good" /\ k # Literal THEN due \cup {k} ELSE due \ {k}
    /\ told' = told \ {k} /\ steady' = steady \ {k}
    /\ windowWrites' = windowWrites + 1
    /\ UNCHANGED <<latest, walk, windowFaults>>

MovePointer(day) ==
    /\ day \in due /\ due' = due \ {day}
    /\ object' = [object EXCEPT ![Pointer] = "good"] /\ latest' = day
    /\ told' = {e \in told : e <= day} \cup {day}
    /\ UNCHANGED <<walk, steady, windowWrites, windowFaults>>

-----------------------------------------------------------------------------
(* Mutant: the walk starts at the far end.                                 *)
WalkForward(run) ==
    IF run = Literal THEN <<Literal>>
    ELSE [i \in 1 .. Min({MaxAge + 1, run}) |-> Max({1, run - MaxAge}) + i - 1]

NewestFirst(days) ==
    [n \in 1 .. Cardinality(days) |->
        CHOOSE d \in days : Cardinality({e \in days : e <= d}) = Cardinality(days) + 1 - n]

(* The days back from the run's, newest first; only the literal key when   *)
(* the run date is no date.                                                *)
WalkBackDates(run) ==
    IF run = Literal THEN <<Literal>> ELSE NewestFirst({d \in 1 .. run : run - d <= MaxAge})

(* The signals chain: the weekdays among so many calendar days, none when  *)
(* the date is no date, and the pointer last.                              *)
FallbackResearchDateKeys(run) ==
    Append(NewestFirst({d \in (1 .. run) \ Weekend : run - d <= MaxWeekdays}), Pointer)

KeysOf(reader, run) ==
    CASE reader = "resolve_pointer" -> <<Pointer>> \o WalkBackDates(run)
      [] reader = "signals" -> FallbackResearchDateKeys(run)
      [] OTHER -> WalkBackDates(run)

(* A HEAD finds a corrupt object too; the others read it and move on.      *)
Usable(reader, content) ==
    content = "good" \/ (content = "corrupt" /\ reader \in {"resolve", "resolve_pointer"})

BeginWalk(reader, run) ==
    /\ walk.pc \in {"idle", "done", "raised"}
    /\ walk' = [pc |-> "walking", reader |-> reader, run |-> run, left |-> KeysOf(reader, run),
                found |-> None, day |-> 0, told |-> {}]
    /\ steady' = {k \in Keys : object[k] = "good"}
    /\ UNCHANGED <<writing, windowFaults>>

(* One request.  A key that is absent, or does not parse, is passed over.  *)
(* A fault raises, but the signals chain passes over a denied key as well; *)
(* so does what does not parse when there is one key alone to read.        *)
Look(answer) ==
    /\ walk.pc = "walking" /\ walk.left # <<>>
    /\ LET k == Head(walk.left)
           passes == answer = "denied" /\ walk.reader = "signals"
           raises == \/ answer # "ok" /\ ~passes
                     \/ k = Literal /\ walk.reader = "json" /\ object[k] = "corrupt"
       IN  /\ walk' = CASE answer = "ok" /\ Usable(walk.reader, object[k]) ->
                               [walk EXCEPT !.pc = "done", !.found = k, !.left = <<>>,
                                   !.day = IF k = Pointer THEN latest ELSE k,
                                   !.told = IF k = Pointer THEN told ELSE {}]
                        [] raises -> [walk EXCEPT !.pc = "raised", !.left = <<>>]
                        [] OTHER -> [walk EXCEPT !.left = Tail(@)]
           /\ steady' = IF passes THEN steady \ {k} ELSE steady
    /\ answer # "ok" => windowFaults < WindowFaults
    /\ windowFaults' = IF answer = "ok" THEN windowFaults ELSE windowFaults + 1
    /\ UNCHANGED writing

(* The walk is over and nothing was found.                                 *)
GiveUp ==
    /\ walk.pc = "walking" /\ walk.left = <<>>
    /\ walk' = [walk EXCEPT !.pc = "done"]
    /\ UNCHANGED <<writing, steady, windowFaults>>

WindowNext ==
    \/ \E k \in Keys, content \in {"good", "corrupt"} : Publish(k, content)
    \/ \E day \in 1 .. LastDay : MovePointer(day)
    \/ \E reader \in Readers, run \in 0 .. LastDay : BeginWalk(reader, run)
    \/ \E answer \in {"ok", "denied", "throttled"} : Look(answer)
    \/ GiveUp

WindowSpec == WindowInit /\ [][WindowNext]_windowVars

-----------------------------------------------------------------------------
(* Properties.                                                             *)

Age(k) == walk.run - k
InReach(k) ==
    IF walk.run = Literal THEN k = Literal
    ELSE k \in 1 .. walk.run /\ Age(k) <= IF walk.reader = "signals" THEN MaxWeekdays ELSE MaxAge

(* A finished walk has the freshest artifact of its window: nothing newer, *)
(* nor anything at all when it found nothing, was there and readable from  *)
(* the walk's first request to its last, whatever was written meanwhile;   *)
(* what it found by its day is never of a day after the run's.  The pointer*)
(* goes before the window when it was asked for, and after it in the       *)
(* signals chain, whose window is the weekdays of MaxWeekdays calendar     *)
(* days; it may tell of any day, but not of one before an artifact that    *)
(* was put into it and had no older one put over it.                       *)
FreshestOfItsWindow ==
    walk.pc = "done" =>
        LET skipped == IF walk.reader = "signals" THEN Weekend \cup {Literal} ELSE {}
            sure    == {k \in steady \ skipped : InReach(k)}
        IN  /\ walk.found \in {None, Pointer} \/ InReach(walk.found)
            /\ walk.found = Pointer => walk.reader \in {"resolve_pointer", "signals"}
            /\ (walk.found = Pointer /\ walk.reader = "signals") => sure = {}
            /\ walk.found = None => sure = {}
            /\ walk.found \notin {None, Pointer} => \A k \in sure : k <= walk.found
            /\ (walk.reader = "resolve_pointer" /\ walk.found # Pointer) => Pointer \notin steady
            /\ walk.found = Pointer => \A k \in walk.told : k <= walk.day

(* The documented signals chain: the run's own day, and as many weekdays   *)
(* before it as MaxWeekdays says, come before the pointer; so an answer is *)
(* no older than what was there for one of them.                           *)
WeekdaysComeFirst ==
    (walk.pc = "done" /\ walk.reader = "signals" /\ walk.found \in {None, Pointer}) =>
        \A k \in (steady \ Weekend) \cap 1 .. walk.run :
            k <= walk.day \/ Cardinality((k .. walk.run - 1) \ Weekend) > MaxWeekdays
=============================================================================
