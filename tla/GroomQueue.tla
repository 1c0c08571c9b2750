------------------------------ MODULE GroomQueue ------------------------------
(***************************************************************************)
(* Groom eligibility and what a dispatch launches                          *)
(* (src/src/nousergon_lib/groom_eligibility.py).  The dispatcher routes    *)
(* stalled issues to people, counts the actionable ones and decides; the   *)
(* boxes it launches list the issues anew, each under the filter it was    *)
(* given, while labels change.  Every decision is pure: who fetches,       *)
(* labels, boots and grooms is external.                                   *)
(***************************************************************************)
EXTENDS Integers, Sequences, FiniteSets, FiniteSetsExt

CONSTANTS
    Issues,
    LabelSets,          \* the labels people give an issue, but for "stalled"
    Floor, MaxWait,     \* floor, max_wait_hours
    Waits,              \* the waits a caller may tell of a tier (0: not told)
    StrikeLimit,        \* COMMENT_ONLY_STRIKE_LIMIT
    Boxes,              \* the boxes that run at once
    GroomBudgets        \* bounds: [filings, relabels, counts], one to a history

ASSUME GroomAssumption == IsFiniteSet(Issues) /\ StrikeLimit \in Nat \ {0} /\ Floor \in Nat

\* An issue without a complexity label is "mid".
TIERS  == <<"low", "mid", "high">>
TierAt == {"low", "mid", "high"}
Rank(t) == CHOOSE i \in 1 .. 3 : TIERS[i] = t

VARIABLES
    labels,     \* issue -> its labels; {"closed"} when there is no such issue
    history,    \* issue -> its dispositions, latest first
    strikes,    \* ghost: issue -> the comments since anything else was done or ruled
    dispatch,   \* the dispatcher: [pc, seen, kept, worn, pending]
    box,        \* box -> [pc, tiers, group, listed, owed, worn]
    passed,     \* ghost: issues a decision owed a box and gave none
    groomBudget

groomVars == <<labels, history, strikes, dispatch, box, passed, groomBudget>>

\* kept, owed (ghosts): of the issues counted, those not relabelled since.
\* worn (ghost): those with their strikes when counted, and not ruled on since.
IdleDispatch == [pc |-> "idle", seen |-> [i \in Issues |-> "none"], kept |-> {}, worn |-> {},
                 pending |-> {}]
NoBox == [pc |-> "off", tiers |-> {}, group |-> "high", listed |-> [i \in Issues |-> "none"],
          owed |-> {}, worn |-> {}]

-----------------------------------------------------------------------------
(* Labels to eligibility.  Mutant: a stalled issue is kept out by no more  *)
(* than its gates.                                                         *)
Stalled == "stalled"        \* GROOM_STALLED_LABEL, TRIAGE_SESSION_LABEL
ExcludedForCover  == {"in-progress", "ultra", "incident"}
BASE_EXCLUDE      == {Stalled, "in-progress", "ultra", "incident"}
GATE_HARD_EXCLUDE == {"gate:operator"}
GATE_SOFT_EXCLUDE == {"gate:data"}
GATE_DUE          == "gate-due"
RULING_PENDING    == "ruling:pending-exec"

TierOf(ls) ==
    IF ls \cap BASE_EXCLUDE # {} THEN "none"
    ELSE IF "high" \in ls THEN "high" ELSE IF "low" \in ls THEN "low" ELSE "mid"

IsGateExcluded(ls) ==
    \/ ls \cap GATE_HARD_EXCLUDE # {}
    \/ /\ RULING_PENDING \notin ls
       /\ ls \cap GATE_SOFT_EXCLUDE # {} /\ GATE_DUE \notin ls

\* The tier an issue is actionable in, or "none"; a closed issue is not listed.
IsActionable(ls) == IF "closed" \in ls \/ IsGateExcluded(ls) THEN "none" ELSE TierOf(ls)

CommentOnlyStrikesExceeded(dispositions) ==
    /\ Len(dispositions) >= StrikeLimit
    /\ \A k \in 1 .. StrikeLimit : dispositions[k] = "commented"

-----------------------------------------------------------------------------
(* The decisions, over the counts of a listing.                            *)
CountOf(seen, t) == Cardinality({i \in Issues : seen[i] = t})

(* What a launched box is told: a filter, which there is for every set of  *)
(* tiers (filter_for_tiers, filter_tiers), and the group of the highest.   *)
GroupOf(present)      == CHOOSE t \in present : \A u \in present : Rank(u) <= Rank(t)
SlotDecision(present) == [tiers |-> present, group |-> GroupOf(present)]

(* A manual dispatch of one tier takes the lower ones under the floor with *)
(* it, and launches if they fill the floor together, if there is a P0, or  *)
(* if one was told to have waited long enough.                             *)
Present(seen, slot) ==
    {t \in TierAt : /\ CountOf(seen, t) > 0
                    /\ t = slot \/ (Rank(t) < Rank(slot) /\ CountOf(seen, t) < Floor)}

Launches(seen, present, p0, waits) ==
    /\ present # {}
    /\ \/ Cardinality({i \in Issues : seen[i] \in present}) >= Floor
       \/ p0
       \/ \E t \in present : waits[t] >= MaxWait

(* A trigger launches for every tier that has an issue.                    *)
TiersToLaunch(seen) == {t \in TierAt : CountOf(seen, t) > 0}

-----------------------------------------------------------------------------
SpendGroom(b) == groomBudget[b] > 0 /\ groomBudget' = [groomBudget EXCEPT ![b] = @ - 1]

\* The issues in moved have other labels now, those in ruled a person's word.
Forget(moved, ruled) ==
    /\ dispatch' = [dispatch EXCEPT !.kept = @ \ moved, !.worn = @ \ ruled]
    /\ box' = [b \in Boxes |-> [box[b] EXCEPT !.owed = @ \ moved, !.worn = @ \ ruled]]

(* The dispatcher's pass: an issue with its strikes is routed to people,   *)
(* and what is actionable then is counted.                                 *)
Count ==
    /\ dispatch.pc = "idle" /\ SpendGroom("counts")
    /\ LET stuck  == {i \in Issues : CommentOnlyStrikesExceeded(history[i])}
           routed == [i \in Issues |-> IF i \in stuck THEN labels[i] \cup {Stalled} ELSE labels[i]]
           seen   == [i \in Issues |-> IsActionable(routed[i])]
       IN /\ labels' = routed
          /\ dispatch' = [pc |-> "counted", seen |-> seen, pending |-> {},
                          kept |-> {i \in Issues : seen[i] # "none"},
                          worn |-> {i \in Issues : strikes[i] >= StrikeLimit}]
          /\ box' = [b \in Boxes |-> [box[b] EXCEPT !.owed = @ \ stuck]]
    /\ UNCHANGED <<history, strikes, passed>>

\* What is decided is launched; what was owed and is not is passed over.
Decide(decisions, owed) ==
    /\ dispatch.pc = "counted"
    /\ dispatch' = IF decisions = {} THEN IdleDispatch
                   ELSE [dispatch EXCEPT !.pc = "launching", !.pending = decisions]
    /\ passed' = passed \cup {i \in owed : \A d \in decisions : dispatch.seen[i] \notin d.tiers}
    /\ UNCHANGED <<labels, history, strikes, box, groomBudget>>

DecideSlot(slot, p0, waits) ==
    LET seen    == dispatch.seen
        present == Present(seen, slot)
    IN Decide(IF Launches(seen, present, p0, waits) THEN {SlotDecision(present)} ELSE {},
              {i \in Issues : /\ seen[i] = slot
                              /\ p0 \/ waits[slot] >= MaxWait \/ CountOf(seen, slot) >= Floor})

DecideTrigger ==
    Decide({SlotDecision({t}) : t \in TiersToLaunch(dispatch.seen)},
           {i \in Issues : dispatch.seen[i] # "none"})

(* The boxes boot one after another.                                       *)
Launch(d, b) ==
    /\ dispatch.pc = "launching" /\ d \in dispatch.pending /\ box[b].pc = "off"
    /\ box' = [box EXCEPT ![b] =
                  [NoBox EXCEPT !.pc = "booting", !.tiers = d.tiers, !.group = d.group,
                                !.owed = {i \in dispatch.kept : dispatch.seen[i] \in d.tiers},
                                !.worn = dispatch.worn]]
    /\ dispatch' = IF dispatch.pending = {d} THEN IdleDispatch
                   ELSE [dispatch EXCEPT !.pending = @ \ {d}]
    /\ UNCHANGED <<labels, history, strikes, passed, groomBudget>>

(* A box lists the actionable issues of its filter's tiers, as they are.   *)
List(b) ==
    /\ box[b].pc = "booting"
    /\ box' = [box EXCEPT ![b].pc = "working",
                          ![b].listed = [i \in Issues |-> IF IsActionable(labels[i]) \in box[b].tiers
                                                          THEN IsActionable(labels[i]) ELSE "none"]]
    /\ UNCHANGED <<labels, history, strikes, dispatch, passed, groomBudget>>

\* A tier down: high to mid, mid to low.
Downgraded(ls) == IF "high" \in ls THEN ls \ {"high"} ELSE ls \cup {"low"}

(* It engages what it listed, whatever became of the labels, and records   *)
(* the disposition.                                                        *)
Engage(b, i, disposition) ==
    /\ box[b].pc = "working" /\ box[b].listed[i] # "none" /\ "closed" \notin labels[i]
    /\ history' = [history EXCEPT ![i] = SubSeq(<<disposition>> \o @, 1,
                                                Min({StrikeLimit, Len(@) + 1}))]
    /\ strikes' = [strikes EXCEPT ![i] = IF disposition = "commented" THEN Min({StrikeLimit, @ + 1}) ELSE 0]
    /\ labels' = [labels EXCEPT ![i] =
          CASE disposition = "closed" -> {"closed"}
            [] disposition = "pr_opened" -> @ \cup {"in-progress"}
            [] disposition = "labeled" -> Downgraded(@)
            [] OTHER -> @]
    /\ dispatch' = [dispatch EXCEPT !.kept = @ \ {i}, !.worn = IF disposition = "closed" THEN @ \ {i} ELSE @]
    /\ box' = [c \in Boxes |-> [box[c] EXCEPT !.owed = @ \ {i},
                                  !.worn = IF disposition = "closed" THEN @ \ {i} ELSE @,
                                  !.listed = IF c = b THEN [@ EXCEPT ![i] = "none"] ELSE @]]
    /\ UNCHANGED <<passed, groomBudget>>

\* A box is done, or is gone.
EndBox(b) ==
    /\ box[b].pc # "off" /\ box' = [box EXCEPT ![b] = NoBox]
    /\ UNCHANGED <<labels, history, strikes, dispatch, passed, groomBudget>>

Fresh(i) == history' = [history EXCEPT ![i] = <<>>] /\ strikes' = [strikes EXCEPT ![i] = 0]

File(i, ls) ==
    /\ labels[i] = {"closed"} /\ SpendGroom("filings")
    /\ labels' = [labels EXCEPT ![i] = ls] /\ Fresh(i)
    /\ Forget({i}, {i}) /\ UNCHANGED passed

(* People and sweeps change complexity, gates and cover; only a ruling     *)
(* takes "stalled" away, and is the activity that ends the strikes.        *)
Relabel(i, ls) ==
    /\ labels[i] # {"closed"} /\ labels[i] \ {Stalled} # ls /\ SpendGroom("relabels")
    /\ labels' = [labels EXCEPT ![i] = ls \cup (@ \cap {Stalled})]
    /\ Forget({i}, {}) /\ UNCHANGED <<history, strikes, passed>>

Rule(i) ==
    /\ Stalled \in labels[i] /\ SpendGroom("relabels")
    /\ labels' = [labels EXCEPT ![i] = @ \ {Stalled}] /\ Fresh(i)
    /\ Forget({i}, {i}) /\ UNCHANGED passed

GroomInit ==
    /\ labels = [i \in Issues |-> {"closed"}] /\ history = [i \in Issues |-> <<>>]
    /\ strikes = [i \in Issues |-> 0]
    /\ dispatch = IdleDispatch /\ box = [b \in Boxes |-> NoBox] /\ passed = {}
    /\ groomBudget \in GroomBudgets

GroomNext ==
    \/ Count \/ DecideTrigger
    \/ \E slot \in TierAt, p0 \in BOOLEAN, waits \in [TierAt -> Waits] : DecideSlot(slot, p0, waits)
    \/ \E b \in Boxes :
          \/ List(b) \/ EndBox(b)
          \/ \E d \in dispatch.pending : Launch(d, b)
          \/ \E i \in Issues, d \in {"closed", "pr_opened", "commented", "labeled"} : Engage(b, i, d)
    \/ \E i \in Issues : Rule(i) \/ \E ls \in LabelSets : File(i, ls) \/ Relabel(i, ls)

GroomSpec == GroomInit /\ [][GroomNext]_groomVars

-----------------------------------------------------------------------------
(* An issue counted by a trigger, or at a dispatch of its own tier with    *)
(* the floor filled, a P0 or a long wait told, is launched for; and the    *)
(* box lists it, however late, unless it was relabelled in between.        *)
NoneIsPassedOver ==
    /\ passed = {}
    /\ \A b \in Boxes : box[b].pc = "working" => \A i \in box[b].owed : box[b].listed[i] # "none"

(* No box lists an issue of a tier above its model group, be the queues    *)
(* bundled, and whatever has moved up since they were counted (the         *)
(* guardrail of decide_slot).                                              *)
NeverBelowItsTier ==
    \A b \in Boxes, i \in Issues : box[b].listed[i] # "none" => Rank(box[b].listed[i]) <= Rank(box[b].group)

(* No box of a later count lists an issue that had its comment-only        *)
(* strikes, though a gate of it comes due or its tier changes; a third     *)
(* comment is left to boxes that were counted for before the second.       *)
NoThirdComment ==
    \A b \in Boxes : \A i \in box[b].worn : box[b].listed[i] = "none"

(* What a dispatch counts is what its boxes work, in between relabelling,  *)
(* closing, rulings and other boxes.                                       *)
CountedIsWorked == NoneIsPassedOver /\ NeverBelowItsTier /\ NoThirdComment
=============================================================================
