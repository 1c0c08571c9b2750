------------------------------ MODULE MCReviews ------------------------------
(* What is graded, for TLC: a pull request by the workflow guards and by the *)
(* cost gate, one file of its repository at a time; the groom queue; and the *)
(* artifacts of the transparency inventory.  They share nothing, so each     *)
(* history looks at one of them.                                             *)
EXTENDS WorkflowGuards, CostGate, GroomQueue, MCSubstrate

(* Workflow files: matrices, callers of the library and of each other, and a *)
(* detector that declares its red in good and bad ways.                      *)
Job(label, when, uses, steps, tolerated) ==
    [label |-> label, when |-> when, uses |-> uses, steps |-> steps, tolerated |-> tolerated]
Text(on, typed, jobs) == [NoText EXCEPT !.kind = "good", !.on = on, !.typed = typed, !.jobs = jobs]
Declared(text, semantics, steps, exempt) ==
    [text EXCEPT !.env = [semantics |-> semantics, steps |-> steps, exempt |-> exempt, cited |-> TRUE]]

Lint(when)  == Job("lint", when, "none", {"lint"}, {})
Matrix      == Job("test (*)", "always", "none", {"test"}, {})
Caller(to)  == Job("guard", "always", to, {}, {})
Probe       == Job("probe", "not_pull_request", "none", {"apply", "drift"}, {"drift"})
Both        == {"pull_request", "merge_group"}

MCTexts ==
    [ci |-> {Text(Both, TRUE, {Lint("always"), Matrix}), Text(Both, FALSE, {Lint("always"), Matrix}),
             Text(Both, TRUE, {Caller("lib")}), Text({"pull_request"}, FALSE, {Caller("lib")}),
             Text(Both, TRUE, {Caller("probe")}), Text(Both, TRUE, {Caller("elsewhere")}),
             [NoText EXCEPT !.kind = "broken"]},
     probe |-> {NoText,
                Text({"schedule", "merge_group"}, TRUE, {Probe}),
                Text({"pull_request", "schedule"}, FALSE, {Probe}),
                Text({"pull_request", "pull_request_target"}, FALSE, {Probe}),
                Text({"pull_request"}, FALSE, {Lint("loosely")}),
                Declared(Text({"schedule"}, FALSE, {Probe}), "finding-surface", {"drift"}, {}),
                Declared(Text({"schedule"}, FALSE, {Probe}), "finding-surface", {"apply"}, {}),
                Declared(Text({"schedule"}, FALSE, {Probe}), "finding-surface", {"apply"}, {"drift"}),
                Declared(Text({"schedule"}, FALSE, {Probe}), "operator-gated", {"apply"}, {}),
                Declared(Text({"schedule"}, FALSE, {Probe}), "finding_surface", {"drift"}, {})}]
MCLibText == Text({"workflow_call"}, FALSE, {Job("check", "always", "none", {"check"}, {})})
MCLegs    == [l \in {"lint", "guard", "probe", "check", "test (*)"} |->
                IF l = "test (*)" THEN {"test (11)"} ELSE {l}]
MCMatched == [l \in {"lint", "guard", "probe", "check", "test (*)"} |->
                IF l = "test (*)" THEN {"test (11)", "test (9)"} ELSE {l}]
MCRequirements == {{}, {<<"lint">>}, {<<"guard">>, <<"guard", "check">>},
                   {<<"guard", "probe">>, <<"test (9)">>, <<"test (11)">>}}
RuleEdits == [edits |-> 2, faults |-> 1, requests |-> 1]
FileEdits == [edits |-> 0, faults |-> 0, requests |-> 2]
MCBudgets == {RuleEdits, FileEdits}
MCGuardContext == <<"guard", "check">>
Allowed(keys, reusable) ==
    [wellFormed |-> TRUE, reasons |-> [k \in keys |-> "why"], reusable |-> reusable]
Ci(label) == <<"ci", label>>
MCAllowlists ==
    {Allowed({}, {}), Allowed({Ci("lint"), Ci("test (*)")}, {}),
     Allowed({Ci("guard")}, {Ci("guard")}), Allowed({Ci("guard")}, {}),
     Allowed({Ci("lint"), Ci("test (*)"), <<"probe", "probe">>}, {}),
     Allowed({Ci("guard"), <<"probe", "probe">>}, {Ci("guard")}),
     [Allowed({Ci("guard")}, {Ci("guard")}) EXCEPT !.reasons[Ci("guard")] = "blank"],
     [Allowed({}, {}) EXCEPT !.wellFormed = FALSE]}


-----------------------------------------------------------------------------
(* A policy with a Deny, and a Deny of another policy document of its file; a *)
(* template with a scheduled target, code, a cron and a backup of roles; a   *)
(* budget before and after a line is added.                                  *)
Statement(effect, key, actions, standing) ==
    [kind |-> "statement", effect |-> effect, key |-> key, actions |-> actions, standing |-> standing]
Schedule(timed, retry, to) == [kind |-> "schedule", clock |-> timed, retry |-> retry, target |-> to]
Box    == [slot |-> "box", service |-> "none"]
Arn(s) == [slot |-> "none", service |-> s]

MCFileOf == [allow |-> "policy", deny |-> "policy", apart |-> "policy", syntax |-> "policy",
             box |-> "template", clock |-> "template", code |-> "source", cron |-> "workflow",
             saved |-> "backup"]
MCDocumentOf == [s \in DOMAIN MCFileOf |-> IF s = "apart" THEN "other" ELSE "role"]
MCVariants ==
    [allow |-> {Statement("Allow", "Action", {"s3:*", "ce:Get"}, TRUE),
                Statement("Deny", "Action", {"ce:Get"}, TRUE), Statement("Allow", "Action", {"ce:Get"}, TRUE),
                Statement("Allow", "Action", {"cb:*"}, TRUE),
                Statement("Allow", "NotAction", {"s3:*"}, TRUE), Statement("Allow", "Action", {"kms:Use"}, TRUE)},
     deny |-> {Statement("Deny", "Action", {"ce:*"}, TRUE), Statement("Deny", "Action", {"ce:*"}, FALSE),
               Statement("Deny", "NotAction", {"s3:*"}, TRUE)},
     apart |-> {Statement("Deny", "Action", {"ce:*"}, TRUE)},
     syntax |-> {[kind |-> "syntax", broken |-> TRUE]},
     box |-> {[kind |-> "resource", type |-> ty] : ty \in {"Bucket", "Explorer", "Odd"}},
     clock |-> {Schedule(TRUE, "bounded", Box), Schedule(TRUE, "bounded", Arn("ce")), Schedule(TRUE, "none", Box),
                Schedule(FALSE, "bounded", Arn("ce")), Schedule(TRUE, "bounded", Arn("unmapped"))},
     code |-> {[kind |-> "client", service |-> "s3"], [kind |-> "client", service |-> "cb"],
               [kind |-> "string", action |-> "aws:Arn", keyed |-> FALSE],
               [kind |-> "string", action |-> "*", keyed |-> FALSE],
               [kind |-> "string", action |-> "*", keyed |-> TRUE], [kind |-> "call", real |-> TRUE]},
     cron |-> {[kind |-> "cron", minutes |-> m] : m \in {{0, 30}, {0, 5, 40}, {7}}},
     saved |-> {Statement("Allow", "Action", {"ce:*"}, TRUE)}]
MCUniverse == {"ce:Get", "ce:Put", "s3:Get", "cb:List", "cb:Start", "kms:Use", "aws:Arn"}
MCServiceOf == [a \in MCUniverse |-> CASE a \in {"ce:Get", "ce:Put"} -> "ce" [] a = "s3:Get" -> "s3"
                                      [] a = "kms:Use" -> "kms" [] a = "aws:Arn" -> "aws"
                                      [] OTHER -> "cb"]
MCActs == [p \in MCUniverse \cup {"*", "ce:*", "s3:*", "cb:*"} |->
             CASE p = "*" -> MCUniverse [] p = "ce:*" -> {"ce:Get", "ce:Put"} [] p = "s3:*" -> {"s3:Get"}
               [] p = "cb:*" -> {"cb:List", "cb:Start"} [] OTHER -> {p}]
MCTypeService == [Bucket |-> "s3", Explorer |-> "ce", Odd |-> "unmapped"]
Doc(budgeted, narrow, unapproved) ==
    [budgeted |-> budgeted, free |-> {"cb"}, unapproved |-> unapproved,
     freeActions |-> IF narrow THEN [cb |-> {"cb:List"}] ELSE [x \in {} |-> {}]]
Narrow    == Doc({"s3"}, TRUE, {"kms"})
MCLedgers == {Narrow, Doc({"s3", "ce"}, FALSE, {})}

-----------------------------------------------------------------------------
(* Issues of each tier, one behind a gate of data and one whose gate is due; *)
(* one issue over three counts or relabelled twice over two, or two over one.*)
MCLabelSets    == {{}, {"low"}, {"high"}, {"low", "gate:data"}, {"gate:data", "gate-due"}}
MCGroomBudgets == {[filings |-> 1, relabels |-> 1, counts |-> 3],
                   [filings |-> 1, relabels |-> 2, counts |-> 2],
                   [filings |-> 2, relabels |-> 1, counts |-> 1]}

-----------------------------------------------------------------------------
VARIABLE scene      \* the subject of this history, and the file edited in it

Scenes == {[of |-> o, file |-> "none"] : o \in {"files", "rules", "groom", "shelf"}}
          \cup {[of |-> "cost", file |-> FileOf[s]] : s \in Slots}

reviewVars == <<guardVars, costVars, groomVars, shelfVars, scene>>

MCText    == Text(Both, TRUE, {Lint("always"), Matrix})
FirstTree == [ci |-> MCText, probe |-> NoText]
Init ==
    /\ scene \in Scenes /\ GuardInit(FirstTree) /\ CostInit /\ GroomInit
    /\ budgets = IF scene.of = "rules" THEN RuleEdits ELSE FileEdits
    /\ scene.of = "cost" \/ ledger = Narrow
    /\ scene.of = "groom" \/ groomBudget.counts = 1
    /\ IF scene.of = "shelf" THEN MCSubstrateInit
       ELSE /\ SubstrateInit /\ shelf = <<>>
            /\ tallies = [m \in Machines |-> <<0, 0>>] /\ schedule = "ENABLED"

InFile == \A r \in Requests, s \in Slots : FileOf[s] # scene.file => request'[r].head[s] = Nothing

(* The budget loses a line while a template or a source file is edited.      *)
Upgraded == ledger' = ledger \/ (ledger' = Narrow /\ scene.file # "policy")

(* Requests and boxes are alike: of two that are free, the first is taken.   *)
FirstRequest == request'["r2"].pc # "idle" => ~ \A r \in Requests : request[r].pc = "idle"
FirstBox     == box'["b2"].pc # "off" => ~ \A b \in Boxes : box[b].pc = "off"

(* While administrators edit, only the merge-queue guard has anything to say, *)
(* which asks no workflow what its red means.                                *)
PathIsClean ==
    (review.pc = "idle" /\ review'.pc # "idle") =>
        /\ PathClean(review'.head, review'.allow)
        /\ \A f \in Files : review'.head[f].env = NoText.env

Next ==
    /\ UNCHANGED scene
    /\ \/ scene.of = "files" /\ GuardNext /\ UNCHANGED <<costVars, groomVars, shelfVars>>
       \/ /\ scene.of = "rules" /\ GuardNext /\ PathIsClean
          /\ UNCHANGED <<costVars, groomVars, shelfVars>>
       \/ /\ scene.of = "cost" /\ CostNext /\ InFile /\ FirstRequest /\ Upgraded
          /\ UNCHANGED <<guardVars, groomVars, shelfVars>>
       \/ scene.of = "groom" /\ GroomNext /\ FirstBox /\ UNCHANGED <<guardVars, costVars, shelfVars>>
       \/ scene.of = "shelf" /\ MCSubstrateNext /\ UNCHANGED <<guardVars, costVars, groomVars>>

Spec == Init /\ [][Next]_reviewVars
=============================================================================
