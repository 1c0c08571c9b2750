---------------------------- MODULE WorkflowGuards ----------------------------
(***************************************************************************)
(* The guards on a repository's own workflow files: the merge-queue guard  *)
(* (src/src/nousergon_lib/merge_queue.py and                               *)
(* scripts/validate_merge_group_required_checks.py), the pull-request path *)
(* guard (pr_path_guard.py) and the declared finding surfaces              *)
(* (workflow_health_semantics.py).  One pull request at a time is graded;  *)
(* the merge-queue guard asks the host for the required checks in several  *)
(* requests, while administrators change them.                             *)
(*                                                                         *)
(* A context is the sequence of names between " / ".  A name that holds a  *)
(* matrix expression stands for the names its matrix makes (Legs); the     *)
(* guard matches it as a regular expression (Matched).                     *)
(***************************************************************************)
EXTENDS Integers, Sequences, FiniteSets

CONSTANTS
    Files,          \* the workflow files
    Texts,          \* file -> the texts it may have
    LibText,        \* the workflow of the library that others call
    Legs, Matched,  \* job name -> the names it makes, and those it matches
    Requirements,   \* the sets of checks an administrator may require
    GuardContext,   \* the merge-queue guard's own check
    Allowlists,     \* the allowlists a pull request may bring
    Budgets         \* the bounds on edits, faults and requests of each history

JobNames == STRING

\* The jobs of a file have names of their own; an absent file has none.
FitText(text) ==
    /\ text.kind \in {"good", "untriggered", "broken", "absent"}
    /\ text.kind = "absent" => text.jobs = {} /\ text.env.semantics = "none"
    /\ \A j \in text.jobs : j.label \in JobNames
    /\ \A j, k \in text.jobs : j.label = k.label => j = k

ASSUME GuardAssumption ==
    /\ {"none", "lib"} \cap Files = {}
    /\ FitText(LibText)
    /\ \A f \in Files : \A text \in Texts[f] : FitText(text)
    /\ \A contexts \in Requirements : contexts \subseteq Seq(JobNames)

VARIABLES
    main,           \* file -> its text on the default branch
    rules,          \* place -> what it requires; a place is a ruleset or "classic"
    review,         \* the pull request being graded
    surfaces,       \* the declarations in force for the nightly grader
    budgets         \* what the bounds leave

guardVars == <<main, rules, review, surfaces, budgets>>

Places    == {"ruleset", "queue_ruleset", "classic"}
RuleSets  == Places \ {"classic"}
PrEvents  == {"pull_request", "pull_request_target"}

(* Texts: a job is [label, when, uses, steps, tolerated]; "uses" is "none",*)
(* a file, "lib" or "elsewhere"; a declaration is [semantics, steps,       *)
(* exempt, cited].                                                         *)
Undeclared == [semantics |-> "none", steps |-> {}, exempt |-> {}, cited |-> FALSE]
NoText     == [kind |-> "absent", on |-> {}, typed |-> FALSE, jobs |-> {}, env |-> Undeclared]
NoReview   == [pc |-> "idle", head |-> [f \in Files |-> NoText], allow |-> <<>>,
               left |-> {}, contexts |-> {}, steady |-> {}, warned |-> FALSE, verdict |-> "none"]

-----------------------------------------------------------------------------
(* merge_queue: the contexts each text emits, as the guard reads them.     *)
Parsed(text)    == text.kind \in {"good", "untriggered"}
HasMergeGroup(text) == text.kind = "good" /\ "merge_group" \in text.on /\ text.typed

CalledText(uses, tree) ==
    CASE uses \in Files -> tree[uses]
      [] uses = "lib" -> LibText
      [] OTHER -> NoText

TextsOf(tree)         == {tree[f] : f \in Files} \cup {LibText, NoText}
Under(names, contexts) == {n \o c : n \in names, c \in contexts}
NoContexts(tree)      == [t \in TextsOf(tree) |-> {}]

(* The patterns a text's jobs emit, the called workflow's under the        *)
(* caller's name, four calls deep.                                         *)
MaxReusableDepth == 4
Emitted(t, tree, below) ==
    {<<j.label>> : j \in t.jobs}
    \cup UNION {Under({<<j.label>>}, below[CalledText(j.uses, tree)]) : j \in t.jobs}
Emits(tree) ==
    LET emits[d \in 0 .. MaxReusableDepth] ==
            LET below == IF d = 0 THEN NoContexts(tree) ELSE emits[d - 1]
            IN  [t \in TextsOf(tree) |-> Emitted(t, tree, below)]
    IN emits[MaxReusableDepth]
EmittedContexts(tree) == LET emits == Emits(tree) IN [f \in Files |-> emits[tree[f]]]

JobNameMatches(pattern, context) ==
    /\ Len(pattern) = Len(context)
    /\ \A i \in DOMAIN pattern : context[i] \in Matched[pattern[i]]

CoverageGaps(contexts, tree) ==
    LET emitted == EmittedContexts(tree)
    IN {c \in contexts : ~ \E f \in Files : /\ HasMergeGroup(tree[f])
                                            /\ \E p \in emitted[f] : JobNameMatches(p, c)}

(* What the host reports on a merge group: the jobs of the triggered       *)
(* files, a caller's only under the caller, a matrix's legs alone.         *)
Reported(t, tree, below) ==
    LET leaf(j) == {<<n>> : n \in Legs[j.label]}
    IN UNION {IF j.uses = "none" THEN leaf(j)
              ELSE Under(leaf(j), below[CalledText(j.uses, tree)]) : j \in t.jobs}
Reports(tree) ==
    LET reports[d \in 0 .. MaxReusableDepth] ==
            LET below == IF d = 0 THEN NoContexts(tree) ELSE reports[d - 1]
            IN  [t \in TextsOf(tree) |-> Reported(t, tree, below)]
    IN reports[MaxReusableDepth]
HostReports(tree) ==
    LET reports == Reports(tree)
    IN UNION {reports[tree[f]] :
              f \in {g \in Files : tree[g].kind = "good" /\ "merge_group" \in tree[g].on}}

-----------------------------------------------------------------------------
(* pr_path_guard: whole conditions that keep a job off the PR events.      *)
(* Mutant: an expression that names an event is taken to exclude it.       *)
NamesAnEvent(when, events) == events # {} /\ when # "always"

IsExcluded(when, events) ==
    \/ events # {} /\ when = "neither_call"
    \/ events = PrEvents /\ when = "neither_and"
    \/ events = {"pull_request"} /\ when = "not_pull_request"
    \/ events = {"pull_request_target"} /\ when = "not_target"

(* What the host keeps a job of that condition off.                        *)
ReallyExcludes(when) ==
    CASE when \in {"neither_call", "neither_and"} -> PrEvents
      [] when = "not_pull_request" -> {"pull_request"}
      [] when = "not_target" -> {"pull_request_target"}
      [] OTHER -> {}

Key(f, j) == <<f, j.label>>

Reachable(tree) ==
    UNION {{Key(f, j) : j \in {i \in tree[f].jobs : /\ tree[f].on \cap PrEvents # {}
                                                    /\ ~IsExcluded(i.when, tree[f].on \cap PrEvents)}} :
           f \in {g \in Files : tree[g].kind = "good"}}

(* An allowlist is missing (no key), malformed, or [reasons, reusable].    *)
PathClean(tree, allow) ==
    LET reached == Reachable(tree)
        job(k)  == CHOOSE j \in tree[k[1]].jobs : j.label = k[2]
    IN /\ allow.wellFormed
       /\ \E f \in Files : tree[f].kind # "absent"
       /\ \A f \in Files : tree[f].kind \in {"absent", "good"}
       /\ reached = DOMAIN allow.reasons
       /\ allow.reusable \subseteq reached
       /\ \A k \in reached : /\ allow.reasons[k] # "blank"
                             /\ job(k).uses # "none" => k \in allow.reusable
                             /\ job(k).uses = "none" => job(k).steps # {}

-----------------------------------------------------------------------------
(* workflow_health_semantics: what a text declares of its red.             *)
Legal == {"none", "execution-health", "finding-surface", "operator-gated"}

StepNames(text)  == UNION {j.steps : j \in text.jobs}
Tolerated(text)  == UNION {j.tolerated : j \in text.jobs}

DeclarationHolds(text) ==
    LET d == text.env
    IN /\ d.semantics \in Legal
       /\ d.semantics \in {"finding-surface", "operator-gated"}
             => d.steps # {} /\ d.steps \subseteq StepNames(text) /\ d.cited
       /\ d.semantics = "finding-surface"
             => d.exempt \subseteq StepNames(text) /\ Tolerated(text) \subseteq d.steps \cup d.exempt

Strict(tree) == \A f \in Files : tree[f].kind # "broken" /\ (Parsed(tree[f]) => DeclarationHolds(tree[f]))

(* The grader's reading: a malformed declaration is dropped.               *)
InForce(tree, semantics) ==
    {f \in Files : /\ Parsed(tree[f]) /\ tree[f].env.semantics = semantics
                   /\ DeclarationHolds(tree[f])}

-----------------------------------------------------------------------------
Spend(b) == budgets[b] > 0 /\ budgets' = [budgets EXCEPT ![b] = @ - 1]

Requires(place) == IF rules[place].active THEN rules[place].contexts ELSE {}
Standing        == UNION {{p} \X Requires(p) : p \in Places}

(* A pull request brings one file's text, and an allowlist.                *)
OpenPullRequest(f, text, allow) ==
    /\ review.pc = "idle" /\ Spend("requests")
    /\ text # main[f]
    /\ review' = [NoReview EXCEPT !.pc = "rulesets", !.head = [main EXCEPT ![f] = text],
                                  !.allow = allow, !.steady = Standing]
    /\ UNCHANGED <<main, rules, surfaces>>

(* The list of rulesets, then each active one by its id.                   *)
ListRulesets ==
    /\ review.pc = "rulesets"
    /\ review' = [review EXCEPT !.pc = "ruleset", !.left = {p \in RuleSets : rules[p].active}]
    /\ UNCHANGED <<main, rules, surfaces, budgets>>

ReadRuleset(p) ==
    /\ review.pc = "ruleset" /\ p \in review.left
    /\ review' = [review EXCEPT !.left = @ \ {p}, !.contexts = @ \cup rules[p].contexts]
    /\ UNCHANGED <<main, rules, surfaces, budgets>>

(* Classic protection: what the administrator's request is refused, the    *)
(* branch's own says; neither, and there is no answer.                     *)
(* Mutant: a refused request reads as no protection.                       *)
ReadRefusedAsNone ==
    /\ review.pc = "ruleset" /\ review.left = {}
    /\ \/ review' = [review EXCEPT !.pc = "queue", !.contexts = @ \cup Requires("classic")]
       \/ review' = [review EXCEPT !.pc = "queue"]
    /\ UNCHANGED <<main, rules, surfaces, budgets>>

ReadClassic ==
    /\ review.pc = "ruleset" /\ review.left = {}
    /\ review' = [review EXCEPT !.pc = "queue", !.contexts = @ \cup Requires("classic")]
    /\ UNCHANGED <<main, rules, surfaces, budgets>>

HostFails ==
    /\ review.pc \in {"rulesets", "ruleset", "queue"} /\ Spend("faults")
    /\ review' = [review EXCEPT !.pc = "graded", !.verdict = "red"]
    /\ UNCHANGED <<main, rules, surfaces>>

(* The three verdicts on the head.                                         *)
GuardVerdict(tree, contexts, allow) ==
    IF /\ contexts # {} => (\A f \in Files : tree[f].kind # "broken") /\ CoverageGaps(contexts, tree) = {}
       /\ PathClean(tree, allow) /\ Strict(tree)
    THEN "green" ELSE "red"

(* A queue is found by its rule; a guard nobody requires is only warned of.*)
Grade ==
    /\ review.pc = "queue"
    /\ review' = [review EXCEPT !.pc = "graded",
                     !.warned = rules["queue_ruleset"].active /\ GuardContext \notin review.contexts,
                     !.verdict = GuardVerdict(review.head, review.contexts, review.allow)]
    /\ UNCHANGED <<main, rules, surfaces, budgets>>

Close ==
    /\ review.pc = "graded"
    /\ main' = IF review.verdict = "green" THEN review.head ELSE main
    /\ review' = NoReview
    /\ UNCHANGED <<rules, surfaces, budgets>>

(* The nightly grader reads the default branch's declarations.             *)
ReadDeclarations ==
    /\ review.pc = "idle"
    /\ surfaces' = [tree |-> main, findings |-> InForce(main, "finding-surface"),
                    gates |-> InForce(main, "operator-gated")]
    /\ UNCHANGED <<main, rules, review, budgets>>

(* An administrator changes what one place requires, or whether it does.   *)
Administer(p, active, contexts) ==
    /\ Spend("edits")
    /\ rules' = [rules EXCEPT ![p] = [active |-> active, contexts |-> contexts]]
    /\ rules' # rules
    /\ review' = [review EXCEPT !.steady = {s \in @ : s[1] = p => active /\ s[2] \in contexts}]
    /\ UNCHANGED <<main, surfaces>>

GuardInit(tree) ==
    /\ main = tree
    /\ rules \in [Places -> {[active |-> FALSE, contexts |-> {}]}]
    /\ review = NoReview
    /\ surfaces = [tree |-> [f \in Files |-> NoText], findings |-> {}, gates |-> {}]
    /\ budgets \in Budgets

GuardNext ==
    \/ \E f \in Files, allow \in Allowlists : \E text \in Texts[f] : OpenPullRequest(f, text, allow)
    \/ ListRulesets
    \/ \E p \in RuleSets : ReadRuleset(p)
    \/ ReadClassic \/ HostFails \/ Grade \/ Close \/ ReadDeclarations
    \/ \E p \in Places, active \in BOOLEAN, contexts \in Requirements : Administer(p, active, contexts)

GuardSpec(tree) == GuardInit(tree) /\ [][GuardNext]_guardVars

-----------------------------------------------------------------------------
(* A context that the guard takes for covered though no job may carry it.  *)
Overmatched(tree, c) ==
    \E j \in LibText.jobs \cup UNION {tree[f].jobs : f \in Files} :
        \/ j.uses # "none" /\ c[Len(c)] \in Matched[j.label]
        \/ \E i \in DOMAIN c : c[i] \in Matched[j.label] \ Legs[j.label]

(* A head the guards passed reports, on a merge group, every check that    *)
(* one place required all through the reading: no entry of the queue waits *)
(* for a check that never comes.  Two kinds are excepted, which the guard  *)
(* takes for covered: the bare name of a job that calls a workflow, and a  *)
(* name a matrix's expression matches but its legs do not make             *)
(* (merge_queue.py's coverage_gaps).                                       *)
GreenMeansReported ==
    review.pc = "graded" /\ review.verdict = "green"
        => \A s \in review.steady : s[2] \in HostReports(review.head) \/ Overmatched(review.head, s[2])

(* On a head the guards passed, every job the host may run on a pull       *)
(* request is named in the allowlist with its reason, and a call of a      *)
(* workflow that is not read is admitted as one.                           *)
GreenPathIsDeclared ==
    review.pc = "graded" /\ review.verdict = "green"
        => \A f \in Files : \A j \in review.head[f].jobs :
              (review.head[f].on \cap PrEvents) \ ReallyExcludes(j.when) # {}
                 => /\ Key(f, j) \in DOMAIN review.allow.reasons
                    /\ review.allow.reasons[Key(f, j)] # "blank"
                    /\ j.uses # "none" => Key(f, j) \in review.allow.reusable

(* The nightly grader and the guard never disagree: whatever the default   *)
(* branch declares is in force, for steps the file has, and no tolerated   *)
(* step of a finding surface is left out by oversight.                     *)
DeclarationsBite ==
    \A f \in Files :
        LET text == surfaces.tree[f]
        IN /\ text.env.semantics \notin {"none", "execution-health"}
                 => f \in surfaces.findings \cup surfaces.gates
           /\ f \in surfaces.findings \cup surfaces.gates
                 => text.env.steps # {} /\ text.env.steps \subseteq StepNames(text)
           /\ f \in surfaces.findings => Tolerated(text) \subseteq text.env.steps \cup text.env.exempt

(* What a green head runs is declared, and what is declared is in force.   *)
GreenIsDeclared == GreenPathIsDeclared /\ DeclarationsBite
=============================================================================
