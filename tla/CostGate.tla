------------------------------- MODULE CostGate -------------------------------
(***************************************************************************)
(* The pre-merge cost gate (src/src/nousergon_lib/cost_gate/grade.py,      *)
(* resource_map.py and cli.py): pull requests edit a repository's policy   *)
(* statements, resources, schedules and call sites, and the gate grades    *)
(* what each diff adds against the approved budget lines.                  *)
(*                                                                         *)
(* A tree gives every slot (a place in a file) an item or Nothing, and a   *)
(* text is the lines of its items.  An action pattern stands for the       *)
(* actions it matches (Acts).  A diff is taken from the merge base, so two *)
(* requests may be graded without each other.                              *)
(***************************************************************************)
EXTENDS Integers, FiniteSets

CONSTANTS
    Slots, FileOf,      \* the slots, and the file of each
    DocumentOf,         \* and the policy document each would be in, were it a statement
    Tests, Captures,    \* the files not graded at all, and those whose grants are not
    Variants,           \* slot -> the items it may hold
    Acts,               \* pattern -> the actions it matches, of Universe
    Universe, ServiceOf,    \* every action, and the service of each
    NotAService,        \* _NOT_A_SERVICE: prefixes that name no service
    Marked,             \* the patterns with "?" in them
    Globs,              \* the patterns with "*" or "?"
    Wildcards,          \* the patterns without a service of their own
    TypeService,        \* resource type -> billing prefix, or "unmapped"
    MinCronInterval,    \* schedule_rules.min_gha_cron_interval_minutes
    Ledgers,            \* the budget documents: [budgeted, free, freeActions, unapproved]
    Requests,           \* the pull requests open at once
    CostEdits, LedgerEdits  \* bounds

\* A pattern of a known service matches actions of that service only.
ASSUME CostAssumption ==
    /\ "*" \in DOMAIN Acts /\ Acts["*"] = Universe
    /\ \A p \in DOMAIN Acts : Acts[p] \subseteq Universe
    /\ \A p \in DOMAIN Acts \ Wildcards : \A a, b \in Acts[p] : ServiceOf[a] = ServiceOf[b]
    /\ \A s \in Slots : \A item \in Variants[s] :
          /\ item.kind = "statement" => item.actions \subseteq DOMAIN Acts
          /\ item.kind = "string" => item.action \in DOMAIN Acts

VARIABLES
    tree,       \* the default branch
    ledger,     \* the budget document of the installed library
    request,    \* request -> [pc, base, head, findings, noted, doc]
    excused,    \* ghost: what came to bill without the gate being shown it
    costBudget

costVars == <<tree, ledger, request, excused, costBudget>>

Nothing   == [kind |-> "nothing"]
NoRequest == [pc |-> "idle", base |-> [s \in Slots |-> Nothing], head |-> [s \in Slots |-> Nothing],
              findings |-> {}, noted |-> {}, doc |-> [budgeted |-> {}]]

-----------------------------------------------------------------------------
(* The approved set of a document.                                         *)
ApprovedPrefixes(doc) == doc.budgeted

FreeFor(doc, service) ==
    IF service \in DOMAIN doc.freeActions THEN doc.freeActions[service] ELSE {}
Narrowed(doc, service) == service \in DOMAIN doc.freeActions
Wholesale(doc) == ApprovedPrefixes(doc) \cup {s \in doc.free : ~Narrowed(doc, s)}

(* pattern_within: containment where it can be proven.                     *)
PatternWithin(inner, outer) ==
    IF inner \in Globs /\ (inner \in Marked \/ outer \in Marked) THEN inner = outer
    ELSE Acts[inner] \subseteq Acts[outer]

GlobsOverlap(a, b) == Acts[a] \cap Acts[b] # {}

PatternService(p) == CHOOSE s \in {ServiceOf[a] : a \in Acts[p]} : TRUE

GradeActionPattern(p, doc) ==
    IF p \in Wildcards THEN "wildcard"
    ELSE LET s == PatternService(p)
         IN IF \/ s \in NotAService
               \/ s \in doc.free /\ ~Narrowed(doc, s)
               \/ s \in doc.free /\ \E a \in FreeFor(doc, s) : PatternWithin(p, a)
               \/ s \in ApprovedPrefixes(doc)
            THEN "approved"
            ELSE IF s \in doc.unapproved THEN "unapproved"
            ELSE IF s \in doc.free THEN "narrowed-free" ELSE "no-line"

-----------------------------------------------------------------------------
(* The lines of a text, and those a diff adds: a setting that is left out  *)
(* (a condition, an expression, a retry policy) has no line, so that a     *)
(* diff which takes it away adds none.                                     *)
LineIf(written, line) == IF written THEN {line} ELSE {}

LinesOf(s, item) ==
    CASE item.kind = "statement" ->
            {<<s, "effect", item.effect>>, <<s, "key", item.key>>}
            \cup LineIf(~item.standing, <<s, "condition", "written">>)
            \cup {<<s, "value", a>> : a \in item.actions}
      [] item.kind = "resource" -> {<<s, "type", item.type>>}
      [] item.kind = "schedule" ->
            {<<s, "type", "schedule">>, <<s, "target", item.target>>}
            \cup LineIf(item.clock, <<s, "expression", "written">>)
            \cup LineIf(item.retry # "none", <<s, "retry", item.retry>>)
      [] item.kind = "client" -> {<<s, "client", item.service>>}
      [] item.kind = "string" -> {<<s, "value", item.action>>}
      [] item.kind = "call" -> {<<s, "call", item.real>>}
      [] item.kind = "cron" -> {<<s, "cron", item.minutes>>}
      [] item.kind = "syntax" -> {<<s, "syntax", item.broken>>}
      [] OTHER -> {}

Added(base, head) == UNION {LinesOf(s, head[s]) \ LinesOf(s, base[s]) : s \in Slots}

ItemsOf(t, kind)  == {s \in Slots : t[s].kind = kind}
Broken(t, file)   == \E s \in ItemsOf(t, "syntax") : FileOf[s] = file /\ t[s].broken

(* The standing Denies of a statement's policy document subtract what one  *)
(* of them covers alone; those of another document in the file do not.     *)
(* Mutant: a Deny under a condition subtracts as well.                     *)
WithStatement(t, at) ==
    {s \in ItemsOf(t, "statement") : FileOf[s] = FileOf[at] /\ DocumentOf[s] = DocumentOf[at]}
AnyDeny(t, at)        == {s \in WithStatement(t, at) : t[s].effect = "Deny"}
StandingDenies(t, at) == {s \in WithStatement(t, at) : t[s].effect = "Deny" /\ t[s].standing}

DeniedBy(p, t, at) ==
    \E s \in StandingDenies(t, at) :
        IF t[s].key = "NotAction" THEN ~ \E x \in t[s].actions : GlobsOverlap(p, x)
        ELSE \E d \in t[s].actions : PatternWithin(p, d)

(* A parsed file's values are graded as grants of their statements; a file *)
(* that does not parse, and source code, line by line: each value a grant  *)
(* whatever it is in, a bare "*" only where its own line has the key.      *)
GradeActionsStructurally(t, added, doc) ==
    UNION {{<<s, "grant", p>> : p \in
              {q \in t[s].actions : /\ <<s, "value", q>> \in added
                                    /\ IF t[s].key = "NotAction" THEN ~DeniedBy("*", t, s)
                                       ELSE /\ GradeActionPattern(q, doc) # "approved"
                                            /\ ~DeniedBy(q, t, s)}} :
           s \in {x \in ItemsOf(t, "statement") : /\ FileOf[x] \notin Tests \cup Captures
                                                  /\ t[x].effect # "Deny" /\ ~Broken(t, FileOf[x])}}

GradeBrokenFiles(t, added, doc) ==
    UNION {{<<s, "grant", p>> : p \in {q \in t[s].actions \ Wildcards :
              <<s, "value", q>> \in added /\ GradeActionPattern(q, doc) # "approved"}} :
           s \in {x \in ItemsOf(t, "statement") : /\ FileOf[x] \notin Tests \cup Captures
                                                  /\ Broken(t, FileOf[x])}}
GradeStrings(t, added, doc) ==
    {<<s, "grant", t[s].action>> : s \in
        {x \in ItemsOf(t, "string") : /\ FileOf[x] \notin Tests \cup Captures
                                      /\ t[x].keyed \/ t[x].action \notin Wildcards
                                      /\ <<x, "value", t[x].action>> \in added
                                      /\ GradeActionPattern(t[x].action, doc) # "approved"}}
GradeActionsByLine(t, added, doc) == GradeBrokenFiles(t, added, doc) \cup GradeStrings(t, added, doc)

GradeResources(t, added, doc) ==
    {<<s, "resource", t[s].type>> :
        s \in {x \in ItemsOf(t, "resource") : /\ <<x, "type", t[x].type>> \in added
                                              /\ FileOf[x] \notin Tests
                                              /\ TypeService[t[x].type] \notin Wholesale(doc)}}

GradeClients(t, added, doc) ==
    {<<s, "client", t[s].service>> :
        s \in {x \in ItemsOf(t, "client") : /\ <<x, "client", t[x].service>> \in added
                                            /\ FileOf[x] \notin Tests
                                            /\ t[x].service \notin Wholesale(doc) \cup NotAService}}

(* The billing prefix of a target: a literal service, or the type of the   *)
(* resource it names in the same template; else unresolved.                *)
ResolveTargetService(t, s) ==
    LET to == t[s].target
    IN IF to.slot \in Slots /\ t[to.slot].kind = "resource" /\ FileOf[to.slot] = FileOf[s]
       THEN TypeService[t[to.slot].type]
       ELSE IF to.slot \in Slots THEN "unmapped" ELSE to.service

(* Only a file one of whose added lines looks like a schedule is read for  *)
(* them, and only the schedules the diff touches are graded.               *)
TouchesASchedule(added, file) ==
    \E line \in added : /\ FileOf[line[1]] = file
                        /\ line[2] \in {"expression", "retry"} \/ line = <<line[1], "type", "schedule">>

Graded(t, added) ==
    {s \in ItemsOf(t, "schedule") : /\ t[s].clock /\ LinesOf(s, t[s]) \cap added # {}
                                    /\ FileOf[s] \notin Tests
                                    /\ TouchesASchedule(added, FileOf[s])}

GradeCfnSchedules(t, added, doc) ==
    {<<s, "retry", t[s].retry>> : s \in {x \in Graded(t, added) : t[x].retry # "bounded"}}
    \cup {<<s, "target", ResolveTargetService(t, s)>> :
          s \in {x \in Graded(t, added) :
                    ResolveTargetService(t, x) \notin Wholesale(doc) \cup {"unmapped"}}}

(* cron_interval_minutes, of the minutes an hour names (one, and the hour  *)
(* decides; here an hour is fixed).                                        *)
CronInterval(minutes) ==
    IF Cardinality(minutes) < 2 THEN 1440
    ELSE CHOOSE d \in 1 .. 59 : /\ \E a \in minutes : a + d \in minutes
                                /\ \A e \in 1 .. (d - 1) : ~ \E a \in minutes : a + e \in minutes

GradeGhaCrons(t, added) ==
    {<<s, "cron", t[s].minutes>> :
        s \in {x \in ItemsOf(t, "cron") : /\ <<x, "cron", t[x].minutes>> \in added
                                          /\ CronInterval(t[x].minutes) < MinCronInterval}}

(* What is counted as not graded, and passes.                              *)
Ungraded(t, added) ==
    {<<s, "target", "unmapped">> : s \in {x \in Graded(t, added) : ResolveTargetService(t, x) = "unmapped"}}
    \cup {<<s, "call", TRUE>> : s \in {x \in ItemsOf(t, "call") : <<x, "call", TRUE>> \in added}}

Findings(t, added, doc) ==
    GradeActionsStructurally(t, added, doc) \cup GradeActionsByLine(t, added, doc)
    \cup GradeResources(t, added, doc) \cup GradeClients(t, added, doc)
    \cup GradeCfnSchedules(t, added, doc) \cup GradeGhaCrons(t, added)

(* load_ssot: a document that approves nothing is refused.                 *)
LoadSsot(doc) == doc.budgeted # {} /\ doc.free # {}

-----------------------------------------------------------------------------
(* What bills for all that: the grants in force and what is built.         *)
ActionApproved(a, doc) ==
    \/ ServiceOf[a] \in doc.budgeted \cup NotAService
    \/ ServiceOf[a] \in doc.free
         /\ (Narrowed(doc, ServiceOf[a]) => \E p \in FreeFor(doc, ServiceOf[a]) : a \in Acts[p])

Named(item) ==
    IF item.key = "NotAction" THEN Universe \ UNION {Acts[p] : p \in item.actions}
    ELSE UNION {Acts[p] : p \in item.actions}

Denied(t, at) ==
    UNION {Named(t[s]) : s \in {x \in WithStatement(t, at) : t[x].effect = "Deny" /\ t[x].standing}}

Granted(t, s) ==
    IF t[s].effect = "Deny" \/ Broken(t, FileOf[s]) THEN {} ELSE Named(t[s]) \ Denied(t, s)

Services(doc) == doc.budgeted \cup {s \in doc.free : ~Narrowed(doc, s)}

(* A grant is named by its slot and an action; the others by slot and kind.*)
GrantsOf(t, doc, s)  == {<<s, "grant", a>> : a \in {b \in Granted(t, s) : ~ActionApproved(b, doc)}}
WrittenOf(t, doc, s) == {<<s, "grant", a>> : a \in {b \in Acts[t[s].action] : ~ActionApproved(b, doc)}}
BilledGrants(t, doc) ==
    UNION {GrantsOf(t, doc, s) : s \in {x \in ItemsOf(t, "statement") : FileOf[x] \notin Tests \cup Captures}}
BilledStrings(t, doc) ==
    UNION {WrittenOf(t, doc, s) : s \in {x \in ItemsOf(t, "string") : FileOf[x] \notin Tests \cup Captures}}
BilledResources(t, doc) ==
    {<<s, "resource", t[s].type>> : s \in {x \in ItemsOf(t, "resource") :
        FileOf[x] \notin Tests /\ TypeService[t[x].type] \notin Services(doc)}}
BilledClients(t, doc) ==
    {<<s, "client", t[s].service>> : s \in {x \in ItemsOf(t, "client") :
        FileOf[x] \notin Tests /\ t[x].service \notin Services(doc) \cup NotAService}}
BilledRetries(t) ==
    {<<s, "retry", t[s].retry>> : s \in {x \in ItemsOf(t, "schedule") :
        FileOf[x] \notin Tests /\ t[x].clock /\ t[x].retry # "bounded"}}
BilledTargets(t, doc) ==
    {<<s, "target", ResolveTargetService(t, s)>> : s \in {x \in ItemsOf(t, "schedule") :
        FileOf[x] \notin Tests /\ t[x].clock /\ ResolveTargetService(t, x) \notin Services(doc)}}

Billing(t, doc) ==
    BilledGrants(t, doc) \cup BilledStrings(t, doc) \cup BilledResources(t, doc)
    \cup BilledClients(t, doc) \cup BilledRetries(t) \cup BilledTargets(t, doc)

(* The lines whose addition shows the gate a thing that bills, of an item. *)
Shown(b, item, added) ==
    LET s == b[1]
    IN IF item.kind = "string"
       THEN <<s, "value", item.action>> \in added /\ (item.keyed \/ item.action \notin Wildcards)
       ELSE CASE b[2] = "grant" ->
                   \E p \in item.actions : /\ <<s, "value", p>> \in added
                                           /\ item.key = "NotAction" \/ b[3] \in Acts[p]
              [] b[2] \in {"retry", "target"} ->
                   LinesOf(s, item) \cap added # {} /\ TouchesASchedule(added, FileOf[s])
              [] OTHER -> LinesOf(s, item) \cap added # {}

-----------------------------------------------------------------------------
SpendCost(b) == costBudget[b] > 0 /\ costBudget' = [costBudget EXCEPT ![b] = @ - 1]

(* A request changes one slot, or two of one file, of the branch's head.   *)
OpenRequest(r, s, item) ==
    /\ request[r].pc = "idle" /\ item # tree[s] /\ SpendCost("edits")
    /\ request' = [request EXCEPT ![r] = [NoRequest EXCEPT !.pc = "open", !.base = tree,
                                                            !.head = [tree EXCEPT ![s] = item]]]
    /\ UNCHANGED <<tree, ledger, excused>>

AmendRequest(r, s, item) ==
    /\ request[r].pc = "open" /\ SpendCost("edits")
    /\ request[r].head[s] = request[r].base[s] /\ item # request[r].head[s]
    /\ request' = [request EXCEPT ![r].head[s] = item]
    /\ UNCHANGED <<tree, ledger, excused>>

(* The gate's run; a document or a merge base that cannot be read is red.  *)
RunGate(r) ==
    /\ request[r].pc = "open"
    /\ LET added == Added(request[r].base, request[r].head)
           found == Findings(request[r].head, added, ledger)
       IN request' = [request EXCEPT
              ![r].findings = found,
              ![r].noted = Ungraded(request[r].head, added),
              ![r].doc = ledger,
              ![r].pc = IF LoadSsot(ledger) /\ found = {} THEN "green" ELSE "red"]
    /\ UNCHANGED <<tree, ledger, excused, costBudget>>

(* A green request is merged, slot by slot, if no other changed the same.  *)
Merge(r) ==
    /\ request[r].pc = "green"
    /\ LET base == request[r].base
           head == request[r].head
           touched == {s \in Slots : head[s] # base[s]}
           merged  == [s \in Slots |-> IF s \in touched THEN head[s] ELSE tree[s]]
           added   == Added(base, head)
           arrived == Billing(merged, ledger) \ Billing(tree, ledger)
       IN /\ \A s \in touched : tree[s] = base[s]
          /\ tree' = merged
          /\ excused' = (excused \cap Billing(merged, ledger))
                            \cup {b \in arrived : \/ ~Shown(b, merged[b[1]], added)
                                                   \/ b \notin Billing(head, request[r].doc)
                                                   \/ b \in request[r].noted}
    /\ request' = [request EXCEPT ![r] = NoRequest]
    /\ UNCHANGED <<ledger, costBudget>>

Abandon(r) ==
    /\ request[r].pc \in {"red", "green"}
    /\ request' = [request EXCEPT ![r] = NoRequest]
    /\ UNCHANGED <<tree, ledger, excused, costBudget>>

(* The library is upgraded to another budget document: what it no longer   *)
(* approves was merged while it did.                                       *)
UpgradeLedger(doc) ==
    /\ doc # ledger /\ SpendCost("ledgers")
    /\ ledger' = doc
    /\ excused' = excused \cup Billing(tree, doc)
    /\ UNCHANGED <<tree, request>>

CostInit ==
    /\ ledger \in Ledgers
    /\ tree = [s \in Slots |-> Nothing]
    /\ request = [r \in Requests |-> NoRequest]
    /\ excused = {}
    /\ costBudget = [edits |-> CostEdits, ledgers |-> LedgerEdits]

CostNext ==
    \/ \E r \in Requests, s \in Slots : \E item \in Variants[s] \cup {Nothing} :
          OpenRequest(r, s, item) \/ AmendRequest(r, s, item)
    \/ \E r \in Requests : RunGate(r) \/ Merge(r) \/ Abandon(r)
    \/ \E doc \in Ledgers : UpgradeLedger(doc)

CostSpec == CostInit /\ [][CostNext]_costVars

-----------------------------------------------------------------------------
(* Whatever bills on the default branch without an approved budget line    *)
(* came in one of four ways: an edit that added none of its lines (a Deny  *)
(* or a retry policy taken away, an Effect turned, a target named anew), a *)
(* merge over a base the gate had not seen, a schedule counted as not      *)
(* graded, or a budget line withdrawn after it.  The gate lets nothing     *)
(* through that a diff shows it (grade.py's findings).                     *)
NoUnseenSpend == Billing(tree, ledger) \subseteq excused
=============================================================================
