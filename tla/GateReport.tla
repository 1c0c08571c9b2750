------------------------------ MODULE GateReport ------------------------------
(***************************************************************************)
(* The daily gate report: jobs read the gates clause by clause, publish the*)
(* ladder, compare it with the previous day's, post the full update on the *)
(* rolling tracker issue, send the operator a headline that points at it,  *)
(* file a history row and rewrite the issue's index.  A recorder job posts *)
(* one record a day, unless the issue carries it already.                  *)
(*                                                                         *)
(* src/src/nousergon_lib/gates/ gives the operations (tracker.py,          *)
(* report.py, ladder.py); the jobs that call them live in the repositories *)
(* that adopt the package, and follow the order its docstrings fix.  A     *)
(* request may be refused, or take effect and lose its reply; the search   *)
(* index lags behind the issues; a failed job is run again.                *)
(***************************************************************************)
EXTENDS GateLadder

CONSTANTS
    Reporters, Recorders,   \* the jobs
    DayOf,                  \* job -> the trading day it is about
    FirstBoard,             \* the ladder published before the first day
    PageSize, PageCeiling,  \* how far a comment listing is followed
    Budget,                 \* the lines a headline may have
    ReportCasts,                  \* which jobs run together, and how often the store moves
    MaxFaults, MaxRetries

Jobs    == Reporters \cup Recorders
ReportDays    == {DayOf[j] : j \in Jobs}
Gates   == {Phases[i].gate : i \in DOMAIN Phases} \ {"none"}
Clauses == UNION {Range(ClausesOf[g]) : g \in Gates}
ClausesAt(i) == IF Phases[i].gate = "none" THEN <<>> ELSE ClausesOf[Phases[i].gate]

(* Every clause in the order it is read: <<phase, position>>.              *)
Positions == UNION {{<<i, k>> : k \in DOMAIN ClausesAt(i)} : i \in DOMAIN Phases}
Before(p, q) == p[1] < q[1] \/ (p[1] = q[1] /\ p[2] < q[2])

ASSUME ReportAssumption ==
    /\ Reporters \cap Recorders = {}
    /\ Len(Phases) \in Nat /\ DOMAIN Phases = 1 .. Len(Phases)
    /\ \A g \in Gates : /\ Len(ClausesOf[g]) \in Nat
                        /\ DOMAIN ClausesOf[g] = 1 .. Len(ClausesOf[g])

VARIABLES
    cast,       \* one of Casts
    evidence,   \* clause -> what its producer has left
    filed,      \* <<gate, day>> of the readings filed under gate_key
    board,      \* day -> the ladder published for it
    issues,     \* the comments of each open issue with the rolling title
    indexed,    \* how many of those the search index knows
    historyRows, \* the history rows, in key order
    index,      \* issue -> its body: day -> link
    chat,       \* the headlines the operator received
    job,        \* job -> where it is and what it holds
    raced,      \* a search, or a search and create, missed somebody's issue
    writes, faults, retries

reportVars == <<cast, evidence, filed, board, issues, indexed, historyRows, index, chat, job,
                raced, writes, faults, retries>>
store == <<cast, evidence, filed, board>>
tracker == <<issues, indexed, index, raced>>
limits == <<writes, faults, retries>>

(* ever: the clauses whose evidence was good at some moment of the job;    *)
(* knew: how many issues there were when it searched.                      *)
Idle == [pc |-> "idle", read |-> <<>>, ever |-> {}, payload |-> NoBoard, moved |-> {},
         issue |-> 0, link |-> NoLink, knew |-> 0]

Good(c) == evidence[c] \in {"good", "closed"}

ReportInit ==
    /\ cast \in ReportCasts
    /\ evidence = [c \in Clauses |-> IF c \in IssueClauses THEN "open" ELSE "good"]
    /\ filed = {} /\ board = [d \in ReportDays \cup {0} |-> IF d = 0 THEN FirstBoard ELSE NoBoard]
    /\ issues = <<>> /\ indexed = 0 /\ historyRows = <<>> /\ index = <<>> /\ chat = {}
    /\ job = [j \in Jobs |-> Idle] /\ raced = FALSE
    /\ writes = 0 /\ faults = 0 /\ retries = 0

Goto(j, pc)   == job' = [job EXCEPT ![j].pc = pc]
Outcomes      == {"ok", "refused", "lost"}
Charge(o)     == /\ o # "ok" => faults < MaxFaults
                 /\ faults' = IF o = "ok" THEN faults ELSE faults + 1
                 /\ UNCHANGED <<writes, retries>>

-----------------------------------------------------------------------------
(* The environment.                                                        *)

(* A producer, or whoever closes an issue, changes what a clause reads.    *)
(* Only changes some job may see half of are of interest.                  *)
Reading == \E j \in Jobs : job[j].pc = "reading"

Produce(c, content) ==
    /\ writes < cast.writes /\ Reading
    /\ evidence[c] # content
    /\ evidence' = [evidence EXCEPT ![c] = content]
    /\ writes' = writes + 1
    /\ job' = [j \in Jobs |->
                  IF content \in {"good", "closed"} /\ job[j].pc = "reading"
                  THEN [job[j] EXCEPT !.ever = @ \cup {c}] ELSE job[j]]
    /\ UNCHANGED <<cast, filed, board, tracker, historyRows, chat, faults, retries>>

(* The gate command files today's reading of a gate.                       *)
FileReading(g, d) ==
    /\ <<g, d>> \notin filed /\ writes < cast.writes /\ Reading
    /\ filed' = filed \cup {<<g, d>>}
    /\ writes' = writes + 1
    /\ UNCHANGED <<cast, evidence, board, tracker, historyRows, chat, job, faults, retries>>

(* The search index catches up with the next issue.                        *)
Reindex ==
    /\ indexed < Len(issues)
    /\ indexed' = indexed + 1
    /\ UNCHANGED <<store, issues, index, historyRows, chat, job, raced, limits>>

(* A job starts, or is started again after it failed.                      *)
Begin(j) ==
    /\ j \in cast.jobs
    /\ \/ job[j].pc = "idle" /\ UNCHANGED retries
       \/ job[j].pc = "failed" /\ retries < MaxRetries /\ retries' = retries + 1
    /\ job' = [job EXCEPT ![j] =
                  [Idle EXCEPT !.pc = IF j \in Reporters THEN "reading" ELSE "find",
                               !.ever = IF j \in Reporters THEN {c \in Clauses : Good(c)} ELSE {}]]
    /\ UNCHANGED <<store, tracker, historyRows, chat, writes, faults>>

-----------------------------------------------------------------------------
(* Reading the gates.                                                      *)

Unread(j) == {p \in Positions : \A q \in DOMAIN job[j].read : Before(q, p)}

NextUp(j) == CHOOSE q \in Unread(j) : \A r \in Unread(j) : r = q \/ Before(q, r)

(* One clause: its document or its issue is read, and a raise contained.   *)
ReadAt(p, denied) ==
    LET c == ClausesAt(p[1])[p[2]]
    IN  Contained(IF c \in IssueClauses
                  THEN ReadIssue(evidence[c], denied) ELSE ReadStoreDocument(evidence[c], denied))

ReadClause(j, denied) ==
    /\ job[j].pc = "reading" /\ Unread(j) # {}
    /\ LET p == NextUp(j)
       IN  job' = [job EXCEPT ![j].read =
                      [q \in DOMAIN @ \cup {p} |-> IF q = p THEN ReadAt(p, denied) ELSE @[q]]]
    /\ Charge(IF denied THEN "refused" ELSE "ok")
    /\ UNCHANGED <<store, tracker, historyRows, chat>>

Readings(j) ==
    [i \in DOMAIN Phases |-> [k \in DOMAIN ClausesAt(i) |-> job[j].read[<<i, k>>]]]

(* The ladder is assembled and published under the job's day.              *)
PublishLadder(j, refused) ==
    /\ job[j].pc = "reading" /\ Unread(j) = {}
    /\ LET payload == LadderPayload(BuildLadder(Readings(j), filed, refused))
       IN  /\ board' = [board EXCEPT ![DayOf[j]] = payload]
           /\ job' = [job EXCEPT ![j].payload = payload, ![j].pc = "compare"]
    /\ Charge(IF refused # {} THEN "refused" ELSE "ok")
    /\ UNCHANGED <<cast, evidence, filed, tracker, historyRows, chat>>

(* The previous day's ladder, denied or corrupt or read, and what moved    *)
(* since.                                                                  *)
Compare(j, unreadable) ==
    /\ job[j].pc = "compare"
    /\ LET m == MovedSince(ReadOptional(board[DayOf[j] - 1], unreadable), job[j].payload)
       IN  job' = [job EXCEPT ![j].moved = m.moves, ![j].pc = "find",
                                 ![j].read = <<>>, ![j].ever = {}]
    /\ Charge(IF unreadable THEN "refused" ELSE "ok")
    /\ UNCHANGED <<store, tracker, historyRows, chat>>

-----------------------------------------------------------------------------
(* The rolling issue.                                                      *)

(* The open issues with this exact title the search index answers: none,   *)
(* one, or too many to pick from.                                          *)
FindIssueByTitle(o) ==
    CASE o # "ok" \/ indexed > 1 -> "raise"
      [] OTHER -> IF indexed = 0 THEN "none" ELSE "one"

(* Mutant: a search that failed is a search that found nothing.            *)
FindOrCreateAnyway(j, o) ==
    /\ job[j].pc = "find"
    /\ job' = [job EXCEPT ![j].knew = Len(issues),
                          ![j].issue = IF FindIssueByTitle(o) = "one" THEN 1 ELSE 0,
                          ![j].pc = CASE FindIssueByTitle(o) = "one" -> "comments"
                                      [] o # "ok" -> "create"
                                      [] FindIssueByTitle(o) = "raise" -> "failed"
                                      [] OTHER -> "create"]
    /\ raced' = (raced \/ indexed < Len(issues))
    /\ o # "lost" /\ Charge(o)
    /\ UNCHANGED <<store, issues, indexed, index, historyRows, chat>>

FindOrCreate(j, o) ==
    /\ job[j].pc = "find"
    /\ job' = [job EXCEPT ![j].knew = Len(issues),
                          ![j].issue = IF FindIssueByTitle(o) = "one" THEN 1 ELSE 0,
                          ![j].pc = CASE FindIssueByTitle(o) = "one" -> "comments"
                                      [] FindIssueByTitle(o) = "raise" -> "failed"
                                      [] OTHER -> "create"]
    /\ raced' = (raced \/ indexed < Len(issues))
    /\ o # "lost" /\ Charge(o)
    /\ UNCHANGED <<store, issues, indexed, index, historyRows, chat>>

CreateIssue(j, o) ==
    /\ job[j].pc = "create"
    /\ IF o = "refused" THEN UNCHANGED <<issues, index>>
       ELSE issues' = Append(issues, <<>>) /\ index' = Append(index, <<>>)
    /\ IF o = "ok"
       THEN job' = [job EXCEPT ![j].issue = Len(issues) + 1, ![j].pc = "comments"]
       ELSE Goto(j, "failed")
    /\ Charge(o)
    /\ raced' = (raced \/ (o # "refused" /\ Len(issues) > job[j].knew))
    /\ UNCHANGED <<store, indexed, historyRows, chat>>

(* The strict listing: every page, or an error; a full last page at the    *)
(* ceiling is an error too.                                                *)
CommentBodies(comments) ==
    IF Len(comments) >= PageSize * PageCeiling THEN [ok |-> FALSE, bodies |-> {}]
    ELSE [ok |-> TRUE, bodies |-> {comments[i].about : i \in DOMAIN comments}]

About(j) == <<IF j \in Reporters THEN "update" ELSE "record", DayOf[j]>>

(* A recorder looks before it posts; a reporter's update is never skipped. *)
ListComments(j, o) ==
    /\ job[j].pc = "comments"
    /\ LET listed == CommentBodies(issues[job[j].issue])
       IN  Goto(j, CASE j \in Reporters -> "post"
                     [] j \notin Reporters /\ (o # "ok" \/ ~listed.ok) -> "failed"
                     [] OTHER -> IF About(j) \in listed.bodies THEN "done" ELSE "post")
    /\ o # "lost" /\ (j \in Reporters => o = "ok")
    /\ Charge(o)
    /\ UNCHANGED <<store, tracker, historyRows, chat>>

(* The comment's permalink is what the headline will carry: a reply that   *)
(* does not name it is an error.                                           *)
PostComment(j, o) ==
    /\ job[j].pc = "post"
    /\ LET i == job[j].issue
           link == <<i, Len(issues[i]) + 1>>
       IN  /\ IF o = "refused" THEN UNCHANGED issues
              ELSE issues' = [issues EXCEPT ![i] =
                       Append(@, [about |-> About(j), states |-> job[j].payload.states, by |-> j])]
           /\ job' = [job EXCEPT ![j].link = IF o = "ok" THEN link ELSE NoLink,
                                 ![j].pc = CASE o # "ok" -> "failed"
                                             [] OTHER -> IF j \in Reporters
                                                         THEN "headline" ELSE "done"]
    /\ Charge(o)
    /\ UNCHANGED <<store, indexed, index, raced, historyRows, chat>>

-----------------------------------------------------------------------------
(* The headline, the history row and the index.                            *)

WireLength(j) == 1 + Cardinality(job[j].moved)

(* A body over the budget raises; a delivery that was muted, suppressed or *)
(* reached nobody raises; so may one whose answer was lost on the way.     *)
Deliver(j, o) ==
    /\ job[j].pc = "headline"
    /\ LET fits == WireLength(j) <= Budget
           sent == [day |-> DayOf[j], link |-> job[j].link, states |-> job[j].payload.states]
       IN  /\ chat' = IF fits /\ o # "refused" THEN chat \cup {sent} ELSE chat
           /\ Goto(j, IF fits /\ o = "ok" THEN "history" ELSE "failed")
    /\ Charge(o)
    /\ UNCHANGED <<store, tracker, historyRows>>

(* The day's row is filed; it may land cut short.                          *)
FileHistoryRow(j, o) ==
    /\ job[j].pc = "history"
    /\ historyRows' = Append(historyRows, [day |-> DayOf[j], link |-> job[j].link,
                                           parses |-> o = "ok"])
    /\ o # "refused"
    /\ Goto(j, "index")
    /\ Charge(o)
    /\ UNCHANGED <<store, tracker, chat>>

(* The whole history is rendered into the issue's body, and only its body. *)
UpdateIssueBody(j, o) ==
    /\ job[j].pc = "index"
    /\ index' = IF o = "refused" THEN index
                ELSE [index EXCEPT ![job[j].issue] = RenderHistoryIndex(historyRows)]
    /\ Goto(j, IF o = "ok" THEN "done" ELSE "failed")
    /\ Charge(o)
    /\ UNCHANGED <<store, issues, indexed, raced, historyRows, chat>>

ReportNext ==
    \/ \E c \in Clauses : \E content \in IF c \in IssueClauses THEN {"open", "closed"}
                                         ELSE {"absent", "corrupt", "odd", "good"} :
          Produce(c, content)
    \/ \E g \in Gates, d \in ReportDays : FileReading(g, d)
    \/ Reindex
    \/ \E j \in Jobs :
          \/ Begin(j)
          \/ \E denied \in BOOLEAN : ReadClause(j, denied) \/ Compare(j, denied)
          \/ \E refused \in {{}} \cup {{g} : g \in Gates} : PublishLadder(j, refused)
          \/ \E o \in Outcomes :
                \/ FindOrCreate(j, o)
                \/ CreateIssue(j, o)
                \/ ListComments(j, o)
                \/ PostComment(j, o)
                \/ Deliver(j, o)
                \/ FileHistoryRow(j, o)
                \/ UpdateIssueBody(j, o)

ReportSpec == ReportInit /\ [][ReportNext]_reportVars

-----------------------------------------------------------------------------
(* Properties.                                                             *)

Exists(link) == link[1] \in DOMAIN issues /\ link[2] \in DOMAIN issues[link[1]]
Comment(link) == issues[link[1]][link[2]]

(* What the operator is shown is on the tracker: a headline, and a line of *)
(* the index that can be read, names a comment that exists, for the same   *)
(* day, carrying the same ladder, whatever replies were lost before it.    *)
HeadlineReachesItsUpdate ==
    /\ \A h \in chat : Exists(h.link) /\ Comment(h.link).about = <<"update", h.day>>
                       /\ Comment(h.link).states = h.states
    /\ \A i \in DOMAIN index : \A d \in DOMAIN index[i] :
          index[i][d] # <<"unreadable">> =>
              /\ Exists(index[i][d])
              /\ Comment(index[i][d]).about = <<"update", d>>

(* A phase a published ladder calls MET, and every phase before the one it *)
(* calls current, had at least one clause, and each of its clauses was good*)
(* at some moment while that job ran, though producers write and reads are *)
(* denied between one clause and the next.                                 *)
LadderClaimsAreEvidence ==
    \A j \in Reporters : job[j].pc = "compare" =>
        \A i \in DOMAIN Phases :
            \/ job[j].payload.states[i] # "MET"
            \/ ClausesAt(i) # <<>> /\ Range(ClausesAt(i)) \subseteq job[j].ever

(* Two open issues with the rolling title mean that some job searched while*)
(* an issue was not indexed yet, or that two jobs searched before either   *)
(* created: a failed or lost request alone never leads to a second one.    *)
DuplicateIssueNeedsRace ==
    Len(issues) > 1 => raced

(* A recorder that runs alone, however often its replies are lost and it is*)
(* started again, leaves one record on an issue.                           *)
RetryPostsNoSecondRecord ==
    \A i \in DOMAIN issues : \A k \in Recorders :
        Cardinality({n \in DOMAIN issues[i] : issues[i][n].by = k}) <= 1

(* What the operator is told of a ladder is evidence, and on the tracker.  *)
ShownIsTrue == HeadlineReachesItsUpdate /\ LadderClaimsAreEvidence

(* A lost reply and its retry leave neither a second issue nor a second    *)
(* record.                                                                 *)
RetryLeavesNoSecond == DuplicateIssueNeedsRace /\ RetryPostsNoSecondRecord
=============================================================================
