------------------------------ MODULE EgressProxy ------------------------------
(***************************************************************************)
(* The egress proxy, src/src/nousergon_lib/egress/proxy.py: every request  *)
(* runs in a thread of its own.  Its body's string leaves are scanned,     *)
(* those an earlier scan found clean excepted; a clean body is forwarded,  *)
(* once more if no usable answer came, and the answer relayed.             *)
(*                                                                         *)
(* The scanner and its rules (gitleaks), the upstream and the clients are  *)
(* external.  A rule set is a number, and Dirty gives the leaves it flags. *)
(***************************************************************************)
EXTENDS Integers, Sequences, FiniteSets, FiniteSetsExt, SequencesExt, Lists

CONSTANTS
    Requests,           \* the requests, one thread each
    Bodies,             \* the bodies a client may send: sequences of leaves
    NotJson,            \* a body that does not decode
    Dirty,              \* rule set -> the leaves it flags
    Capacity,           \* digests the cache holds
    MaxProxyFaults

Leaves   == UNION {Range(b) : b \in Bodies \ {NotJson}}
RuleSets == DOMAIN Dirty

\* Rule sets are numbered from 1, as they are edited; bodies are sequences.
ASSUME ProxyAssumption ==
    /\ RuleSets \subseteq Nat \ {0} /\ 1 \in RuleSets /\ Capacity \in Nat
    /\ \A b \in Bodies \ {NotJson} : b \in Seq(Leaves)

VARIABLES
    rules,      \* the rule set on disk
    clean,      \* the digests scanned clean, least recently used first
    signature,  \* the rule set the cache was last refreshed for
    req,        \* request -> where it is and what it holds
    counters,
    served,     \* request -> how often the upstream carried it out
    replies,    \* request -> the answers its client was sent
    straddled,  \* leaves marked clean by a scan that a newer refresh overtook
    proxyFaults

proxyVars == <<rules, clean, signature, req, counters, served, replies, straddled, proxyFaults>>
cleanCache == <<clean, signature, straddled>>
wire  == <<served, replies>>

Counters == {"requests", "forwarded_ok", "blocked_dlp", "blocked_scan_error", "upstream_errors",
             "upstream_retries", "salvaged_responses", "client_disconnects",
             "upstream_stream_aborts"}
NoRequest == [pc |-> "idle", body |-> <<>>, path |-> "good", sig |-> 0, new |-> <<>>, found |-> {},
              with |-> 0, at |-> 1, attempt |-> 1]

ProxyInit ==
    /\ rules = 1
    /\ clean = <<>> /\ signature = 0
    /\ req = [r \in Requests |-> NoRequest]
    /\ counters = [c \in Counters |-> 0]
    /\ served = [r \in Requests |-> 0] /\ replies = [r \in Requests |-> <<>>]
    /\ straddled = {} /\ proxyFaults = 0

ChargeProxy(bad) == /\ bad => proxyFaults < MaxProxyFaults
               /\ proxyFaults' = IF bad THEN proxyFaults + 1 ELSE proxyFaults
Add(cs)      == counters' = [c \in Counters |-> counters[c] + IF c \in cs THEN 1 ELSE 0]
Step(r, pc)  == req' = [req EXCEPT ![r].pc = pc]
(* A thread that is through, with its locals gone; one past its scan.      *)
End(r, pc)   == req' = [req EXCEPT ![r] = [NoRequest EXCEPT !.pc = pc, !.attempt = req[r].attempt]]
Passed(q)    == [q EXCEPT !.pc = "forward", !.new = <<>>, !.found = {}, !.with = 0, !.at = 1]
Reply(r, s) == replies' = [replies EXCEPT ![r] = Append(@, s)]

(* The rules are edited on disk.                                           *)
EditRules ==
    /\ rules + 1 \in RuleSets
    /\ rules' = rules + 1
    /\ UNCHANGED <<clean, signature, req, counters, wire, straddled, proxyFaults>>

(* A request is read whole; an empty body, and only that, is not scanned.  *)
Receive(r, body, path) ==
    /\ req[r].pc = "idle"
    /\ req' = [req EXCEPT ![r].body = body, ![r].path = path,
                          ![r].pc = IF body = <<>> THEN "forward" ELSE "scan"]
    /\ Add({"requests"})
    /\ UNCHANGED <<rules, cleanCache, wire, proxyFaults>>

-----------------------------------------------------------------------------
(* scan_for_secrets.                                                       *)

(* What does not decode is blocked; otherwise the signature of the rules   *)
(* is taken, outside the cache's lock.                                     *)
ReadSignature(r) ==
    /\ req[r].pc = "scan"
    /\ IF req[r].body = NotJson
       THEN End(r, "done") /\ Reply(r, "400") /\ Add({"blocked_dlp"})
       ELSE /\ req' = [req EXCEPT ![r].sig = rules, ![r].pc = "refresh"]
            /\ UNCHANGED <<replies, counters>>
    /\ UNCHANGED <<rules, cleanCache, served, proxyFaults>>

(* Mutant: new rules do not empty the cache.                               *)
RefreshKeepingClean(r) ==
    /\ req[r].pc = "refresh"
    /\ UNCHANGED <<clean, straddled>>
    /\ signature' = req[r].sig
    /\ Step(r, "lookup")
    /\ UNCHANGED <<rules, counters, wire, proxyFaults>>

RefreshConfig(r) ==
    /\ req[r].pc = "refresh"
    /\ IF signature # req[r].sig
       THEN clean' = <<>> /\ straddled' = {} ELSE UNCHANGED <<clean, straddled>>
    /\ signature' = req[r].sig
    /\ Step(r, "lookup")
    /\ UNCHANGED <<rules, counters, wire, proxyFaults>>

(* The position of a leaf in the cache; OrderedDict.move_to_end.            *)
Place(leaf) == CHOOSE i \in DOMAIN clean : clean[i] = leaf
MoveToEnd(leaf) == Append(RemoveAt(clean, Place(leaf)), leaf)

(* One leaf at a time, each under the cache's lock alone: met before in    *)
(* this body, found clean by an earlier scan (and moved to the recent end),*)
(* or new.  sig is brought down to the oldest rule set a hit may answer    *)
(* for: any one, for a leaf whose scan was overtaken.  A body that has     *)
(* nothing new is forwarded as it is.                                      *)
Looked(q) ==
    IF q.at <= Len(q.body) THEN q
    ELSE IF q.new = <<>> THEN Passed(q) ELSE [q EXCEPT !.pc = "gitleaks"]

Lookup(r) ==
    /\ req[r].pc = "lookup"
    /\ LET leaf == req[r].body[req[r].at]
           on   == [req[r] EXCEPT !.at = @ + 1]
           sure == IF leaf \in straddled THEN 0
                   ELSE IF signature < on.sig THEN signature ELSE on.sig
       IN  \/ /\ leaf \in Range(on.new)
              /\ req' = [req EXCEPT ![r] = Looked(on)] /\ UNCHANGED clean
           \/ /\ leaf \in Range(clean) \ Range(on.new)
              /\ clean' = MoveToEnd(leaf)
              /\ req' = [req EXCEPT ![r] = Looked([on EXCEPT !.sig = sure])]
           \/ /\ leaf \notin Range(clean) \cup Range(on.new)
              /\ req' = [req EXCEPT ![r] = Looked([on EXCEPT !.new = Append(@, leaf)])]
              /\ UNCHANGED clean
    /\ UNCHANGED <<rules, signature, straddled, counters, wire, proxyFaults>>

(* The scanner reads the rules as they are now: clean, findings, or an     *)
(* error or timeout, which fail closed.                                    *)
Gitleaks(r, ok) ==
    /\ req[r].pc = "gitleaks"
    /\ IF ok
       THEN /\ req' = [req EXCEPT ![r].found = Range(req[r].new) \cap Dirty[rules],
                                  ![r].with = rules, ![r].pc = "mark"]
            /\ UNCHANGED <<counters, replies>>
       ELSE End(r, "done") /\ Add({"blocked_scan_error"}) /\ Reply(r, "503")
    /\ ChargeProxy(~ok)
    /\ UNCHANGED <<rules, cleanCache, served>>

(* Put at the recent end, one after the other; the oldest give way.        *)
Marked(leaves) ==
    LET put == Among(clean, Range(clean) \ Range(leaves)) \o leaves
    IN  SubSeq(put, IF Len(put) > Capacity THEN Len(put) - Capacity + 1 ELSE 1, Len(put))

(* The clean leaves are remembered, on a block those no finding overlaps;  *)
(* a report that cannot be read localises nothing, and nothing is.         *)
MarkClean(r, readable) ==
    /\ req[r].pc = "mark"
    /\ LET spare == IF readable THEN req[r].found ELSE Range(req[r].new)
           keep == Among(req[r].new, Range(req[r].new) \ spare)
       IN  /\ clean' = Marked(keep)
           /\ straddled' = IF req[r].with # signature THEN straddled \cup Range(keep)
                           ELSE straddled
    /\ IF req[r].found = {}
       THEN readable /\ req' = [req EXCEPT ![r] = Passed(@)] /\ UNCHANGED <<counters, replies>>
       ELSE End(r, "done") /\ Add({"blocked_dlp"}) /\ Reply(r, "400")
    /\ ChargeProxy(~readable)
    /\ UNCHANGED <<rules, signature, served>>

-----------------------------------------------------------------------------
(* _forward and _relay.                                                    *)

(* What one attempt may come to, and whether the upstream carried the      *)
(* request out: an answer; an answer salvaged after the send broke, to a   *)
(* request it carried out all the same or, mostly, one it rejected early;  *)
(* an error of the transient kind before or after the upstream did its     *)
(* work; an error of no listed kind, which ends the thread unanswered.     *)
Salvaged == {"salvaged", "rejected"}
Attempts == {"answer", "unsent", "unanswered", "unlisted"} \cup Salvaged
CarriedOut(o) == o \in {"answer", "salvaged", "unanswered"}

(* A path with anything but the admitted characters is refused unsent.     *)
Admissible(path) == path # "bad"

Attempt(r, o) ==
    /\ req[r].pc = "forward"
    /\ IF ~Admissible(req[r].path)
       THEN /\ o = "answer" /\ UNCHANGED served
            /\ End(r, "done") /\ Add({"upstream_errors"}) /\ Reply(r, "502")
       ELSE /\ served' = [served EXCEPT ![r] = @ + IF CarriedOut(o) THEN 1 ELSE 0]
            /\ CASE o \in {"answer"} \cup Salvaged ->
                       Step(r, "relay") /\ UNCHANGED replies
                       /\ Add(IF o \in Salvaged THEN {"salvaged_responses"} ELSE {})
                 [] o = "unlisted" ->
                       End(r, "dropped") /\ UNCHANGED <<counters, replies>>
                 [] OTHER ->
                       IF req[r].attempt = 1
                       THEN /\ req' = [req EXCEPT ![r].attempt = 2]
                            /\ Add({"upstream_retries"}) /\ UNCHANGED replies
                       ELSE End(r, "done") /\ Add({"upstream_errors"}) /\ Reply(r, "502")
    /\ ChargeProxy(o # "answer")
    /\ UNCHANGED <<rules, cleanCache>>

RelayEnds == {"forwarded_ok", "client_disconnects", "upstream_stream_aborts"}

(* Mutant: an answer that broke off is asked for again.                    *)
RelayAgain(r, end) ==
    /\ req[r].pc = "relay"
    /\ IF end = "upstream_stream_aborts" THEN Step(r, "forward") ELSE End(r, "done")
    /\ Reply(r, "relayed")
    /\ Add({end})
    /\ ChargeProxy(end # "forwarded_ok")
    /\ UNCHANGED <<rules, cleanCache, served>>

(* Once a byte was relayed there is no retry and no other answer.          *)
Relay(r, end) ==
    /\ req[r].pc = "relay"
    /\ End(r, "done")
    /\ Reply(r, "relayed")
    /\ Add({end})
    /\ ChargeProxy(end # "forwarded_ok")
    /\ UNCHANGED <<rules, cleanCache, served>>

ProxyNext ==
    \/ EditRules
    \/ \E r \in Requests :
          \/ \E body \in Bodies, path \in {"good", "bad"} : Receive(r, body, path)
          \/ ReadSignature(r)
          \/ RefreshConfig(r)
          \/ Lookup(r)
          \/ \E ok \in BOOLEAN : Gitleaks(r, ok) \/ MarkClean(r, ok)
          \/ \E o \in Attempts : Attempt(r, o)
          \/ \E end \in RelayEnds : Relay(r, end)

ProxySpec == ProxyInit /\ [][ProxyNext]_proxyVars

-----------------------------------------------------------------------------
(* Properties.                                                             *)

(* A body on its way upstream is clean, leaf by leaf and whatever the cache*)
(* answered, under the rules its request or the cache was refreshed for    *)
(* when it looked, or under later ones; the one exception is a leaf whose  *)
(* scan another request's refresh overtook before it was marked.           *)
ForwardedIsClean ==
    \A r \in Requests : req[r].pc \in {"forward", "relay"} =>
        \A i \in DOMAIN req[r].body :
            \E v \in RuleSets : v >= req[r].sig /\ v <= rules /\ req[r].body[i] \notin Dirty[v]

(* The client's answer tells what the upstream did: one answer at most; a  *)
(* refusal (400, 503) means it was never asked, a relayed answer that it   *)
(* was asked at most twice, the second time only after the first attempt   *)
(* had no answer; and never again once anything was relayed.               *)
AnswerTellsWhatHappened ==
    \A r \in Requests :
        /\ Len(replies[r]) <= 1
        /\ replies[r] # <<>> =>
              CASE replies[r][1] \in {"400", "503"} -> served[r] = 0
                [] OTHER -> served[r] <= req[r].attempt

(* Nothing is counted twice or lost: the requests are those answered,      *)
(* counted by how they ended, those under way, and those whose thread died.*)
CountersAddUp ==
    LET ends == Counters \ {"requests", "upstream_retries", "salvaged_responses"}
    IN  counters["requests"] =
            FoldSet(LAMBDA c, n : counters[c] + n, 0, ends)
            + Cardinality({r \in Requests : req[r].pc \notin {"idle", "done"}})
=============================================================================
