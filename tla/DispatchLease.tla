---------------------------- MODULE DispatchLease ----------------------------
(***************************************************************************)
(* The per-lane dispatch lease of nousergon_lib/dispatch_lease.py: an S3   *)
(* object created by PutObject(IfNoneMatch="*"), with a soft TTL carried   *)
(* in its body and no fencing of any kind.  Several callers (Lambda        *)
(* invocations) run acquire_lease concurrently; every S3 request is a step *)
(* of its own, so everything the code does between two requests can be     *)
(* interleaved with the requests of the other callers.                     *)
(*                                                                         *)
(* Time.  The code writes ttl_epoch = now + ttl into the body and only     *)
(* ever asks whether ttl_epoch > now.  A body therefore carries its        *)
(* REMAINING time to live, "left", which Tick lowers by one in every copy  *)
(* of every body: ttl_epoch > now is left > 0, and the clock needs no      *)
(* bound.  All callers are taken to read the same clock.                   *)
(***************************************************************************)
EXTENDS Naturals, FiniteSets

CONSTANTS
  Caller,       \* acquirers; the owner_id of the body is the caller
  TTLs,         \* the values of ttl_seconds that callers pass
  Forces,       \* the values of the force argument that callers pass
  Releases,     \* whether anybody calls release_lease
  MaxFaults,    \* bound: S3 errors, lost replies and killed callers
  NoLease,      \* no object under the key / no body
  Malformed     \* an object whose body does not parse

Holder == [owner : Caller, left : Nat]
Stored == Holder \cup {NoLease, Malformed}

ASSUME LeaseAssumption ==
  /\ TTLs \subseteq Nat
  /\ Forces \subseteq BOOLEAN
  /\ Releases \in BOOLEAN
  /\ MaxFaults \in Nat
  /\ NoLease # Malformed
  /\ NoLease \notin Holder
  /\ Malformed \notin Holder

VARIABLES
  lease,      \* the object stored under the lane's key
  pc,         \* where each caller stands in acquire_lease
  holder,     \* the body built on entry by each running call
  existing,   \* the body each call read back, as _read_existing_holder returns it
  grant,      \* the body of the acquired=True result a caller works under
  displaced,  \* history: callers whose unexpired grant another caller deleted
  faults      \* faults so far

vars == <<lease, pc, holder, existing, grant, displaced, faults>>

Steps == {"idle", "put", "read", "recover", "reput", "report",
          "forceDelete", "forcePut"}

TypeOK ==
  /\ lease \in Stored
  /\ pc \in [Caller -> Steps]
  /\ holder \in [Caller -> Holder \cup {NoLease}]
  /\ existing \in [Caller -> Holder \cup {NoLease}]
  /\ grant \in [Caller -> Holder \cup {NoLease}]
  /\ displaced \in SUBSET Caller
  /\ faults \in Nat

-----------------------------------------------------------------------------
\* existing is not None and existing.ttl_epoch > _now_epoch()
Unexpired(b) == b \in Holder /\ b.left > 0

\* A caller that holds an acquired=True result whose TTL has not elapsed.
Live(p) == Unexpired(grant[p])

\* The callers whose unexpired grant is lost when the stored object goes.
Victims == {q \in Caller : Live(q) /\ lease = grant[q]}

\* _build_holder: ttl_epoch = _now_epoch() + ttl_seconds.
BuildHolder(p, ttl) == [owner |-> p, left |-> ttl]

\* _read_existing_holder: None when the object is absent or malformed.
ReadHolder(obj) == IF obj \in Holder THEN obj ELSE NoLease

Init ==
  /\ lease \in {NoLease, Malformed}
  /\ pc = [p \in Caller |-> "idle"]
  /\ holder = [p \in Caller |-> NoLease]
  /\ existing = [p \in Caller |-> NoLease]
  /\ grant = [p \in Caller |-> NoLease]
  /\ displaced = {}
  /\ faults = 0

\* acquire_lease is entered: the body, and with it the expiry, is fixed before
\* the first request.  A caller starts a call when it works under no unexpired grant.
Call(p) ==
  /\ pc[p] = "idle"
  /\ ~Live(p)
  /\ \E ttl \in TTLs, force \in Forces :
       /\ holder' = [holder EXCEPT ![p] = BuildHolder(p, ttl)]
       /\ pc' = [pc EXCEPT ![p] = IF force THEN "forceDelete" ELSE "put"]
  /\ grant' = [grant EXCEPT ![p] = NoLease]
  /\ displaced' = displaced \ {p}
  /\ UNCHANGED <<lease, existing, faults>>

\* The call returns: its locals are gone.
Return(p) ==
  /\ pc' = [pc EXCEPT ![p] = "idle"]
  /\ holder' = [holder EXCEPT ![p] = NoLease]
  /\ existing' = [existing EXCEPT ![p] = NoLease]

\* A mutant of TryPut: the PUT is not conditional.
BlindPut(p, from, onConflict) ==
  /\ pc[p] = from
  /\ lease' = holder[p]
  /\ grant' = [grant EXCEPT ![p] = holder[p]]
  /\ Return(p)
  /\ UNCHANGED <<displaced, faults>>

\* _try_conditional_put.  The PUT lands only when no object is there.  Its reply
\* can be lost: the client library's own retry then meets the caller's own
\* object and the caller is told PreconditionFailed.
TryPut(p, from, onConflict) ==
  /\ pc[p] = from
  /\ \/ /\ lease = NoLease
        /\ lease' = holder[p]
        /\ grant' = [grant EXCEPT ![p] = holder[p]]
        /\ Return(p)
        /\ UNCHANGED faults
     \/ /\ lease = NoLease
        /\ faults < MaxFaults
        /\ faults' = faults + 1
        /\ lease' = holder[p]
        /\ pc' = [pc EXCEPT ![p] = onConflict]
        /\ UNCHANGED <<holder, existing, grant>>
     \/ /\ lease # NoLease
        /\ pc' = [pc EXCEPT ![p] = onConflict]
        /\ UNCHANGED <<lease, holder, existing, grant, faults>>
  /\ UNCHANGED displaced

\* _delete_best_effort by caller p: unconditional, whatever is stored now, and
\* an error is swallowed, so the caller goes on as if the object were gone.
DeleteBestEffort(p) ==
  \/ /\ lease' = NoLease
     /\ displaced' = displaced \cup (Victims \ {p})
     /\ UNCHANGED faults
  \/ /\ faults < MaxFaults
     /\ faults' = faults + 1
     /\ UNCHANGED <<lease, displaced>>

FirstPut(p) == TryPut(p, "put", "read")

\* The holder is read back after the conflict.
Read(p) ==
  /\ pc[p] = "read"
  /\ existing' = [existing EXCEPT ![p] = ReadHolder(lease)]
  /\ pc' = [pc EXCEPT ![p] = "recover"]
  /\ UNCHANGED <<lease, holder, grant, displaced, faults>>

\* The body read is unexpired: acquired=False, the lane is left alone.
Yield(p) ==
  /\ pc[p] = "recover"
  /\ Unexpired(existing[p])
  /\ Return(p)
  /\ UNCHANGED <<lease, grant, displaced, faults>>

\* A mutant of Recover: the TTL of the body read is not looked at.
RecoverUnchecked(p) ==
  /\ pc[p] = "recover"
  /\ DeleteBestEffort(p)
  /\ pc' = [pc EXCEPT ![p] = "reput"]
  /\ UNCHANGED <<holder, existing, grant>>

\* A mutant of Recover: the stale body is left where it is.
RecoverKeeping(p) ==
  /\ pc[p] = "recover"
  /\ ~Unexpired(existing[p])
  /\ pc' = [pc EXCEPT ![p] = "reput"]
  /\ UNCHANGED <<lease, holder, existing, grant, displaced, faults>>

\* The body read is stale or malformed: delete the object and try once more.
\* Staleness of a body already read cannot go away, so testing it here, with
\* the delete, allows every interleaving the code allows.
Recover(p) ==
  /\ pc[p] = "recover"
  /\ ~Unexpired(existing[p])
  /\ DeleteBestEffort(p)
  /\ pc' = [pc EXCEPT ![p] = "reput"]
  /\ UNCHANGED <<holder, existing, grant>>

SecondPut(p) == TryPut(p, "reput", "report")

\* force=True: delete without looking, then the same conditional PUT.
ForceDelete(p) ==
  /\ pc[p] = "forceDelete"
  /\ DeleteBestEffort(p)
  /\ pc' = [pc EXCEPT ![p] = "forcePut"]
  /\ UNCHANGED <<holder, existing, grant>>

ForcePut(p) == TryPut(p, "forcePut", "report")

\* Lost again: the conflicting body (or the caller's own, as a placeholder) is
\* read for the result, acquired=False, with no further attempt.
Report(p) ==
  /\ pc[p] = "report"
  /\ Return(p)
  /\ UNCHANGED <<lease, grant, displaced, faults>>

\* The call ends with an exception (an S3 error that is neither a conflict nor
\* a missing key), or its process is killed.  What it stored stays stored.
Abort(p) ==
  /\ pc[p] # "idle"
  /\ faults < MaxFaults
  /\ faults' = faults + 1
  /\ Return(p)
  /\ UNCHANGED <<lease, grant, displaced>>

\* release_lease, called by whatever observes the work of p as done, before or
\* after the TTL of p's grant: the delete names the key and not the holder.
Release(p) ==
  /\ Releases
  /\ grant[p] # NoLease
  /\ DeleteBestEffort(p)
  /\ grant' = [grant EXCEPT ![p] = NoLease]
  /\ UNCHANGED <<pc, holder, existing>>

\* One unit of time passes: every body, stored or in memory, is closer to expiry.
Dec(n) == IF n = 0 THEN 0 ELSE n - 1
Age(b) == IF b \in Holder THEN [b EXCEPT !.left = Dec(@)] ELSE b
AgeAll(f) == [p \in Caller |-> Age(f[p])]

Tick ==
  /\ lease' = Age(lease)
  /\ holder' = AgeAll(holder)
  /\ existing' = AgeAll(existing)
  /\ grant' = AgeAll(grant)
  /\ UNCHANGED <<pc, displaced, faults>>

Acquire(p) ==
  \/ FirstPut(p) \/ Read(p) \/ Yield(p) \/ Recover(p) \/ SecondPut(p)
  \/ ForceDelete(p) \/ ForcePut(p) \/ Report(p)

Next ==
  \/ \E p \in Caller : Call(p) \/ Acquire(p) \/ Abort(p) \/ Release(p)
  \/ Tick

Spec == Init /\ [][Next]_vars

(* A call that was entered goes on (it blocks on nothing), the schedule calls *)
(* acquire_lease again and again, and time passes.                            *)
Fairness ==
  /\ \A p \in Caller : WF_vars(Acquire(p)) /\ WF_vars(Call(p))
  /\ WF_vars(Tick)

FairSpec == Spec /\ Fairness
-----------------------------------------------------------------------------
(* Properties *)

\* A caller works beside another under an unexpired grant only if one of them
\* was displaced: whoever still owns the lane is alone.  This is what the
\* conditional PUT of _try_conditional_put is for.
OneHolderUnlessDisplaced ==
  \A p, q \in Caller :
    Live(p) /\ Live(q) /\ p \notin displaced /\ q \notin displaced => p = q

\* The object under the key is the evidence of an unexpired grant: it stays
\* there for the whole TTL, or it was deleted by somebody else.
LiveGrantIsStored ==
  \A p \in Caller : Live(p) => lease = grant[p] \/ p \in displaced

\* Whoever works under an unexpired grant and was not displaced is alone, and has the
\* object under the key to show for it.
LaneIsOwned == OneHolderUnlessDisplaced /\ LiveGrantIsStored

\* What the module documents ("it does not run beside it"): at most one caller
\* at a time works under an unexpired grant.
SingletonPerLane == \A p, q \in Caller : Live(p) /\ Live(q) => p = q

\* The only steps that take the lane from a caller with an unexpired grant: a
\* forced acquire, a release by a caller whose own lease is no longer the one
\* stored, and a recovery whose reading of the object is out of date.  A
\* recovery that deletes the very object it read never does.
DisplacementStep ==
  \A q \in displaced' \ displaced :
    \E p \in Caller \ {q} :
      \/ pc[p] = "forceDelete"
      \/ pc[p] = "recover" /\ existing[p] # lease
      \/ grant'[p] = NoLease /\ grant[p] \notin {NoLease, lease}
DisplacementNeedsRaceOrForce == [][DisplacementStep]_vars

\* A body that no longer holds the lane, stale or malformed, does not block it for
\* ever: some caller takes the lane without an operator (README, "a stale lease
\* self-recovers with no operator action").
Blocked == lease # NoLease /\ ~Unexpired(lease)
Taken == \E p \in Caller : grant[p] # NoLease /\ lease = grant[p]
StaleLeaseIsRetaken == Blocked ~> Taken
=============================================================================
