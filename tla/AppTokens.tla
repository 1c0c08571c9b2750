------------------------------- MODULE AppTokens -------------------------------
(***************************************************************************)
(* The installation tokens of src/src/nousergon_lib/github_app.py: a cache *)
(* shared by the threads of one process, keyed by what was asked for, with *)
(* the lock held across the three credential reads and the mint.           *)
(*                                                                         *)
(* Time is counted in ticks.  The App's credentials are three parameters   *)
(* that a rotation replaces one at a time; a mint succeeds when the three  *)
(* belong together.  GitHub and the parameter store are external.          *)
(***************************************************************************)
EXTENDS Integers, Sequences, FiniteSets

CONSTANTS
    Threads,
    TokenRequests,      \* what may be asked for: permissions and repositories
    Life,               \* ticks GitHub gives a token
    AssumedLife,        \* ticks assumed when its expiry does not parse
    Margin,             \* a token this close to its end is minted again
    Horizon, MaxTokenFaults, MaxRotations

\* The assumed life is no longer than the real one, and outlasts the margin.
ASSUME TokenAssumption ==
    /\ Life \in Nat /\ AssumedLife \in Nat /\ Margin \in Nat
    /\ AssumedLife <= Life /\ Margin < AssumedLife
    /\ "free" \notin Threads

Parameters == {"app_id", "installation_id", "private_key"}

VARIABLES
    now,
    params,     \* parameter -> generation of its value in the store
    tokenCache, \* request -> token, for the requests served so far
    lock,       \* the thread holding _cache_lock, or "free"
    thread,     \* thread -> where it is, what it asked, read and was served
    cleared,    \* the generation in force when the cache was last cleared
    mints,      \* the mints since the last clear: <<key, tick, expiry, thread>>
    tokenFaults

tokenVars == <<now, params, tokenCache, lock, thread, cleared, mints, tokenFaults>>

NoToken == [for |-> "none", gen |-> 0, expires |-> 0, real |-> 0]
NoCall == [pc |-> "idle", asks |-> "none", read |-> <<>>, served |-> NoToken, at |-> 0]

TokenInit ==
    /\ now = 0
    /\ params = [p \in Parameters |-> 1]
    /\ tokenCache = <<>>
    /\ lock = "free"
    /\ thread = [t \in Threads |-> NoCall]
    /\ cleared = 0 /\ mints = {} /\ tokenFaults = 0

ExpiringWithin(token, margin) == token.expires - now <= margin

Tick ==
    /\ now < Horizon
    /\ now' = now + 1
    /\ UNCHANGED <<params, tokenCache, lock, thread, cleared, mints, tokenFaults>>

(* A rotation replaces the parameters one after the other.                 *)
Rotate(p) ==
    /\ \A q \in Parameters : params[q] >= params[p]
    /\ params[p] <= MaxRotations
    /\ params' = [params EXCEPT ![p] = @ + 1]
    /\ UNCHANGED <<now, tokenCache, lock, thread, cleared, mints, tokenFaults>>

Ask(t, request) ==
    /\ thread[t].pc \in {"idle", "served", "raised"}
    /\ thread' = [thread EXCEPT ![t] = [NoCall EXCEPT !.pc = "asked", !.asks = request]]
    /\ UNCHANGED <<now, params, tokenCache, lock, cleared, mints, tokenFaults>>

(* Mutant: the key is the prefix alone.                                    *)
PrefixKey(request) == "prefix"

(* The narrowing asked for is part of the key.                             *)
CacheKey(request) == request

Serve(t, token) ==
    [thread EXCEPT ![t] = [@ EXCEPT !.pc = "served", !.read = <<>>, !.served = token, !.at = now]]

(* The lock is taken, and a token with life left is served at once.        *)
Lock(t) ==
    /\ thread[t].pc = "asked" /\ lock = "free"
    /\ LET k == CacheKey(thread[t].asks)
           hit == k \in DOMAIN tokenCache /\ ~ExpiringWithin(tokenCache[k], Margin)
       IN  IF hit THEN thread' = Serve(t, tokenCache[k]) /\ UNCHANGED lock
           ELSE thread' = [thread EXCEPT ![t].pc = "reading"] /\ lock' = t
    /\ UNCHANGED <<now, params, tokenCache, cleared, mints, tokenFaults>>

Raise(t) == /\ thread' = [thread EXCEPT ![t] = [NoCall EXCEPT !.pc = "raised"]]
            /\ lock' = IF lock = t THEN "free" ELSE lock

(* The three parameters, in order; one that cannot be read raises.         *)
ReadOrder == <<"app_id", "installation_id", "private_key">>
ReadCredential(t, ok) ==
    /\ thread[t].pc = "reading" /\ Len(thread[t].read) < 3
    /\ IF ok
       THEN /\ thread' = [thread EXCEPT ![t].read =
                             Append(@, params[ReadOrder[Len(@) + 1]])]
            /\ UNCHANGED <<lock, tokenFaults>>
       ELSE tokenFaults < MaxTokenFaults /\ tokenFaults' = tokenFaults + 1 /\ Raise(t)
    /\ UNCHANGED <<now, params, tokenCache, cleared, mints>>

ParseExpiry(parses) == now + IF parses THEN Life ELSE AssumedLife

(* The mint: refused, or a token for exactly the request, cached under its *)
(* key and served.                                                         *)
MintInstallationToken(t, ok, parses) ==
    /\ thread[t].pc = "reading" /\ Len(thread[t].read) = 3
    /\ LET read == thread[t].read
           token == [for |-> thread[t].asks, gen |-> read[3], expires |-> ParseExpiry(parses),
                     real |-> now + Life]
           k == CacheKey(thread[t].asks)
       IN  IF ok /\ \A i \in 1 .. 3 : read[i] = read[1]
           THEN /\ tokenCache' = [c \in DOMAIN tokenCache \cup {k} |->
                                    IF c = k THEN token ELSE tokenCache[c]]
                /\ mints' = mints \cup {<<k, now, token.expires, t>>}
                /\ thread' = Serve(t, token)
                /\ lock' = IF lock = t THEN "free" ELSE lock
                /\ tokenFaults' = IF parses THEN tokenFaults ELSE tokenFaults + 1
                /\ parses \/ tokenFaults < MaxTokenFaults
           ELSE /\ ~ok => tokenFaults < MaxTokenFaults
                /\ tokenFaults' = IF ok THEN tokenFaults ELSE tokenFaults + 1
                /\ parses /\ Raise(t) /\ UNCHANGED <<tokenCache, mints>>
    /\ UNCHANGED <<now, params, cleared>>

(* Mutant: the cache is cleared without the lock.                          *)
ClearCacheUnlocked ==
    /\ cleared < params["private_key"]
    /\ tokenCache' = <<>> /\ mints' = {}
    /\ cleared' = IF \A p \in Parameters : params[p] = params["app_id"]
                  THEN params["app_id"] ELSE cleared
    /\ UNCHANGED <<now, params, lock, thread, tokenFaults>>

(* Called after a rotation, and by tests.                                  *)
ClearCache ==
    /\ lock = "free" /\ cleared < params["private_key"]
    /\ tokenCache' = <<>> /\ mints' = {}
    /\ cleared' = IF \A p \in Parameters : params[p] = params["app_id"]
                  THEN params["app_id"] ELSE cleared
    /\ UNCHANGED <<now, params, lock, thread, tokenFaults>>

TokenNext ==
    \/ Tick
    \/ \E p \in Parameters : Rotate(p)
    \/ ClearCache
    \/ \E t \in Threads :
          \/ \E request \in TokenRequests : Ask(t, request)
          \/ Lock(t)
          \/ \E ok \in BOOLEAN : ReadCredential(t, ok)
          \/ \E ok, parses \in BOOLEAN : MintInstallationToken(t, ok, parses)

TokenSpec == TokenInit /\ [][TokenNext]_tokenVars

-----------------------------------------------------------------------------
(* Properties.                                                             *)

TokenType == [for : TokenRequests \cup {"none"}, gen : Nat, expires : Nat, real : Nat]
CallType  == [pc : {"idle", "asked", "reading", "served", "raised"},
              asks : TokenRequests \cup {"none"}, read : Seq(Nat), served : TokenType, at : Nat]

(* Every variable holds a value of its kind.                               *)
TokenTypeOK ==
    /\ now \in Nat /\ cleared \in Nat
    /\ params \in [Parameters -> Nat]
    /\ DOMAIN tokenCache \subseteq TokenRequests \cup {"none"}
    /\ \A k \in DOMAIN tokenCache : tokenCache[k] \in TokenType
    /\ lock \in Threads \cup {"free"}
    /\ thread \in [Threads -> CallType]
    /\ mints \subseteq (TokenRequests \cup {"none"}) \X Nat \X Nat \X Threads

(* What a caller is handed was minted for what it asked, never for a wider *)
(* request of somebody else in the process, and GitHub honours it for at   *)
(* least the margin beyond the moment it is handed over.                   *)
TokenFitsRequest ==
    \A t \in Threads : thread[t].pc = "served" =>
        /\ thread[t].served.for = thread[t].asks
        /\ thread[t].served.real - thread[t].at > Margin

(* Concurrent callers do not stampede the mint: between two clears a       *)
(* request is minted again only once the token before it was about to      *)
(* expire.                                                                 *)
NoStampede ==
    \A a, b \in mints : (a # b /\ a[1] = b[1] /\ a[2] <= b[2]) => a[3] - b[2] <= Margin

(* A cache cleared once a rotation is complete holds nothing minted from   *)
(* the credentials before it, though a thread was amid its mint.           *)
ClearedHoldsNoOldToken ==
    \A k \in DOMAIN tokenCache : tokenCache[k].gen >= cleared

(* The cache neither mints what it holds nor holds what was revoked.       *)
CacheIsSound == NoStampede /\ ClearedHoldsNoOldToken
=============================================================================
