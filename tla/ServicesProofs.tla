---------------------------- MODULE ServicesProofs ----------------------------
(*****************************************************************************)
(* Proofs about the services that threads and jobs share: the token cache,   *)
(* the egress proxy, and the tracker the gate reports go to.                 *)
(*****************************************************************************)
EXTENDS AppTokens, EgressProxy, GateReport, DataLemmas

-----------------------------------------------------------------------------
(* What the threads that share the token cache are handed, and what it      *)
(* holds.                                                                 *)

\* Only the thread that holds the lock is amid a mint.
LockIsHeld == \A t \in Threads : thread[t].pc = "reading" <=> lock = t

\* A cached token is what its key asks for, and lives at least as long as it says.
CachedFits ==
  \A k \in DOMAIN tokenCache :
    tokenCache[k].for = k /\ tokenCache[k].expires <= tokenCache[k].real

\* No credential is older than the last clear: in the store, in hand, in the cache.
NothingCleared ==
  /\ \A p \in Parameters : params[p] >= cleared
  /\ \A t \in Threads : thread[t].pc = "reading" =>
       \A i \in 1 .. Len(thread[t].read) : thread[t].read[i] >= cleared
  /\ \A t \in Threads : thread[t].pc # "reading" => thread[t].read = <<>>
  /\ ClearedHoldsNoOldToken

\* What was minted since the last clear is cached, or was replaced as it expired.
MintsAreCached ==
  \A a \in mints :
    /\ a[2] <= now /\ a[3] - a[2] > Margin
    /\ a[1] \in DOMAIN tokenCache
    /\ a[3] <= tokenCache[a[1]].expires \/ a[3] - now <= Margin

\* A thread amid a mint has seen that nothing minted for its request is still good.
MintIsDue ==
  \A t \in Threads : thread[t].pc = "reading" =>
    \A a \in mints : a[1] = thread[t].asks => a[3] - now <= Margin

IInv ==
  /\ TokenTypeOK /\ LockIsHeld /\ CachedFits /\ NothingCleared
  /\ MintsAreCached /\ MintIsDue /\ NoStampede /\ TokenFitsRequest

LEMMA InitHolds ==
  ASSUME TokenInit PROVE IInv
<1>1. TokenTypeOK
  BY DEF TokenInit, TokenTypeOK, NoCall, NoToken, CallType, TokenType, Parameters
<1>2. LockIsHeld /\ MintIsDue /\ TokenFitsRequest
  BY TokenAssumption DEF TokenInit, LockIsHeld, MintIsDue, TokenFitsRequest, NoCall
<1>3. CachedFits /\ ClearedHoldsNoOldToken /\ NoStampede /\ MintsAreCached
  BY DEF TokenInit, CachedFits, ClearedHoldsNoOldToken, NoStampede, MintsAreCached
<1>4. NothingCleared
  BY <1>3 DEF TokenInit, NothingCleared, NoCall, Parameters
<1> QED  BY <1>1, <1>2, <1>3, <1>4 DEF IInv

-----------------------------------------------------------------------------
(* One lemma per action *)

LEMMA TickStep ==
  ASSUME IInv, Tick PROVE IInv'
<1> USE TokenAssumption DEF IInv, Tick
<1>1. TokenTypeOK'
  BY DEF TokenTypeOK
<1>2. LockIsHeld' /\ CachedFits' /\ TokenFitsRequest' /\ NoStampede'
  BY DEF LockIsHeld, CachedFits, TokenFitsRequest, NoStampede
<1>3. NothingCleared'
  BY DEF NothingCleared, ClearedHoldsNoOldToken
<1>4. MintsAreCached' /\ MintIsDue'
  BY DEF MintsAreCached, MintIsDue, TokenTypeOK
<1> QED  BY <1>1, <1>2, <1>3, <1>4

LEMMA RotateStep ==
  ASSUME IInv, NEW p \in Parameters, Rotate(p) PROVE IInv'
<1> USE DEF IInv, Rotate
<1>1. TokenTypeOK'
  BY DEF TokenTypeOK
<1>2. LockIsHeld' /\ CachedFits' /\ TokenFitsRequest' /\ NoStampede'
  BY DEF LockIsHeld, CachedFits, TokenFitsRequest, NoStampede
<1>3. NothingCleared'
  <2>1. \A q \in Parameters : params'[q] >= cleared'
    BY DEF NothingCleared, TokenTypeOK
  <2> QED  BY <2>1 DEF NothingCleared, ClearedHoldsNoOldToken
<1>4. MintsAreCached' /\ MintIsDue'
  BY DEF MintsAreCached, MintIsDue
<1> QED  BY <1>1, <1>2, <1>3, <1>4

\* Asking, and raising, touch only the caller, which is then not amid a mint.
LEMMA AskStep ==
  ASSUME IInv, NEW t \in Threads, NEW r \in TokenRequests, Ask(t, r) PROVE IInv'
<1> USE TokenAssumption DEF IInv, Ask
<1>1. thread' = [thread EXCEPT ![t] = [NoCall EXCEPT !.pc = "asked", !.asks = r]]
      /\ thread[t].pc # "reading"
  OBVIOUS
<1>2. TokenTypeOK'
  <2>0. NoCall \in CallType
    BY DEF NoCall, NoToken, CallType, TokenType
  <2>1. [NoCall EXCEPT !.pc = "asked", !.asks = r] \in CallType
    BY <2>0 DEF CallType
  <2>2. thread' \in [Threads -> CallType]
    BY <1>1, <2>1 DEF TokenTypeOK
  <2> QED  BY <2>2 DEF TokenTypeOK
<1>3. \A u \in Threads : thread'[u].pc = "reading" <=> u # t /\ thread[u].pc = "reading"
  BY <1>1 DEF TokenTypeOK, NoCall
<1>4. \A u \in Threads \ {t} : thread'[u] = thread[u]
  BY <1>1 DEF TokenTypeOK
<1>5. thread'[t].pc = "asked" /\ thread'[t].read = <<>>
  BY <1>1 DEF TokenTypeOK, NoCall
<1>6. LockIsHeld' /\ CachedFits' /\ TokenFitsRequest' /\ NoStampede'
  BY <1>1, <1>3, <1>4, <1>5 DEF LockIsHeld, CachedFits, TokenFitsRequest, NoStampede
<1>7. NothingCleared'
  BY <1>3, <1>4, <1>5 DEF NothingCleared, ClearedHoldsNoOldToken
<1>8. MintsAreCached' /\ MintIsDue'
  BY <1>3, <1>4 DEF MintsAreCached, MintIsDue
<1> QED  BY <1>2, <1>6, <1>7, <1>8

LEMMA LockStep ==
  ASSUME IInv, NEW t \in Threads, Lock(t) PROVE IInv'
<1> USE TokenAssumption DEF IInv
<1> DEFINE k == thread[t].asks
           hit == k \in DOMAIN tokenCache /\ ~ExpiringWithin(tokenCache[k], Margin)
<1>1. /\ thread[t].pc = "asked" /\ lock = "free"
      /\ IF hit THEN thread' = Serve(t, tokenCache[k]) /\ lock' = lock
         ELSE thread' = [thread EXCEPT ![t].pc = "reading"] /\ lock' = t
      /\ UNCHANGED <<now, params, tokenCache, cleared, mints, tokenFaults>>
  BY DEF Lock, CacheKey
<1>2. CachedFits' /\ NoStampede' /\ MintsAreCached' /\ ClearedHoldsNoOldToken'
  BY <1>1 DEF CachedFits, NoStampede, MintsAreCached, NothingCleared, ClearedHoldsNoOldToken
<1>3. \A u \in Threads \ {t} : thread'[u] = thread[u] /\ thread[u].pc # "reading"
  BY <1>1 DEF Serve, TokenTypeOK, LockIsHeld
<1>4. CASE hit
  <2>1. thread'[t] = [thread[t] EXCEPT !.pc = "served", !.read = <<>>,
                                       !.served = tokenCache[k], !.at = now]
    BY <1>1, <1>4 DEF Serve, TokenTypeOK
  <2>2. TokenTypeOK'
    <3>1. thread[t] \in CallType /\ tokenCache[k] \in TokenType /\ now \in Nat
      BY <1>4 DEF TokenTypeOK
    <3>2. thread'[t] \in CallType
      <4>1. <<>> \in Seq(Nat)
        OBVIOUS
      <4> QED  BY <2>1, <3>1, <4>1 DEF CallType
    <3>3. thread' \in [Threads -> CallType]
      BY <1>1, <1>4, <3>2 DEF TokenTypeOK, Serve
    <3> QED  BY <1>1, <1>4, <3>3 DEF TokenTypeOK
  <2>3. thread'[t].pc = "served" /\ thread'[t].asks = k /\ thread'[t].served = tokenCache[k]
        /\ thread'[t].at = now /\ thread'[t].read = <<>>
    BY <2>1 DEF TokenTypeOK, CallType
  <2>4. tokenCache[k].for = k /\ tokenCache[k].real - now > Margin
    <3>1. tokenCache[k] \in TokenType
      BY <1>4 DEF TokenTypeOK
    <3> QED  BY <1>4, <3>1 DEF CachedFits, ExpiringWithin, TokenTypeOK, TokenType
  <2>5. TokenFitsRequest'
    BY <1>3, <2>3, <2>4 DEF TokenFitsRequest
  <2>6. LockIsHeld' /\ MintIsDue'
    BY <1>1, <1>3, <1>4, <2>3 DEF LockIsHeld, MintIsDue
  <2>7. NothingCleared'
    BY <1>1, <1>2, <1>3, <2>3 DEF NothingCleared
  <2> QED  BY <1>2, <2>2, <2>5, <2>6, <2>7
<1>5. CASE ~hit
  <2>1. thread'[t] = [thread[t] EXCEPT !.pc = "reading"] /\ lock' = t
    BY <1>1, <1>5 DEF TokenTypeOK
  <2>2. TokenTypeOK'
    <3>1. thread'[t] \in CallType
      BY <2>1 DEF TokenTypeOK, CallType
    <3>2. thread' \in [Threads -> CallType]
      BY <1>1, <1>5, <3>1 DEF TokenTypeOK
    <3> QED  BY <1>1, <1>5, <3>2 DEF TokenTypeOK
  <2>3. thread'[t].pc = "reading" /\ thread'[t].asks = k /\ thread'[t].read = thread[t].read
    BY <2>1 DEF TokenTypeOK, CallType
  <2>4. LockIsHeld' /\ TokenFitsRequest'
    BY <1>3, <2>1, <2>3 DEF LockIsHeld, TokenFitsRequest
  <2>5. \A a \in mints : a[1] = k => a[3] - now <= Margin
    <3> SUFFICES ASSUME NEW a \in mints, a[1] = k PROVE a[3] - now <= Margin
      OBVIOUS
    <3>1. k \in DOMAIN tokenCache /\ tokenCache[k] \in TokenType /\ a[3] \in Nat
      BY DEF MintsAreCached, TokenTypeOK
    <3>2. tokenCache[k].expires - now <= Margin
      BY <1>5, <3>1 DEF ExpiringWithin
    <3> QED  BY <3>1, <3>2 DEF MintsAreCached, TokenTypeOK, TokenType
  <2>6. MintIsDue'
    BY <1>1, <1>3, <2>3, <2>5 DEF MintIsDue
  <2>7. NothingCleared'
    <3>1. thread'[t].read = <<>> /\ Len(<<>>) = 0
      BY <1>1, <2>3 DEF NothingCleared
    <3>2. 1 .. 0 = {}
      OBVIOUS
    <3> QED  BY <1>1, <1>2, <1>3, <2>3, <3>1, <3>2 DEF NothingCleared
  <2> QED  BY <1>2, <2>2, <2>4, <2>6, <2>7
<1> QED  BY <1>4, <1>5

\* A thread that raises amid a mint lets the lock go and leaves the cache as it was.
LEMMA RaiseStep ==
  ASSUME IInv, NEW t \in Threads, thread[t].pc = "reading", Raise(t),
         UNCHANGED <<now, params, tokenCache, cleared, mints>>
  PROVE  IInv'
<1> USE TokenAssumption DEF IInv
<1>1. lock = t /\ lock' = "free"
  BY DEF LockIsHeld, Raise
<1>2. TokenTypeOK'
  <2>1. NoCall \in CallType
    BY DEF NoCall, NoToken, CallType, TokenType
  <2>2. [NoCall EXCEPT !.pc = "raised"] \in CallType
    BY <2>1 DEF CallType
  <2>3. thread' \in [Threads -> CallType]
    BY <2>2 DEF TokenTypeOK, Raise
  <2> QED  BY <1>1, <2>3 DEF TokenTypeOK
<1>3. \A u \in Threads \ {t} : thread'[u] = thread[u] /\ thread[u].pc # "reading"
  BY <1>1 DEF TokenTypeOK, Raise, LockIsHeld
<1>4. thread'[t].pc = "raised" /\ thread'[t].read = <<>>
  BY DEF TokenTypeOK, NoCall, Raise
<1>5. LockIsHeld' /\ TokenFitsRequest' /\ MintIsDue'
  BY <1>1, <1>3, <1>4 DEF LockIsHeld, TokenFitsRequest, MintIsDue
<1>6. CachedFits' /\ NoStampede' /\ MintsAreCached'
  BY DEF CachedFits, NoStampede, MintsAreCached
<1>7. NothingCleared'
  BY <1>3, <1>4 DEF NothingCleared, ClearedHoldsNoOldToken
<1> QED  BY <1>2, <1>5, <1>6, <1>7

LEMMA ReadStep ==
  ASSUME IInv, NEW t \in Threads, NEW ok \in BOOLEAN, ReadCredential(t, ok) PROVE IInv'
<1>1. CASE ~ok
  BY <1>1, RaiseStep DEF ReadCredential
<1>2. CASE ok
  <2> USE TokenAssumption DEF IInv
  <2> DEFINE read == thread[t].read
             value == params[ReadOrder[Len(read) + 1]]
  <2>1. /\ thread[t].pc = "reading" /\ Len(read) < 3
        /\ thread' = [thread EXCEPT ![t] = [@ EXCEPT !.read = Append(read, value)]]
        /\ UNCHANGED <<now, params, tokenCache, lock, cleared, mints>>
    BY <1>2 DEF ReadCredential
  <2>2. read \in Seq(Nat) /\ Len(read) \in Nat
    BY DEF TokenTypeOK, CallType
  <2>3. value \in Nat /\ value >= cleared
    <3>1. Len(read) + 1 \in 1 .. 3
      BY <2>1, <2>2
    <3>2. ReadOrder[Len(read) + 1] \in Parameters
      BY <3>1 DEF ReadOrder, Parameters
    <3> QED  BY <3>2 DEF TokenTypeOK, NothingCleared
  <2>4. thread'[t] = [thread[t] EXCEPT !.read = Append(read, value)]
    BY <2>1 DEF TokenTypeOK
  <2>5. Append(read, value) \in Seq(Nat)
    BY <2>2, <2>3
  <2>6. TokenTypeOK'
    <3>1. thread'[t] \in CallType
      BY <2>4, <2>5 DEF TokenTypeOK, CallType
    <3>2. thread' \in [Threads -> CallType]
      BY <2>1, <3>1 DEF TokenTypeOK
    <3> QED  BY <2>1, <3>2 DEF TokenTypeOK
  <2>7. thread'[t].pc = "reading" /\ thread'[t].asks = thread[t].asks
        /\ thread'[t].read = Append(read, value)
    BY <2>1, <2>4 DEF TokenTypeOK, CallType
  <2>8. \A u \in Threads \ {t} : thread'[u] = thread[u]
    BY <2>1 DEF TokenTypeOK
  <2>9. LockIsHeld' /\ TokenFitsRequest' /\ MintIsDue'
    BY <2>1, <2>7, <2>8 DEF LockIsHeld, TokenFitsRequest, MintIsDue
  <2>10. CachedFits' /\ NoStampede' /\ MintsAreCached'
    BY <2>1 DEF CachedFits, NoStampede, MintsAreCached
  <2>11. NothingCleared'
    <3>1. \A i \in 1 .. Len(Append(read, value)) : Append(read, value)[i] >= cleared
      <4> SUFFICES ASSUME NEW i \in 1 .. Len(Append(read, value))
                   PROVE  Append(read, value)[i] >= cleared
        OBVIOUS
      <4>1. Len(Append(read, value)) = Len(read) + 1
        BY <2>2
      <4>2. CASE i = Len(read) + 1
        BY <2>2, <2>3, <4>2
      <4>3. CASE i # Len(read) + 1
        <5>1. i \in 1 .. Len(read)
          BY <2>2, <4>1, <4>3
        <5>2. Append(read, value)[i] = read[i]
          BY <2>2, <5>1
        <5> QED  BY <2>1, <5>1, <5>2 DEF NothingCleared
      <4> QED  BY <4>2, <4>3
    <3> QED  BY <2>1, <2>7, <2>8, <3>1 DEF NothingCleared, ClearedHoldsNoOldToken
  <2> QED  BY <2>6, <2>9, <2>10, <2>11
<1> QED  BY <1>1, <1>2

LEMMA ClearStep ==
  ASSUME IInv, ClearCache PROVE IInv'
<1> USE TokenAssumption DEF IInv, ClearCache
<1>1. cleared' \in Nat /\ \A p \in Parameters : params[p] >= cleared'
  BY DEF TokenTypeOK, NothingCleared, Parameters
<1>2. \A t \in Threads : thread[t].pc # "reading"
  BY DEF LockIsHeld
<1>3. DOMAIN <<>> = {}
  OBVIOUS
<1>4. TokenTypeOK'
  BY <1>1, <1>3 DEF TokenTypeOK
<1>5. LockIsHeld' /\ TokenFitsRequest' /\ MintIsDue' /\ NoStampede' /\ MintsAreCached'
  BY <1>2 DEF LockIsHeld, TokenFitsRequest, MintIsDue, NoStampede, MintsAreCached
<1>6. CachedFits' /\ ClearedHoldsNoOldToken'
  BY <1>3 DEF CachedFits, ClearedHoldsNoOldToken
<1>7. NothingCleared'
  BY <1>1, <1>2, <1>6 DEF NothingCleared
<1> QED  BY <1>4, <1>5, <1>6, <1>7

\* A mint comes after every token its request was given before is about to expire.
LEMMA MintStep ==
  ASSUME IInv, NEW t \in Threads, NEW ok \in BOOLEAN, NEW parses \in BOOLEAN,
         MintInstallationToken(t, ok, parses)
  PROVE  IInv'
<1> DEFINE read == thread[t].read
           k == thread[t].asks
           token == [for |-> k, gen |-> read[3], expires |-> ParseExpiry(parses),
                     real |-> now + Life]
           minted == ok /\ \A i \in 1 .. 3 : read[i] = read[1]
<1>1. CASE ~minted
  BY <1>1, RaiseStep DEF MintInstallationToken, CacheKey
<1>2. CASE minted
  <2> USE TokenAssumption DEF IInv
  <2>1. /\ thread[t].pc = "reading" /\ Len(read) = 3
        /\ tokenCache' = [c \in DOMAIN tokenCache \cup {k} |->
                            IF c = k THEN token ELSE tokenCache[c]]
        /\ mints' = mints \cup {<<k, now, token.expires, t>>}
        /\ thread' = [thread EXCEPT ![t] = [@ EXCEPT !.pc = "served", !.read = <<>>,
                                                     !.served = token, !.at = now]]
        /\ lock' = IF lock = t THEN "free" ELSE lock
        /\ UNCHANGED <<now, params, cleared>>
    BY <1>2 DEF MintInstallationToken, CacheKey, Serve
  <2>2. lock = t /\ lock' = "free"
    BY <2>1 DEF LockIsHeld
  <2>3. /\ thread[t] \in CallType /\ k \in TokenRequests \cup {"none"}
        /\ now \in Nat /\ cleared \in Nat
    BY DEF TokenTypeOK, CallType
  <2>4. read[3] \in Nat /\ read[3] >= cleared
    <3>1. read \in Seq(Nat) /\ 3 \in 1 .. Len(read)
      BY <2>1, <2>3 DEF CallType
    <3>2. \A i \in 1 .. Len(read) : read[i] >= cleared
      BY <2>1 DEF NothingCleared
    <3>3. read[3] \in Nat
      BY <3>1
    <3> QED  BY <3>1, <3>2, <3>3
  <2>5. /\ token.for = k /\ token.gen = read[3] /\ token.real = now + Life
        /\ token.expires \in Nat /\ token.expires <= token.real
        /\ token.expires - now > Margin /\ token.real - now > Margin
    BY <2>3 DEF ParseExpiry
  <2>6. token \in TokenType
    BY <2>3, <2>4, <2>5 DEF TokenType
  <2> HIDE DEF token
  <2>7. \A u \in Threads \ {t} : thread'[u] = thread[u] /\ thread[u].pc # "reading"
    BY <2>1, <2>2 DEF TokenTypeOK, LockIsHeld
  <2>8. thread'[t] = [thread[t] EXCEPT !.pc = "served", !.read = <<>>,
                                       !.served = token, !.at = now]
    BY <2>1 DEF TokenTypeOK
  <2>9. /\ thread'[t].pc = "served" /\ thread'[t].asks = k /\ thread'[t].read = <<>>
        /\ thread'[t].served = token /\ thread'[t].at = now
    BY <2>3, <2>8 DEF CallType
  <2>10. /\ DOMAIN tokenCache' = DOMAIN tokenCache \cup {k} /\ tokenCache'[k] = token
         /\ \A c \in DOMAIN tokenCache \ {k} : tokenCache'[c] = tokenCache[c]
    BY <2>1
  <2>11. TokenTypeOK'
    <3>1. <<>> \in Seq(Nat)
      OBVIOUS
    <3>2. thread'[t] \in CallType
      BY <2>3, <2>6, <2>8, <3>1 DEF CallType
    <3>3. thread' \in [Threads -> CallType]
      BY <2>1, <3>2 DEF TokenTypeOK
    <3>4. \A c \in DOMAIN tokenCache' : tokenCache'[c] \in TokenType
      BY <2>6, <2>10 DEF TokenTypeOK
    <3>5. mints' \subseteq (TokenRequests \cup {"none"}) \X Nat \X Nat \X Threads
      BY <2>1, <2>3, <2>5 DEF TokenTypeOK
    <3> QED  BY <2>1, <2>2, <2>3, <2>10, <3>3, <3>4, <3>5 DEF TokenTypeOK
  <2>12. LockIsHeld' /\ TokenFitsRequest'
    BY <2>1, <2>2, <2>5, <2>7, <2>9 DEF LockIsHeld, TokenFitsRequest
  <2>13. CachedFits' /\ ClearedHoldsNoOldToken'
    BY <2>1, <2>4, <2>5, <2>10 DEF CachedFits, NothingCleared, ClearedHoldsNoOldToken
  <2>14. NothingCleared'
    BY <2>1, <2>7, <2>9, <2>13 DEF NothingCleared
  <2>15. \A a \in mints' : a \in mints \/ /\ a[1] = k /\ a[2] = now
                                          /\ a[3] = token.expires
    BY <2>1
  <2>16. \A a \in mints : /\ a[2] \in Nat /\ a[3] \in Nat
                          /\ a[1] = k => a[3] - now <= Margin /\ a[2] < now
    <3> SUFFICES ASSUME NEW a \in mints
                 PROVE  /\ a[2] \in Nat /\ a[3] \in Nat
                        /\ a[1] = k => a[3] - now <= Margin /\ a[2] < now
      OBVIOUS
    <3>1. a[2] \in Nat /\ a[3] \in Nat /\ a[2] <= now /\ a[3] - a[2] > Margin
      BY DEF TokenTypeOK, MintsAreCached
    <3>2. a[1] = k => a[3] - now <= Margin
      BY <2>1 DEF MintIsDue
    <3> QED  BY <2>3, <3>1, <3>2
  <2>17. NoStampede'
    <3> SUFFICES ASSUME NEW a \in mints', NEW b \in mints', a # b, a[1] = b[1], a[2] <= b[2]
                 PROVE  a[3] - b[2] <= Margin
      BY DEF NoStampede
    <3>1. CASE a \in mints /\ b \in mints
      BY <3>1 DEF NoStampede
    <3>2. CASE a \in mints /\ b \notin mints
      BY <2>15, <2>16, <3>2
    <3>3. CASE a \notin mints /\ b \in mints
      BY <2>3, <2>15, <2>16, <3>3
    <3>4. CASE a \notin mints /\ b \notin mints
      BY <2>1, <3>4
    <3> QED  BY <3>1, <3>2, <3>3, <3>4
  <2>18. MintsAreCached'
    <3> SUFFICES ASSUME NEW a \in mints'
                 PROVE  /\ a[2] <= now /\ a[3] - a[2] > Margin
                        /\ a[1] \in DOMAIN tokenCache'
                        /\ a[3] <= tokenCache'[a[1]].expires \/ a[3] - now <= Margin
      BY <2>1 DEF MintsAreCached
    <3>1. CASE a \in mints /\ a[1] = k
      BY <2>10, <2>16, <3>1 DEF MintsAreCached
    <3>2. CASE a \in mints /\ a[1] # k
      <4>1. a[1] \in DOMAIN tokenCache \ {k}
        BY <3>2 DEF MintsAreCached
      <4> QED  BY <2>10, <3>2, <4>1 DEF MintsAreCached
    <3>3. CASE a \notin mints
      BY <2>3, <2>5, <2>10, <2>15, <3>3
    <3> QED  BY <3>1, <3>2, <3>3
  <2>19. MintIsDue'
    BY <2>7, <2>9 DEF MintIsDue
  <2> QED  BY <2>11, <2>12, <2>13, <2>14, <2>17, <2>18, <2>19
<1> QED  BY <1>1, <1>2

-----------------------------------------------------------------------------
(* The theorems *)

LEMMA StepHolds ==
  ASSUME IInv, [TokenNext]_tokenVars PROVE IInv'
<1>1. CASE TokenNext
  <2>1. CASE Tick
    BY <2>1, TickStep
  <2>2. CASE \E p \in Parameters : Rotate(p)
    BY <2>2, RotateStep
  <2>3. CASE ClearCache
    BY <2>3, ClearStep
  <2>4. ASSUME NEW t \in Threads,
               \/ \E request \in TokenRequests : Ask(t, request)
               \/ Lock(t)
               \/ \E ok \in BOOLEAN : ReadCredential(t, ok)
               \/ \E ok, parses \in BOOLEAN : MintInstallationToken(t, ok, parses)
        PROVE  IInv'
    BY <2>4, AskStep, LockStep, ReadStep, MintStep
  <2> QED  BY <1>1, <2>1, <2>2, <2>3, <2>4 DEF TokenNext
<1>2. CASE UNCHANGED tokenVars
  <2> USE <1>2 DEF tokenVars, IInv
  <2>1. TokenTypeOK' /\ LockIsHeld' /\ CachedFits'
    BY DEF TokenTypeOK, LockIsHeld, CachedFits
  <2>2. NothingCleared' /\ MintsAreCached' /\ MintIsDue'
    BY DEF NothingCleared, ClearedHoldsNoOldToken, MintsAreCached, MintIsDue
  <2>3. NoStampede' /\ TokenFitsRequest'
    BY DEF NoStampede, TokenFitsRequest
  <2> QED  BY <2>1, <2>2, <2>3
<1> QED  BY <1>1, <1>2

\* The invariant holds of every behaviour, for any number of threads and requests, and
\* whatever the lives and the margin are.
THEOREM TokensInv == TokenSpec => []IInv
<1>1. TokenInit => IInv
  BY InitHolds
<1>2. IInv /\ [TokenNext]_tokenVars => IInv'
  BY StepHolds
<1> QED  BY <1>1, <1>2, PTL DEF TokenSpec

\* A caller is handed a token for exactly what it asked, good for more than the margin.
THEOREM FittingTokens == TokenSpec => []TokenFitsRequest
<1>1. IInv => TokenFitsRequest
  BY DEF IInv
<1> QED  BY <1>1, TokensInv, PTL

\* The cache neither mints what it holds nor keeps what was revoked, in whatever order
\* threads ask, parameters rotate and the cache is cleared.
THEOREM SoundCache == TokenSpec => []CacheIsSound
<1>1. IInv => CacheIsSound
  BY DEF IInv, NothingCleared, CacheIsSound
<1> QED  BY <1>1, TokensInv, PTL

-----------------------------------------------------------------------------
(* The egress proxy                                                        *)

\* A leaf that some rule set, not older than the request's and not newer than today's, lets pass.
Vouched(q, leaf, today) == \E v \in RuleSets : v >= q.sig /\ v <= today /\ leaf \notin Dirty[v]
NewOrVouched(q, i, today) == q.body[i] \in Range(q.new) \/ Vouched(q, q.body[i], today)

Scanning == {"refresh", "lookup", "gitleaks", "mark"}
ProxyPlaces == Scanning \cup {"idle", "scan", "forward", "relay", "done", "dropped"}

Request == [pc : ProxyPlaces, body : Bodies \cup {<<>>}, path : {"good", "bad"}, sig : Nat,
            new : Seq(Leaves), found : SUBSET Leaves, with : RuleSets \cup {0}, at : Nat,
            attempt : {1, 2}]

ProxyTypeOK ==
  /\ rules \in RuleSets /\ signature \in RuleSets \cup {0}
  /\ clean \in Seq(Leaves) /\ straddled \in SUBSET Leaves
  /\ req \in [Requests -> Request]

\* What the cache holds was found clean: by the rules it answers for, unless its scan was overtaken.
FoundClean(leaf, by, overtaken, today) ==
  \E v \in RuleSets : v <= today /\ leaf \notin Dirty[v] /\ (leaf \notin overtaken => v = by)
CacheIsHonest == \A leaf \in Range(clean) : FoundClean(leaf, signature, straddled, rules)

\* What a thread may rely on, by where it is.
ScanHolds(q, today) ==
  /\ q.pc \in {"idle", "scan", "refresh"} => q.at = 1
  /\ q.pc = "scan" => q.body # <<>>
  /\ q.pc \in Scanning => q.body # <<>> /\ q.body \in Seq(Leaves) /\ q.sig <= today
  /\ q.pc = "refresh" => q.sig \in RuleSets
  /\ q.pc = "lookup" => /\ q.at >= 1 /\ q.at <= Len(q.body)
                        /\ \A i \in DOMAIN q.body : i < q.at => NewOrVouched(q, i, today)
  /\ q.pc \in {"gitleaks", "mark"} => \A i \in DOMAIN q.body : NewOrVouched(q, i, today)
  /\ q.pc = "mark" => /\ q.with \in RuleSets /\ q.with >= q.sig /\ q.with <= today
                      /\ q.found = Range(q.new) \cap Dirty[q.with]
  /\ q.pc \in {"forward", "relay"} => \A i \in DOMAIN q.body : Vouched(q, q.body[i], today)

ScansHold == \A r \in Requests : ScanHolds(req[r], rules)

ProxyInv == ProxyTypeOK /\ CacheIsHonest /\ ScansHold

LEMMA RuleSetsAreNumbers == (\A v \in RuleSets : v \in Nat) /\ 1 \in RuleSets /\ Capacity \in Nat
BY ProxyAssumption

\* New rules on the disk take nothing from what a thread may rely on.
LEMMA ScanKept ==
  ASSUME NEW q \in Request, NEW before \in RuleSets, NEW today \in RuleSets, before <= today,
         ScanHolds(q, before)
  PROVE  ScanHolds(q, today)
<1>1. before \in Nat /\ today \in Nat /\ q.sig \in Nat /\ q.with \in Nat
  <2>1. q.sig \in Nat /\ q.with \in RuleSets \cup {0}
    BY DEF Request
  <2> QED  BY <2>1, RuleSetsAreNumbers
<1>2. ASSUME NEW leaf, Vouched(q, leaf, before) PROVE Vouched(q, leaf, today)
  <2>1. PICK v \in RuleSets : v >= q.sig /\ v <= before /\ leaf \notin Dirty[v]
    BY <1>2 DEF Vouched
  <2>2. v \in Nat
    BY <2>1, RuleSetsAreNumbers
  <2>3. v <= today
    BY <1>1, <2>1, <2>2
  <2> QED  BY <2>1, <2>3 DEF Vouched
<1>3. \A i : NewOrVouched(q, i, before) => NewOrVouched(q, i, today)
  BY <1>2 DEF NewOrVouched
<1> QED  BY <1>1, <1>2, <1>3 DEF ScanHolds

\* One thread moves, and the others stand.
LEMMA OneThreadMoves ==
  ASSUME ProxyInv, NEW r \in Requests, rules' = rules,
         req' = [req EXCEPT ![r] = req'[r]], req'[r] \in Request, ScanHolds(req'[r], rules')
  PROVE  req' \in [Requests -> Request] /\ ScansHold'
BY DEF ProxyInv, ProxyTypeOK, ScansHold

\* A hit stays in the cache.
LEMMA MoveToEndKeeps ==
  ASSUME ProxyTypeOK, NEW leaf \in Range(clean)
  PROVE  MoveToEnd(leaf) \in Seq(Leaves) /\ Range(MoveToEnd(leaf)) \subseteq Range(clean)
<1>1. clean \in Seq(Leaves) /\ Len(clean) \in Nat /\ DOMAIN clean = 1 .. Len(clean)
  BY LenProperties DEF ProxyTypeOK
<1>2. Place(leaf) \in 1 .. Len(clean) /\ leaf \in Leaves
  <2>1. PICK i \in DOMAIN clean : clean[i] = leaf
    BY DEF Range
  <2> QED  BY <1>1, <2>1, ElementOfSeq DEF Place
<1> DEFINE p == Place(leaf)
           front == SubSeq(clean, 1, p - 1)
           back == SubSeq(clean, p + 1, Len(clean))
           R == Range(clean)
<1>3. \A i \in 1 .. Len(clean) : clean[i] \in R
  BY <1>1 DEF Range
<1> HIDE DEF R
<1>4. front \in Seq(R) /\ back \in Seq(R)
  BY <1>1, <1>2, <1>3, SubSeqProperties
<1>5. leaf \in R
  BY DEF R
<1>6. MoveToEnd(leaf) \in Seq(R)
  BY <1>4, <1>5, ConcatProperties, AppendProperties DEF MoveToEnd, RemoveAt
<1>7. R \subseteq Leaves
  BY <1>1, RangeOfSeq DEF R
<1> QED  BY <1>6, <1>7, SeqMonotonic, RangeOfSeq DEF R

\* What is marked is what was there and what the scan let pass.
LEMMA MarkedKeeps ==
  ASSUME ProxyTypeOK, NEW kept \in Seq(Leaves)
  PROVE  Marked(kept) \in Seq(Leaves) /\ Range(Marked(kept)) \subseteq Range(clean) \cup Range(kept)
<1> DEFINE old == Among(clean, Range(clean) \ Range(kept))
           put == old \o kept
           R == Range(clean) \cup Range(kept)
<1>1. clean \in Seq(Leaves)
  BY DEF ProxyTypeOK
<1>2. old \in Seq(Leaves) /\ Range(old) \subseteq R
  BY <1>1, AmongKeeps
<1>3. put \in Seq(R)
  <2>1. old \in Seq(Range(old)) /\ kept \in Seq(Range(kept))
    BY <1>2, SeqOfRange
  <2>2. old \in Seq(R) /\ kept \in Seq(R)
    BY <1>2, <2>1, SeqMonotonic
  <2> HIDE DEF R, old
  <2> QED  BY <2>2, ConcatProperties
<1>4. R \subseteq Leaves
  BY <1>1, RangeOfSeq
<1> DEFINE from == IF Len(put) > Capacity THEN Len(put) - Capacity + 1 ELSE 1
<1>5. Marked(kept) = SubSeq(put, from, Len(put))
  BY DEF Marked
<1> HIDE DEF R, put
<1>6. Len(put) \in Nat /\ from \in Nat /\ 1 <= from
  BY <1>3, LenProperties, RuleSetsAreNumbers
<1> HIDE DEF from
<1>7. \A i \in from .. Len(put) : put[i] \in R
  <2>1. \A i \in from .. Len(put) : i \in 1 .. Len(put)
    BY <1>6
  <2> QED  BY <1>3, <2>1, ElementOfSeq
<1>8. Marked(kept) \in Seq(R)
  BY <1>5, <1>6, <1>7, SubSeqProperties
<1>9. Range(Marked(kept)) \subseteq R /\ Marked(kept) \in Seq(Leaves)
  BY <1>4, <1>8, SeqMonotonic, RangeOfSeq
<1> QED  BY <1>9 DEF R

LEMMA ProxyInitHolds ==
  ASSUME ProxyInit PROVE ProxyInv
<1>1. NoRequest \in Request /\ ScanHolds(NoRequest, 1)
  BY RuleSetsAreNumbers DEF NoRequest, Request, ProxyPlaces, ScanHolds, Scanning
<1>2. ProxyTypeOK /\ ScansHold
  BY <1>1, RuleSetsAreNumbers DEF ProxyInit, ProxyTypeOK, ScansHold
<1>3. CacheIsHonest
  BY DEF ProxyInit, CacheIsHonest, Range
<1> QED  BY <1>2, <1>3 DEF ProxyInv

\* A step that leaves the rules and the cache alone, and moves one thread.
CacheAsIs == UNCHANGED <<rules, clean, signature, straddled>>
\* A step that leaves the rules and the cache.
LEMMA CacheLeft ==
  ASSUME ProxyInv, CacheAsIs, NEW r \in Requests,
         req' = [req EXCEPT ![r] = req'[r]], req'[r] \in Request, ScanHolds(req'[r], rules)
  PROVE  ProxyInv'
<1>1. ScanHolds(req'[r], rules') /\ rules' = rules
  BY DEF CacheAsIs
<1>2. req' \in [Requests -> Request] /\ ScansHold'
  BY <1>1, OneThreadMoves
<1>3. CacheIsHonest' /\ ProxyTypeOK'
  BY <1>2 DEF ProxyInv, ProxyTypeOK, CacheIsHonest, CacheAsIs
<1> QED  BY <1>2, <1>3 DEF ProxyInv

\* The rules are edited.
LEMMA EditKept ==
  ASSUME ProxyInv, EditRules PROVE ProxyInv'
<1>1. rules \in RuleSets /\ rules' \in RuleSets /\ rules \in Nat /\ rules' = rules + 1
  BY RuleSetsAreNumbers DEF ProxyInv, ProxyTypeOK, EditRules
<1>2. ScansHold'
  <2>1. SUFFICES ASSUME NEW r \in Requests PROVE ScanHolds(req'[r], rules')
    BY DEF ScansHold
  <2>2. req'[r] = req[r] /\ req[r] \in Request /\ ScanHolds(req[r], rules)
    BY DEF EditRules, ProxyInv, ProxyTypeOK, ScansHold
  <2>3. rules <= rules'
    BY <1>1
  <2> QED  BY <1>1, <2>2, <2>3, ScanKept
<1>3. CacheIsHonest'
  <2>1. SUFFICES ASSUME NEW leaf \in Range(clean)
                 PROVE  FoundClean(leaf, signature, straddled, rules')
    BY DEF CacheIsHonest, EditRules
  <2>2. FoundClean(leaf, signature, straddled, rules)
    BY DEF ProxyInv, CacheIsHonest
  <2>3. PICK v \in RuleSets : v <= rules /\ leaf \notin Dirty[v] /\ (leaf \notin straddled => v = signature)
    BY <2>2 DEF FoundClean
  <2>4. v <= rules'
    <3>1. v \in Nat
      BY RuleSetsAreNumbers
    <3> QED  BY <1>1, <2>3, <3>1
  <2> QED  BY <2>3, <2>4 DEF FoundClean
<1> QED  BY <1>1, <1>2, <1>3 DEF ProxyInv, ProxyTypeOK, EditRules

\* The steps of a thread that leave the cache alone.
LEMMA QuietKept ==
  ASSUME ProxyInv, NEW r \in Requests,
         \/ \E body \in Bodies, path \in {"good", "bad"} : Receive(r, body, path)
         \/ ReadSignature(r)
         \/ \E ok \in BOOLEAN : Gitleaks(r, ok)
         \/ \E o \in Attempts : Attempt(r, o)
         \/ \E end \in RelayEnds : Relay(r, end)
  PROVE  ProxyInv'
<1> DEFINE q == req[r]
<1>1. q \in Request /\ ScanHolds(q, rules) /\ rules \in RuleSets /\ rules \in Nat
      /\ req \in [Requests -> Request]
  BY RuleSetsAreNumbers DEF ProxyInv, ProxyTypeOK, ScansHold
<1> SUFFICES CacheAsIs /\ req' = [req EXCEPT ![r] = req'[r]]
             /\ req'[r] \in Request /\ ScanHolds(req'[r], rules)
  BY CacheLeft
<1>2a. q.attempt \in {1, 2} /\ 0 <= rules
  BY <1>1 DEF Request
<1>2. [NoRequest EXCEPT !.pc = "done", !.attempt = q.attempt] \in Request
      /\ [NoRequest EXCEPT !.pc = "dropped", !.attempt = q.attempt] \in Request
      /\ ScanHolds([NoRequest EXCEPT !.pc = "done", !.attempt = q.attempt], rules)
      /\ ScanHolds([NoRequest EXCEPT !.pc = "dropped", !.attempt = q.attempt], rules)
  <2>1. <<>> \in Seq(Leaves) /\ {} \in SUBSET Leaves
    BY EmptySeq
  <2> HIDE DEF q
  <2> QED  BY <1>2a, <2>1 DEF NoRequest, Request, ProxyPlaces, ScanHolds, Scanning
<1>3. ASSUME NEW pc \in {"done", "dropped"}, End(r, pc)
      PROVE  req' = [req EXCEPT ![r] = req'[r]] /\ req'[r] \in Request /\ ScanHolds(req'[r], rules)
  <2>1. req'[r] = [NoRequest EXCEPT !.pc = pc, !.attempt = q.attempt]
        /\ req' = [req EXCEPT ![r] = req'[r]]
    BY <1>1, <1>3 DEF End
  <2> QED  BY <1>2, <2>1
<1> USE DEF CacheAsIs, cleanCache
<1>4. ASSUME NEW body \in Bodies, NEW path \in {"good", "bad"}, Receive(r, body, path)
      PROVE  CacheAsIs /\ req' = [req EXCEPT ![r] = req'[r]]
             /\ req'[r] \in Request /\ ScanHolds(req'[r], rules)
  <2>1. req'[r] = [q EXCEPT !.body = body, !.path = path,
                           !.pc = IF body = <<>> THEN "forward" ELSE "scan"]
        /\ req' = [req EXCEPT ![r] = req'[r]] /\ CacheAsIs
    BY <1>1, <1>4 DEF Receive
  <2>2. q.at = 1 /\ DOMAIN <<>> = {}
    <3>1. q.pc = "idle"
      BY <1>4 DEF Receive
    <3> HIDE DEF q
    <3>2. q.at = 1
      BY <1>1, <3>1 DEF ScanHolds
    <3> QED  BY <3>2
  <2> HIDE DEF q
  <2>3. req'[r] \in Request /\ req'[r].body = body /\ req'[r].at = 1
        /\ req'[r].pc = IF body = <<>> THEN "forward" ELSE "scan"
    BY <1>1, <2>1, <2>2 DEF Request, ProxyPlaces
  <2> QED  BY <2>1, <2>2, <2>3 DEF ScanHolds, Scanning
<1>5. ASSUME ReadSignature(r)
      PROVE  CacheAsIs /\ req' = [req EXCEPT ![r] = req'[r]]
             /\ req'[r] \in Request /\ ScanHolds(req'[r], rules)
  <2>1. CASE q.body = NotJson
    BY <1>3, <1>5, <2>1 DEF ReadSignature
  <2>2. CASE q.body # NotJson
    <3>1. q.body # <<>> /\ q.body \in Seq(Leaves) /\ q.at = 1
      BY <1>1, <1>5, <2>2, ProxyAssumption DEF ReadSignature, ScanHolds, Request
    <3>2. req'[r] = [q EXCEPT !.sig = rules, !.pc = "refresh"]
          /\ req' = [req EXCEPT ![r] = req'[r]]
      BY <1>1, <1>5, <2>2 DEF ReadSignature
    <3>3. CacheAsIs
      BY <1>5 DEF ReadSignature
    <3>4. req'[r] \in Request /\ req'[r].body = q.body /\ req'[r].at = 1
          /\ req'[r].pc = "refresh" /\ req'[r].sig = rules
      BY <1>1, <3>1, <3>2 DEF Request, ProxyPlaces, Scanning
    <3> QED  BY <1>1, <3>1, <3>2, <3>3, <3>4 DEF ScanHolds, Scanning
  <2> QED  BY <2>1, <2>2
<1>6. ASSUME NEW ok \in BOOLEAN, Gitleaks(r, ok)
      PROVE  CacheAsIs /\ req' = [req EXCEPT ![r] = req'[r]]
             /\ req'[r] \in Request /\ ScanHolds(req'[r], rules)
  <2>1. CASE ok
    <3> DEFINE p == [q EXCEPT !.found = Range(q.new) \cap Dirty[rules], !.with = rules, !.pc = "mark"]
    <3>1. req'[r] = p /\ req' = [req EXCEPT ![r] = req'[r]] /\ CacheAsIs /\ q.pc = "gitleaks"
      BY <1>1, <1>6, <2>1 DEF Gitleaks
    <3>2. Range(q.new) \subseteq Leaves
      BY <1>1, RangeOfSeq DEF Request
    <3>3. p \in Request
      BY <1>1, <3>2 DEF Request, ProxyPlaces, Scanning
    <3>4. \A i \in DOMAIN q.body : NewOrVouched(p, i, rules)
      BY <1>1, <3>1 DEF ScanHolds, NewOrVouched, Vouched, Request
    <3>5. q.body # <<>> /\ q.body \in Seq(Leaves) /\ q.sig <= rules
      BY <1>1, <3>1 DEF ScanHolds, Scanning
    <3>6. ScanHolds(p, rules)
      BY <1>1, <3>4, <3>5 DEF ScanHolds, Scanning, Request
    <3> QED  BY <3>1, <3>3, <3>6
  <2>2. CASE ~ok
    BY <1>3, <1>6, <2>2 DEF Gitleaks
  <2> QED  BY <2>1, <2>2
<1>7. ASSUME NEW o \in Attempts, Attempt(r, o)
      PROVE  CacheAsIs /\ req' = [req EXCEPT ![r] = req'[r]]
             /\ req'[r] \in Request /\ ScanHolds(req'[r], rules)
  <2>1. \/ End(r, "done") \/ End(r, "dropped") \/ Step(r, "relay")
        \/ req' = [req EXCEPT ![r].attempt = 2]
    BY <1>7 DEF Attempt, Attempts
  <2>2. CacheAsIs /\ q.pc = "forward"
    BY <1>7 DEF Attempt
  <2>3. CASE Step(r, "relay")
    BY <1>1, <2>2, <2>3 DEF Step, Request, ProxyPlaces, ScanHolds, Scanning, Vouched
  <2>4. CASE req' = [req EXCEPT ![r].attempt = 2]
    BY <1>1, <2>2, <2>4 DEF Request, ProxyPlaces, ScanHolds, Scanning, Vouched
  <2> QED  BY <1>3, <2>1, <2>2, <2>3, <2>4
<1>8. ASSUME NEW end \in RelayEnds, Relay(r, end)
      PROVE  CacheAsIs /\ req' = [req EXCEPT ![r] = req'[r]]
             /\ req'[r] \in Request /\ ScanHolds(req'[r], rules)
  BY <1>3, <1>8 DEF Relay
<1> QED  BY <1>4, <1>5, <1>6, <1>7, <1>8

\* A newer rule set empties the cache.
LEMMA RefreshKept ==
  ASSUME ProxyInv, NEW r \in Requests, RefreshConfig(r) PROVE ProxyInv'
<1> DEFINE q == req[r]
           p == [q EXCEPT !.pc = "lookup"]
<1>1. q \in Request /\ ScanHolds(q, rules) /\ q.pc = "refresh" /\ q.at = 1 /\ rules' = rules
      /\ req' = [req EXCEPT ![r] = p] /\ req \in [Requests -> Request] /\ req'[r] = p
  BY DEF RefreshConfig, Step, ProxyInv, ProxyTypeOK, ScansHold, ScanHolds
<1>2. q.body # <<>> /\ q.body \in Seq(Leaves) /\ q.sig <= rules /\ q.sig \in RuleSets
  BY <1>1 DEF ScanHolds, Scanning
<1>3. DOMAIN q.body = 1 .. Len(q.body) /\ Len(q.body) \in Nat /\ 1 <= Len(q.body)
  BY <1>2, EmptySeq, LenProperties
<1>4. p \in Request /\ ScanHolds(p, rules')
  <2>1. p \in Request /\ p.body = q.body /\ p.at = 1 /\ p.pc = "lookup" /\ p.sig = q.sig
    BY <1>1 DEF Request, ProxyPlaces, Scanning
  <2>2. \A i \in DOMAIN p.body : ~ (i < p.at)
    BY <1>3, <2>1
  <2> QED  BY <1>1, <1>2, <1>3, <2>1, <2>2 DEF ScanHolds, Scanning
<1>5. req' \in [Requests -> Request] /\ ScansHold'
  BY <1>1, <1>4, OneThreadMoves
<1>6. CacheIsHonest' /\ clean' \in Seq(Leaves) /\ straddled' \in SUBSET Leaves
  <2>1. CASE signature # q.sig
    BY <2>1, EmptySeq DEF RefreshConfig, CacheIsHonest, Range
  <2>2. CASE signature = q.sig
    <3>1. UNCHANGED <<rules, clean, straddled, signature>>
      BY <2>2 DEF RefreshConfig
    <3> QED  BY <3>1 DEF ProxyInv, ProxyTypeOK, CacheIsHonest
  <2> QED  BY <2>1, <2>2
<1>7. rules' \in RuleSets /\ signature' \in RuleSets \cup {0}
  BY <1>2 DEF ProxyInv, ProxyTypeOK, RefreshConfig
<1> QED  BY <1>5, <1>6, <1>7 DEF ProxyInv, ProxyTypeOK

\* After a leaf was looked up, the thread is where its body and what is new say.
LEMMA LookedHolds ==
  ASSUME NEW q \in Request, NEW today \in RuleSets, q.pc = "lookup",
         q.body \in Seq(Leaves), q.body # <<>>, q.sig <= today, q.at - 1 <= Len(q.body), q.at >= 1,
         \A i \in DOMAIN q.body : i < q.at => NewOrVouched(q, i, today)
  PROVE  Looked(q) \in Request /\ ScanHolds(Looked(q), today)
<1>1. DOMAIN q.body = 1 .. Len(q.body) /\ Len(q.body) \in Nat /\ q.at \in Nat
  BY LenProperties DEF Request
<1>2. CASE q.at <= Len(q.body)
  BY <1>1, <1>2 DEF Looked, ScanHolds, Scanning, Request
<1>3. CASE q.at > Len(q.body) /\ q.new # <<>>
  <2> DEFINE p == [q EXCEPT !.pc = "gitleaks"]
  <2>1. Looked(q) = p /\ \A i \in DOMAIN q.body : i < q.at
    BY <1>1, <1>3 DEF Looked
  <2>2. \A i \in DOMAIN p.body : NewOrVouched(p, i, today)
    BY <2>1 DEF NewOrVouched, Vouched, Request
  <2>3. p \in Request
    BY DEF Request, ProxyPlaces, Scanning
  <2> QED  BY <2>1, <2>2, <2>3 DEF ScanHolds, Scanning, Request
<1>4. CASE q.at > Len(q.body) /\ q.new = <<>>
  <2> DEFINE p == Passed(q)
  <2>1. Looked(q) = p /\ \A i \in DOMAIN q.body : i < q.at
    BY <1>1, <1>4 DEF Looked
  <2>2. Range(q.new) = {}
    BY <1>4 DEF Range
  <2>3. p.body = q.body /\ p.sig = q.sig /\ p.pc = "forward"
    BY DEF Passed, Request
  <2>4. \A i \in DOMAIN p.body : Vouched(p, p.body[i], today)
    BY <2>1, <2>2, <2>3 DEF NewOrVouched, Vouched
  <2>5. p \in Request
    BY EmptySeq DEF Passed, Request, ProxyPlaces
  <2> QED  BY <2>1, <2>3, <2>4, <2>5 DEF ScanHolds, Scanning
<1> QED  BY <1>1, <1>2, <1>3, <1>4

\* A leaf in the cache was let pass by a rule set that was in force.
LEMMA LookupKept ==
  ASSUME ProxyInv, NEW r \in Requests, Lookup(r) PROVE ProxyInv'
<1> DEFINE q == req[r]
           leaf == q.body[q.at]
           on == [q EXCEPT !.at = @ + 1]
           sure == IF leaf \in straddled THEN 0 ELSE IF signature < on.sig THEN signature ELSE on.sig
           hit == [on EXCEPT !.sig = sure]
           miss == [on EXCEPT !.new = Append(@, leaf)]
<1>1. q \in Request /\ ScanHolds(q, rules) /\ q.pc = "lookup" /\ rules \in RuleSets
      /\ req \in [Requests -> Request] /\ UNCHANGED <<rules, signature, straddled>>
  BY DEF Lookup, ProxyInv, ProxyTypeOK, ScansHold
<1>2. /\ q.body # <<>> /\ q.body \in Seq(Leaves) /\ q.sig <= rules /\ q.sig \in Nat
      /\ q.at \in 1 .. Len(q.body) /\ q.at \in Nat /\ q.new \in Seq(Leaves)
      /\ \A i \in DOMAIN q.body : i < q.at => NewOrVouched(q, i, rules)
  BY <1>1 DEF ScanHolds, Scanning, Request
<1>3. DOMAIN q.body = 1 .. Len(q.body) /\ Len(q.body) \in Nat /\ leaf \in Leaves
  BY <1>2, LenProperties, ElementOfSeq
<1>4. rules \in Nat /\ signature \in Nat /\ clean \in Seq(Leaves)
  BY RuleSetsAreNumbers DEF ProxyInv, ProxyTypeOK
\* It is enough that the thread's record says what was seen of the leaf.
<1>5. ASSUME NEW p \in Request, p.pc = "lookup", p.body = q.body, p.sig <= q.sig, p.at = q.at + 1,
             Range(q.new) \subseteq Range(p.new), NewOrVouched(p, q.at, rules)
      PROVE  Looked(p) \in Request /\ ScanHolds(Looked(p), rules)
  <2>1. p.sig \in Nat
    BY DEF Request
  <2>2. \A i \in DOMAIN p.body : i < p.at => NewOrVouched(p, i, rules)
    <3>1. SUFFICES ASSUME NEW i \in DOMAIN q.body, i < q.at PROVE NewOrVouched(p, i, rules)
      BY <1>2, <1>3, <1>5
    <3>2. NewOrVouched(q, i, rules)
      <4> HIDE DEF q
      <4> QED  BY <1>2, <3>1
    <3>3. CASE q.body[i] \in Range(q.new)
      BY <1>5, <3>3 DEF NewOrVouched
    <3>4. CASE Vouched(q, q.body[i], rules)
      <4>1. PICK v \in RuleSets : v >= q.sig /\ v <= rules /\ q.body[i] \notin Dirty[v]
        BY <3>4 DEF Vouched
      <4>2. v >= p.sig
        BY <1>2, <1>5, <2>1, <4>1, RuleSetsAreNumbers
      <4> QED  BY <1>5, <4>1, <4>2 DEF NewOrVouched, Vouched
    <3> QED  BY <3>2, <3>3, <3>4 DEF NewOrVouched
  <2> HIDE DEF q
  <2>3. p.sig <= rules /\ p.at - 1 <= Len(p.body) /\ p.at >= 1
    BY <1>2, <1>3, <1>4, <1>5, <2>1
  <2> QED  BY <1>1, <1>2, <1>5, <2>2, <2>3, LookedHolds
<1>6. ASSUME NEW p \in Request, req' = [req EXCEPT ![r] = Looked(p)], Looked(p) \in Request,
             ScanHolds(Looked(p), rules), Range(clean') \subseteq Range(clean), clean' \in Seq(Leaves)
      PROVE  ProxyInv'
  <2>1. req' \in [Requests -> Request] /\ ScansHold'
    <3>1. req'[r] = Looked(p) /\ rules' = rules
      BY <1>1, <1>6
    <3> QED  BY <1>6, <3>1, OneThreadMoves
  <2>2. CacheIsHonest'
    BY <1>1, <1>6 DEF ProxyInv, CacheIsHonest
  <2> QED  BY <1>1, <1>6, <2>1, <2>2 DEF ProxyInv, ProxyTypeOK
<1>7. on \in Request /\ on.pc = "lookup" /\ on.body = q.body /\ on.sig = q.sig /\ on.new = q.new
      /\ on.at = q.at + 1
  <2>1. q.at + 1 \in Nat
    BY <1>2
  <2> HIDE DEF q
  <2> QED  BY <1>1, <2>1 DEF Request
<1>8. CASE /\ leaf \in Range(on.new)
           /\ req' = [req EXCEPT ![r] = Looked(on)] /\ UNCHANGED clean
  <2>1. NewOrVouched(on, q.at, rules)
    BY <1>7, <1>8 DEF NewOrVouched
  <2>2. Looked(on) \in Request /\ ScanHolds(Looked(on), rules)
    <3> HIDE DEF on, q
    <3> QED  BY <1>2, <1>5, <1>7, <2>1
  <2> QED  BY <1>4, <1>6, <1>7, <1>8, <2>2
<1>9. CASE /\ leaf \in Range(clean) \ Range(on.new)
           /\ clean' = MoveToEnd(leaf)
           /\ req' = [req EXCEPT ![r] = Looked(hit)]
  <2>1. sure \in Nat /\ sure <= q.sig
    BY <1>2, <1>4, <1>7
  <2>2. hit \in Request /\ hit.pc = "lookup" /\ hit.body = q.body /\ hit.sig = sure
        /\ hit.new = q.new /\ hit.at = q.at + 1
    BY <1>7, <2>1 DEF Request
  <2>3. PICK v \in RuleSets : v <= rules /\ leaf \notin Dirty[v] /\ (leaf \notin straddled => v = signature)
    BY <1>9 DEF ProxyInv, CacheIsHonest, FoundClean
  <2>4. v >= sure
    BY <1>2, <1>4, <1>7, <2>3, RuleSetsAreNumbers
  <2>5. NewOrVouched(hit, q.at, rules)
    BY <2>2, <2>3, <2>4 DEF NewOrVouched, Vouched
  <2>6. Looked(hit) \in Request /\ ScanHolds(Looked(hit), rules)
    <3> HIDE DEF hit, q
    <3> QED  BY <1>5, <2>1, <2>2, <2>5
  <2>7. clean' \in Seq(Leaves) /\ Range(clean') \subseteq Range(clean)
    BY <1>9, MoveToEndKeeps DEF ProxyInv
  <2> QED  BY <1>6, <1>9, <2>2, <2>6, <2>7
<1>10. CASE /\ leaf \notin Range(clean) \cup Range(on.new)
            /\ req' = [req EXCEPT ![r] = Looked(miss)]
            /\ UNCHANGED clean
  <2>1. Append(q.new, leaf) \in Seq(Leaves)
        /\ Len(Append(q.new, leaf)) = Len(q.new) + 1 /\ Len(q.new) \in Nat
        /\ \A i \in 1 .. Len(q.new) : Append(q.new, leaf)[i] = q.new[i]
        /\ Append(q.new, leaf)[Len(q.new) + 1] = leaf
    BY <1>2, <1>3, AppendProperties, LenProperties
  <2>2. DOMAIN q.new = 1 .. Len(q.new) /\ DOMAIN Append(q.new, leaf) = 1 .. Len(q.new) + 1
    BY <1>2, <2>1, LenProperties
  <2>3. Range(q.new) \subseteq Range(Append(q.new, leaf)) /\ leaf \in Range(Append(q.new, leaf))
    BY <2>1, <2>2 DEF Range
  <2>4. miss \in Request /\ miss.pc = "lookup" /\ miss.body = q.body /\ miss.sig = q.sig
        /\ miss.new = Append(q.new, leaf) /\ miss.at = q.at + 1
    BY <1>7, <2>1 DEF Request
  <2>5. NewOrVouched(miss, q.at, rules)
    BY <2>3, <2>4 DEF NewOrVouched
  <2>6. Looked(miss) \in Request /\ ScanHolds(Looked(miss), rules)
    <3>1. miss.sig <= q.sig /\ Range(q.new) \subseteq Range(miss.new)
      BY <1>2, <2>3, <2>4
    <3> HIDE DEF miss, q, leaf
    <3> QED  BY <1>5, <2>4, <2>5, <3>1
  <2> QED  BY <1>4, <1>6, <1>10, <2>4, <2>6
<1> QED  BY <1>8, <1>9, <1>10 DEF Lookup

\* What the scan let pass is marked, whatever was refreshed meanwhile.
LEMMA MarkKept ==
  ASSUME ProxyInv, NEW r \in Requests, NEW readable \in BOOLEAN, MarkClean(r, readable) PROVE ProxyInv'
<1> DEFINE q == req[r]
           spare == IF readable THEN q.found ELSE Range(q.new)
           keep == Among(q.new, Range(q.new) \ spare)
<1>1. q \in Request /\ ScanHolds(q, rules) /\ q.pc = "mark" /\ rules \in RuleSets
      /\ req \in [Requests -> Request] /\ UNCHANGED <<rules, signature>>
  BY DEF MarkClean, ProxyInv, ProxyTypeOK, ScansHold
<1>2. /\ q.with \in RuleSets /\ q.with >= q.sig /\ q.with <= rules
      /\ q.found = Range(q.new) \cap Dirty[q.with] /\ q.new \in Seq(Leaves) /\ q.sig <= rules
      /\ \A i \in DOMAIN q.body : NewOrVouched(q, i, rules)
  BY <1>1 DEF ScanHolds, Scanning, Request
<1>3. clean' = Marked(keep)
      /\ straddled' = IF q.with # signature THEN straddled \cup Range(keep) ELSE straddled
  BY DEF MarkClean
<1>4. keep \in Seq(Leaves) /\ Range(keep) \subseteq Range(q.new) \ spare /\ Range(keep) \subseteq Leaves
  <2> HIDE DEF q
  <2> QED  BY <1>2, AmongKeeps, RangeOfSeq
<1>5. \A leaf \in Range(keep) : leaf \notin Dirty[q.with]
  <2> HIDE DEF q
  <2> QED  BY <1>2, <1>4
<1> HIDE DEF keep
<1>6. clean' \in Seq(Leaves) /\ Range(clean') \subseteq Range(clean) \cup Range(keep)
  BY <1>3, <1>4, MarkedKeeps DEF ProxyInv
<1>7. straddled' \in SUBSET Leaves
  BY <1>3, <1>4 DEF ProxyInv, ProxyTypeOK
<1>8. CacheIsHonest'
  <2>1. SUFFICES ASSUME NEW leaf \in Range(clean') PROVE FoundClean(leaf, signature, straddled', rules)
    BY <1>1 DEF CacheIsHonest
  <2>2. CASE leaf \in Range(keep)
    <3>1. leaf \notin straddled' => q.with = signature
      BY <1>3, <2>2
    <3> HIDE DEF q
    <3> QED  BY <1>2, <1>5, <2>2, <3>1 DEF FoundClean
  <2>3. CASE leaf \in Range(clean)
    <3>1. FoundClean(leaf, signature, straddled, rules)
      BY <2>3 DEF ProxyInv, CacheIsHonest
    <3>2. straddled \subseteq straddled'
      BY <1>3
    <3> QED  BY <3>1, <3>2 DEF FoundClean
  <2> QED  BY <1>6, <2>1, <2>2, <2>3
<1>9. req' = [req EXCEPT ![r] = req'[r]] /\ req'[r] \in Request /\ ScanHolds(req'[r], rules)
  <2>1. CASE q.found = {}
    <3> DEFINE p == Passed(q)
    <3>1. readable /\ req' = [req EXCEPT ![r] = p] /\ req'[r] = p
      BY <1>1, <2>1 DEF MarkClean
    <3> HIDE DEF q
    <3>2. p \in Request /\ p.pc = "forward" /\ p.body = q.body /\ p.sig = q.sig
      BY <1>1, EmptySeq DEF Passed, Request, ProxyPlaces
    <3>3. \A i \in DOMAIN q.body : Vouched(q, q.body[i], rules)
      <4>1. \A leaf \in Range(q.new) : Vouched(q, leaf, rules)
        BY <1>2, <2>1 DEF Vouched
      <4> QED  BY <1>2, <4>1 DEF NewOrVouched
    <3>4. ScanHolds(p, rules)
      BY <3>2, <3>3 DEF ScanHolds, Scanning, Vouched
    <3> QED  BY <3>1, <3>2, <3>4
  <2>2. CASE q.found # {}
    <3> DEFINE p == [NoRequest EXCEPT !.pc = "done", !.attempt = q.attempt]
    <3>1. req' = [req EXCEPT ![r] = p] /\ req'[r] = p
      BY <1>1, <2>2 DEF MarkClean, End
    <3>2. <<>> \in Seq(Leaves) /\ q.attempt \in {1, 2}
      BY <1>1, EmptySeq DEF Request
    <3> HIDE DEF q
    <3>3. p \in Request /\ ScanHolds(p, rules)
      BY <3>2, RuleSetsAreNumbers DEF NoRequest, Request, ProxyPlaces, ScanHolds, Scanning
    <3> QED  BY <3>1, <3>3
  <2> QED  BY <2>1, <2>2
<1>10. req' \in [Requests -> Request] /\ ScansHold'
  BY <1>1, <1>9, OneThreadMoves
<1> QED  BY <1>1, <1>6, <1>7, <1>8, <1>10 DEF ProxyInv, ProxyTypeOK

\* Every step.
LEMMA ProxyStepKept ==
  ASSUME ProxyInv, [ProxyNext]_proxyVars PROVE ProxyInv'
<1>1. CASE UNCHANGED proxyVars
  BY <1>1 DEF proxyVars, ProxyInv, ProxyTypeOK, CacheIsHonest, ScansHold
<1>2. CASE ProxyNext
  BY <1>2, EditKept, QuietKept, RefreshKept, LookupKept, MarkKept DEF ProxyNext
<1> QED  BY <1>1, <1>2

LEMMA ProxyHolds == ProxySpec => []ProxyInv
BY ProxyInitHolds, ProxyStepKept, PTL DEF ProxySpec

\* Every leaf of a body on its way upstream passed a rule set that was in force.
THEOREM ProxyForwardsCleanBodies == ProxySpec => []ForwardedIsClean
<1>1. ProxyInv => ForwardedIsClean
  BY DEF ProxyInv, ScansHold, ScanHolds, Vouched, ForwardedIsClean
<1> QED  BY <1>1, ProxyHolds, PTL

\* How often the upstream was asked and what the client was sent, by where the thread is.
Asked(q, times, answers) ==
  /\ q.pc \in {"idle"} \cup {"scan"} \cup Scanning => times = 0 /\ q.attempt = 1
  /\ q.pc = "forward" => times < q.attempt
  /\ q.pc \in {"relay", "dropped"} => times <= q.attempt
  /\ q.pc # "done" => answers = <<>>
  /\ q.pc = "done" =>
       \/ answers \in {<<"400">>, <<"503">>} /\ times = 0
       \/ answers \in {<<"502">>, <<"relayed">>} /\ times <= q.attempt

Answers == {<<>>, <<"400">>, <<"503">>, <<"502">>, <<"relayed">>}
AnswersInv ==
  /\ served \in [Requests -> Nat] /\ replies \in [Requests -> Answers]
  /\ \A r \in Requests : Asked(req[r], served[r], replies[r])

LEMMA AnswersInitHold == ASSUME ProxyInit PROVE AnswersInv
BY DEF ProxyInit, AnswersInv, Answers, Asked, NoRequest, Scanning

\* Every step, for the answers.
LEMMA AnswersKept ==
  ASSUME ProxyInv, AnswersInv, [ProxyNext]_proxyVars PROVE AnswersInv'
<1>1. ASSUME NEW r \in Requests, req' = [req EXCEPT ![r] = req'[r]],
             served' = [served EXCEPT ![r] = served'[r]], replies' = [replies EXCEPT ![r] = replies'[r]],
             served'[r] \in Nat, replies'[r] \in Answers, Asked(req'[r], served'[r], replies'[r])
      PROVE  AnswersInv'
  BY <1>1 DEF AnswersInv, ProxyInv, ProxyTypeOK
<1>2. CASE UNCHANGED <<req, served, replies>>
  BY <1>2 DEF AnswersInv
<1> SUFFICES ASSUME ProxyNext, ~ UNCHANGED <<req, served, replies>> PROVE AnswersInv'
  BY <1>2 DEF proxyVars
<1>3. PICK r \in Requests :
          \/ \E body \in Bodies, path \in {"good", "bad"} : Receive(r, body, path)
          \/ ReadSignature(r)
          \/ RefreshConfig(r)
          \/ Lookup(r)
          \/ \E ok \in BOOLEAN : Gitleaks(r, ok) \/ MarkClean(r, ok)
          \/ \E o \in Attempts : Attempt(r, o)
          \/ \E end \in RelayEnds : Relay(r, end)
  BY DEF ProxyNext, EditRules, wire
<1> DEFINE q == req[r]
<1>4. q \in Request /\ Asked(q, served[r], replies[r]) /\ served[r] \in Nat /\ replies[r] \in Answers
      /\ req \in [Requests -> Request] /\ served \in [Requests -> Nat]
      /\ replies \in [Requests -> Answers]
  BY DEF ProxyInv, ProxyTypeOK, AnswersInv
<1>5. q.attempt \in {1, 2}
  BY <1>4 DEF Request
\* A thread on its way to the upstream, or still on its way there.
<1>6. ASSUME q.pc \in {"idle", "scan"} \cup Scanning, UNCHANGED <<served, replies>>,
             req' = [req EXCEPT ![r] = req'[r]], req'[r].attempt = q.attempt,
             req'[r].pc \in {"scan", "forward"} \cup Scanning
      PROVE  AnswersInv'
  <2>1. Asked(req'[r], served[r], replies[r])
    BY <1>4, <1>6 DEF Asked, Scanning
  <2> QED  BY <1>1, <1>4, <1>6, <2>1
\* A thread that answers.
<1>7. ASSUME End(r, "done"), NEW answer \in {"400", "503", "502", "relayed"}, Reply(r, answer), q.pc # "done",
             NEW times \in Nat,
             served' = [served EXCEPT ![r] = times] \/ (served' = served /\ times = served[r]),
             times = 0 \/ (answer \in {"502", "relayed"} /\ times <= q.attempt)
      PROVE  AnswersInv'
  <2>1. req' = [req EXCEPT ![r] = req'[r]] /\ req'[r].pc = "done" /\ req'[r].attempt = q.attempt
    BY <1>4, <1>7 DEF End, NoRequest
  <2>2. replies[r] = <<>>
    BY <1>4, <1>7 DEF Asked
  <2>3. replies' = [replies EXCEPT ![r] = <<answer>>] /\ replies'[r] = <<answer>>
    BY <1>4, <1>7, <2>2 DEF Reply
  <2>4. <<answer>> \in Answers
    BY <1>7 DEF Answers
  <2>5. served'[r] = times /\ served' = [served EXCEPT ![r] = served'[r]]
    BY <1>4, <1>7
  <2>6. Asked(req'[r], served'[r], replies'[r])
    BY <1>5, <1>7, <2>1, <2>3, <2>5 DEF Asked, Scanning
  <2> QED  BY <1>1, <1>7, <2>1, <2>3, <2>4, <2>5, <2>6
<1>8. ASSUME NEW body \in Bodies, NEW path \in {"good", "bad"}, Receive(r, body, path)
      PROVE  AnswersInv'
  BY <1>4, <1>6, <1>8 DEF Receive, wire, Request
<1>9. ASSUME ReadSignature(r) PROVE AnswersInv'
  <2>1. CASE q.body = NotJson
    <3>1. served[r] = 0 /\ served' = served /\ q.pc = "scan"
      BY <1>4, <1>9 DEF ReadSignature, Asked
    <3>2. End(r, "done") /\ Reply(r, "400")
      BY <1>9, <2>1 DEF ReadSignature
    <3> QED  BY <1>7, <3>1, <3>2
  <2>2. CASE q.body # NotJson
    <3>1. q.pc = "scan" /\ UNCHANGED <<served, replies>>
          /\ req' = [req EXCEPT ![r] = req'[r]] /\ req'[r].attempt = q.attempt /\ req'[r].pc = "refresh"
      BY <1>4, <1>9, <2>2 DEF ReadSignature, Request
    <3> QED  BY <1>6, <3>1 DEF Scanning
  <2> QED  BY <2>1, <2>2
<1>10. ASSUME RefreshConfig(r) PROVE AnswersInv'
  BY <1>4, <1>6, <1>10 DEF RefreshConfig, Step, wire, Request, Scanning
<1>11. ASSUME Lookup(r) PROVE AnswersInv'
  <2>1. q.pc = "lookup" /\ UNCHANGED <<served, replies>>
    BY <1>11 DEF Lookup, wire
  <2> DEFINE on == [q EXCEPT !.at = @ + 1]
  <2>2. \A sig, new : /\ [on EXCEPT !.sig = sig].attempt = q.attempt
                      /\ [on EXCEPT !.new = new].attempt = q.attempt
                      /\ on.attempt = q.attempt /\ on.pc = "lookup"
                      /\ [on EXCEPT !.sig = sig].pc = "lookup"
                      /\ [on EXCEPT !.new = new].pc = "lookup"
                      /\ DOMAIN on = DOMAIN NoRequest
                      /\ DOMAIN [on EXCEPT !.sig = sig] = DOMAIN NoRequest
                      /\ DOMAIN [on EXCEPT !.new = new] = DOMAIN NoRequest
    BY <1>4, <2>1 DEF Request, NoRequest
  <2>3. ASSUME NEW p, p.attempt = q.attempt, p.pc = "lookup", DOMAIN p = DOMAIN NoRequest
        PROVE  Looked(p).pc \in {"lookup", "forward", "gitleaks"} /\ Looked(p).attempt = q.attempt
    BY <2>3 DEF Looked, Passed, NoRequest
  <2> HIDE DEF on, q
  <2>4. \/ req' = [req EXCEPT ![r] = Looked(on)]
        \/ \E sig : req' = [req EXCEPT ![r] = Looked([on EXCEPT !.sig = sig])]
        \/ \E new : req' = [req EXCEPT ![r] = Looked([on EXCEPT !.new = new])]
    BY <1>11, Zenon DEF Lookup, on, q
  <2>5. PICK p : /\ req' = [req EXCEPT ![r] = Looked(p)]
                 /\ p.attempt = q.attempt /\ p.pc = "lookup" /\ DOMAIN p = DOMAIN NoRequest
    BY <2>2, <2>4
  <2> QED  BY <1>4, <1>6, <2>1, <2>3, <2>5 DEF Scanning, q
<1>12. ASSUME NEW ok \in BOOLEAN, Gitleaks(r, ok) PROVE AnswersInv'
  <2>1. q.pc = "gitleaks" /\ served' = served /\ served[r] = 0
    BY <1>4, <1>12 DEF Gitleaks, Asked, Scanning
  <2>2. CASE ok
    <3>1. UNCHANGED <<served, replies>>
          /\ req' = [req EXCEPT ![r] = req'[r]] /\ req'[r].attempt = q.attempt /\ req'[r].pc = "mark"
      BY <1>4, <1>12, <2>2 DEF Gitleaks, Request, wire
    <3> QED  BY <1>6, <2>1, <3>1 DEF Scanning
  <2>3. CASE ~ok
    <3>1. \E answer \in {"400", "503"} : End(r, "done") /\ Reply(r, answer)
      BY <1>12, <2>3 DEF Gitleaks
    <3> QED  BY <1>7, <2>1, <3>1
  <2> QED  BY <2>2, <2>3
<1>13. ASSUME NEW readable \in BOOLEAN, MarkClean(r, readable) PROVE AnswersInv'
  <2>1. q.pc = "mark" /\ served' = served /\ served[r] = 0
    BY <1>4, <1>13 DEF MarkClean, Asked, Scanning
  <2>2. CASE q.found = {}
    <3>1. UNCHANGED <<served, replies>>
          /\ req' = [req EXCEPT ![r] = req'[r]] /\ req'[r].attempt = q.attempt /\ req'[r].pc = "forward"
      <4>1. UNCHANGED <<served, replies>> /\ req' = [req EXCEPT ![r] = Passed(q)]
        BY <1>4, <1>13, <2>2 DEF MarkClean
      <4> QED  BY <1>4, <4>1 DEF Passed, Request
    <3> QED  BY <1>6, <2>1, <3>1 DEF Scanning
  <2>3. CASE q.found # {}
    <3>1. \E answer \in {"400", "503"} : End(r, "done") /\ Reply(r, answer)
      BY <1>13, <2>3 DEF MarkClean
    <3> QED  BY <1>7, <2>1, <3>1
  <2> QED  BY <2>2, <2>3
<1>14. ASSUME NEW o \in Attempts, Attempt(r, o) PROVE AnswersInv'
  <2>1. q.pc = "forward" /\ served[r] < q.attempt /\ replies[r] = <<>>
    BY <1>4, <1>14 DEF Attempt, Asked
  <2>2. CASE ~ Admissible(q.path)
    <3>1. served' = served /\ served[r] <= q.attempt
      BY <1>4, <1>5, <1>14, <2>1, <2>2 DEF Attempt
    <3>2. End(r, "done") /\ Reply(r, "502")
      BY <1>14, <2>2 DEF Attempt
    <3> QED  BY <1>4, <1>7, <2>1, <3>1, <3>2
  <2>3. CASE Admissible(q.path)
    <3> DEFINE times == served[r] + IF CarriedOut(o) THEN 1 ELSE 0
    <3>1. served' = [served EXCEPT ![r] = times] /\ served'[r] = times
      BY <1>4, <1>14, <2>3 DEF Attempt
    <3>2. times \in Nat /\ times <= q.attempt
      BY <1>4, <1>5, <2>1
    <3> HIDE DEF times
    <3>3. CASE Step(r, "relay") /\ UNCHANGED replies
      <4>1. req' = [req EXCEPT ![r] = req'[r]] /\ req'[r].pc = "relay" /\ req'[r].attempt = q.attempt
        BY <1>4, <3>3 DEF Step, Request
      <4>2. Asked(req'[r], served'[r], replies'[r])
        BY <2>1, <3>1, <3>2, <3>3, <4>1 DEF Asked, Scanning
      <4> QED  BY <1>1, <1>4, <3>1, <3>2, <3>3, <4>1, <4>2
    <3>4. CASE End(r, "dropped") /\ UNCHANGED replies
      <4>1. req' = [req EXCEPT ![r] = req'[r]] /\ req'[r].pc = "dropped" /\ req'[r].attempt = q.attempt
        BY <1>4, <3>4 DEF End, NoRequest
      <4>2. Asked(req'[r], served'[r], replies'[r])
        BY <2>1, <3>1, <3>2, <3>4, <4>1 DEF Asked, Scanning
      <4> QED  BY <1>1, <1>4, <3>1, <3>2, <3>4, <4>1, <4>2
    <3>5. CASE q.attempt = 1 /\ req' = [req EXCEPT ![r].attempt = 2] /\ UNCHANGED replies
      <4>1. req' = [req EXCEPT ![r] = req'[r]] /\ req'[r].pc = "forward" /\ req'[r].attempt = 2
        BY <1>4, <2>1, <3>5 DEF Request
      <4>2. Asked(req'[r], served'[r], replies'[r])
        BY <2>1, <3>1, <3>2, <3>5, <4>1 DEF Asked, Scanning
      <4> QED  BY <1>1, <1>4, <3>1, <3>2, <3>5, <4>1, <4>2
    <3>6. CASE End(r, "done") /\ Reply(r, "502")
      BY <1>7, <2>1, <3>1, <3>2, <3>6
    <3>7. \/ Step(r, "relay") /\ UNCHANGED replies
          \/ End(r, "dropped") /\ UNCHANGED replies
          \/ q.attempt = 1 /\ req' = [req EXCEPT ![r].attempt = 2] /\ UNCHANGED replies
          \/ End(r, "done") /\ Reply(r, "502")
      BY <1>14, <2>3 DEF Attempt, Attempts
    <3> QED  BY <3>3, <3>4, <3>5, <3>6, <3>7
  <2> QED  BY <2>2, <2>3
<1>15. ASSUME NEW end \in RelayEnds, Relay(r, end) PROVE AnswersInv'
  <2>1. q.pc = "relay" /\ served' = served /\ served[r] <= q.attempt
    BY <1>4, <1>15 DEF Relay, Asked
  <2>2. End(r, "done") /\ Reply(r, "relayed")
    BY <1>15 DEF Relay
  <2> QED  BY <1>4, <1>7, <2>1, <2>2
<1> QED  BY <1>3, <1>8, <1>9, <1>10, <1>11, <1>12, <1>13, <1>14, <1>15

\* One answer at most, and it tells how often the upstream may have done the work.
THEOREM ProxyAnswersTell == ProxySpec => []AnswerTellsWhatHappened
<1>1. ProxySpec => []AnswersInv
  BY ProxyHolds, AnswersInitHold, AnswersKept, PTL DEF ProxySpec
<1>2. AnswersInv => AnswerTellsWhatHappened
  <2> SUFFICES ASSUME AnswersInv, NEW r \in Requests
               PROVE  /\ Len(replies[r]) <= 1
                      /\ replies[r] # <<>> =>
                            CASE replies[r][1] \in {"400", "503"} -> served[r] = 0
                              [] OTHER -> served[r] <= req[r].attempt
    BY DEF AnswerTellsWhatHappened
  <2>1. Asked(req[r], served[r], replies[r])
    BY DEF AnswersInv
  <2>2. replies[r] \in Answers
    BY DEF AnswersInv
  <2>3. CASE replies[r] = <<>>
    BY <2>3
  <2>4. ASSUME NEW answer \in {"400", "503", "502", "relayed"}, replies[r] = <<answer>>
        PROVE  Len(replies[r]) = 1 /\ replies[r][1] = answer /\ req[r].pc = "done"
    BY <2>1, <2>4 DEF Asked
  <2>5. CASE replies[r] # <<>>
    <3>1. PICK answer \in {"400", "503", "502", "relayed"} : replies[r] = <<answer>>
      BY <2>2, <2>5 DEF Answers
    <3>2. Len(replies[r]) = 1 /\ replies[r][1] = answer /\ req[r].pc = "done"
      BY <2>4, <3>1
    <3>3. answer \in {"400", "503"} => served[r] = 0
      BY <2>1, <3>1, <3>2 DEF Asked
    <3>4. answer \in {"502", "relayed"} => served[r] <= req[r].attempt
      BY <2>1, <3>1, <3>2 DEF Asked
    <3> QED  BY <3>1, <3>2, <3>3, <3>4
  <2> QED  BY <2>3, <2>5
<1> QED  BY <1>1, <1>2, PTL

-----------------------------------------------------------------------------
(* The gate report: what an operation leaves of the tracker.               *)

\* Issues and comments are only added, at the end.
Grows == /\ \A i \in DOMAIN issues : i \in DOMAIN issues'
         /\ \A i \in DOMAIN issues : \A n \in DOMAIN issues[i] :
                n \in DOMAIN issues'[i] /\ issues'[i][n] = issues[i][n]

ReportType ==
    /\ DOMAIN job = Jobs /\ \A j \in Jobs : DOMAIN job[j] = DOMAIN Idle
    /\ \A j \in Jobs : job[j].pc \in {"reading", "compare", "headline", "history", "index"}
                          => j \in Reporters
    /\ IsList(issues) /\ \A i \in DOMAIN issues : IsList(issues[i])
    /\ IsList(index) /\ Len(index) = Len(issues)
    /\ indexed \in Nat /\ indexed <= Len(issues)
    /\ raced \in BOOLEAN
    /\ IsList(historyRows)
    /\ \A j \in Jobs : job[j].pc \in {"comments", "post", "headline", "history", "index"}
                          => job[j].issue \in DOMAIN issues

\* What a step that moves job j alone does to the jobs.
Moves(j) == /\ j \in Jobs /\ DOMAIN job' = Jobs
            /\ DOMAIN job'[j] = DOMAIN Idle
            /\ \A k \in Jobs : k # j => job'[k] = job[k]

\* One job moves, and the others stand.
LEMMA MovesOne ==
  ASSUME ReportType, NEW j \in Jobs, NEW new, DOMAIN new = DOMAIN Idle,
         job' = [job EXCEPT ![j] = new]
  PROVE  Moves(j) /\ job'[j] = new
BY DEF ReportType, Moves

\* A comment is added at the end of its issue.
LEMMA PostGrows ==
  ASSUME ReportType, NEW i \in DOMAIN issues, NEW c,
         issues' = [issues EXCEPT ![i] = Append(@, c)]
  PROVE  /\ Grows /\ DOMAIN issues' = DOMAIN issues /\ Len(issues') = Len(issues)
         /\ IsList(issues') /\ \A n \in DOMAIN issues' : IsList(issues'[n])
         /\ Len(issues[i]) \in Nat
         /\ DOMAIN issues[i] = 1 .. Len(issues[i])
         /\ DOMAIN issues'[i] = 1 .. Len(issues[i]) + 1
         /\ issues'[i][Len(issues[i]) + 1] = c
         /\ \A k \in DOMAIN issues : k # i => issues'[k] = issues[k]
<1>1. IsList(issues) /\ IsList(issues[i]) /\ i \in 1 .. Len(issues)
  BY DEF ReportType, IsList
<1>2. PICK new : new = Append(issues[i], c)
  OBVIOUS
<1>3. issues' = [issues EXCEPT ![i] = new]
  BY <1>2
<1>4. /\ IsList(new) /\ DOMAIN issues[i] = 1 .. Len(issues[i])
      /\ DOMAIN new = 1 .. Len(issues[i]) + 1 /\ new[Len(issues[i]) + 1] = c
      /\ \A n \in 1 .. Len(issues[i]) : new[n] = issues[i][n]
  <2>1. Longer(issues[i], c, new)
    BY <1>1, <1>2, ListGrows, Zenon
  <2> QED  BY <2>1 DEF Longer
<1>5. /\ IsList(issues') /\ Len(issues') = Len(issues) /\ DOMAIN issues' = DOMAIN issues
      /\ issues'[i] = new /\ \A k \in 1 .. Len(issues) : k # i => issues'[k] = issues[k]
      /\ DOMAIN issues = 1 .. Len(issues)
  <2>1. Changed(issues, i, new, issues')
    <3>1. Changed(issues, i, new, [issues EXCEPT ![i] = new])
      BY <1>1, ListChanges, Zenon
    <3> QED  BY <1>3, <3>1, Zenon
  <2> QED  BY <1>1, <2>1 DEF Changed
<1>6. Len(issues[i]) \in Nat
  BY <1>1 DEF IsList
<1>7. \A n \in DOMAIN issues[i] : n \in DOMAIN new /\ new[n] = issues[i][n]
  BY <1>4, <1>6
<1>8. Grows
  <2>1. ASSUME NEW k \in DOMAIN issues, NEW n \in DOMAIN issues[k]
        PROVE  n \in DOMAIN issues'[k] /\ issues'[k][n] = issues[k][n]
    BY <1>5, <1>7
  <2> QED  BY <1>5, <2>1 DEF Grows
<1>9. \A n \in DOMAIN issues' : IsList(issues'[n])
  BY <1>4, <1>5 DEF ReportType
<1> QED  BY <1>4, <1>5, <1>6, <1>8, <1>9

\* An issue is added at the end of the tracker.
LEMMA CreateGrows ==
  ASSUME ReportType, issues' = Append(issues, <<>>), index' = Append(index, <<>>)
  PROVE  /\ Grows /\ Len(issues') = Len(issues) + 1 /\ Len(index') = Len(issues')
         /\ DOMAIN issues = 1 .. Len(issues)
         /\ DOMAIN issues' = 1 .. Len(issues) + 1 /\ issues'[Len(issues) + 1] = <<>>
         /\ IsList(issues') /\ IsList(index')
         /\ \A n \in DOMAIN issues' : IsList(issues'[n])
         /\ \A n \in 1 .. Len(issues) : issues'[n] = issues[n]
         /\ DOMAIN index' = 1 .. Len(issues) + 1 /\ index'[Len(issues) + 1] = <<>>
         /\ DOMAIN index = 1 .. Len(issues)
         /\ \A n \in 1 .. Len(issues) : index'[n] = index[n]
<1>1. IsList(issues) /\ IsList(index) /\ Len(index) = Len(issues) /\ Len(issues) \in Nat
  BY DEF ReportType, IsList
<1>2. /\ IsList(issues') /\ Len(issues') = Len(issues) + 1 /\ DOMAIN issues = 1 .. Len(issues)
      /\ DOMAIN issues' = 1 .. Len(issues) + 1 /\ issues'[Len(issues) + 1] = <<>>
      /\ \A n \in 1 .. Len(issues) : issues'[n] = issues[n]
  <2>1. Longer(issues, <<>>, issues')
    BY <1>1, ListGrows, Zenon
  <2> QED  BY <1>1, <2>1 DEF Longer
<1>3. /\ IsList(index') /\ Len(index') = Len(issues) + 1 /\ DOMAIN index = 1 .. Len(issues)
      /\ DOMAIN index' = 1 .. Len(issues) + 1 /\ index'[Len(issues) + 1] = <<>>
      /\ \A n \in 1 .. Len(issues) : index'[n] = index[n]
  <2>1. Longer(index, <<>>, index')
    BY <1>1, ListGrows, Zenon
  <2> QED  BY <1>1, <2>1 DEF Longer
<1>4. ASSUME NEW n \in DOMAIN issues'
      PROVE  IsList(issues'[n])
  <2>1. CASE n = Len(issues) + 1
    BY <1>2, <2>1, EmptyIsList
  <2>2. CASE n # Len(issues) + 1
    <3>1. n \in 1 .. Len(issues)
      BY <1>1, <1>2, <2>2
    <3> QED  BY <1>2, <3>1 DEF ReportType
  <2> QED  BY <2>1, <2>2
<1>5. Grows
  <2>1. \A i \in DOMAIN issues : i \in DOMAIN issues'
    BY <1>1, <1>2
  <2> QED  BY <1>2, <2>1 DEF Grows
<1> QED  BY <1>2, <1>3, <1>4, <1>5

-----------------------------------------------------------------------------
(* What each operation does to the job, the tracker and what was shown.    *)

Shows == <<historyRows, chat>>

\* What each operation leaves alone, and where it leaves its job.
LEMMA ProduceDoes ==
  ASSUME ReportType, NEW c \in Clauses, NEW content, Produce(c, content)
  PROVE  /\ DOMAIN job' = Jobs /\ UNCHANGED <<tracker, Shows>>
         /\ \A j \in Jobs : /\ DOMAIN job'[j] = DOMAIN Idle
                            /\ \A f \in DOMAIN Idle \ {"ever"} : job'[j][f] = job[j][f]
                            /\ job'[j].ever \in {job[j].ever, job[j].ever \cup {c}}
                            /\ job[j].pc = "reading" /\ content \in {"good", "closed"}
                                   => job'[j].ever = job[j].ever \cup {c}
         /\ \A d \in Clauses : d = c \/ evidence'[d] = evidence[d]
         /\ evidence'[c] \in {evidence[c], content}
<1>1. /\ job' = [j \in Jobs |->
                    IF content \in {"good", "closed"} /\ job[j].pc = "reading"
                    THEN [job[j] EXCEPT !.ever = job[j].ever \cup {c}] ELSE job[j]]
      /\ evidence' = [evidence EXCEPT ![c] = content]
      /\ UNCHANGED <<tracker, Shows>>
  BY DEF Produce, Shows
<1>2. ASSUME NEW j \in Jobs
      PROVE  /\ DOMAIN job'[j] = DOMAIN Idle
             /\ \A f \in DOMAIN Idle \ {"ever"} : job'[j][f] = job[j][f]
             /\ job'[j].ever \in {job[j].ever, job[j].ever \cup {c}}
             /\ job[j].pc = "reading" /\ content \in {"good", "closed"}
                    => job'[j].ever = job[j].ever \cup {c}
  <2>1. DOMAIN job[j] = DOMAIN Idle
    BY DEF ReportType
  <2>2. "ever" \in DOMAIN Idle
    BY DEF Idle
  <2>3. job'[j] = IF content \in {"good", "closed"} /\ job[j].pc = "reading"
                  THEN [job[j] EXCEPT !.ever = job[j].ever \cup {c}] ELSE job[j]
    BY <1>1
  <2>4. CASE content \in {"good", "closed"} /\ job[j].pc = "reading"
    BY <2>1, <2>2, <2>3, <2>4
  <2>5. CASE ~(content \in {"good", "closed"} /\ job[j].pc = "reading")
    BY <2>1, <2>3, <2>5
  <2> QED  BY <2>4, <2>5
<1>3. (\A d \in Clauses : d = c \/ evidence'[d] = evidence[d])
      /\ evidence'[c] \in {evidence[c], content}
  BY <1>1
<1> QED  BY <1>1, <1>2, <1>3

LEMMA BeginDoes ==
  ASSUME ReportType, NEW j \in Jobs, Begin(j)
  PROVE  /\ Moves(j) /\ UNCHANGED <<evidence, tracker, Shows>>
         /\ job'[j].pc = IF j \in Reporters THEN "reading" ELSE "find"
         /\ job'[j].read = <<>>
         /\ j \in Reporters => job'[j].ever = {c \in Clauses : Good(c)}
<1>1. PICK new : new = [Idle EXCEPT !.pc = IF j \in Reporters THEN "reading" ELSE "find",
                                    !.ever = IF j \in Reporters THEN {c \in Clauses : Good(c)}
                                             ELSE {}]
  OBVIOUS
<1>2. /\ DOMAIN new = DOMAIN Idle /\ new.pc = (IF j \in Reporters THEN "reading" ELSE "find")
      /\ new.read = <<>> /\ (j \in Reporters => new.ever = {c \in Clauses : Good(c)})
  BY <1>1 DEF Idle
<1>3. job' = [job EXCEPT ![j] = new] /\ UNCHANGED <<evidence, tracker, Shows>>
  BY <1>1 DEF Begin, store, Shows
<1> QED  BY <1>2, <1>3, MovesOne

LEMMA ReadClauseDoes ==
  ASSUME ReportType, NEW j \in Jobs, NEW denied \in BOOLEAN, ReadClause(j, denied)
  PROVE  /\ Moves(j) /\ UNCHANGED <<evidence, tracker, Shows>>
         /\ job[j].pc = "reading" /\ job'[j].pc = "reading" /\ job'[j].ever = job[j].ever
         /\ Unread(j) # {}
         /\ job'[j].read = [q \in DOMAIN job[j].read \cup {NextUp(j)} |->
                               IF q = NextUp(j) THEN ReadAt(NextUp(j), denied)
                               ELSE job[j].read[q]]
<1>1. PICK p : p = NextUp(j)
  OBVIOUS
<1>2. PICK value : value = ReadAt(p, denied)
  OBVIOUS
<1>3. PICK read : read = [q \in DOMAIN job[j].read \cup {p} |->
                             IF q = p THEN value ELSE job[j].read[q]]
  OBVIOUS
<1>4. PICK new : new = [job[j] EXCEPT !.read = read]
  OBVIOUS
<1>5. job' = [job EXCEPT ![j] = new]
  BY <1>1, <1>2, <1>3, <1>4 DEF ReadClause
<1>6. /\ DOMAIN new = DOMAIN Idle /\ new.read = read /\ new.pc = job[j].pc
      /\ new.ever = job[j].ever
  <2>1. DOMAIN job[j] = DOMAIN Idle
    BY DEF ReportType
  <2> QED  BY <1>4, <2>1 DEF Idle
<1>7. Moves(j) /\ job'[j] = new
  BY <1>5, <1>6, MovesOne
<1>8. /\ UNCHANGED <<evidence, tracker, Shows>> /\ job[j].pc = "reading" /\ Unread(j) # {}
  BY DEF ReadClause, store, Shows
<1>9. job'[j].read = read /\ job'[j].pc = "reading" /\ job'[j].ever = job[j].ever
  BY <1>6, <1>7, <1>8
<1> QED  BY <1>1, <1>2, <1>3, <1>7, <1>8, <1>9

LEMMA PublishDoes ==
  ASSUME ReportType, NEW j \in Jobs, NEW refused, PublishLadder(j, refused)
  PROVE  /\ Moves(j) /\ UNCHANGED <<evidence, tracker, Shows>>
         /\ job[j].pc = "reading" /\ Unread(j) = {} /\ job'[j].pc = "compare"
         /\ job'[j].ever = job[j].ever
         /\ job'[j].payload = LadderPayload(BuildLadder(Readings(j), filed, refused))
<1>1. PICK payload : payload = LadderPayload(BuildLadder(Readings(j), filed, refused))
  OBVIOUS
<1>2. PICK new : new = [job[j] EXCEPT !.payload = payload, !.pc = "compare"]
  OBVIOUS
<1>3. job' = [job EXCEPT ![j] = new]
  BY <1>1, <1>2 DEF PublishLadder
<1>4. /\ DOMAIN new = DOMAIN Idle /\ new.pc = "compare" /\ new.payload = payload
      /\ new.ever = job[j].ever
  <2>1. DOMAIN job[j] = DOMAIN Idle
    BY DEF ReportType
  <2> QED  BY <1>2, <2>1 DEF Idle
<1>5. Moves(j) /\ job'[j] = new
  BY <1>3, <1>4, MovesOne
<1>6. UNCHANGED <<evidence, tracker, Shows>> /\ job[j].pc = "reading" /\ Unread(j) = {}
  BY DEF PublishLadder, Shows
<1> QED  BY <1>1, <1>4, <1>5, <1>6

LEMMA CompareDoes ==
  ASSUME ReportType, NEW j \in Jobs, NEW denied \in BOOLEAN, Compare(j, denied)
  PROVE  /\ Moves(j) /\ UNCHANGED <<evidence, tracker, Shows>>
         /\ job'[j].pc = "find"
<1>1. PICK moves : moves = MovedSince(ReadOptional(board[DayOf[j] - 1], denied),
                                      job[j].payload).moves
  OBVIOUS
<1>2. PICK new : new = [job[j] EXCEPT !.moved = moves, !.pc = "find", !.read = <<>>, !.ever = {}]
  OBVIOUS
<1>3. job' = [job EXCEPT ![j] = new]
  BY <1>1, <1>2 DEF Compare
<1>4. DOMAIN new = DOMAIN Idle /\ new.pc = "find"
  <2>1. DOMAIN job[j] = DOMAIN Idle
    BY DEF ReportType
  <2> QED  BY <1>2, <2>1 DEF Idle
<1>5. Moves(j) /\ job'[j] = new
  BY <1>3, <1>4, MovesOne
<1>6. UNCHANGED <<evidence, tracker, Shows>>
  BY DEF Compare, store, Shows
<1> QED  BY <1>4, <1>5, <1>6

LEMMA FindDoes ==
  ASSUME ReportType, NEW j \in Jobs, NEW o \in Outcomes, FindOrCreate(j, o)
  PROVE  /\ Moves(j) /\ UNCHANGED <<evidence, issues, indexed, index, Shows>>
         /\ raced' = (raced \/ indexed < Len(issues)) /\ raced' \in BOOLEAN
         /\ job'[j].knew = Len(issues)
         /\ \/ job'[j].pc = "comments" /\ job'[j].issue = 1 /\ indexed >= 1
            \/ job'[j].pc = "failed"
            \/ job'[j].pc = "create" /\ indexed = 0
<1>1. PICK found : found = FindIssueByTitle(o)
  OBVIOUS
<1>2. PICK new : new = [job[j] EXCEPT !.knew = Len(issues),
                                      !.issue = IF found = "one" THEN 1 ELSE 0,
                                      !.pc = CASE found = "one" -> "comments"
                                               [] found = "raise" -> "failed"
                                               [] OTHER -> "create"]
  OBVIOUS
<1>3. job' = [job EXCEPT ![j] = new]
  BY <1>1, <1>2 DEF FindOrCreate
<1>4. DOMAIN job[j] = DOMAIN Idle /\ indexed \in Nat
  BY DEF ReportType
<1>5. /\ DOMAIN new = DOMAIN Idle /\ new.knew = Len(issues)
      /\ new.issue = (IF found = "one" THEN 1 ELSE 0)
      /\ new.pc = CASE found = "one" -> "comments" [] found = "raise" -> "failed"
                    [] OTHER -> "create"
  BY <1>2, <1>4 DEF Idle
<1>6. Moves(j) /\ job'[j] = new
  BY <1>3, <1>5, MovesOne
<1>7. \/ found = "raise"
      \/ found = "none" /\ indexed = 0
      \/ found = "one" /\ indexed >= 1
  BY <1>1, <1>4 DEF FindIssueByTitle
<1>8. \/ new.pc = "comments" /\ new.issue = 1 /\ indexed >= 1
      \/ new.pc = "failed"
      \/ new.pc = "create" /\ indexed = 0
  BY <1>5, <1>7
<1>9. /\ UNCHANGED <<evidence, issues, indexed, index, Shows>>
      /\ raced' = (raced \/ indexed < Len(issues))
  BY DEF FindOrCreate, store, Shows
<1>10. raced' \in BOOLEAN
  BY <1>9, Zenon
<1> QED  BY <1>5, <1>6, <1>8, <1>9, <1>10

LEMMA CreateDoes ==
  ASSUME ReportType, NEW j \in Jobs, NEW o \in Outcomes, CreateIssue(j, o)
  PROVE  /\ Moves(j) /\ UNCHANGED <<evidence, indexed, Shows>>
         /\ job[j].pc = "create"
         /\ \/ UNCHANGED <<issues, index>>
            \/ o # "refused" /\ issues' = Append(issues, <<>>) /\ index' = Append(index, <<>>)
         /\ raced' = (raced \/ (o # "refused" /\ Len(issues) > job[j].knew))
         /\ raced' \in BOOLEAN
         /\ \/ job'[j].pc = "failed"
            \/ job'[j].pc = "comments" /\ job'[j].issue = Len(issues) + 1
               /\ issues' = Append(issues, <<>>)
<1>1. /\ job[j].pc = "create" /\ UNCHANGED <<evidence, indexed, Shows>>
      /\ raced' = (raced \/ (o # "refused" /\ Len(issues) > job[j].knew))
      /\ \/ o = "refused" /\ UNCHANGED <<issues, index>>
         \/ o # "refused" /\ issues' = Append(issues, <<>>) /\ index' = Append(index, <<>>)
  BY DEF CreateIssue, store, Shows
<1>2. raced' \in BOOLEAN
  BY <1>1, Zenon
<1>3. DOMAIN job[j] = DOMAIN Idle
  BY DEF ReportType
<1>4. CASE o = "ok"
  <2>1. PICK new : new = [job[j] EXCEPT !.issue = Len(issues) + 1, !.pc = "comments"]
    OBVIOUS
  <2>2. job' = [job EXCEPT ![j] = new]
    BY <1>4, <2>1 DEF CreateIssue
  <2>3. DOMAIN new = DOMAIN Idle /\ new.pc = "comments" /\ new.issue = Len(issues) + 1
    BY <1>3, <2>1 DEF Idle
  <2>4. Moves(j) /\ job'[j] = new
    BY <2>2, <2>3, MovesOne
  <2>5. issues' = Append(issues, <<>>)
    BY <1>1, <1>4
  <2> QED  BY <1>1, <1>2, <2>3, <2>4, <2>5
<1>5. CASE o # "ok"
  <2>1. PICK new : new = [job[j] EXCEPT !.pc = "failed"]
    OBVIOUS
  <2>2. job' = [job EXCEPT ![j] = new]
    BY <1>5, <2>1 DEF CreateIssue, Goto
  <2>3. DOMAIN new = DOMAIN Idle /\ new.pc = "failed"
    BY <1>3, <2>1 DEF Idle
  <2>4. Moves(j) /\ job'[j] = new
    BY <2>2, <2>3, MovesOne
  <2> QED  BY <1>1, <1>2, <2>3, <2>4
<1> QED  BY <1>4, <1>5

\* An operation that goes on to another place and leaves the rest of the job.
LEMMA GotoMoves ==
  ASSUME ReportType, NEW j \in Jobs, NEW pc, Goto(j, pc)
  PROVE  /\ Moves(j) /\ job'[j].pc = pc
         /\ \A f \in DOMAIN Idle \ {"pc"} : job'[j][f] = job[j][f]
<1>1. PICK new : new = [job[j] EXCEPT !.pc = pc]
  OBVIOUS
<1>2. job' = [job EXCEPT ![j] = new]
  BY <1>1 DEF Goto
<1>3. DOMAIN job[j] = DOMAIN Idle
  BY DEF ReportType
<1>4. "pc" \in DOMAIN Idle
  BY DEF Idle
<1>5. /\ DOMAIN new = DOMAIN Idle /\ new.pc = pc
      /\ \A f \in DOMAIN Idle \ {"pc"} : new[f] = job[j][f]
  BY <1>1, <1>3, <1>4
<1>6. Moves(j) /\ job'[j] = new
  BY <1>2, <1>5, MovesOne
<1> QED  BY <1>5, <1>6

LEMMA ListCommentsDoes ==
  ASSUME ReportType, NEW j \in Jobs, NEW o \in Outcomes, ListComments(j, o)
  PROVE  /\ Moves(j) /\ UNCHANGED <<evidence, tracker, Shows>>
         /\ job[j].pc = "comments" /\ job'[j].pc \in {"post", "failed", "done"}
         /\ job'[j].issue = job[j].issue
         /\ j \notin Reporters /\ job'[j].pc = "post" =>
                LET comments == issues[job[j].issue]
                IN  About(j) \notin {comments[i].about : i \in DOMAIN comments}
<1>1. PICK listed : listed = CommentBodies(issues[job[j].issue])
  OBVIOUS
<1>2. PICK pc : pc = CASE j \in Reporters -> "post"
                       [] j \notin Reporters /\ (o # "ok" \/ ~listed.ok) -> "failed"
                       [] OTHER -> IF About(j) \in listed.bodies THEN "done" ELSE "post"
  OBVIOUS
<1>3. Goto(j, pc) /\ job[j].pc = "comments" /\ UNCHANGED <<evidence, tracker, Shows>>
  BY <1>1, <1>2 DEF ListComments, store, Shows
<1>4. Moves(j) /\ job'[j].pc = pc /\ \A f \in DOMAIN Idle \ {"pc"} : job'[j][f] = job[j][f]
  BY <1>3, GotoMoves
<1>5. job'[j].issue = job[j].issue
  BY <1>4 DEF Idle
<1>6. pc \in {"post", "failed", "done"}
  BY <1>2
<1>7. ASSUME j \notin Reporters, pc = "post"
      PROVE  LET comments == issues[job[j].issue]
             IN  About(j) \notin {comments[i].about : i \in DOMAIN comments}
  <2>1. listed.ok /\ About(j) \notin listed.bodies
    BY <1>2, <1>7
  <2> QED  BY <1>1, <2>1 DEF CommentBodies
<1> QED  BY <1>3, <1>4, <1>5, <1>6, <1>7

LEMMA PostDoes ==
  ASSUME ReportType, NEW j \in Jobs, NEW o \in Outcomes, PostComment(j, o)
  PROVE  /\ Moves(j) /\ UNCHANGED <<evidence, indexed, index, raced, Shows>>
         /\ job[j].pc = "post" /\ job'[j].issue = job[j].issue
         /\ job'[j].payload = job[j].payload
         /\ \/ UNCHANGED issues
            \/ issues' = [issues EXCEPT ![job[j].issue] =
                   Append(@, [about |-> About(j), states |-> job[j].payload.states, by |-> j])]
         /\ \/ job'[j].pc \in {"failed", "done"}
            \/ /\ job'[j].pc = "headline" /\ j \in Reporters
               /\ job'[j].link = <<job[j].issue, Len(issues[job[j].issue]) + 1>>
               /\ issues' = [issues EXCEPT ![job[j].issue] =
                     Append(@, [about |-> About(j), states |-> job[j].payload.states, by |-> j])]
<1>1. PICK link : link = IF o = "ok" THEN <<job[j].issue, Len(issues[job[j].issue]) + 1>>
                         ELSE NoLink
  OBVIOUS
<1>2. PICK pc : pc = CASE o # "ok" -> "failed"
                       [] OTHER -> IF j \in Reporters THEN "headline" ELSE "done"
  OBVIOUS
<1>3. PICK new : new = [job[j] EXCEPT !.link = link, !.pc = pc]
  OBVIOUS
<1>4. job' = [job EXCEPT ![j] = new]
  BY <1>1, <1>2, <1>3 DEF PostComment
<1>5. DOMAIN job[j] = DOMAIN Idle
  BY DEF ReportType
<1>6. /\ DOMAIN new = DOMAIN Idle /\ new.pc = pc /\ new.link = link
      /\ new.issue = job[j].issue /\ new.payload = job[j].payload
  BY <1>3, <1>5 DEF Idle
<1>7. Moves(j) /\ job'[j] = new
  BY <1>4, <1>6, MovesOne
<1>8. /\ job[j].pc = "post" /\ UNCHANGED <<evidence, indexed, index, raced, Shows>>
      /\ IF o = "refused" THEN UNCHANGED issues
         ELSE issues' = [issues EXCEPT ![job[j].issue] =
                 Append(@, [about |-> About(j), states |-> job[j].payload.states, by |-> j])]
  BY DEF PostComment, store, Shows
<1>9. \/ pc \in {"failed", "done"}
      \/ pc = "headline" /\ j \in Reporters /\ o = "ok"
         /\ link = <<job[j].issue, Len(issues[job[j].issue]) + 1>>
  BY <1>1, <1>2
<1>10. o = "ok" => o # "refused"
  OBVIOUS
<1>11. CASE pc \in {"failed", "done"}
  BY <1>6, <1>7, <1>8, <1>11
<1>12. CASE pc = "headline" /\ j \in Reporters /\ o = "ok"
            /\ link = <<job[j].issue, Len(issues[job[j].issue]) + 1>>
  BY <1>6, <1>7, <1>8, <1>10, <1>12
<1> QED  BY <1>9, <1>11, <1>12

LEMMA DeliverDoes ==
  ASSUME ReportType, NEW j \in Jobs, NEW o \in Outcomes, Deliver(j, o)
  PROVE  /\ Moves(j) /\ UNCHANGED <<evidence, tracker, historyRows>>
         /\ job[j].pc = "headline" /\ job'[j].pc \in {"history", "failed"}
         /\ \A f \in DOMAIN Idle \ {"pc"} : job'[j][f] = job[j][f]
         /\ \/ UNCHANGED chat
            \/ chat' = chat \cup {[day |-> DayOf[j], link |-> job[j].link,
                                   states |-> job[j].payload.states]}
<1>1. PICK pc \in {"history", "failed"} : Goto(j, pc)
  BY DEF Deliver
<1>2. Moves(j) /\ job'[j].pc = pc /\ \A f \in DOMAIN Idle \ {"pc"} : job'[j][f] = job[j][f]
  BY <1>1, GotoMoves
<1>3. /\ UNCHANGED <<evidence, tracker, historyRows>> /\ job[j].pc = "headline"
      /\ \/ UNCHANGED chat
         \/ chat' = chat \cup {[day |-> DayOf[j], link |-> job[j].link,
                                states |-> job[j].payload.states]}
  BY DEF Deliver, store
<1> QED  BY <1>1, <1>2, <1>3

LEMMA FileDoes ==
  ASSUME ReportType, NEW j \in Jobs, NEW o \in Outcomes, FileHistoryRow(j, o)
  PROVE  /\ Moves(j) /\ UNCHANGED <<evidence, tracker, chat>>
         /\ job[j].pc = "history" /\ job'[j].pc = "index"
         /\ \A f \in DOMAIN Idle \ {"pc"} : job'[j][f] = job[j][f]
         /\ historyRows' = Append(historyRows, [day |-> DayOf[j], link |-> job[j].link,
                                                parses |-> o = "ok"])
<1>1. Goto(j, "index")
  BY DEF FileHistoryRow
<1>2. /\ Moves(j) /\ job'[j].pc = "index"
      /\ \A f \in DOMAIN Idle \ {"pc"} : job'[j][f] = job[j][f]
  BY <1>1, GotoMoves
<1>3. /\ UNCHANGED <<evidence, tracker, chat>> /\ job[j].pc = "history"
      /\ historyRows' = Append(historyRows, [day |-> DayOf[j], link |-> job[j].link,
                                             parses |-> o = "ok"])
  BY DEF FileHistoryRow, store
<1> QED  BY <1>2, <1>3

LEMMA UpdateDoes ==
  ASSUME ReportType, NEW j \in Jobs, NEW o \in Outcomes, UpdateIssueBody(j, o)
  PROVE  /\ Moves(j) /\ UNCHANGED <<evidence, issues, indexed, raced, Shows>>
         /\ job[j].pc = "index" /\ job'[j].pc \in {"done", "failed"}
         /\ \/ UNCHANGED index
            \/ index' = [index EXCEPT ![job[j].issue] = RenderHistoryIndex(historyRows)]
<1>1. PICK pc \in {"done", "failed"} : Goto(j, pc)
  BY DEF UpdateIssueBody
<1>2. Moves(j) /\ job'[j].pc = pc
  BY <1>1, GotoMoves
<1>3. /\ UNCHANGED <<evidence, issues, indexed, raced, Shows>> /\ job[j].pc = "index"
      /\ \/ UNCHANGED index
         \/ index' = [index EXCEPT ![job[j].issue] = RenderHistoryIndex(historyRows)]
  BY DEF UpdateIssueBody, store, Shows
<1> QED  BY <1>1, <1>2, <1>3

-----------------------------------------------------------------------------
(* Types                                                                   *)

\* What is left of the tracker's types once it is known how the lists changed.
LEMMA TypeOfOne ==
  ASSUME ReportType, NEW j \in Jobs, Moves(j),
         job'[j].pc \in {"reading", "compare", "headline", "history", "index"} => j \in Reporters,
         job'[j].pc \in {"comments", "post", "headline", "history", "index"}
             => job'[j].issue \in DOMAIN issues',
         \A i \in DOMAIN issues : i \in DOMAIN issues',
         IsList(issues'), \A i \in DOMAIN issues' : IsList(issues'[i]),
         IsList(index'), Len(index') = Len(issues'),
         indexed' \in Nat, indexed' <= Len(issues'), raced' \in BOOLEAN, IsList(historyRows')
  PROVE  ReportType'
<1>1. ASSUME NEW k \in Jobs
      PROVE  /\ DOMAIN job'[k] = DOMAIN Idle
             /\ job'[k].pc \in {"reading", "compare", "headline", "history", "index"}
                    => k \in Reporters
             /\ job'[k].pc \in {"comments", "post", "headline", "history", "index"}
                    => job'[k].issue \in DOMAIN issues'
  BY DEF ReportType, Moves
<1>2. DOMAIN job' = Jobs /\ DOMAIN Idle' = DOMAIN Idle
  BY DEF Moves, Idle
<1> QED  BY <1>1, <1>2 DEF ReportType

\* A step that shows nothing keeps the types.
LEMMA TypeOfQuiet ==
  ASSUME ReportType, NEW j \in Jobs, Moves(j), UNCHANGED <<issues, index, indexed, historyRows>>,
         raced' \in BOOLEAN,
         job'[j].pc \in {"reading", "compare", "headline", "history", "index"} => j \in Reporters,
         job'[j].pc \in {"comments", "post", "headline", "history", "index"}
             => job'[j].issue \in DOMAIN issues
  PROVE  ReportType'
<1>1. ASSUME NEW k \in Jobs
      PROVE  /\ DOMAIN job'[k] = DOMAIN Idle
             /\ job'[k].pc \in {"reading", "compare", "headline", "history", "index"}
                    => k \in Reporters
             /\ job'[k].pc \in {"comments", "post", "headline", "history", "index"}
                    => job'[k].issue \in DOMAIN issues'
  BY DEF ReportType, Moves
<1>2. DOMAIN job' = Jobs /\ DOMAIN Idle' = DOMAIN Idle
  BY DEF Moves, Idle
<1> QED  BY <1>1, <1>2 DEF ReportType

\* Every step, for the types.
LEMMA ReportTypeStep ==
  ASSUME ReportType, [ReportNext]_reportVars
  PROVE  ReportType'
<1>0. /\ IsList(issues) /\ IsList(index) /\ IsList(historyRows) /\ Len(index) = Len(issues)
      /\ indexed \in Nat /\ indexed <= Len(issues) /\ raced \in BOOLEAN
      /\ Len(issues) \in Nat /\ DOMAIN issues = 1 .. Len(issues)
      /\ \A i \in DOMAIN issues : IsList(issues[i])
  BY DEF ReportType, IsList
<1>1. CASE UNCHANGED <<tracker, historyRows, job>>
  BY <1>1 DEF ReportType, tracker, Idle
<1>2. ASSUME NEW c \in Clauses, NEW content, Produce(c, content)
      PROVE  ReportType'
  <2>1. /\ DOMAIN job' = Jobs /\ UNCHANGED <<tracker, historyRows>>
        /\ \A j \in Jobs : /\ DOMAIN job'[j] = DOMAIN Idle
                           /\ \A f \in DOMAIN Idle \ {"ever"} : job'[j][f] = job[j][f]
    BY <1>2, ProduceDoes DEF Shows
  <2>2. \A j \in Jobs : job'[j].pc = job[j].pc /\ job'[j].issue = job[j].issue
    BY <2>1 DEF Idle
  <2>3. ASSUME NEW j \in Jobs
        PROVE  /\ DOMAIN job'[j] = DOMAIN Idle'
               /\ job'[j].pc \in {"reading", "compare", "headline", "history", "index"}
                      => j \in Reporters
               /\ job'[j].pc \in {"comments", "post", "headline", "history", "index"}
                      => job'[j].issue \in DOMAIN issues'
    BY <2>1, <2>2 DEF ReportType, tracker, Idle
  <2> QED  BY <1>0, <2>1, <2>3 DEF ReportType, tracker
<1>3. ASSUME Reindex
      PROVE  ReportType'
  BY <1>0, <1>3 DEF Reindex, ReportType, Idle
<1>4. ASSUME NEW j \in Jobs, Begin(j)
      PROVE  ReportType'
  BY <1>0, <1>4, BeginDoes, TypeOfQuiet DEF tracker, Shows
<1>5. ASSUME NEW j \in Jobs, NEW denied \in BOOLEAN, ReadClause(j, denied)
      PROVE  ReportType'
  <2>1. j \in Reporters
    BY <1>5, ReadClauseDoes DEF ReportType
  <2> QED  BY <1>0, <1>5, <2>1, ReadClauseDoes, TypeOfQuiet DEF tracker, Shows
<1>6. ASSUME NEW j \in Jobs, NEW refused, PublishLadder(j, refused)
      PROVE  ReportType'
  <2>1. j \in Reporters
    BY <1>6, PublishDoes DEF ReportType
  <2> QED  BY <1>0, <1>6, <2>1, PublishDoes, TypeOfQuiet DEF tracker, Shows
<1>7. ASSUME NEW j \in Jobs, NEW denied \in BOOLEAN, Compare(j, denied)
      PROVE  ReportType'
  BY <1>0, <1>7, CompareDoes, TypeOfQuiet DEF tracker, Shows
<1>8. ASSUME NEW j \in Jobs, NEW o \in Outcomes, FindOrCreate(j, o)
      PROVE  ReportType'
  <2>1. /\ Moves(j) /\ UNCHANGED <<issues, indexed, index, historyRows>> /\ raced' \in BOOLEAN
        /\ \/ job'[j].pc = "comments" /\ job'[j].issue = 1 /\ indexed >= 1
           \/ job'[j].pc = "failed"
           \/ job'[j].pc = "create" /\ indexed = 0
    BY <1>8, FindDoes DEF Shows
  <2>2. job'[j].pc = "comments" => job'[j].issue \in DOMAIN issues
    BY <1>0, <2>1
  <2> QED  BY <2>1, <2>2, TypeOfQuiet
<1>9. ASSUME NEW j \in Jobs, NEW o \in Outcomes, CreateIssue(j, o)
      PROVE  ReportType'
  <2>1. /\ Moves(j) /\ UNCHANGED <<indexed, historyRows>> /\ raced' \in BOOLEAN
        /\ \/ UNCHANGED <<issues, index>>
           \/ issues' = Append(issues, <<>>) /\ index' = Append(index, <<>>)
        /\ \/ job'[j].pc = "failed"
           \/ job'[j].pc = "comments" /\ job'[j].issue = Len(issues) + 1
              /\ issues' = Append(issues, <<>>)
    BY <1>9, CreateDoes DEF Shows
  <2>2. CASE issues' = Append(issues, <<>>) /\ index' = Append(index, <<>>)
    <3>1. /\ Grows /\ Len(issues') = Len(issues) + 1 /\ Len(index') = Len(issues')
          /\ DOMAIN issues' = 1 .. Len(issues) + 1
          /\ IsList(issues') /\ IsList(index') /\ \A n \in DOMAIN issues' : IsList(issues'[n])
      BY <2>2, CreateGrows
    <3>2. /\ \A i \in DOMAIN issues : i \in DOMAIN issues'
          /\ indexed' \in Nat /\ indexed' <= Len(issues')
          /\ Len(issues) + 1 \in DOMAIN issues'
      BY <1>0, <2>1, <3>1 DEF Grows
    <3>3. /\ job'[j].pc \in {"reading", "compare", "headline", "history", "index"}
                 => j \in Reporters
          /\ job'[j].pc \in {"comments", "post", "headline", "history", "index"}
                 => job'[j].issue \in DOMAIN issues'
      BY <2>1, <3>2
    <3>4. IsList(historyRows')
      BY <1>0, <2>1
    <3> QED  BY <2>1, <3>1, <3>2, <3>3, <3>4, TypeOfOne
  <2>3. CASE UNCHANGED <<issues, index>> /\ job'[j].pc = "failed"
    BY <2>1, <2>3, TypeOfQuiet
  <2>4. UNCHANGED issues /\ issues' = Append(issues, <<>>) => FALSE
    <3> SUFFICES ASSUME UNCHANGED issues, issues' = Append(issues, <<>>) PROVE FALSE
      OBVIOUS
    <3>1. Longer(issues, <<>>, issues')
      BY <1>0, ListGrows, Zenon
    <3> QED  BY <1>0, <3>1 DEF Longer
  <2> QED  BY <2>1, <2>2, <2>3, <2>4
<1>10. ASSUME NEW j \in Jobs, NEW o \in Outcomes, ListComments(j, o)
       PROVE  ReportType'
  <2>1. /\ Moves(j) /\ UNCHANGED <<tracker, Shows>> /\ job[j].pc = "comments"
        /\ job'[j].pc \in {"post", "failed", "done"} /\ job'[j].issue = job[j].issue
    BY <1>10, ListCommentsDoes
  <2>2. job'[j].issue \in DOMAIN issues
    BY <2>1 DEF ReportType
  <2> QED  BY <1>0, <2>1, <2>2, TypeOfQuiet DEF tracker, Shows
<1>11. ASSUME NEW j \in Jobs, NEW o \in Outcomes, PostComment(j, o)
       PROVE  ReportType'
  <2>1. PICK c : c = [about |-> About(j), states |-> job[j].payload.states, by |-> j]
    OBVIOUS
  <2>2. /\ Moves(j) /\ UNCHANGED <<indexed, index, raced, historyRows>>
        /\ job[j].pc = "post" /\ job'[j].issue = job[j].issue
        /\ \/ UNCHANGED issues
           \/ issues' = [issues EXCEPT ![job[j].issue] = Append(@, c)]
        /\ \/ job'[j].pc \in {"failed", "done"}
           \/ job'[j].pc = "headline" /\ j \in Reporters
    BY <1>11, <2>1, PostDoes DEF Shows
  <2>3. job[j].issue \in DOMAIN issues
    BY <2>2 DEF ReportType
  <2>4. CASE UNCHANGED issues
    BY <1>0, <2>2, <2>3, <2>4, TypeOfQuiet
  <2>5. CASE issues' = [issues EXCEPT ![job[j].issue] = Append(@, c)]
    <3>1. /\ Grows /\ DOMAIN issues' = DOMAIN issues /\ Len(issues') = Len(issues)
          /\ IsList(issues') /\ \A n \in DOMAIN issues' : IsList(issues'[n])
      BY <2>3, <2>5, PostGrows
    <3> QED  BY <1>0, <2>2, <2>3, <3>1, TypeOfOne
  <2> QED  BY <2>2, <2>4, <2>5
<1>12. ASSUME NEW j \in Jobs, NEW o \in Outcomes, Deliver(j, o)
       PROVE  ReportType'
  <2>1. /\ Moves(j) /\ UNCHANGED <<tracker, historyRows>> /\ job[j].pc = "headline"
        /\ job'[j].pc \in {"history", "failed"} /\ job'[j].issue = job[j].issue
    BY <1>12, DeliverDoes DEF Idle
  <2>2. j \in Reporters /\ job'[j].issue \in DOMAIN issues
    BY <2>1 DEF ReportType
  <2> QED  BY <1>0, <2>1, <2>2, TypeOfQuiet DEF tracker
<1>13. ASSUME NEW j \in Jobs, NEW o \in Outcomes, FileHistoryRow(j, o)
       PROVE  ReportType'
  <2>1. /\ Moves(j) /\ UNCHANGED tracker /\ job[j].pc = "history"
        /\ job'[j].pc = "index" /\ job'[j].issue = job[j].issue
        /\ historyRows' = Append(historyRows, [day |-> DayOf[j], link |-> job[j].link,
                                               parses |-> o = "ok"])
    BY <1>13, FileDoes DEF Idle
  <2>2. j \in Reporters /\ job'[j].issue \in DOMAIN issues
    BY <2>1 DEF ReportType
  <2>3. IsList(historyRows')
    <3>1. PICK row : row = [day |-> DayOf[j], link |-> job[j].link, parses |-> o = "ok"]
      OBVIOUS
    <3>2. Longer(historyRows, row, historyRows')
      BY <1>0, <2>1, <3>1, ListGrows
    <3> QED  BY <3>2 DEF Longer
  <2>4. UNCHANGED <<issues, index, indexed, raced>>
    BY <2>1 DEF tracker
  <2> QED  BY <1>0, <2>1, <2>2, <2>3, <2>4, TypeOfOne
<1>14. ASSUME NEW j \in Jobs, NEW o \in Outcomes, UpdateIssueBody(j, o)
       PROVE  ReportType'
  <2>1. PICK body : body = RenderHistoryIndex(historyRows)
    OBVIOUS
  <2>2. /\ Moves(j) /\ UNCHANGED <<issues, indexed, raced, historyRows>> /\ job[j].pc = "index"
        /\ job'[j].pc \in {"done", "failed"}
        /\ \/ UNCHANGED index
           \/ index' = [index EXCEPT ![job[j].issue] = body]
    BY <1>14, <2>1, UpdateDoes DEF Shows
  <2>3. CASE UNCHANGED index
    BY <1>0, <2>2, <2>3, TypeOfQuiet
  <2>4. CASE index' = [index EXCEPT ![job[j].issue] = body]
    <3>1. job[j].issue \in 1 .. Len(index)
      BY <1>0, <2>2 DEF ReportType
    <3>2. Changed(index, job[j].issue, body, index')
      <4>1. Changed(index, job[j].issue, body, [index EXCEPT ![job[j].issue] = body])
        BY <1>0, <3>1, ListChanges, Zenon
      <4> QED  BY <2>4, <4>1, Zenon
    <3>3. IsList(index') /\ Len(index') = Len(issues')
      BY <1>0, <2>2, <3>2 DEF Changed
    <3> QED  BY <1>0, <2>2, <3>3, TypeOfOne
  <2> QED  BY <2>2, <2>3, <2>4
<1>15. ASSUME \/ \E g \in Gates, d \in ReportDays : FileReading(g, d)
              \/ UNCHANGED reportVars
       PROVE  UNCHANGED <<tracker, historyRows, job>>
  BY <1>15 DEF FileReading, reportVars, tracker
<1> QED  BY <1>1, <1>2, <1>3, <1>4, <1>5, <1>6, <1>7, <1>8, <1>9, <1>10, <1>11, <1>12, <1>13,
            <1>14, <1>15 DEF ReportNext

-----------------------------------------------------------------------------
(* A second issue and a second record.                                     *)

\* Whoever is to create one searched when there was none; it is the only one that will
\* see none, unless another searched meanwhile.
IssueInv ==
    /\ ReportType
    /\ ~raced => Len(issues) <= 1
    /\ ~raced => \A j \in Jobs : job[j].pc = "create" => job[j].knew = 0

\* Every step, for the issues.
LEMMA IssueStep ==
  ASSUME IssueInv, [ReportNext]_reportVars
  PROVE  IssueInv'
<1>0. ReportType /\ ReportType' /\ Len(issues) \in Nat /\ raced \in BOOLEAN /\ raced' \in BOOLEAN
  BY ReportTypeStep DEF IssueInv, ReportType, IsList
<1>1. ASSUME UNCHANGED <<issues, raced>>,
             \A j \in Jobs : job'[j].pc = "create" => /\ job[j].pc = "create"
                                                      /\ job'[j].knew = job[j].knew
      PROVE  IssueInv'
  BY <1>0, <1>1 DEF IssueInv
<1>2. ASSUME NEW j \in Jobs, Moves(j), UNCHANGED <<issues, raced>>, job'[j].pc # "create"
      PROVE  IssueInv'
  <2>1. \A k \in Jobs : job'[k].pc = "create" => job[k].pc = "create" /\ job'[k].knew = job[k].knew
    BY <1>2 DEF Moves
  <2> QED  BY <1>1, <1>2, <2>1
<1>3. ASSUME NEW j \in Jobs, NEW o \in Outcomes, FindOrCreate(j, o)
      PROVE  IssueInv'
  <2>1. /\ Moves(j) /\ UNCHANGED issues /\ raced' = (raced \/ indexed < Len(issues))
        /\ job'[j].knew = Len(issues)
        /\ job'[j].pc = "create" => indexed = 0
    BY <1>0, <1>3, FindDoes
  <2>2. indexed \in Nat /\ indexed <= Len(issues)
    BY <1>0 DEF ReportType
  <2>3. ASSUME ~raced'
        PROVE  ~raced /\ ~(indexed < Len(issues))
    BY <1>0, <2>1, <2>3, Zenon
  <2>4. ASSUME ~raced', NEW k \in Jobs, job'[k].pc = "create"
        PROVE  job'[k].knew = 0
    <3>1. CASE k = j
      BY <1>0, <2>1, <2>2, <2>3, <2>4, <3>1
    <3>2. CASE k # j
      BY <2>1, <2>3, <2>4, <3>2 DEF Moves, IssueInv
    <3> QED  BY <3>1, <3>2
  <2>5. ~raced' => Len(issues') <= 1
    BY <2>1, <2>3 DEF IssueInv
  <2> QED  BY <1>0, <2>4, <2>5 DEF IssueInv
<1>4. ASSUME NEW j \in Jobs, NEW o \in Outcomes, CreateIssue(j, o)
      PROVE  IssueInv'
  <2>1. /\ Moves(j) /\ job[j].pc = "create" /\ job'[j].pc # "create"
        /\ raced' = (raced \/ (o # "refused" /\ Len(issues) > job[j].knew))
        /\ \/ UNCHANGED <<issues, index>>
           \/ o # "refused" /\ issues' = Append(issues, <<>>) /\ index' = Append(index, <<>>)
    BY <1>0, <1>4, CreateDoes
  <2>2. ASSUME ~raced'
        PROVE  ~raced /\ (o = "refused" \/ ~(Len(issues) > job[j].knew))
    BY <1>0, <2>1, <2>2, Zenon
  <2>3. ASSUME ~raced'
        PROVE  Len(issues') <= 1
    <3>1. CASE UNCHANGED issues
      BY <2>2, <2>3, <3>1 DEF IssueInv
    <3>2. CASE o # "refused" /\ issues' = Append(issues, <<>>) /\ index' = Append(index, <<>>)
      <4>1. job[j].knew = 0 /\ ~(Len(issues) > job[j].knew)
        BY <2>1, <2>2, <2>3, <3>2 DEF IssueInv
      <4>2. Len(issues') = Len(issues) + 1
        BY <1>0, <3>2, CreateGrows
      <4> QED  BY <1>0, <4>1, <4>2
    <3> QED  BY <2>1, <3>1, <3>2
  <2>4. ASSUME ~raced', NEW k \in Jobs, job'[k].pc = "create"
        PROVE  job'[k].knew = 0
    <3>1. k # j
      BY <2>1, <2>4
    <3> QED  BY <2>1, <2>2, <2>4, <3>1 DEF Moves, IssueInv
  <2> QED  BY <1>0, <2>3, <2>4 DEF IssueInv
<1>5. ASSUME NEW j \in Jobs, NEW o \in Outcomes, PostComment(j, o)
      PROVE  IssueInv'
  <2>1. PICK c : c = [about |-> About(j), states |-> job[j].payload.states, by |-> j]
    OBVIOUS
  <2>2. /\ Moves(j) /\ UNCHANGED raced /\ job[j].pc = "post" /\ job'[j].pc # "create"
        /\ \/ UNCHANGED issues
           \/ issues' = [issues EXCEPT ![job[j].issue] = Append(@, c)]
    BY <1>0, <1>5, <2>1, PostDoes
  <2>3. job[j].issue \in DOMAIN issues
    BY <1>0, <2>2 DEF ReportType
  <2>4. Len(issues') = Len(issues)
    BY <1>0, <2>2, <2>3, PostGrows
  <2>5. \A k \in Jobs : job'[k].pc = "create" => job[k].pc = "create" /\ job'[k].knew = job[k].knew
    BY <2>2 DEF Moves
  <2> QED  BY <1>0, <2>2, <2>4, <2>5 DEF IssueInv
<1>6. ASSUME NEW c \in Clauses, NEW content, Produce(c, content)
      PROVE  IssueInv'
  <2>1. UNCHANGED <<issues, raced>> /\ \A j \in Jobs : /\ job'[j].pc = job[j].pc
                                                       /\ job'[j].knew = job[j].knew
    BY <1>0, <1>6, ProduceDoes DEF tracker, Idle
  <2> QED  BY <1>1, <2>1
<1>7. ASSUME NEW j \in Jobs, NEW o \in Outcomes,
             ListComments(j, o) \/ Deliver(j, o) \/ FileHistoryRow(j, o) \/ UpdateIssueBody(j, o)
      PROVE  IssueInv'
  <2>1. Moves(j) /\ UNCHANGED <<issues, raced>> /\ job'[j].pc # "create"
    BY <1>0, <1>7, ListCommentsDoes, DeliverDoes, FileDoes, UpdateDoes DEF tracker
  <2> QED  BY <1>2, <2>1
<1>8. ASSUME NEW j \in Jobs, NEW denied \in BOOLEAN,
             Begin(j) \/ ReadClause(j, denied) \/ Compare(j, denied)
      PROVE  IssueInv'
  <2>1. Moves(j) /\ UNCHANGED <<issues, raced>> /\ job'[j].pc # "create"
    BY <1>0, <1>8, BeginDoes, ReadClauseDoes, CompareDoes DEF tracker
  <2> QED  BY <1>2, <2>1
<1>9. ASSUME NEW j \in Jobs, NEW refused, PublishLadder(j, refused)
      PROVE  IssueInv'
  <2>1. Moves(j) /\ UNCHANGED <<issues, raced>> /\ job'[j].pc # "create"
    BY <1>0, <1>9, PublishDoes DEF tracker
  <2> QED  BY <1>2, <2>1
<1>10. ASSUME \/ \E g \in Gates, d \in ReportDays : FileReading(g, d)
              \/ Reindex \/ UNCHANGED reportVars
       PROVE  UNCHANGED <<issues, raced, job>>
  BY <1>10 DEF FileReading, Reindex, reportVars, tracker
<1>11. CASE UNCHANGED <<issues, raced, job>>
  BY <1>1, <1>11
<1> QED  BY <1>3, <1>4, <1>5, <1>6, <1>7, <1>8, <1>9, <1>10, <1>11 DEF ReportNext

\* A comment says whose it is about; a recorder posts where there is none of its own.
RecordInv ==
    /\ ReportType
    /\ \A i \in DOMAIN issues : \A k \in Recorders :
          /\ \A n \in DOMAIN issues[i] : issues[i][n].by = k => issues[i][n].about = About(k)
          /\ \A m, n \in DOMAIN issues[i] : issues[i][m].by = k /\ issues[i][n].by = k => m = n
    /\ \A k \in Recorders : job[k].pc = "post" =>
          \A n \in DOMAIN issues[job[k].issue] : issues[job[k].issue][n].by # k

\* Every step, for the records.
LEMMA RecordStep ==
  ASSUME RecordInv, [ReportNext]_reportVars
  PROVE  RecordInv'
<1>0. ReportType /\ ReportType' /\ Recorders \subseteq Jobs
  BY ReportTypeStep DEF RecordInv, Jobs
<1>1. ASSUME UNCHANGED issues,
             \A k \in Recorders : job'[k].pc = "post" => /\ job[k].pc = "post"
                                                        /\ job'[k].issue = job[k].issue
      PROVE  RecordInv'
  <2>1. ASSUME NEW k \in Recorders, job'[k].pc = "post",
               NEW n \in DOMAIN issues'[job'[k].issue]
        PROVE  issues'[job'[k].issue][n].by # k
    <3>1. /\ job[k].pc = "post" /\ job'[k].issue = job[k].issue
          /\ n \in DOMAIN issues[job[k].issue] /\ issues' = issues
      BY <1>1, <2>1
    <3> QED  BY <3>1 DEF RecordInv
  <2>2. issues' = issues
    BY <1>1
  <2> QED  BY <1>0, <2>1, <2>2 DEF RecordInv, About
<1>2. ASSUME NEW j \in Jobs, Moves(j), UNCHANGED issues, job'[j].pc # "post"
      PROVE  RecordInv'
  <2>1. \A k \in Recorders : job'[k].pc = "post" => job[k].pc = "post" /\ job'[k].issue = job[k].issue
    BY <1>0, <1>2 DEF Moves
  <2> QED  BY <1>1, <1>2, <2>1
<1>3. ASSUME NEW j \in Jobs, NEW o \in Outcomes, ListComments(j, o)
      PROVE  RecordInv'
  <2>1. /\ Moves(j) /\ UNCHANGED issues /\ job'[j].issue = job[j].issue
        /\ job[j].pc = "comments"
        /\ j \notin Reporters /\ job'[j].pc = "post" =>
              About(j) \notin {issues[job[j].issue][i].about : i \in DOMAIN issues[job[j].issue]}
    BY <1>0, <1>3, ListCommentsDoes DEF tracker
  <2>2. job[j].issue \in DOMAIN issues
    BY <1>0, <2>1 DEF ReportType
  <2>3. ASSUME NEW k \in Recorders, job'[k].pc = "post"
        PROVE  \A n \in DOMAIN issues[job'[k].issue] : issues[job'[k].issue][n].by # k
    <3>1. CASE k = j
      <4>1. j \notin Reporters
        BY <3>1, ReportAssumption
      <4>2. \A n \in DOMAIN issues[job[j].issue] : issues[job[j].issue][n].about # About(j)
        BY <2>1, <2>3, <3>1, <4>1
      <4> QED  BY <2>1, <2>2, <3>1, <4>2 DEF RecordInv
    <3>2. CASE k # j
      BY <1>0, <2>1, <2>3, <3>2 DEF Moves, RecordInv
    <3> QED  BY <3>1, <3>2
  <2> QED  BY <1>0, <2>1, <2>3 DEF RecordInv, About
<1>4. ASSUME NEW j \in Jobs, NEW o \in Outcomes, CreateIssue(j, o)
      PROVE  RecordInv'
  <2>1. /\ Moves(j) /\ job[j].pc = "create" /\ job'[j].pc # "post"
        /\ \/ UNCHANGED <<issues, index>>
           \/ issues' = Append(issues, <<>>) /\ index' = Append(index, <<>>)
    BY <1>0, <1>4, CreateDoes
  <2>2. CASE UNCHANGED issues
    BY <1>2, <2>1, <2>2
  <2>3. CASE issues' = Append(issues, <<>>) /\ index' = Append(index, <<>>)
    <3>1. /\ DOMAIN issues = 1 .. Len(issues) /\ DOMAIN issues' = 1 .. Len(issues) + 1
          /\ issues'[Len(issues) + 1] = <<>> /\ Len(issues) \in Nat
          /\ \A n \in 1 .. Len(issues) : issues'[n] = issues[n]
      BY <1>0, <2>3, CreateGrows DEF ReportType, IsList
    <3>2. \A i \in DOMAIN issues' : \/ DOMAIN issues'[i] = {}
                                    \/ i \in DOMAIN issues /\ issues'[i] = issues[i]
      <4>1. ASSUME NEW i \in DOMAIN issues'
            PROVE  i = Len(issues) + 1 \/ i \in 1 .. Len(issues)
        BY <3>1
      <4> QED  BY <3>1, <4>1
    <3>3. ASSUME NEW k \in Recorders, job'[k].pc = "post"
          PROVE  /\ job'[k] = job[k] /\ job[k].pc = "post" /\ job[k].issue \in DOMAIN issues
                 /\ issues'[job[k].issue] = issues[job[k].issue]
      <4>1. job'[k] = job[k]
        BY <1>0, <2>1, <3>3 DEF Moves
      <4> QED  BY <1>0, <3>1, <3>3, <4>1 DEF ReportType
    <3>4. ASSUME NEW k \in Recorders, job'[k].pc = "post",
                 NEW n \in DOMAIN issues'[job'[k].issue]
          PROVE  issues'[job'[k].issue][n].by # k
      BY <3>3, <3>4 DEF RecordInv
    <3>5. ASSUME NEW i \in DOMAIN issues', NEW k \in Recorders, NEW m \in DOMAIN issues'[i],
                 NEW n \in DOMAIN issues'[i]
          PROVE  /\ issues'[i][n].by = k => issues'[i][n].about = About(k)
                 /\ issues'[i][m].by = k /\ issues'[i][n].by = k => m = n
      BY <3>2 DEF RecordInv
    <3> QED  BY <1>0, <3>4, <3>5 DEF RecordInv, About
  <2> QED  BY <2>1, <2>2, <2>3
<1>5. ASSUME NEW j \in Jobs, NEW o \in Outcomes, PostComment(j, o)
      PROVE  RecordInv'
  <2>1. PICK c : c = [about |-> About(j), states |-> job[j].payload.states, by |-> j]
    OBVIOUS
  <2>2. PICK i : i = job[j].issue
    OBVIOUS
  <2>3. /\ Moves(j) /\ job[j].pc = "post" /\ job'[j].pc # "post"
        /\ \/ UNCHANGED issues
           \/ issues' = [issues EXCEPT ![i] = Append(@, c)]
    BY <1>0, <1>5, <2>1, <2>2, PostDoes
  <2>4. i \in DOMAIN issues
    BY <1>0, <2>2, <2>3 DEF ReportType
  <2>5. CASE UNCHANGED issues
    BY <1>2, <2>3, <2>5
  <2>6. CASE issues' = [issues EXCEPT ![i] = Append(@, c)]
    <3>1. /\ DOMAIN issues' = DOMAIN issues /\ Len(issues[i]) \in Nat
          /\ DOMAIN issues[i] = 1 .. Len(issues[i])
          /\ DOMAIN issues'[i] = 1 .. Len(issues[i]) + 1
          /\ issues'[i][Len(issues[i]) + 1] = c
          /\ \A k \in DOMAIN issues : k # i => issues'[k] = issues[k]
      BY <1>0, <2>4, <2>6, PostGrows
    <3>2. \A n \in DOMAIN issues[i] : issues'[i][n] = issues[i][n]
      BY <1>0, <2>4, <2>6, PostGrows DEF Grows
    <3>3. \A n \in DOMAIN issues'[i] : n \in DOMAIN issues[i] \/ n = Len(issues[i]) + 1
      BY <3>1
    <3>4. c.by = j /\ c.about = About(j)
      BY <2>1
    <3>5. ASSUME NEW k \in Recorders, NEW m \in DOMAIN issues'[i], NEW n \in DOMAIN issues'[i]
          PROVE  /\ issues'[i][n].by = k => issues'[i][n].about = About(k)
                 /\ issues'[i][m].by = k /\ issues'[i][n].by = k => m = n
      <4>1. CASE k = j
        <5>1. \A x \in DOMAIN issues[i] : issues'[i][x].by # k
          BY <2>2, <2>3, <3>2, <4>1 DEF RecordInv
        <5> QED  BY <3>1, <3>3, <3>4, <4>1, <5>1
      <4>2. CASE k # j
        <5>1. issues'[i][Len(issues[i]) + 1].by # k
          BY <3>1, <3>4, <4>2
        <5>2. ASSUME n \in DOMAIN issues[i]
              PROVE  issues'[i][n].by = k => issues'[i][n].about = About(k)
          BY <2>4, <3>2, <5>2 DEF RecordInv
        <5>3. ASSUME m \in DOMAIN issues[i], n \in DOMAIN issues[i]
              PROVE  issues'[i][m].by = k /\ issues'[i][n].by = k => m = n
          BY <2>4, <3>2, <5>3 DEF RecordInv
        <5> QED  BY <3>3, <5>1, <5>2, <5>3
      <4> QED  BY <4>1, <4>2
    <3>6. ASSUME NEW x \in DOMAIN issues', NEW k \in Recorders, NEW m \in DOMAIN issues'[x],
                 NEW n \in DOMAIN issues'[x]
          PROVE  /\ issues'[x][n].by = k => issues'[x][n].about = About(k)
                 /\ issues'[x][m].by = k /\ issues'[x][n].by = k => m = n
      <4>1. CASE x = i
        BY <3>5, <4>1
      <4>2. CASE x # i
        BY <3>1, <4>2 DEF RecordInv
      <4> QED  BY <4>1, <4>2
    <3>7. ASSUME NEW k \in Recorders, job'[k].pc = "post",
                 NEW n \in DOMAIN issues'[job'[k].issue]
          PROVE  issues'[job'[k].issue][n].by # k
      <4>1. k # j /\ job'[k] = job[k] /\ job[k].issue \in DOMAIN issues
        BY <1>0, <2>3, <3>7 DEF Moves, ReportType
      <4>2. CASE job[k].issue = i
        BY <3>1, <3>2, <3>3, <3>4, <3>7, <4>1, <4>2 DEF RecordInv
      <4>3. CASE job[k].issue # i
        BY <3>1, <3>7, <4>1, <4>3 DEF RecordInv
      <4> QED  BY <4>2, <4>3
    <3> QED  BY <1>0, <3>6, <3>7 DEF RecordInv, About
  <2> QED  BY <2>3, <2>5, <2>6
<1>6. ASSUME NEW c \in Clauses, NEW content, Produce(c, content)
      PROVE  RecordInv'
  <2>1. UNCHANGED issues /\ \A j \in Jobs : /\ job'[j].pc = job[j].pc
                                            /\ job'[j].issue = job[j].issue
    BY <1>0, <1>6, ProduceDoes DEF tracker, Idle
  <2> QED  BY <1>0, <1>1, <2>1
<1>7. ASSUME NEW j \in Jobs, NEW o \in Outcomes,
             FindOrCreate(j, o) \/ Deliver(j, o) \/ FileHistoryRow(j, o) \/ UpdateIssueBody(j, o)
      PROVE  RecordInv'
  <2>1. Moves(j) /\ UNCHANGED issues /\ job'[j].pc # "post"
    BY <1>0, <1>7, FindDoes, DeliverDoes, FileDoes, UpdateDoes DEF tracker
  <2> QED  BY <1>2, <2>1
<1>8. ASSUME NEW j \in Jobs, NEW denied \in BOOLEAN,
             Begin(j) \/ ReadClause(j, denied) \/ Compare(j, denied)
      PROVE  RecordInv'
  <2>1. Moves(j) /\ UNCHANGED issues /\ job'[j].pc # "post"
    BY <1>0, <1>8, BeginDoes, ReadClauseDoes, CompareDoes DEF tracker
  <2> QED  BY <1>2, <2>1
<1>9. ASSUME NEW j \in Jobs, NEW refused, PublishLadder(j, refused)
      PROVE  RecordInv'
  <2>1. Moves(j) /\ UNCHANGED issues /\ job'[j].pc # "post"
    BY <1>0, <1>9, PublishDoes DEF tracker
  <2> QED  BY <1>2, <2>1
<1>10. ASSUME \/ \E g \in Gates, d \in ReportDays : FileReading(g, d)
              \/ Reindex \/ UNCHANGED reportVars
       PROVE  UNCHANGED <<issues, job>>
  BY <1>10 DEF FileReading, Reindex, reportVars, tracker
<1>11. CASE UNCHANGED <<issues, job>>
  BY <1>1, <1>11
<1> QED  BY <1>3, <1>4, <1>5, <1>6, <1>7, <1>8, <1>9, <1>10, <1>11 DEF ReportNext

-----------------------------------------------------------------------------
(* What the operator is shown.                                             *)

ToldBy(t, link, day) == /\ link[1] \in DOMAIN t /\ link[2] \in DOMAIN t[link[1]]
                        /\ t[link[1]][link[2]].about = <<"update", day>>

\* Whatever carries a link to an update was given it by the reply that named it.
ToldInv ==
    /\ ReportType
    /\ \A j \in Jobs : job[j].pc \in {"headline", "history", "index"} =>
          /\ ToldBy(issues, job[j].link, DayOf[j])
          /\ issues[job[j].link[1]][job[j].link[2]].states = job[j].payload.states
    /\ \A n \in DOMAIN historyRows : ToldBy(issues, historyRows[n].link, historyRows[n].day)
    /\ \A h \in chat : /\ ToldBy(issues, h.link, h.day)
                       /\ issues[h.link[1]][h.link[2]].states = h.states
    /\ \A i \in DOMAIN index : \A d \in DOMAIN index[i] :
          index[i][d] # <<"unreadable">> => ToldBy(issues, index[i][d], d)

\* What was told stays told as comments are added.
LEMMA ToldStays ==
  ASSUME Grows, NEW link, NEW day, ToldBy(issues, link, day)
  PROVE  /\ ToldBy(issues', link, day)
         /\ issues'[link[1]][link[2]] = issues[link[1]][link[2]]
BY DEF Grows, ToldBy

\* A line of the rendered index that reads is the link of a row filed for its day.
LEMMA RenderedIsFiled ==
  ASSUME NEW rows, IsList(rows), NEW body, body = RenderHistoryIndex(rows), NEW d \in DOMAIN body
  PROVE  body[d] = <<"unreadable">> \/ \E n \in DOMAIN rows : rows[n].day = d /\ body[d] = rows[n].link
<1> DEFINE days == {rows[i].day : i \in DOMAIN rows}
           Of(x) == {i \in DOMAIN rows : rows[i].day = x}
           last == [x \in days |-> rows[Max(Of(x))]]
<1>1. body = [x \in days |-> IF last[x].parses THEN last[x].link ELSE <<"unreadable">>]
  BY DEF RenderHistoryIndex
<1>2. d \in days
  BY <1>1
<1>3. Max(Of(d)) \in Of(d)
  <2>1. DOMAIN rows = 1 .. Len(rows) /\ Len(rows) \in Nat
    BY DEF IsList
  <2>2. Of(d) \in SUBSET Nat /\ Of(d) # {} /\ Of(d) \subseteq 1 .. Len(rows)
    BY <1>2, <2>1
  <2> HIDE DEF Of
  <2>3. IsFiniteSet(Of(d))
    <3>1. IsFiniteSet(1 .. Len(rows))
      BY <2>1, FS_Interval
    <3> QED  BY <2>2, <3>1, FS_Subset
  <2> QED  BY <2>2, <2>3, MaxIsGreatest
<1>4. last[d] = rows[Max(Of(d))]
  BY <1>2
<1>5. body[d] = IF last[d].parses THEN last[d].link ELSE <<"unreadable">>
  BY <1>1, <1>2
<1> HIDE DEF last
<1>6. PICK n : n = Max(Of(d))
  OBVIOUS
<1>7. n \in DOMAIN rows /\ rows[n].day = d
  BY <1>3, <1>6
<1> QED  BY <1>4, <1>5, <1>6, <1>7

\* With the tracker only grown and nothing else shown, one job's move is all there is.
LEMMA ToldOfGrown ==
  ASSUME ToldInv, ReportType', Grows, UNCHANGED <<index, Shows>>, NEW j \in Jobs,
         \A k \in Jobs : k # j => \A f \in {"pc", "link", "payload"} : job'[k][f] = job[k][f],
         job'[j].pc \in {"headline", "history", "index"} =>
             /\ ToldBy(issues', job'[j].link, DayOf[j])
             /\ issues'[job'[j].link[1]][job'[j].link[2]].states = job'[j].payload.states
  PROVE  ToldInv'
<1>1. index' = index /\ historyRows' = historyRows /\ chat' = chat
  BY DEF Shows
<1>2. ASSUME NEW k \in Jobs, job'[k].pc \in {"headline", "history", "index"}
      PROVE  /\ ToldBy(issues', job'[k].link, DayOf[k])
             /\ issues'[job'[k].link[1]][job'[k].link[2]].states = job'[k].payload.states
  <2>1. CASE k = j
    BY <1>2, <2>1
  <2>2. CASE k # j
    <3>1. job'[k].pc = job[k].pc /\ job'[k].link = job[k].link /\ job'[k].payload = job[k].payload
      BY <2>2
    <3>2. /\ ToldBy(issues, job[k].link, DayOf[k])
          /\ issues[job[k].link[1]][job[k].link[2]].states = job[k].payload.states
      BY <1>2, <3>1 DEF ToldInv
    <3>3. /\ ToldBy(issues', job[k].link, DayOf[k])
          /\ issues'[job[k].link[1]][job[k].link[2]] = issues[job[k].link[1]][job[k].link[2]]
      BY <3>2, ToldStays
    <3> QED  BY <3>1, <3>2, <3>3
  <2> QED  BY <2>1, <2>2
<1>3. ASSUME NEW n \in DOMAIN historyRows
      PROVE  ToldBy(issues', historyRows[n].link, historyRows[n].day)
  BY ToldStays DEF ToldInv
<1>4. ASSUME NEW h \in chat
      PROVE  ToldBy(issues', h.link, h.day) /\ issues'[h.link[1]][h.link[2]].states = h.states
  <2>1. ToldBy(issues, h.link, h.day) /\ issues[h.link[1]][h.link[2]].states = h.states
    BY DEF ToldInv
  <2>2. /\ ToldBy(issues', h.link, h.day)
        /\ issues'[h.link[1]][h.link[2]] = issues[h.link[1]][h.link[2]]
    BY <2>1, ToldStays
  <2> QED  BY <2>1, <2>2
<1>5. ASSUME NEW i \in DOMAIN index, NEW d \in DOMAIN index[i], index[i][d] # <<"unreadable">>
      PROVE  ToldBy(issues', index[i][d], d)
  BY <1>5, ToldStays DEF ToldInv
<1> QED  BY <1>1, <1>2, <1>3, <1>4, <1>5 DEF ToldInv

LEMMA SameGrows == UNCHANGED issues => Grows
BY DEF Grows

\* A step that neither posts nor shows keeps what was told.
LEMMA ToldOfQuiet ==
  ASSUME ToldInv, ReportType', Grows, UNCHANGED <<index, Shows>>, NEW j \in Jobs, Moves(j),
         job'[j].pc \notin {"headline", "history", "index"}
  PROVE  ToldInv'
<1>1. \A k \in Jobs : k # j => \A f \in {"pc", "link", "payload"} : job'[k][f] = job[k][f]
  BY DEF Moves
<1> QED  BY <1>1, ToldOfGrown

\* Every step, for what was told.
LEMMA ToldStep ==
  ASSUME ToldInv, [ReportNext]_reportVars
  PROVE  ToldInv'
<1>0. /\ ReportType /\ ReportType' /\ IsList(issues) /\ IsList(index) /\ IsList(historyRows)
      /\ IsList(historyRows')
  BY ReportTypeStep DEF ToldInv, ReportType
<1>1. ASSUME NEW c \in Clauses, NEW content, Produce(c, content)
      PROVE  ToldInv'
  <2>1. /\ UNCHANGED <<issues, index, Shows>>
        /\ \A j \in Jobs : \A f \in {"pc", "link", "payload"} : job'[j][f] = job[j][f]
    BY <1>0, <1>1, ProduceDoes DEF tracker, Idle
  <2> QED  BY <1>0, <2>1 DEF ToldInv, Shows
<1>2. ASSUME NEW j \in Jobs, NEW o \in Outcomes, PostComment(j, o)
      PROVE  ToldInv'
  <2>1. PICK c : c = [about |-> About(j), states |-> job[j].payload.states, by |-> j]
    OBVIOUS
  <2>2. PICK i : i = job[j].issue
    OBVIOUS
  <2>3. /\ Moves(j) /\ UNCHANGED <<index, Shows>> /\ job[j].pc = "post"
        /\ job'[j].payload = job[j].payload
        /\ \/ UNCHANGED issues
           \/ issues' = [issues EXCEPT ![i] = Append(@, c)]
        /\ \/ job'[j].pc \in {"failed", "done"}
           \/ /\ job'[j].pc = "headline" /\ j \in Reporters
              /\ job'[j].link = <<i, Len(issues[i]) + 1>>
              /\ issues' = [issues EXCEPT ![i] = Append(@, c)]
    BY <1>0, <1>2, <2>1, <2>2, PostDoes
  <2>4. i \in DOMAIN issues
    BY <1>0, <2>2, <2>3 DEF ReportType
  <2>5. Grows
    <3>1. CASE UNCHANGED issues
      BY <3>1, SameGrows
    <3>2. CASE issues' = [issues EXCEPT ![i] = Append(@, c)]
      BY <1>0, <2>4, <3>2, PostGrows
    <3> QED  BY <2>3, <3>1, <3>2
  <2>6. CASE job'[j].pc \in {"failed", "done"}
    BY <1>0, <2>3, <2>5, <2>6, ToldOfQuiet
  <2>7. CASE /\ job'[j].pc = "headline" /\ j \in Reporters
             /\ job'[j].link = <<i, Len(issues[i]) + 1>>
             /\ issues' = [issues EXCEPT ![i] = Append(@, c)]
    <3>1. /\ DOMAIN issues' = DOMAIN issues /\ Len(issues[i]) \in Nat
          /\ DOMAIN issues'[i] = 1 .. Len(issues[i]) + 1
          /\ issues'[i][Len(issues[i]) + 1] = c
      BY <1>0, <2>4, <2>7, PostGrows
    <3>2. c.about = <<"update", DayOf[j]>> /\ c.states = job[j].payload.states
      BY <2>1, <2>7 DEF About
    <3>3. PICK link : link = <<i, Len(issues[i]) + 1>>
      OBVIOUS
    <3>4. link[1] = i /\ link[2] = Len(issues[i]) + 1
      BY <3>3
    <3>5. ToldBy(issues', link, DayOf[j]) /\ issues'[link[1]][link[2]].states = job[j].payload.states
      BY <2>4, <3>1, <3>2, <3>4 DEF ToldBy
    <3>6. job'[j].link = link
      BY <2>7, <3>3
    <3>7. \A k \in Jobs : k # j => \A f \in {"pc", "link", "payload"} : job'[k][f] = job[k][f]
      BY <2>3 DEF Moves
    <3>8. /\ ToldBy(issues', job'[j].link, DayOf[j])
          /\ issues'[job'[j].link[1]][job'[j].link[2]].states = job'[j].payload.states
      BY <2>3, <3>5, <3>6
    <3> QED  BY <1>0, <2>3, <2>5, <3>7, <3>8, ToldOfGrown
  <2> QED  BY <2>3, <2>6, <2>7
<1>3. ASSUME NEW j \in Jobs, NEW o \in Outcomes, CreateIssue(j, o)
      PROVE  ToldInv'
  <2>1. /\ Moves(j) /\ UNCHANGED Shows /\ job'[j].pc \notin {"headline", "history", "index"}
        /\ \/ UNCHANGED <<issues, index>>
           \/ issues' = Append(issues, <<>>) /\ index' = Append(index, <<>>)
    BY <1>0, <1>3, CreateDoes
  <2>2. CASE UNCHANGED <<issues, index>>
    BY <1>0, <2>1, <2>2, SameGrows, ToldOfQuiet
  <2>3. CASE issues' = Append(issues, <<>>) /\ index' = Append(index, <<>>)
    <3>1. /\ Grows /\ DOMAIN index' = 1 .. Len(issues) + 1 /\ DOMAIN index = 1 .. Len(issues)
          /\ index'[Len(issues) + 1] = <<>> /\ Len(issues) \in Nat
          /\ \A n \in 1 .. Len(issues) : index'[n] = index[n]
      BY <1>0, <2>3, CreateGrows DEF IsList
    <3>2. \A i \in DOMAIN index' : \/ DOMAIN index'[i] = {}
                                   \/ i \in DOMAIN index /\ index'[i] = index[i]
      <4>1. ASSUME NEW i \in DOMAIN index'
            PROVE  i = Len(issues) + 1 \/ i \in 1 .. Len(issues)
        BY <3>1
      <4> QED  BY <3>1, <4>1
    <3>3. ASSUME NEW i \in DOMAIN index', NEW d \in DOMAIN index'[i],
                 index'[i][d] # <<"unreadable">>
          PROVE  ToldBy(issues', index'[i][d], d)
      <4>1. i \in DOMAIN index /\ index'[i] = index[i]
        BY <3>2
      <4>2. ToldBy(issues, index[i][d], d)
        BY <3>3, <4>1 DEF ToldInv
      <4>3. ToldBy(issues', index[i][d], d)
        BY <3>1, <4>2, ToldStays
      <4> QED  BY <4>1, <4>3
    <3>4. ASSUME NEW k \in Jobs, job'[k].pc \in {"headline", "history", "index"}
          PROVE  /\ ToldBy(issues', job'[k].link, DayOf[k])
                 /\ issues'[job'[k].link[1]][job'[k].link[2]].states = job'[k].payload.states
      <4>1. job'[k] = job[k]
        BY <2>1, <3>4 DEF Moves
      <4>2. /\ ToldBy(issues, job[k].link, DayOf[k])
            /\ issues[job[k].link[1]][job[k].link[2]].states = job[k].payload.states
        BY <3>4, <4>1 DEF ToldInv
      <4>3. /\ ToldBy(issues', job[k].link, DayOf[k])
            /\ issues'[job[k].link[1]][job[k].link[2]] = issues[job[k].link[1]][job[k].link[2]]
        BY <3>1, <4>2, ToldStays
      <4> QED  BY <4>1, <4>2, <4>3
    <3>5. ASSUME NEW n \in DOMAIN historyRows
          PROVE  ToldBy(issues', historyRows[n].link, historyRows[n].day)
      BY <3>1, ToldStays DEF ToldInv
    <3>6. ASSUME NEW h \in chat
          PROVE  ToldBy(issues', h.link, h.day) /\ issues'[h.link[1]][h.link[2]].states = h.states
      <4>1. ToldBy(issues, h.link, h.day) /\ issues[h.link[1]][h.link[2]].states = h.states
        BY DEF ToldInv
      <4>2. /\ ToldBy(issues', h.link, h.day)
            /\ issues'[h.link[1]][h.link[2]] = issues[h.link[1]][h.link[2]]
        BY <3>1, <4>1, ToldStays
      <4> QED  BY <4>1, <4>2
    <3>7. historyRows' = historyRows /\ chat' = chat
      BY <2>1 DEF Shows
    <3> QED  BY <1>0, <3>3, <3>4, <3>5, <3>6, <3>7 DEF ToldInv
  <2> QED  BY <2>1, <2>2, <2>3
<1>4. ASSUME NEW j \in Jobs, NEW o \in Outcomes, Deliver(j, o)
      PROVE  ToldInv'
  <2>1. PICK h : h = [day |-> DayOf[j], link |-> job[j].link, states |-> job[j].payload.states]
    OBVIOUS
  <2>2. /\ Moves(j) /\ UNCHANGED <<issues, index, historyRows>> /\ job[j].pc = "headline"
        /\ job'[j].link = job[j].link /\ job'[j].payload = job[j].payload
        /\ UNCHANGED chat \/ chat' = chat \cup {h}
    BY <1>0, <1>4, <2>1, DeliverDoes DEF tracker, Idle
  <2>3. h.day = DayOf[j] /\ h.link = job[j].link /\ h.states = job[j].payload.states
    BY <2>1
  <2>4. /\ ToldBy(issues, job[j].link, DayOf[j])
        /\ issues[job[j].link[1]][job[j].link[2]].states = job[j].payload.states
    BY <2>2 DEF ToldInv
  <2>5. ASSUME NEW g \in chat'
        PROVE  ToldBy(issues, g.link, g.day) /\ issues[g.link[1]][g.link[2]].states = g.states
    <3>1. CASE g = h
      BY <2>3, <2>4, <3>1
    <3>2. CASE g \in chat
      BY <3>2 DEF ToldInv
    <3> QED  BY <2>2, <3>1, <3>2
  <2>6. ASSUME NEW k \in Jobs, job'[k].pc \in {"headline", "history", "index"}
        PROVE  /\ ToldBy(issues, job'[k].link, DayOf[k])
               /\ issues[job'[k].link[1]][job'[k].link[2]].states = job'[k].payload.states
    BY <2>2, <2>4, <2>6 DEF Moves, ToldInv
  <2> QED  BY <1>0, <2>2, <2>5, <2>6 DEF ToldInv
<1>5. ASSUME NEW j \in Jobs, NEW o \in Outcomes, FileHistoryRow(j, o)
      PROVE  ToldInv'
  <2>1. PICK row : row = [day |-> DayOf[j], link |-> job[j].link, parses |-> o = "ok"]
    OBVIOUS
  <2>2. /\ Moves(j) /\ UNCHANGED <<issues, index, chat>> /\ job[j].pc = "history"
        /\ job'[j].link = job[j].link /\ job'[j].payload = job[j].payload
        /\ historyRows' = Append(historyRows, row)
    BY <1>0, <1>5, <2>1, FileDoes DEF tracker, Idle
  <2>3. row.day = DayOf[j] /\ row.link = job[j].link
    BY <2>1
  <2>4. /\ ToldBy(issues, job[j].link, DayOf[j])
        /\ issues[job[j].link[1]][job[j].link[2]].states = job[j].payload.states
    BY <2>2 DEF ToldInv
  <2>5. ASSUME NEW n \in DOMAIN historyRows'
        PROVE  ToldBy(issues, historyRows'[n].link, historyRows'[n].day)
    <3>1. Longer(historyRows, row, historyRows')
      BY <1>0, <2>2, ListGrows
    <3>2. \/ n = Len(historyRows) + 1
          \/ n \in DOMAIN historyRows /\ historyRows'[n] = historyRows[n]
      BY <1>0, <3>1 DEF Longer, IsList
    <3>3. historyRows'[Len(historyRows) + 1] = row
      BY <3>1 DEF Longer
    <3>4. CASE n = Len(historyRows) + 1
      BY <2>3, <2>4, <3>3, <3>4
    <3>5. CASE n \in DOMAIN historyRows /\ historyRows'[n] = historyRows[n]
      BY <3>5 DEF ToldInv
    <3> QED  BY <3>2, <3>4, <3>5
  <2>6. ASSUME NEW k \in Jobs, job'[k].pc \in {"headline", "history", "index"}
        PROVE  /\ ToldBy(issues, job'[k].link, DayOf[k])
               /\ issues[job'[k].link[1]][job'[k].link[2]].states = job'[k].payload.states
    BY <2>2, <2>4, <2>6 DEF Moves, ToldInv
  <2> QED  BY <1>0, <2>2, <2>5, <2>6 DEF ToldInv
<1>6. ASSUME NEW j \in Jobs, NEW o \in Outcomes, UpdateIssueBody(j, o)
      PROVE  ToldInv'
  <2>1. PICK body : body = RenderHistoryIndex(historyRows)
    OBVIOUS
  <2>2. /\ Moves(j) /\ UNCHANGED <<issues, Shows>> /\ job[j].pc = "index"
        /\ job'[j].pc \notin {"headline", "history", "index"}
        /\ UNCHANGED index \/ index' = [index EXCEPT ![job[j].issue] = body]
    BY <1>0, <1>6, <2>1, UpdateDoes
  <2>3. ASSUME NEW i \in DOMAIN index', NEW d \in DOMAIN index'[i],
               index'[i][d] # <<"unreadable">>
        PROVE  ToldBy(issues, index'[i][d], d)
    <3>1. DOMAIN index' = DOMAIN index
      BY <2>2
    <3>2. CASE index'[i] = index[i]
      BY <2>3, <3>1, <3>2 DEF ToldInv
    <3>3. CASE index'[i] = body
      <4>1. PICK n \in DOMAIN historyRows : historyRows[n].day = d /\ body[d] = historyRows[n].link
        BY <1>0, <2>1, <2>3, <3>3, RenderedIsFiled
      <4>2. ToldBy(issues, historyRows[n].link, historyRows[n].day)
        BY DEF ToldInv
      <4> QED  BY <3>3, <4>1, <4>2
    <3> QED  BY <2>2, <3>1, <3>2, <3>3
  <2>4. ASSUME NEW k \in Jobs, job'[k].pc \in {"headline", "history", "index"}
        PROVE  /\ ToldBy(issues, job'[k].link, DayOf[k])
               /\ issues[job'[k].link[1]][job'[k].link[2]].states = job'[k].payload.states
    BY <2>2, <2>4 DEF Moves, ToldInv
  <2> QED  BY <1>0, <2>2, <2>3, <2>4 DEF ToldInv, Shows
<1>7. ASSUME NEW j \in Jobs, NEW o \in Outcomes, FindOrCreate(j, o) \/ ListComments(j, o)
      PROVE  ToldInv'
  <2>1. /\ Moves(j) /\ UNCHANGED <<issues, index, Shows>>
        /\ job'[j].pc \notin {"headline", "history", "index"}
    BY <1>0, <1>7, FindDoes, ListCommentsDoes DEF tracker
  <2> QED  BY <1>0, <2>1, SameGrows, ToldOfQuiet
<1>8. ASSUME NEW j \in Jobs, NEW denied \in BOOLEAN,
             Begin(j) \/ ReadClause(j, denied) \/ Compare(j, denied)
      PROVE  ToldInv'
  <2>1. /\ Moves(j) /\ UNCHANGED <<issues, index, Shows>>
        /\ job'[j].pc \notin {"headline", "history", "index"}
    BY <1>0, <1>8, BeginDoes, ReadClauseDoes, CompareDoes DEF tracker
  <2> QED  BY <1>0, <2>1, SameGrows, ToldOfQuiet
<1>9. ASSUME NEW j \in Jobs, NEW refused, PublishLadder(j, refused)
      PROVE  ToldInv'
  <2>1. /\ Moves(j) /\ UNCHANGED <<issues, index, Shows>>
        /\ job'[j].pc \notin {"headline", "history", "index"}
    BY <1>0, <1>9, PublishDoes DEF tracker
  <2> QED  BY <1>0, <2>1, SameGrows, ToldOfQuiet
<1>10. ASSUME \/ \E g \in Gates, d \in ReportDays : FileReading(g, d)
              \/ Reindex \/ UNCHANGED reportVars
       PROVE  UNCHANGED <<issues, index, Shows, job>>
  BY <1>10 DEF FileReading, Reindex, reportVars, tracker, Shows
<1>11. CASE UNCHANGED <<issues, index, Shows, job>>
  BY <1>0, <1>11 DEF ToldInv, Shows
<1> QED  BY <1>1, <1>2, <1>3, <1>4, <1>5, <1>6, <1>7, <1>8, <1>9, <1>10, <1>11 DEF ReportNext

-----------------------------------------------------------------------------
(* What a published ladder claims.                                         *)

\* A position is a clause of a phase.
LEMMA PositionsAre ==
  ASSUME NEW p \in Positions
  PROVE  /\ p[1] \in DOMAIN Phases /\ p[2] \in DOMAIN ClausesAt(p[1]) /\ p = <<p[1], p[2]>>
         /\ p[1] \in Nat /\ p[2] \in Nat
         /\ ClausesAt(p[1])[p[2]] \in Clauses
<1>1. PICK i \in DOMAIN Phases : \E k \in DOMAIN ClausesAt(i) : p = <<i, k>>
  BY DEF Positions
<1>2. PICK k \in DOMAIN ClausesAt(i) : p = <<i, k>>
  BY <1>1
<1>3. p[1] = i /\ p[2] = k
  BY <1>2
<1>4. i \in Nat
  BY ReportAssumption
<1>5. k \in Nat /\ ClausesAt(i)[k] \in Clauses
  <2>1. CASE Phases[i].gate = "none"
    BY <2>1 DEF ClausesAt
  <2>2. CASE Phases[i].gate # "none"
    <3>1. Phases[i].gate \in Gates /\ ClausesAt(i) = ClausesOf[Phases[i].gate]
      BY <2>2 DEF Gates, ClausesAt
    <3>2. DOMAIN ClausesAt(i) = 1 .. Len(ClausesAt(i)) /\ Len(ClausesAt(i)) \in Nat
      BY <3>1, ReportAssumption
    <3>3. ClausesAt(i)[k] \in Range(ClausesAt(i))
      BY DEF Range
    <3> QED  BY <3>1, <3>2, <3>3 DEF Clauses
  <2> QED  BY <2>1, <2>2
<1> QED  BY <1>2, <1>3, <1>4, <1>5

\* The positions have a first: what NextUp picks.
LEMMA FirstPosition ==
  ASSUME NEW T, T \subseteq Positions, T # {}
  PROVE  \E q \in T : \A r \in T : r = q \/ Before(q, r)
<1>0. \A p \in T : p[1] \in Nat /\ p[2] \in Nat /\ p = <<p[1], p[2]>>
  BY PositionsAre
<1> DEFINE rows == {p[1] : p \in T}
<1>1. rows \subseteq Nat /\ rows # {}
  BY <1>0
<1>2. PICK i \in rows : \A y \in rows : i <= y
  <2> HIDE DEF rows
  <2> QED  BY <1>1, LeastNatural
<1> DEFINE places == {p[2] : p \in {q \in T : q[1] = i}}
<1>3. places \subseteq Nat /\ places # {}
  BY <1>0, <1>2
<1>4. PICK k \in places : \A y \in places : k <= y
  <2> HIDE DEF places
  <2> QED  BY <1>3, LeastNatural
<1>5. PICK q \in T : q[1] = i /\ q[2] = k
  BY <1>4
<1>6. ASSUME NEW r \in T
      PROVE  r = q \/ Before(q, r)
  <2>1. r[1] \in Nat /\ r[2] \in Nat /\ i \in Nat /\ k \in Nat /\ i <= r[1]
    BY <1>0, <1>1, <1>2, <1>3, <1>4
  <2>2. r[1] = i => k <= r[2]
    BY <1>4
  <2>3. r = <<r[1], r[2]>> /\ q = <<q[1], q[2]>>
    BY <1>0
  <2>4. CASE r[1] = i /\ r[2] = k
    BY <1>5, <2>3, <2>4
  <2>5. CASE ~(r[1] = i /\ r[2] = k)
    BY <1>5, <2>1, <2>2, <2>5 DEF Before
  <2> QED  BY <2>4, <2>5
<1> QED  BY <1>5, <1>6

\* A job reads the clauses in order, and what it read as met was met while it ran.
ReadingInv(j) ==
    /\ \A c \in Clauses : Good(c) => c \in job[j].ever
    /\ DOMAIN job[j].read \subseteq Positions
    /\ \A p \in DOMAIN job[j].read, q \in Positions : Before(q, p) => q \in DOMAIN job[j].read
    /\ \A p \in DOMAIN job[j].read : job[j].read[p].met => ClausesAt(p[1])[p[2]] \in job[j].ever

ClaimInv(j) ==
    \A i \in DOMAIN Phases :
        \/ job[j].payload.states[i] # "MET"
        \/ ClausesAt(i) # <<>> /\ Range(ClausesAt(i)) \subseteq job[j].ever

EvidenceInv ==
    /\ ReportType
    /\ \A j \in Jobs : /\ job[j].pc = "reading" => ReadingInv(j)
                       /\ job[j].pc = "compare" => ClaimInv(j)

\* Nothing lies beyond the clauses read but what is still to be read.
LEMMA UnreadIsTheRest ==
  ASSUME NEW j \in Jobs, ReadingInv(j), NEW p \in Positions, p \notin DOMAIN job[j].read
  PROVE  p \in Unread(j)
<1>1. ASSUME NEW q \in DOMAIN job[j].read
      PROVE  Before(q, p)
  <2>1. q \in Positions /\ q # p /\ ~Before(p, q)
    BY DEF ReadingInv
  <2>2. /\ p[1] \in Nat /\ p[2] \in Nat /\ p = <<p[1], p[2]>>
        /\ q[1] \in Nat /\ q[2] \in Nat /\ q = <<q[1], q[2]>>
    BY <2>1, PositionsAre
  <2>3. p[1] # q[1] \/ p[2] # q[2]
    BY <2>1, <2>2
  <2> QED  BY <2>1, <2>2, <2>3 DEF Before
<1> QED  BY <1>1 DEF Unread

\* A clause read as met is good.
LEMMA MetIsGood ==
  ASSUME NEW p, NEW denied \in BOOLEAN, ReadAt(p, denied).met
  PROVE  Good(ClausesAt(p[1])[p[2]])
<1>1. PICK c : c = ClausesAt(p[1])[p[2]]
  OBVIOUS
<1>2. PICK read : read = IF c \in IssueClauses
                         THEN ReadIssue(evidence[c], denied)
                         ELSE ReadStoreDocument(evidence[c], denied)
  OBVIOUS
<1>3. Contained(read).met
  BY <1>1, <1>2 DEF ReadAt
<1>4. read.document \in {"good", "closed"}
  BY <1>3 DEF Contained, Clause, Unmeasurable
<1>5. CASE c \in IssueClauses
  <2>1. read = IF denied \/ evidence[c] \notin {"open", "closed"}
               THEN Problem(TRUE) ELSE Answer(evidence[c])
    BY <1>2, <1>5 DEF ReadIssue
  <2> QED  BY <1>1, <1>4, <2>1 DEF Problem, Answer, Good
<1>6. CASE c \notin IssueClauses
  <2>1. \/ read = Problem(TRUE) \/ read = Problem(FALSE) \/ read = Absent
        \/ read = Answer(evidence[c])
    BY <1>2, <1>6 DEF ReadStoreDocument
  <2> QED  BY <1>1, <1>4, <2>1 DEF Problem, Absent, Answer, Good
<1> QED  BY <1>5, <1>6

\* A phase the ladder calls met has clauses, and each was read as met.
LEMMA MetIsRead ==
  ASSUME NEW j \in Jobs, NEW refused, NEW payload,
         payload = LadderPayload(BuildLadder(Readings(j), filed, refused)),
         NEW i \in DOMAIN Phases, payload.states[i] = "MET"
  PROVE  /\ ClausesAt(i) # <<>>
         /\ \A k \in DOMAIN ClausesAt(i) : job[j].read[<<i, k>>].met
<1>1. PICK rows : rows = BuildLadder(Readings(j), filed, refused)
  OBVIOUS
<1>2. PICK clauses : clauses = Readings(j)[i]
  OBVIOUS
<1>3. clauses = [k \in DOMAIN ClausesAt(i) |-> job[j].read[<<i, k>>]]
  BY <1>2 DEF Readings
<1>4. PICK row : row = GradedPhase(Phases[i], clauses, filed, Phases[i].gate \in refused)
  OBVIOUS
<1>5. DOMAIN rows = DOMAIN Phases /\ rows[i].state \in {"OUT_OF_ORDER", row.gate}
  BY <1>1, <1>2, <1>4 DEF BuildLadder
<1>6. rows[i].state = "MET"
  <2>1. payload.states = [n \in DOMAIN rows |-> rows[n].state]
    BY <1>1 DEF LadderPayload
  <2> QED  BY <1>5, <2>1
<1>7. row.gate = "MET"
  BY <1>5, <1>6
<1>8. clauses # <<>> /\ GateStateFor(clauses) = "MET"
  <2>1. row.gate = CASE Phases[i].gate = "none" \/ clauses = <<>> -> "UNMEASURED"
                     [] OTHER -> IF Phases[i].gate \in refused THEN "UNMEASURABLE"
                                 ELSE GateStateFor(clauses)
    BY <1>4 DEF GradedPhase
  <2> QED  BY <1>7, <2>1
<1>9. Met(clauses)
  BY <1>8 DEF GateStateFor
<1>10. \A k \in DOMAIN clauses : clauses[k].met
  BY <1>9 DEF Met
<1>11. ClausesAt(i) # <<>>
  <2> SUFFICES ASSUME ClausesAt(i) = <<>> PROVE FALSE
    OBVIOUS
  <2>1. DOMAIN ClausesAt(i) = {}
    OBVIOUS
  <2>2. clauses = <<>>
    BY <1>3, <2>1
  <2> QED  BY <1>8, <2>2
<1> QED  BY <1>3, <1>10, <1>11

\* Every step, for the evidence.
LEMMA EvidenceStep ==
  ASSUME EvidenceInv, [ReportNext]_reportVars
  PROVE  EvidenceInv'
<1>0. ReportType /\ ReportType'
  BY ReportTypeStep DEF EvidenceInv
<1>1. ASSUME UNCHANGED evidence,
             \A j \in Jobs : job'[j].pc \in {"reading", "compare"} =>
                \A f \in {"pc", "ever", "read", "payload"} : job'[j][f] = job[j][f]
      PROVE  EvidenceInv'
  <2>1. ASSUME NEW j \in Jobs, job'[j].pc = "reading"
        PROVE  ReadingInv(j)'
    <3>1. /\ job[j].pc = "reading" /\ job'[j].ever = job[j].ever /\ job'[j].read = job[j].read
          /\ evidence' = evidence
      BY <1>1, <2>1
    <3>2. ReadingInv(j)
      BY <3>1 DEF EvidenceInv
    <3> QED  BY <3>1, <3>2 DEF ReadingInv, Good
  <2>2. ASSUME NEW j \in Jobs, job'[j].pc = "compare"
        PROVE  ClaimInv(j)'
    <3>1. job[j].pc = "compare" /\ job'[j].ever = job[j].ever /\ job'[j].payload = job[j].payload
      BY <1>1, <2>2
    <3>2. ClaimInv(j)
      BY <3>1 DEF EvidenceInv
    <3> QED  BY <3>1, <3>2 DEF ClaimInv
  <2> QED  BY <1>0, <2>1, <2>2 DEF EvidenceInv
<1>2. ASSUME UNCHANGED evidence, NEW j \in Jobs, Moves(j),
             job'[j].pc = "reading" => ReadingInv(j)', job'[j].pc = "compare" => ClaimInv(j)'
      PROVE  EvidenceInv'
  <2>1. ASSUME NEW k \in Jobs, k # j
        PROVE  /\ job'[k].pc = "reading" => ReadingInv(k)'
               /\ job'[k].pc = "compare" => ClaimInv(k)'
    <3>1. job'[k] = job[k] /\ evidence' = evidence
      BY <1>2, <2>1 DEF Moves
    <3> QED  BY <3>1 DEF EvidenceInv, ReadingInv, ClaimInv, Good
  <2> QED  BY <1>0, <1>2, <2>1 DEF EvidenceInv
<1>3. ASSUME NEW c \in Clauses, NEW content, Produce(c, content)
      PROVE  EvidenceInv'
  <2>1. /\ \A j \in Jobs : /\ job'[j].pc = job[j].pc /\ job'[j].read = job[j].read
                           /\ job'[j].payload = job[j].payload
                           /\ job'[j].ever \in {job[j].ever, job[j].ever \cup {c}}
                           /\ job[j].pc = "reading" /\ content \in {"good", "closed"}
                                  => job'[j].ever = job[j].ever \cup {c}
        /\ \A d \in Clauses : d = c \/ evidence'[d] = evidence[d]
        /\ evidence'[c] \in {evidence[c], content}
    BY <1>0, <1>3, ProduceDoes DEF Idle
  <2>2. ASSUME NEW j \in Jobs, job'[j].pc = "reading"
        PROVE  ReadingInv(j)'
    <3>1. ReadingInv(j) /\ job[j].pc = "reading" /\ job'[j].read = job[j].read
          /\ job[j].ever \subseteq job'[j].ever
      BY <2>1, <2>2 DEF EvidenceInv
    <3>2. ASSUME NEW d \in Clauses, evidence'[d] \in {"good", "closed"}
          PROVE  d \in job'[j].ever
      <4>1. CASE evidence[d] \in {"good", "closed"}
        BY <3>1, <4>1 DEF ReadingInv, Good
      <4>2. CASE evidence[d] \notin {"good", "closed"}
        <5>1. d = c /\ content \in {"good", "closed"}
          BY <2>1, <3>2, <4>2
        <5> QED  BY <2>1, <3>1, <5>1
      <4> QED  BY <4>1, <4>2
    <3> QED  BY <3>1, <3>2 DEF ReadingInv, Good
  <2>3. ASSUME NEW j \in Jobs, job'[j].pc = "compare"
        PROVE  ClaimInv(j)'
    <3>1. /\ ClaimInv(j) /\ job'[j].payload = job[j].payload
          /\ job[j].ever \subseteq job'[j].ever
      BY <2>1, <2>3 DEF EvidenceInv
    <3> QED  BY <3>1 DEF ClaimInv
  <2> QED  BY <1>0, <2>2, <2>3 DEF EvidenceInv
<1>4. ASSUME NEW j \in Jobs, Begin(j)
      PROVE  EvidenceInv'
  <2>1. /\ Moves(j) /\ UNCHANGED evidence /\ job'[j].read = <<>>
        /\ job'[j].pc = IF j \in Reporters THEN "reading" ELSE "find"
        /\ j \in Reporters => job'[j].ever = {c \in Clauses : Good(c)}
    BY <1>0, <1>4, BeginDoes
  <2>2. job'[j].pc = "reading" => ReadingInv(j)'
    <3>1. DOMAIN job'[j].read = {}
      BY <2>1
    <3> QED  BY <2>1, <3>1 DEF ReadingInv, Good
  <2>3. job'[j].pc # "compare"
    BY <2>1
  <2> QED  BY <1>2, <2>1, <2>2, <2>3
<1>5. ASSUME NEW j \in Jobs, NEW denied \in BOOLEAN, ReadClause(j, denied)
      PROVE  EvidenceInv'
  <2>1. /\ Moves(j) /\ UNCHANGED evidence /\ job[j].pc = "reading" /\ job'[j].pc = "reading"
        /\ job'[j].ever = job[j].ever /\ Unread(j) # {}
        /\ job'[j].read = [q \in DOMAIN job[j].read \cup {NextUp(j)} |->
                               IF q = NextUp(j) THEN ReadAt(NextUp(j), denied)
                               ELSE job[j].read[q]]
    BY <1>0, <1>5, ReadClauseDoes
  <2>2. PICK p : p = NextUp(j)
    OBVIOUS
  <2>3. p \in Unread(j) /\ \A r \in Unread(j) : r = p \/ Before(p, r)
    <3>1. Unread(j) \subseteq Positions
      BY DEF Unread
    <3>2. \E q \in Unread(j) : \A r \in Unread(j) : r = q \/ Before(q, r)
      BY <2>1, <3>1, FirstPosition
    <3> QED  BY <2>2, <3>2 DEF NextUp
  <2>4. PICK value : value = ReadAt(p, denied)
    OBVIOUS
  <2>5. PICK old : old = job[j].read
    OBVIOUS
  <2>6. /\ DOMAIN job'[j].read = DOMAIN old \cup {p}
        /\ job'[j].read[p] = value
        /\ \A q \in DOMAIN old : q # p => job'[j].read[q] = old[q]
    <3>1. job'[j].read = [q \in DOMAIN old \cup {p} |-> IF q = p THEN value ELSE old[q]]
      BY <2>1, <2>2, <2>4, <2>5
    <3> QED  BY <3>1
  <2>7. ReadingInv(j)
    BY <2>1 DEF EvidenceInv
  <2>8. p \in Positions
    BY <2>3 DEF Unread
  <2>9. \A q \in Positions : Before(q, p) => q \in DOMAIN old
    <3> SUFFICES ASSUME NEW q \in Positions, Before(q, p), q \notin DOMAIN old
                 PROVE  FALSE
      OBVIOUS
    <3>1. q \in Unread(j)
      BY <2>5, <2>7, UnreadIsTheRest
    <3>2. q = p \/ Before(p, q)
      BY <2>3, <3>1
    <3>3. p[1] \in Nat /\ p[2] \in Nat /\ q[1] \in Nat /\ q[2] \in Nat
      BY <2>8, PositionsAre
    <3> QED  BY <3>2, <3>3 DEF Before
  <2>10. value.met => ClausesAt(p[1])[p[2]] \in job[j].ever
    <3> SUFFICES ASSUME value.met PROVE ClausesAt(p[1])[p[2]] \in job[j].ever
      OBVIOUS
    <3>1. Good(ClausesAt(p[1])[p[2]])
      BY <2>4, MetIsGood
    <3>2. ClausesAt(p[1])[p[2]] \in Clauses
      BY <2>8, PositionsAre
    <3> QED  BY <2>7, <3>1, <3>2 DEF ReadingInv
  <2>11. ReadingInv(j)'
    <3>1. ASSUME NEW q \in DOMAIN job'[j].read, NEW r \in Positions, Before(r, q)
          PROVE  r \in DOMAIN job'[j].read
      BY <2>5, <2>6, <2>7, <2>9, <3>1 DEF ReadingInv
    <3>2. ASSUME NEW q \in DOMAIN job'[j].read, job'[j].read[q].met
          PROVE  ClausesAt(q[1])[q[2]] \in job'[j].ever
      <4>1. CASE q = p
        BY <2>1, <2>6, <2>10, <3>2, <4>1
      <4>2. CASE q # p
        <5>1. q \in DOMAIN old /\ old[q].met
          BY <2>6, <3>2, <4>2
        <5> QED  BY <2>1, <2>5, <2>7, <5>1 DEF ReadingInv
      <4> QED  BY <4>1, <4>2
    <3>3. DOMAIN job'[j].read \subseteq Positions
      BY <2>5, <2>6, <2>7, <2>8 DEF ReadingInv
    <3>4. \A c \in Clauses : Good(c)' => c \in job'[j].ever
      BY <2>1, <2>7 DEF ReadingInv, Good
    <3> QED  BY <3>1, <3>2, <3>3, <3>4 DEF ReadingInv
  <2> QED  BY <1>2, <2>1, <2>11
<1>6. ASSUME NEW j \in Jobs, NEW refused, PublishLadder(j, refused)
      PROVE  EvidenceInv'
  <2>1. /\ Moves(j) /\ UNCHANGED evidence /\ job[j].pc = "reading" /\ Unread(j) = {}
        /\ job'[j].pc = "compare" /\ job'[j].ever = job[j].ever
        /\ job'[j].payload = LadderPayload(BuildLadder(Readings(j), filed, refused))
    BY <1>0, <1>6, PublishDoes
  <2>2. ReadingInv(j)
    BY <2>1 DEF EvidenceInv
  <2>3. ASSUME NEW i \in DOMAIN Phases, job'[j].payload.states[i] = "MET"
        PROVE  ClausesAt(i) # <<>> /\ Range(ClausesAt(i)) \subseteq job'[j].ever
    <3>1. PICK payload : payload = LadderPayload(BuildLadder(Readings(j), filed, refused))
      OBVIOUS
    <3>2. /\ ClausesAt(i) # <<>>
          /\ \A k \in DOMAIN ClausesAt(i) : job[j].read[<<i, k>>].met
      BY <2>1, <2>3, <3>1, MetIsRead
    <3>3. ASSUME NEW k \in DOMAIN ClausesAt(i)
          PROVE  ClausesAt(i)[k] \in job[j].ever
      <4>1. PICK p : p = <<i, k>>
        OBVIOUS
      <4>2. p \in Positions /\ p[1] = i /\ p[2] = k
        BY <4>1 DEF Positions
      <4>3. p \in DOMAIN job[j].read
        BY <2>1, <2>2, <4>2, UnreadIsTheRest
      <4>4. job[j].read[p].met
        BY <3>2, <4>1
      <4> QED  BY <2>2, <4>2, <4>3, <4>4 DEF ReadingInv
    <3> QED  BY <2>1, <3>2, <3>3 DEF Range
  <2>4. ClaimInv(j)'
    BY <2>3 DEF ClaimInv
  <2> QED  BY <1>2, <2>1, <2>4
<1>7. ASSUME NEW j \in Jobs, NEW o \in Outcomes,
             \/ FindOrCreate(j, o) \/ CreateIssue(j, o) \/ ListComments(j, o)
             \/ PostComment(j, o) \/ Deliver(j, o) \/ FileHistoryRow(j, o)
             \/ UpdateIssueBody(j, o)
      PROVE  EvidenceInv'
  <2>1. Moves(j) /\ UNCHANGED evidence /\ job'[j].pc \notin {"reading", "compare"}
    BY <1>0, <1>7, FindDoes, CreateDoes, ListCommentsDoes, PostDoes, DeliverDoes, FileDoes,
       UpdateDoes
  <2> QED  BY <1>2, <2>1
<1>8. ASSUME NEW j \in Jobs, NEW denied \in BOOLEAN, Compare(j, denied)
      PROVE  EvidenceInv'
  <2>1. Moves(j) /\ UNCHANGED evidence /\ job'[j].pc \notin {"reading", "compare"}
    BY <1>0, <1>8, CompareDoes
  <2> QED  BY <1>2, <2>1
<1>9. ASSUME \/ \E g \in Gates, d \in ReportDays : FileReading(g, d)
             \/ Reindex \/ UNCHANGED reportVars
      PROVE  UNCHANGED <<evidence, job>>
  BY <1>9 DEF FileReading, Reindex, reportVars, store
<1>10. CASE UNCHANGED <<evidence, job>>
  BY <1>1, <1>10
<1> QED  BY <1>3, <1>4, <1>5, <1>6, <1>7, <1>8, <1>9, <1>10 DEF ReportNext

-----------------------------------------------------------------------------

LEMMA ReportStarts ==
  ASSUME ReportInit
  PROVE  IssueInv /\ RecordInv /\ ToldInv /\ EvidenceInv
<1>1. /\ issues = <<>> /\ index = <<>> /\ historyRows = <<>> /\ chat = {} /\ raced = FALSE
      /\ indexed = 0 /\ job = [j \in Jobs |-> Idle]
  BY DEF ReportInit
<1>2. /\ DOMAIN issues = {} /\ DOMAIN index = {} /\ DOMAIN historyRows = {}
      /\ IsList(issues) /\ IsList(index) /\ IsList(historyRows)
      /\ Len(issues) = 0 /\ Len(index) = 0
  BY <1>1, EmptyIsList
<1>3. DOMAIN job = Jobs /\ \A j \in Jobs : job[j].pc = "idle" /\ DOMAIN job[j] = DOMAIN Idle
  BY <1>1 DEF Idle
<1>4. ReportType
  <2>1. raced \in BOOLEAN
    BY <1>1, Zenon
  <2>2. indexed \in Nat /\ indexed <= Len(issues)
    BY <1>1, <1>2
  <2>3. \A i \in DOMAIN issues : IsList(issues[i])
    BY <1>2
  <2> QED  BY <1>2, <1>3, <2>1, <2>2, <2>3 DEF ReportType
<1>5. Recorders \subseteq Jobs
  BY DEF Jobs
<1> QED  BY <1>1, <1>2, <1>3, <1>4, <1>5 DEF IssueInv, RecordInv, ToldInv, EvidenceInv

\* GateReport: for any ladder, any jobs and any faults, a headline or a line of the index
\* leads to the update it is about, and a phase shown as met has been.
THEOREM ShownIsTrueAlways == ReportSpec => []ShownIsTrue
<1>1. ReportInit => ToldInv /\ EvidenceInv
  BY ReportStarts
<1>2. ToldInv /\ EvidenceInv /\ [ReportNext]_reportVars => (ToldInv /\ EvidenceInv)'
  BY ToldStep, EvidenceStep
<1>3. ToldInv => HeadlineReachesItsUpdate
  BY DEF ToldInv, ToldBy, HeadlineReachesItsUpdate, Exists, Comment
<1>4. EvidenceInv => LadderClaimsAreEvidence
  BY DEF EvidenceInv, ClaimInv, LadderClaimsAreEvidence, Jobs
<1> QED  BY <1>1, <1>2, <1>3, <1>4, PTL DEF ReportSpec, ShownIsTrue

\* GateReport: whatever replies are lost and whatever is run again, there is a second
\* issue only after a race of searches, and never a second record of one recorder.
THEOREM RetryLeavesNoSecondEver == ReportSpec => []RetryLeavesNoSecond
<1>1. ReportInit => IssueInv /\ RecordInv
  BY ReportStarts
<1>2. IssueInv /\ RecordInv /\ [ReportNext]_reportVars => (IssueInv /\ RecordInv)'
  BY IssueStep, RecordStep
<1>3. IssueInv => DuplicateIssueNeedsRace
  <2> SUFFICES ASSUME IssueInv, Len(issues) > 1, ~raced PROVE FALSE
    BY DEF DuplicateIssueNeedsRace
  <2>1. Len(issues) \in Nat /\ Len(issues) <= 1
    BY DEF IssueInv, ReportType, IsList
  <2> QED  BY <2>1
<1>4. RecordInv => RetryPostsNoSecondRecord
  <2> SUFFICES ASSUME RecordInv, NEW i \in DOMAIN issues, NEW k \in Recorders
               PROVE  Cardinality({n \in DOMAIN issues[i] : issues[i][n].by = k}) <= 1
    BY DEF RetryPostsNoSecondRecord
  <2> DEFINE own == {n \in DOMAIN issues[i] : issues[i][n].by = k}
  <2>1. \A m, n \in own : m = n
    BY DEF RecordInv
  <2> HIDE DEF own
  <2>2. CASE own = {}
    BY <2>2, FS_EmptySet DEF own
  <2>3. CASE own # {}
    <3>1. PICK n : n \in own
      BY <2>3
    <3>2. own = {n}
      BY <2>1, <3>1
    <3>3. Cardinality({n}) = 1
      BY FS_Singleton
    <3>4. Cardinality(own) <= 1
      BY <3>2, <3>3
    <3> QED  BY <3>4 DEF own
  <2> QED  BY <2>2, <2>3
<1> QED  BY <1>1, <1>2, <1>3, <1>4, PTL DEF ReportSpec, RetryLeavesNoSecond
===============================================================================
