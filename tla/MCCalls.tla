------------------------------- MODULE MCCalls -------------------------------
(* What a call to the outside goes through, for TLC: the GitHub App's tokens *)
(* (two threads asking for two kinds of token, one full rotation) and the    *)
(* egress proxy (three requests over three leaves; the edited rules flag one *)
(* leaf more).  They share nothing, so each history looks at one of them.    *)
EXTENDS AppTokens, EgressProxy

VARIABLE part

Init == TokenInit /\ ProxyInit /\ part \in {"tokens", "egress"}

Next ==
    /\ UNCHANGED part
    /\ \/ part = "tokens" /\ TokenNext /\ UNCHANGED proxyVars
       \/ part = "egress" /\ ProxyNext /\ UNCHANGED tokenVars

Spec == Init /\ [][Next]_<<tokenVars, proxyVars, part>>

MCSymmetry == Permutations(Threads) \cup Permutations(TokenRequests) \cup Permutations(Requests)

MCNotJson == <<"not json">>
MCBodies  == {<<>>, MCNotJson, <<"a", "b", "a">>, <<"b", "c">>}
MCDirty   == <<{"c"}, {"b", "c"}>>
=============================================================================
