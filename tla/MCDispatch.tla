------------------------------ MODULE MCDispatch ------------------------------
(* How work is dispatched, for TLC: the lease of a lane and its callers, and *)
(* the boxes a lane's dispatchers launch (two calls, two instances).  They   *)
(* share nothing in the library, so each history looks at one of them while  *)
(* the other rests: a lease nobody asks for, a lane on whose box work goes on.*)
EXTENDS MCDispatchLease, SpotDispatch

CONSTANTS i1, i2

VARIABLE part

LeaseRests == Init /\ lease = NoLease
LaneRests ==
    /\ box = [b \in Box |-> IF b = i1 THEN [New("running", "spot", "spot_ok") EXCEPT
                                              !.online = TRUE, !.working = TRUE]
                            ELSE New("gone", "spot", "spot_ok")]
    /\ at = [c \in Dispatcher |-> "idle"]
    /\ forced = [c \in Dispatcher |-> FALSE] /\ degraded = [c \in Dispatcher |-> FALSE]
    /\ found = [c \in Dispatcher |-> {}] /\ dying = [c \in Dispatcher |-> {}]
    /\ since = [c \in Dispatcher |-> {}]
    /\ mine = [c \in Dispatcher |-> NoBox] /\ why = [c \in Dispatcher |-> "spot_ok"]
    /\ orphans = {} /\ spotFaults = 0

DispatchInit ==
    \/ part = "lease" /\ Init /\ LaneRests
    \/ part = "boxes" /\ SpotInit /\ LeaseRests

DispatchNext ==
    /\ UNCHANGED part
    /\ \/ part = "lease" /\ Next /\ UNCHANGED spotVars
       \/ part = "boxes" /\ SpotNext /\ UNCHANGED vars

(* Each part, while it is looked at, is as fair as Fairness and SpotFairness  *)
(* say: an implication for each would multiply the cases TLC has to check.   *)
Looked(p, step) == part = p /\ step
DispatchSpec ==
    /\ DispatchInit /\ [][DispatchNext]_<<vars, spotVars, part>>
    /\ \A p \in Caller : /\ WF_vars(Looked("lease", Acquire(p)))
                         /\ WF_vars(Looked("lease", Call(p)))
    /\ WF_vars(Looked("lease", Tick))
    /\ \A c \in Dispatcher : /\ WF_spotVars(Looked("boxes", Enter(c)))
                             /\ WF_spotVars(Looked("boxes", Step(c)))
    /\ \A b \in Box :
          WF_spotVars(Looked("boxes", Boot(b) \/ Register(b) \/ Reclaim(b) \/ Vanish(b)))
=============================================================================
