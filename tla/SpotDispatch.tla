----------------------------- MODULE SpotDispatch -----------------------------
(***************************************************************************)
(* nousergon_lib/spot_dispatch.py, as a dispatcher Lambda of one lane puts  *)
(* its functions together: probe for a box, see whether the one found is    *)
(* dying, launch with the on-demand fallback, wait for the SSM agent, send  *)
(* the command, and terminate the box when one of the last steps failed.    *)
(* Calls overlap, and each request to AWS is a step of its own.             *)
(*                                                                          *)
(* A box is one EC2 instance of the lane.  Its id is used again once it is  *)
(* gone and no call speaks of it, which keeps the instances finite.         *)
(***************************************************************************)
EXTENDS Naturals, FiniteSets

CONSTANTS
  Dispatcher, \* dispatcher calls that may overlap
  Box,        \* bound: instances that exist at once
  NoBox,
  MaxSpotFaults \* bound: requests that fail (but for the clean-up's), reclaims, timeouts of a
              \* good box, killed calls

ASSUME DispatchAssumption == NoBox \notin Box /\ MaxSpotFaults \in Nat

LAUNCH_REASONS == {"spot_ok", "capacity_exhausted", "quota_exceeded", "force_on_demand"}

\* market, reason: the tags LaunchMarket and LaunchReason, which agree.  noticed: the status
\* of its spot request is one of _SPOT_RECLAIM_CODES.
Instance ==
  {i \in [state : {"pending", "running", "shutting-down", "gone"},
          market : {"spot", "on-demand"}, reason : LAUNCH_REASONS,
          noticed : BOOLEAN, online : BOOLEAN, working : BOOLEAN] :
     (i.market = "spot") <=> (i.reason = "spot_ok")}
New(state, market, reason) ==
  [state |-> state, market |-> market, reason |-> reason, noticed |-> FALSE,
   online |-> FALSE, working |-> FALSE]

VARIABLES
  box,      \* the instances
  at,       \* where each call is
  forced,   \* its force_on_demand
  found,    \* what its concurrency probe returned
  dying,    \* what termination_imminent has found of these so far
  mine,     \* the instance it has launched
  why,      \* the reason it launches, or escalates, for
  degraded, \* it goes on although its probe failed
  since,    \* instances launched since the probe of each call; read by properties only
  orphans,  \* instances whose call died, lost the launch's reply, or failed to terminate
  spotFaults

spotVars == <<box, at, forced, found, dying, mine, why, degraded, since, orphans, spotFaults>>
aws == <<box, orphans>>

SpotTypeOK ==
  /\ box \in [Box -> Instance]
  /\ at \in [Dispatcher -> {"idle", "probe", "states", "requests", "launch", "fallback",
                      "booting", "waiting", "sending", "tagging", "terminating"}]
  /\ forced \in [Dispatcher -> BOOLEAN]
  /\ found \in [Dispatcher -> SUBSET Box] /\ dying \in [Dispatcher -> SUBSET Box]
  /\ mine \in [Dispatcher -> Box \cup {NoBox}]
  /\ why \in [Dispatcher -> LAUNCH_REASONS]
  /\ degraded \in [Dispatcher -> BOOLEAN]
  /\ since \in [Dispatcher -> SUBSET Box]
  /\ orphans \subseteq Box
  /\ spotFaults \in Nat

Alive(b) == box[b].state \in {"pending", "running"}
OnSpot(b) == box[b].market = "spot"
Healthy(b) == Alive(b) /\ ~box[b].noticed

SpotInit ==
  /\ box = [b \in Box |-> New("gone", "spot", "spot_ok")]
  /\ at = [c \in Dispatcher |-> "idle"]
  /\ forced = [c \in Dispatcher |-> FALSE]
  /\ found = [c \in Dispatcher |-> {}] /\ dying = [c \in Dispatcher |-> {}]
  /\ mine = [c \in Dispatcher |-> NoBox]
  /\ why = [c \in Dispatcher |-> "spot_ok"]
  /\ degraded = [c \in Dispatcher |-> FALSE]
  /\ since = [c \in Dispatcher |-> {}]
  /\ orphans = {}
  /\ spotFaults = 0

Fault == spotFaults < MaxSpotFaults /\ spotFaults' = spotFaults + 1
Goto(c, place) == at' = [at EXCEPT ![c] = place]

\* A call begins.
Enter(c) ==
  /\ at[c] = "idle"
  /\ Goto(c, "probe")
  /\ \E f \in BOOLEAN : forced' = [forced EXCEPT ![c] = f]
  /\ UNCHANGED <<aws, found, dying, mine, why, degraded, since, spotFaults>>

\* The call is done with what it has read: it goes on with an instance, or ends.
Settle(c, place, b, launches) ==
  /\ Goto(c, place)
  /\ mine' = [mine EXCEPT ![c] = b]
  /\ forced' = [forced EXCEPT ![c] = FALSE]
  /\ found' = [found EXCEPT ![c] = {}] /\ dying' = [dying EXCEPT ![c] = {}]
  /\ why' = [why EXCEPT ![c] = "spot_ok"]
  /\ degraded' = [degraded EXCEPT ![c] = FALSE]
  /\ since' = [launches EXCEPT ![c] = {}]
Leave(c) == Settle(c, "idle", NoBox, since)

-----------------------------------------------------------------------------
(* running_instance_ids *)

\* The boxes of the lane that are pending or running.
Probed == {b \in Box : Alive(b)}

Probe(c) ==
  /\ at[c] = "probe"
  /\ found' = [found EXCEPT ![c] = Probed]
  /\ Goto(c, IF Probed = {} THEN "launch" ELSE "states")
  /\ UNCHANGED <<aws, forced, dying, mine, why, degraded, since, spotFaults>>

\* SpotProbeError: the caller gives up, or launches with dedupe_degraded.
ProbeFails(c) ==
  /\ at[c] = "probe"
  /\ Fault
  /\ \/ Leave(c)
     \/ /\ Goto(c, "launch")
        /\ degraded' = [degraded EXCEPT ![c] = TRUE]
        /\ UNCHANGED <<forced, found, dying, mine, why, since>>
  /\ UNCHANGED aws

(* termination_imminent *)

ReadStates(c) ==
  /\ at[c] = "states"
  /\ dying' = [dying EXCEPT ![c] = {b \in found[c] : ~Alive(b)}]
  /\ Goto(c, "requests")
  /\ UNCHANGED <<aws, forced, found, mine, why, degraded, since, spotFaults>>

\* The boxes whose spot request says that they are being reclaimed, or is closed, join them.
\* The call launches when nothing else of what it found is left, and is a duplicate
\* otherwise; either way it is done with the list.
ReadRequests(c) ==
  LET gone == dying[c] \cup {b \in found[c] : OnSpot(b) /\ (box[b].noticed \/ ~Alive(b))}
  IN /\ at[c] = "requests"
     /\ \/ /\ found[c] \subseteq gone
           /\ found' = [found EXCEPT ![c] = {}] /\ dying' = [dying EXCEPT ![c] = {}]
           /\ Goto(c, "launch")
           /\ UNCHANGED <<forced, mine, why, degraded, since>>
        \/ ~(found[c] \subseteq gone) /\ Leave(c)
     /\ UNCHANGED <<aws, spotFaults>>

\* A mutant of ImminentFails: a failed look is taken to say that they are all dying.
ImminentFailsOpen(c) ==
  /\ at[c] = "states" \/ (at[c] = "requests" /\ \E b \in found[c] : OnSpot(b))
  /\ Fault
  /\ Goto(c, "launch")
  /\ found' = [found EXCEPT ![c] = {}] /\ dying' = [dying EXCEPT ![c] = {}]
  /\ UNCHANGED <<aws, forced, mine, why, degraded, since>>

\* Either request fails: nothing is taken to be dying.
ImminentFails(c) ==
  /\ at[c] = "states" \/ (at[c] = "requests" /\ \E b \in found[c] : OnSpot(b))
  /\ Fault
  /\ Leave(c)
  /\ UNCHANGED aws

-----------------------------------------------------------------------------
(* launch_with_fallback *)

\* RunInstances gives a fresh id.
Run(b, market, reason) ==
  /\ box[b].state = "gone"
  /\ \A c \in Dispatcher : b \notin found[c] /\ b # mine[c]
  /\ box' = [box EXCEPT ![b] = New("pending", market, reason)]

\* The calls other than c that have probed and not launched.
LaunchedSince(c, b) ==
  [d \in Dispatcher |-> IF d # c /\ at[d] \in {"states", "requests", "launch", "fallback"} THEN since[d] \cup {b}
                  ELSE since[d]]

\* ec2_spot.launch returns the instance, or raises; in the latter case the instance may
\* have been launched all the same, with nobody to know of it.
Launched(c, market, reason) ==
  \/ \E b \in Box :
       /\ Run(b, market, reason)
       /\ \/ Settle(c, "booting", b, LaunchedSince(c, b)) /\ UNCHANGED <<orphans, spotFaults>>
          \/ /\ Fault
             /\ Settle(c, "idle", NoBox, LaunchedSince(c, b))
             /\ orphans' = orphans \cup {b}
  \/ Fault /\ Leave(c) /\ UNCHANGED aws

LaunchOnDemand(c) ==
  /\ at[c] = "launch" /\ forced[c]
  /\ Launched(c, "on-demand", "force_on_demand")

LaunchSpot(c) ==
  /\ at[c] = "launch" /\ ~forced[c]
  /\ Launched(c, "spot", "spot_ok")

\* No pool has spot capacity, or the account is at its quota; the operator is paged for
\* the latter, which may raise too.
SpotRefused(c) ==
  /\ at[c] = "launch" /\ ~forced[c]
  /\ \/ /\ \E reason \in {"capacity_exhausted", "quota_exceeded"} :
             why' = [why EXCEPT ![c] = reason]
        /\ Goto(c, "fallback")
        /\ UNCHANGED <<forced, found, dying, mine, degraded, since, spotFaults>>
     \/ Fault /\ Leave(c)
  /\ UNCHANGED aws

LaunchFallback(c) ==
  /\ at[c] = "fallback"
  /\ Launched(c, "on-demand", why[c])

-----------------------------------------------------------------------------
(* wait_ssm_online, send_async_command *)

\* The waiter sees the box running, or raises when it is ending.
WaitRunning(c) ==
  /\ at[c] = "booting"
  /\ box[mine[c]].state # "pending"
  /\ Goto(c, IF box[mine[c]].state = "running" THEN "waiting" ELSE "tagging")
  /\ UNCHANGED <<aws, forced, found, dying, mine, why, degraded, since, spotFaults>>

\* A poll finds the agent Online.
Ping(c) ==
  /\ at[c] = "waiting"
  /\ box[mine[c]].online
  /\ Goto(c, "sending")
  /\ UNCHANGED <<aws, forced, found, dying, mine, why, degraded, since, spotFaults>>

\* A mutant of WaitFails: the box is left as it is.
WaitFailsLeaving(c) ==
  /\ at[c] \in {"booting", "waiting"}
  /\ IF Healthy(mine[c]) THEN Fault ELSE UNCHANGED spotFaults
  /\ Leave(c)
  /\ UNCHANGED aws

\* A request fails or the budget is over: also when the agent comes a moment later.
WaitFails(c) ==
  /\ at[c] \in {"booting", "waiting"}
  /\ IF Healthy(mine[c]) THEN Fault ELSE UNCHANGED spotFaults
  /\ Goto(c, "tagging")
  /\ UNCHANGED <<aws, forced, found, dying, mine, why, degraded, since>>

\* The command is accepted; it is run if the box still is.
Send(c) ==
  /\ at[c] = "sending"
  /\ box' = [box EXCEPT ![mine[c]].working = @ \/ box[mine[c]].state = "running"]
  /\ Leave(c)
  /\ UNCHANGED <<orphans, spotFaults>>

\* send_command raises, the command having been accepted or not.
SendFails(c) ==
  /\ at[c] = "sending"
  /\ IF Healthy(mine[c]) THEN Fault ELSE UNCHANGED spotFaults
  /\ \E accepted \in BOOLEAN :
       box' = [box EXCEPT ![mine[c]].working =
                 @ \/ (accepted /\ box[mine[c]].state = "running")]
  /\ Goto(c, "tagging")
  /\ UNCHANGED <<orphans, forced, found, dying, mine, why, degraded, since>>

(* terminate_on_failure *)

\* A mutant of Tag: a failed tagging ends the clean-up.
TagOrRaise(c) ==
  /\ at[c] = "tagging"
  /\ \/ /\ Goto(c, "terminating")
        /\ UNCHANGED <<forced, found, dying, mine, why, degraded, since>>
     \/ Leave(c)
  /\ UNCHANGED <<box, orphans, spotFaults>>

\* create_tags, where the caller gave a reason; whether it fails changes nothing (nor does
\* anything here read the tags).
Tag(c) ==
  /\ at[c] = "tagging"
  /\ Goto(c, "terminating")
  /\ UNCHANGED <<box, orphans, forced, found, dying, mine, why, degraded, since, spotFaults>>

\* Ending what ends already changes nothing.
End(b) ==
  box' = IF Alive(b) THEN [box EXCEPT ![b].state = "shutting-down", ![b].online = FALSE,
                                     ![b].working = FALSE]
         ELSE box

\* terminate_instances.
Terminate(c) ==
  /\ at[c] = "terminating"
  /\ End(mine[c])
  /\ Leave(c)
  /\ UNCHANGED <<orphans, spotFaults>>

\* It fails: logged, for manual cleanup.
TerminateFails(c) ==
  /\ at[c] = "terminating"
  /\ Leave(c)
  /\ orphans' = orphans \cup {mine[c]}
  /\ UNCHANGED <<box, spotFaults>>

\* The Lambda dies or is out of time.
Kill(c) ==
  /\ at[c] # "idle"
  /\ Fault
  /\ Leave(c)
  /\ orphans' = orphans \cup ({mine[c]} \ {NoBox})
  /\ UNCHANGED box

-----------------------------------------------------------------------------
(* EC2 and the boxes *)

calls == <<at, forced, found, dying, mine, why, degraded, since>>

Boot(b) ==
  /\ box[b].state = "pending"
  /\ box' = [box EXCEPT ![b].state = "running"]
  /\ UNCHANGED <<calls, orphans, spotFaults>>

Register(b) ==
  /\ box[b].state = "running" /\ ~box[b].online
  /\ box' = [box EXCEPT ![b].online = TRUE]
  /\ UNCHANGED <<calls, orphans, spotFaults>>

\* The interruption notice, and the reclaim two minutes later.
Notice(b) ==
  /\ Healthy(b) /\ OnSpot(b)
  /\ Fault
  /\ box' = [box EXCEPT ![b].noticed = TRUE]
  /\ UNCHANGED <<calls, orphans>>

Reclaim(b) ==
  /\ Alive(b) /\ box[b].noticed
  /\ End(b)
  /\ UNCHANGED <<calls, orphans, spotFaults>>

\* The work is done; the box shuts itself down.
Finish(b) ==
  /\ box[b].working
  /\ End(b)
  /\ UNCHANGED <<calls, orphans, spotFaults>>

\* An hour after its end an instance is described no longer.
Vanish(b) ==
  /\ box[b].state = "shutting-down"
  /\ box' = [box EXCEPT ![b] = New("gone", "spot", "spot_ok")]
  /\ orphans' = orphans \ {b}
  /\ since' = [c \in Dispatcher |-> since[c] \ {b}]
  /\ UNCHANGED <<at, forced, found, dying, mine, why, degraded, spotFaults>>

Step(c) ==
  \/ Probe(c) \/ ReadStates(c) \/ ReadRequests(c)
  \/ LaunchOnDemand(c) \/ LaunchSpot(c) \/ SpotRefused(c) \/ LaunchFallback(c)
  \/ WaitRunning(c) \/ Ping(c) \/ WaitFails(c) \/ Send(c) \/ SendFails(c)
  \/ Tag(c) \/ Terminate(c)

SpotNext ==
  \/ \E c \in Dispatcher : \/ Enter(c) \/ Step(c) \/ ProbeFails(c) \/ ImminentFails(c)
                     \/ TerminateFails(c) \/ Kill(c)
  \/ \E b \in Box : \/ Boot(b) \/ Register(b) \/ Notice(b) \/ Reclaim(b)
                    \/ Finish(b) \/ Vanish(b)

\* A call that was entered goes on; the schedule calls again; EC2 boots, reclaims and
\* forgets instances; the agent registers.  Nobody promises that work ends.
SpotFairness ==
  /\ \A c \in Dispatcher : WF_spotVars(Enter(c)) /\ WF_spotVars(Step(c))
  /\ \A b \in Box : WF_spotVars(Boot(b) \/ Register(b) \/ Reclaim(b) \/ Vanish(b))

SpotSpec == SpotInit /\ [][SpotNext]_spotVars
FairSpotSpec == SpotSpec /\ SpotFairness
-----------------------------------------------------------------------------
(* Properties *)

Attended(b) == \E c \in Dispatcher : mine[c] = b

\* A call whose probe worked launches beside a healthy box only when that one was launched
\* after its probe: the boxes it found are dying, and stay so, whatever the two
\* readings of termination_imminent met on the way ("never a duplicate").
Launches(c) == at[c] \in {"launch", "fallback"} /\ box' # box
NoDuplicateOfFound ==
  [][\A c \in Dispatcher : at'[c] # at[c] /\ Launches(c) /\ ~degraded[c] =>
       \A b \in Box : Healthy(b) => b \in since[c]]_spotVars

\* "(no orphan)": a live box that neither works nor has a call looking after it is one whose
\* call died, lost the reply of the launch, or failed to terminate it.
NoUnexplainedOrphan ==
  \A b \in Box : Alive(b) /\ ~box[b].working /\ ~Attended(b) => b \in orphans

\* Again and again some box of the lane works, through reclaims, late agents and failed
\* requests, unless an orphan keeps the lane: the probe finds it, and it is not dying.
LaneIsWorked ==
  []<>(\E b \in Box : Alive(b) /\ (box[b].working \/ b \in orphans))
=============================================================================
