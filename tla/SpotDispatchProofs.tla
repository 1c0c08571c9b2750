-------------------------- MODULE SpotDispatchProofs --------------------------
(***************************************************************************)
(* Proofs about SpotDispatch: types, the boxes a launch may be beside, and  *)
(* what a box that nobody looks after is.                                   *)
(***************************************************************************)
EXTENDS SpotDispatch, TLAPS

Attending == {"booting", "waiting", "sending", "tagging", "terminating"}
Places == {"idle", "probe", "states", "requests", "launch", "fallback"} \cup Attending

\* A call holds an instance exactly while it attends it, and that one runs, or did, once the
\* waiter has returned; it falls back for a reason.
Placed(c) ==
  /\ at[c] \in Attending <=> mine[c] # NoBox
  /\ at[c] \in {"waiting", "sending"} => box[mine[c]].state # "pending"
  /\ at[c] = "fallback" => why[c] # "spot_ok"

\* What a call that has probed knows of every healthy box: it found it, does not take it
\* for dying, or could not see it.
Seen(c) ==
  \A b \in Box : Healthy(b) =>
    /\ at[c] = "states" => b \in found[c] \cup since[c]
    /\ at[c] = "requests" => b \in (found[c] \ dying[c]) \cup since[c]
    /\ at[c] \in {"launch", "fallback"} /\ ~degraded[c] => b \in since[c]

IInv ==
  /\ SpotTypeOK
  /\ \A c \in Dispatcher : Placed(c) /\ Seen(c)
  /\ NoUnexplainedOrphan

-----------------------------------------------------------------------------
(* Effects of a step *)

CallsTyped ==
  /\ at \in [Dispatcher -> Places]
  /\ forced \in [Dispatcher -> BOOLEAN]
  /\ found \in [Dispatcher -> SUBSET Box] /\ dying \in [Dispatcher -> SUBSET Box]
  /\ mine \in [Dispatcher -> Box \cup {NoBox}]
  /\ why \in [Dispatcher -> LAUNCH_REASONS]
  /\ degraded \in [Dispatcher -> BOOLEAN]
  /\ since \in [Dispatcher -> SUBSET Box]
  /\ orphans \subseteq Box
  /\ spotFaults \in Nat

\* No instance is launched: none becomes healthy, pending, or live without work.
Calm ==
  /\ box' \in [Box -> Instance]
  /\ \A b \in Box :
       /\ Healthy(b)' => Healthy(b)
       /\ box'[b].state = "pending" => box[b].state = "pending"
       /\ Alive(b)' /\ ~box'[b].working => Alive(b) /\ ~box[b].working

Others(c) ==
  \A d \in Dispatcher \ {c} :
    /\ at'[d] = at[d] /\ mine'[d] = mine[d] /\ found'[d] = found[d]
    /\ dying'[d] = dying[d] /\ degraded'[d] = degraded[d] /\ why'[d] = why[d]

\* A step of call c that launches nothing.
Effect(c) ==
  /\ CallsTyped' /\ Calm /\ Others(c)
  /\ \A d \in Dispatcher \ {c} : since'[d] = since[d]
  /\ Placed(c)' /\ Seen(c)'
  /\ orphans \subseteq orphans'
  /\ \A b \in Box : mine[c] = b =>
       mine'[c] = b \/ b \in orphans' \/ box'[b].working \/ ~Alive(b)'

LEMMA TypeParts == SpotTypeOK <=> box \in [Box -> Instance] /\ CallsTyped
BY DEF SpotTypeOK, CallsTyped, Places, Attending

LEMMA EffectIInv ==
  ASSUME IInv, NEW c \in Dispatcher, Effect(c)
  PROVE  IInv'
<1>1. SpotTypeOK'
  BY DEF Effect, Calm, CallsTyped, Places, Attending, SpotTypeOK
<1>2. ASSUME NEW d \in Dispatcher, d # c PROVE Placed(d)' /\ Seen(d)'
  <2>1. /\ at'[d] = at[d] /\ mine'[d] = mine[d] /\ found'[d] = found[d]
        /\ dying'[d] = dying[d] /\ degraded'[d] = degraded[d] /\ why'[d] = why[d]
        /\ since'[d] = since[d]
    BY <1>2 DEF Effect, Others
  <2>2. Placed(d) /\ Seen(d) /\ Calm /\ mine[d] \in Box \cup {NoBox}
    BY DEF IInv, Effect, SpotTypeOK
  <2>3. Placed(d)'
    BY <2>1, <2>2 DEF Placed, Calm, Attending
  <2>4. Seen(d)'
    BY <2>1, <2>2 DEF Seen, Calm
  <2> QED  BY <2>3, <2>4
<1>3. NoUnexplainedOrphan'
  <2> SUFFICES ASSUME NEW b \in Box, Alive(b)', ~box'[b].working, ~Attended(b)'
               PROVE  b \in orphans'
    BY DEF NoUnexplainedOrphan
  <2>1. Alive(b) /\ ~box[b].working
    BY DEF Effect, Calm
  <2>2. CASE b \in orphans
    BY <2>2 DEF Effect
  <2>3. CASE Attended(b)
    <3>1. PICK d \in Dispatcher : mine[d] = b
      BY <2>3 DEF Attended
    <3>2. d = c
      BY <3>1 DEF Effect, Others, Attended
    <3>3. mine'[c] # b
      BY DEF Attended
    <3> QED  BY <3>1, <3>2, <3>3 DEF Effect
  <2> QED  BY <2>1, <2>2, <2>3 DEF IInv, NoUnexplainedOrphan
<1> QED  BY <1>1, <1>2, <1>3 DEF IInv, Effect

LEMMA CalmIfKept ==
  ASSUME box \in [Box -> Instance], UNCHANGED box
  PROVE  Calm
BY DEF Calm, Healthy, Alive

\* The end of a call: what it holds is settled first.
LEMMA LeaveEffect ==
  ASSUME IInv, NEW c \in Dispatcher, Leave(c), Calm, spotFaults' \in Nat,
         orphans' \in SUBSET Box, orphans \subseteq orphans',
         \A b \in Box : mine[c] = b => b \in orphans' \/ box'[b].working \/ ~Alive(b)'
  PROVE  IInv'
<1>1. SpotTypeOK
  BY DEF IInv
<1>2. /\ at' = [at EXCEPT ![c] = "idle"]
      /\ mine' = [mine EXCEPT ![c] = NoBox]
      /\ forced' = [forced EXCEPT ![c] = FALSE]
      /\ found' = [found EXCEPT ![c] = {}] /\ dying' = [dying EXCEPT ![c] = {}]
      /\ why' = [why EXCEPT ![c] = "spot_ok"]
      /\ degraded' = [degraded EXCEPT ![c] = FALSE]
      /\ since' = [since EXCEPT ![c] = {}]
  BY DEF Leave, Settle, Goto
<1>3. CallsTyped'
  BY <1>1, <1>2 DEF SpotTypeOK, CallsTyped, Places, Attending, LAUNCH_REASONS
<1>4. Others(c) /\ \A d \in Dispatcher \ {c} : since'[d] = since[d]
  BY <1>1, <1>2 DEF SpotTypeOK, Others
<1>5. at'[c] = "idle" /\ mine'[c] = NoBox
  BY <1>1, <1>2 DEF SpotTypeOK
<1>6. Placed(c)' /\ Seen(c)'
  BY <1>5 DEF Placed, Seen, Attending
<1>7. Effect(c)
  BY <1>3, <1>4, <1>6 DEF Effect
<1> QED  BY <1>7, EffectIInv

\* A step of a call that goes on with the same instance, or none.
LEMMA MoveEffect ==
  ASSUME IInv, NEW c \in Dispatcher, CallsTyped', Calm, Others(c),
         UNCHANGED <<mine, since, orphans>>,
         at'[c] \in Attending <=> at[c] \in Attending,
         at'[c] \in {"waiting", "sending"} => box'[mine[c]].state # "pending",
         at'[c] = "fallback" => why'[c] # "spot_ok",
         \A b \in Box : Healthy(b) =>
           /\ at'[c] = "states" => b \in found'[c] \cup since[c]
           /\ at'[c] = "requests" => b \in (found'[c] \ dying'[c]) \cup since[c]
           /\ at'[c] \in {"launch", "fallback"} /\ ~degraded'[c] => b \in since[c]
  PROVE  IInv'
<1>1. Placed(c)
  BY DEF IInv
<1>2. Placed(c)'
  BY <1>1 DEF Placed
<1>3. Seen(c)'
  BY DEF Seen, Calm
<1>4. Effect(c)
  BY <1>2, <1>3 DEF Effect
<1> QED  BY <1>4, EffectIInv

-----------------------------------------------------------------------------
(* Instances *)

LEMMA NewInstance ==
  ASSUME NEW market \in {"spot", "on-demand"}, NEW reason \in LAUNCH_REASONS,
         (market = "spot") <=> (reason = "spot_ok"),
         NEW state \in {"pending", "gone"}
  PROVE  New(state, market, reason) \in Instance
BY DEF New, Instance

\* What the steps of a box, and of a call on its box, do to one instance.
LEMMA InstanceSteps ==
  ASSUME NEW i \in Instance
  PROVE  /\ [i EXCEPT !.state = "running"] \in Instance
         /\ [i EXCEPT !.online = TRUE] \in Instance
         /\ [i EXCEPT !.noticed = TRUE] \in Instance
         /\ \A w \in BOOLEAN : [i EXCEPT !.working = w] \in Instance
         /\ [i EXCEPT !.state = "shutting-down", !.online = FALSE, !.working = FALSE] \in Instance
BY DEF Instance

\* One instance becomes i, which is no healthier, and the others stay.
LEMMA CalmOne ==
  ASSUME box \in [Box -> Instance], NEW b \in Box, NEW i \in Instance,
         box' = [box EXCEPT ![b] = i],
         i.state \in {"pending", "running"} /\ ~i.noticed => Healthy(b),
         i.state = "pending" => box[b].state = "pending",
         i.state \in {"pending", "running"} /\ ~i.working => Alive(b) /\ ~box[b].working
  PROVE  Calm
<1>1. box' \in [Box -> Instance] /\ box'[b] = i /\ \A c \in Box \ {b} : box'[c] = box[c]
  OBVIOUS
<1> QED  BY <1>1 DEF Calm, Healthy, Alive

LEMMA CalmEnd ==
  ASSUME box \in [Box -> Instance], NEW b \in Box,
         End(b)
  PROVE  Calm /\ ~Alive(b)'
<1>1. CASE ~Alive(b)
  <2>1. UNCHANGED box
    BY <1>1 DEF End
  <2> QED  BY <1>1, <2>1, CalmIfKept DEF Alive
<1>2. CASE Alive(b)
  <2> DEFINE i == [box[b] EXCEPT !.state = "shutting-down", !.online = FALSE,
                                 !.working = FALSE]
  <2>1. i \in Instance
    BY InstanceSteps
  <2>2. box' = [box EXCEPT ![b] = i]
    BY <1>2 DEF End
  <2>3. i.state = "shutting-down"
    BY DEF Instance
  <2> HIDE DEF i
  <2>4. Calm
    BY <2>1, <2>2, <2>3, CalmOne
  <2> QED  BY <2>2, <2>3, <2>4 DEF Alive
<1> QED  BY <1>1, <1>2

-----------------------------------------------------------------------------
(* The steps of a call *)

LEMMA ProbeIInv ==
  ASSUME IInv, NEW c \in Dispatcher, Enter(c) \/ Probe(c) \/ ReadStates(c)
  PROVE  IInv'
<1>1. SpotTypeOK /\ Seen(c) /\ CallsTyped
  BY TypeParts DEF IInv
<1>2. Calm /\ UNCHANGED <<mine, since, orphans>>
  BY <1>1, CalmIfKept DEF SpotTypeOK, Enter, Probe, ReadStates, aws
<1>3. CallsTyped' /\ Others(c)
  <2> USE <1>1 DEF SpotTypeOK, CallsTyped, Others, Goto, aws, Places
  <2>1. CASE Enter(c)  BY <2>1 DEF Enter
  <2>2. CASE Probe(c)  BY <2>2 DEF Probe, Probed
  <2>3. CASE ReadStates(c)  BY <2>3 DEF ReadStates
  <2> QED  BY <2>1, <2>2, <2>3
<1>4. CASE Enter(c)
  <2>1. at'[c] = "probe" /\ at[c] = "idle"
    BY <1>1, <1>4 DEF SpotTypeOK, Enter, Goto
  <2> QED  BY <1>2, <1>3, <2>1, MoveEffect DEF Attending
<1>5. CASE Probe(c)
  <2>1. /\ at[c] = "probe"
        /\ at'[c] = "states" \/ (at'[c] = "launch" /\ Probed = {})
        /\ found'[c] = Probed
    BY <1>1, <1>5 DEF SpotTypeOK, Probe, Goto
  <2>2. \A b \in Box : Healthy(b) => b \in Probed
    BY DEF Probed, Healthy
  <2> QED  BY <1>2, <1>3, <2>1, <2>2, MoveEffect DEF Attending
<1>6. CASE ReadStates(c)
  <2>1. /\ at[c] = "states" /\ at'[c] = "requests"
        /\ found'[c] = found[c] /\ dying'[c] = {b \in found[c] : ~Alive(b)}
    BY <1>1, <1>6 DEF SpotTypeOK, ReadStates, Goto
  <2>2. \A b \in Box : Healthy(b) => b \in (found'[c] \ dying'[c]) \cup since[c]
    BY <1>1, <2>1 DEF Seen, Healthy
  <2> QED  BY <1>2, <1>3, <2>1, <2>2, MoveEffect DEF Attending
<1> QED  BY <1>4, <1>5, <1>6

\* A call that ends, or goes on to launch, with no instance of its own.
LEMMA DecideIInv ==
  ASSUME IInv, NEW c \in Dispatcher,
         ProbeFails(c) \/ ReadRequests(c) \/ ImminentFails(c) \/ SpotRefused(c)
  PROVE  IInv'
<1>1. SpotTypeOK /\ Seen(c) /\ Placed(c) /\ CallsTyped
  BY TypeParts DEF IInv
<1>2. Calm
  BY <1>1, CalmIfKept DEF SpotTypeOK, ProbeFails, ReadRequests, ImminentFails, SpotRefused, aws
<1>3. spotFaults' \in Nat
  BY <1>1 DEF SpotTypeOK, ProbeFails, ReadRequests, ImminentFails, SpotRefused, Fault
<1>4. mine[c] = NoBox /\ at[c] \notin Attending /\ UNCHANGED orphans
  BY <1>1 DEF Placed, Attending, ProbeFails, ReadRequests, ImminentFails, SpotRefused, aws
<1>5. CASE Leave(c)
  <2>1. orphans' \in SUBSET Box /\ orphans \subseteq orphans'
    BY <1>1, <1>4 DEF SpotTypeOK
  <2>2. \A b \in Box : mine[c] # b
    BY <1>4, DispatchAssumption
  <2> QED  BY <1>2, <1>3, <1>5, <2>1, <2>2, LeaveEffect
<1>6. CASE /\ Goto(c, "launch") /\ degraded' = [degraded EXCEPT ![c] = TRUE]
           /\ UNCHANGED <<forced, found, dying, mine, why, since>>
  <2>1. CallsTyped' /\ Others(c) /\ at'[c] = "launch" /\ degraded'[c]
    BY <1>1, <1>3, <1>4, <1>6 DEF CallsTyped, Others, Goto, Places
  <2> QED  BY <1>2, <1>4, <1>6, <2>1, MoveEffect DEF Attending
<1>7. CASE /\ ReadRequests(c) /\ Goto(c, "launch")
           /\ found[c] \subseteq dying[c] \cup
                {b \in found[c] : OnSpot(b) /\ (box[b].noticed \/ ~Alive(b))}
           /\ found' = [found EXCEPT ![c] = {}] /\ dying' = [dying EXCEPT ![c] = {}]
           /\ UNCHANGED <<forced, mine, why, degraded, since>>
  <2>1. CallsTyped' /\ Others(c) /\ at'[c] = "launch"
    BY <1>1, <1>3, <1>4, <1>7 DEF CallsTyped, Others, Goto, Places
  <2>2. \A b \in Box : Healthy(b) => b \in since[c]
    BY <1>1, <1>7 DEF ReadRequests, Seen, Healthy
  <2> QED  BY <1>2, <1>4, <1>7, <2>1, <2>2, MoveEffect DEF Attending
<1>8. CASE /\ SpotRefused(c) /\ Goto(c, "fallback")
           /\ \E reason \in {"capacity_exhausted", "quota_exceeded"} :
                why' = [why EXCEPT ![c] = reason]
           /\ UNCHANGED <<forced, found, dying, mine, degraded, since>>
  <2>1. why' \in [Dispatcher -> LAUNCH_REASONS]
    BY <1>1, <1>8 DEF SpotTypeOK, LAUNCH_REASONS
  <2>2. /\ CallsTyped' /\ Others(c) /\ at'[c] = "fallback" /\ degraded'[c] = degraded[c]
        /\ why'[c] # "spot_ok"
    BY <1>1, <1>3, <1>4, <1>8, <2>1 DEF CallsTyped, Others, Goto, Places
  <2>3. \A b \in Box : Healthy(b) /\ ~degraded[c] => b \in since[c]
    BY <1>1, <1>8 DEF SpotRefused, Seen
  <2> QED  BY <1>2, <1>4, <1>8, <2>2, <2>3, MoveEffect DEF Attending
<1> QED
  BY <1>5, <1>6, <1>7, <1>8 DEF ProbeFails, ReadRequests, ImminentFails, SpotRefused

\* A launch: the new instance is attended or an orphan, and every other call that has probed
\* could not see it.
LEMMA LaunchIInv ==
  ASSUME IInv, NEW c \in Dispatcher, at[c] \in {"launch", "fallback"},
         NEW market \in {"spot", "on-demand"}, NEW reason \in LAUNCH_REASONS,
         (market = "spot") <=> (reason = "spot_ok"), Launched(c, market, reason)
  PROVE  IInv'
<1>1. SpotTypeOK /\ Placed(c) /\ CallsTyped
  BY TypeParts DEF IInv
<1>2. mine[c] = NoBox
  BY <1>1 DEF Placed, Attending
<1>3. CASE Fault /\ Leave(c) /\ UNCHANGED aws
  <2>1. Calm /\ spotFaults' \in Nat /\ orphans' \in SUBSET Box /\ orphans \subseteq orphans'
    BY <1>1, <1>3, CalmIfKept DEF SpotTypeOK, aws, Fault
  <2>2. \A b \in Box : mine[c] # b
    BY <1>2, DispatchAssumption
  <2> QED  BY <1>3, <2>1, <2>2, LeaveEffect
<1>4. CASE ~(Fault /\ Leave(c) /\ UNCHANGED aws)
  <2>1. PICK b \in Box :
          /\ Run(b, market, reason)
          /\ \/ Settle(c, "booting", b, LaunchedSince(c, b)) /\ UNCHANGED <<orphans, spotFaults>>
             \/ /\ Fault /\ Settle(c, "idle", NoBox, LaunchedSince(c, b))
                /\ orphans' = orphans \cup {b}
    BY <1>4 DEF Launched
  <2>2. /\ box' = [box EXCEPT ![b] = New("pending", market, reason)]
        /\ \A d \in Dispatcher : mine[d] # b
    BY <2>1 DEF Run
  <2>3. New("pending", market, reason) \in Instance
    BY NewInstance
  <2>4. /\ box' \in [Box -> Instance] /\ box'[b] = New("pending", market, reason)
        /\ \A o \in Box \ {b} : box'[o] = box[o]
    BY <1>1, <2>2, <2>3 DEF SpotTypeOK
  <2>5. LaunchedSince(c, b) \in [Dispatcher -> SUBSET Box]
    BY <1>1 DEF CallsTyped, LaunchedSince
  <2>6. /\ \/ at' = [at EXCEPT ![c] = "booting"] /\ mine' = [mine EXCEPT ![c] = b]
              /\ orphans' = orphans
           \/ at' = [at EXCEPT ![c] = "idle"] /\ mine' = [mine EXCEPT ![c] = NoBox]
              /\ orphans' = orphans \cup {b}
        /\ forced' = [forced EXCEPT ![c] = FALSE]
        /\ found' = [found EXCEPT ![c] = {}] /\ dying' = [dying EXCEPT ![c] = {}]
        /\ why' = [why EXCEPT ![c] = "spot_ok"]
        /\ degraded' = [degraded EXCEPT ![c] = FALSE]
        /\ since' = [LaunchedSince(c, b) EXCEPT ![c] = {}]
        /\ spotFaults' \in Nat
    BY <1>1, <2>1 DEF Settle, Goto, CallsTyped, Fault
  <2>7. CallsTyped'
    BY <1>1, <2>5, <2>6 DEF CallsTyped, Places, Attending, LAUNCH_REASONS
  <2>8. SpotTypeOK'
    BY <2>4, <2>7 DEF SpotTypeOK, CallsTyped, Places, Attending
  <2>9. Others(c) /\ \A d \in Dispatcher \ {c} : since'[d] = LaunchedSince(c, b)[d]
    BY <1>1, <2>5, <2>6 DEF CallsTyped, Others
  <2>10. /\ \/ at'[c] = "booting" /\ mine'[c] = b /\ orphans' = orphans
            \/ at'[c] = "idle" /\ mine'[c] = NoBox /\ orphans' = orphans \cup {b}
    BY <1>1, <2>6 DEF CallsTyped
  <2>11. ASSUME NEW d \in Dispatcher PROVE Placed(d)' /\ Seen(d)'
    <3>1. CASE d = c
      <4>1. Placed(c)'
        BY <2>10, DispatchAssumption DEF Placed, Attending
      <4>2. Seen(c)'
        BY <2>10 DEF Seen
      <4> QED  BY <3>1, <4>1, <4>2
    <3>2. CASE d # c
      <4>1. /\ at'[d] = at[d] /\ mine'[d] = mine[d] /\ found'[d] = found[d]
            /\ dying'[d] = dying[d] /\ degraded'[d] = degraded[d] /\ why'[d] = why[d]
            /\ since'[d] = IF at[d] \in {"states", "requests", "launch", "fallback"}
                           THEN since[d] \cup {b} ELSE since[d]
        BY <2>9, <3>2 DEF Others, LaunchedSince
      <4>2. Placed(d) /\ Seen(d) /\ mine[d] \in Box \cup {NoBox} /\ mine[d] # b
        BY <1>1, <2>2 DEF IInv, CallsTyped
      <4>3. Placed(d)'
        BY <2>4, <4>1, <4>2 DEF Placed, Attending
      <4>4. ASSUME NEW o \in Box, Healthy(o)'
            PROVE  /\ at[d] = "states" => o \in found[d] \cup since'[d]
                   /\ at[d] = "requests" => o \in (found[d] \ dying[d]) \cup since'[d]
                   /\ at[d] \in {"launch", "fallback"} /\ ~degraded[d] => o \in since'[d]
        <5>1. CASE o = b
          BY <4>1, <5>1
        <5>2. CASE o # b
          <6>1. Healthy(o)
            BY <2>4, <4>4, <5>2 DEF Healthy, Alive
          <6> QED  BY <4>1, <4>2, <6>1 DEF Seen
        <5> QED  BY <5>1, <5>2
      <4>5. Seen(d)'
        BY <4>1, <4>4 DEF Seen
      <4> QED  BY <4>3, <4>5
    <3> QED  BY <3>1, <3>2
  <2>12. NoUnexplainedOrphan'
    <3> SUFFICES ASSUME NEW o \in Box, Alive(o)', ~box'[o].working, ~Attended(o)'
                 PROVE  o \in orphans'
      BY DEF NoUnexplainedOrphan
    <3>1. CASE o = b
      BY <2>10, <3>1 DEF Attended
    <3>2. CASE o # b
      <4>1. Alive(o) /\ ~box[o].working
        BY <2>4, <3>2 DEF Alive
      <4>2. ~Attended(o)
        <5> SUFFICES ASSUME NEW d \in Dispatcher, mine[d] = o PROVE FALSE
          BY DEF Attended
        <5>1. d # c
          BY <1>2, DispatchAssumption
        <5> QED  BY <2>9, <5>1 DEF Others, Attended
      <4> QED  BY <2>10, <4>1, <4>2 DEF IInv, NoUnexplainedOrphan
    <3> QED  BY <3>1, <3>2
  <2> QED  BY <2>8, <2>11, <2>12 DEF IInv
<1> QED  BY <1>3, <1>4

\* The steps between a launch and the end of the call.
LEMMA WaitIInv ==
  ASSUME IInv, NEW c \in Dispatcher, WaitRunning(c) \/ Ping(c) \/ WaitFails(c)
  PROVE  IInv'
<1>1. SpotTypeOK /\ Placed(c) /\ CallsTyped
  BY TypeParts DEF IInv
<1>2. Calm /\ UNCHANGED <<mine, since, orphans, box>>
  BY <1>1, CalmIfKept DEF SpotTypeOK, WaitRunning, Ping, WaitFails, aws
<1>3. CallsTyped' /\ Others(c)
  <2> USE <1>1 DEF CallsTyped, Others, Goto, aws, Places, Attending, Fault
  <2>1. CASE WaitRunning(c)  BY <2>1 DEF WaitRunning
  <2>2. CASE Ping(c)  BY <2>2 DEF Ping
  <2>3. CASE WaitFails(c)  BY <2>3 DEF WaitFails
  <2> QED  BY <2>1, <2>2, <2>3
<1>4. /\ at[c] \in Attending /\ at'[c] \in {"waiting", "sending", "tagging"}
      /\ at'[c] \in {"waiting", "sending"} => box[mine[c]].state # "pending"
  BY <1>1 DEF CallsTyped, Placed, Goto, WaitRunning, Ping, WaitFails, Attending
<1> QED  BY <1>2, <1>3, <1>4, MoveEffect DEF Attending

\* What send_async_command does to the call's own instance leaves it as live as it was.
LEMMA OwnInstance ==
  ASSUME IInv, NEW c \in Dispatcher, mine[c] # NoBox,
         \/ \E w \in BOOLEAN : /\ box[mine[c]].working => w
                               /\ box' = [box EXCEPT ![mine[c]].working = w]
         \/ UNCHANGED box
  PROVE  Calm
<1>1. box \in [Box -> Instance] /\ mine[c] \in Box
  BY DEF IInv, SpotTypeOK
<1>2. CASE UNCHANGED box
  BY <1>1, <1>2, CalmIfKept
<1> DEFINE b == mine[c]
<1>3. CASE \E w \in BOOLEAN : (box[b].working => w) /\ box' = [box EXCEPT ![b].working = w]
  <2>1. PICK w \in BOOLEAN : (box[b].working => w) /\ box' = [box EXCEPT ![b].working = w]
    BY <1>3
  <2> DEFINE i == [box[b] EXCEPT !.working = w]
  <2>2. /\ i \in Instance /\ i.state = box[b].state /\ i.noticed = box[b].noticed
        /\ i.working = w
    <3>1. box[b] \in Instance
      BY <1>1
    <3>2. i \in Instance
      BY <3>1, InstanceSteps
    <3> QED  BY <3>1, <3>2 DEF Instance
  <2>3. box' = [box EXCEPT ![b] = i]
    BY <2>1
  <2> HIDE DEF i
  <2> QED  BY <1>1, <2>1, <2>2, <2>3, CalmOne DEF Healthy, Alive
<1> QED  BY <1>2, <1>3

LEMMA SendIInv ==
  ASSUME IInv, NEW c \in Dispatcher, Send(c) \/ SendFails(c) \/ Tag(c)
  PROVE  IInv'
<1>1. SpotTypeOK /\ Placed(c) /\ CallsTyped
  BY TypeParts DEF IInv
<1>2. mine[c] \in Box /\ mine[c] # NoBox /\ at[c] \in Attending
  BY <1>1 DEF Placed, CallsTyped, Attending, Send, SendFails, Tag
<1> DEFINE b == mine[c]
<1>3. box[b] \in Instance /\ box[b].working \in BOOLEAN
  BY <1>1, <1>2 DEF SpotTypeOK, Instance
<1>4. CASE Send(c)
  <2> DEFINE w == box[b].working \/ box[b].state = "running"
  <2>1. w \in BOOLEAN /\ box' = [box EXCEPT ![b].working = w]
    BY <1>3, <1>4 DEF Send
  <2>2. Calm
    BY <1>2, <2>1, OwnInstance
  <2>3. box'[b].state = box[b].state /\ box'[b].working = w
    BY <1>1, <1>2, <1>3, <2>1 DEF SpotTypeOK, Instance
  <2>4. box[b].state # "pending"
    BY <1>1, <1>4 DEF Placed, Send
  <2>5. \A o \in Box : mine[c] = o => box'[o].working \/ ~Alive(o)'
    BY <2>3, <2>4 DEF Alive
  <2>6. Leave(c) /\ spotFaults' \in Nat /\ orphans' \in SUBSET Box /\ orphans \subseteq orphans'
    BY <1>1, <1>4 DEF Send, CallsTyped
  <2> QED  BY <2>2, <2>5, <2>6, LeaveEffect
<1>5. CASE SendFails(c) \/ Tag(c)
  <2>1. Calm
    <3>1. CASE SendFails(c)
      <4>1. PICK accepted \in BOOLEAN :
              box' = [box EXCEPT ![b].working =
                        @ \/ (accepted /\ box[b].state = "running")]
        BY <3>1 DEF SendFails
      <4> DEFINE w == box[b].working \/ (accepted /\ box[b].state = "running")
      <4>2. w \in BOOLEAN /\ (box[b].working => w) /\ box' = [box EXCEPT ![b].working = w]
        BY <1>3, <4>1
      <4> HIDE DEF w
      <4> QED  BY <1>2, <4>2, OwnInstance
    <3>2. CASE Tag(c)
      BY <1>2, <3>2, OwnInstance DEF Tag
    <3> QED  BY <1>5, <3>1, <3>2
  <2>2. CallsTyped' /\ Others(c)
    <3> USE <1>1 DEF CallsTyped, Others, Goto, Places, Attending, Fault
    <3>1. CASE SendFails(c)  BY <3>1 DEF SendFails
    <3>2. CASE Tag(c)  BY <3>2 DEF Tag
    <3> QED  BY <1>5, <3>1, <3>2
  <2>3. at'[c] \in {"tagging", "terminating"} /\ UNCHANGED <<mine, since, orphans>>
    BY <1>1, <1>5 DEF CallsTyped, Goto, SendFails, Tag
  <2> QED  BY <1>2, <2>1, <2>2, <2>3, MoveEffect DEF Attending
<1> QED  BY <1>4, <1>5

LEMMA EndIInv ==
  ASSUME IInv, NEW c \in Dispatcher, Terminate(c) \/ TerminateFails(c) \/ Kill(c)
  PROVE  IInv'
<1>1. SpotTypeOK /\ Placed(c) /\ CallsTyped
  BY TypeParts DEF IInv
<1>2. Leave(c) /\ spotFaults' \in Nat
  BY <1>1 DEF Terminate, TerminateFails, Kill, CallsTyped, Fault
<1>3. CASE Terminate(c)
  <2>1. mine[c] \in Box
    BY <1>1, <1>3 DEF Placed, CallsTyped, Attending, Terminate
  <2>2. Calm /\ \A o \in Box : mine[c] = o => ~Alive(o)'
    <3>1. \A o \in Box : End(o) => Calm /\ ~Alive(o)'
      BY <1>1, CalmEnd DEF SpotTypeOK
    <3> QED  BY <1>3, <2>1, <3>1 DEF Terminate
  <2>3. orphans' \in SUBSET Box /\ orphans \subseteq orphans'
    BY <1>1, <1>3 DEF Terminate, CallsTyped
  <2> QED  BY <1>2, <2>2, <2>3, LeaveEffect
<1>4. CASE TerminateFails(c) \/ Kill(c)
  <2>1. Calm
    BY <1>1, <1>4, CalmIfKept DEF SpotTypeOK, TerminateFails, Kill
  <2>2. /\ orphans' \in SUBSET Box /\ orphans \subseteq orphans'
        /\ \A o \in Box : mine[c] = o => o \in orphans'
    <3>1. CASE TerminateFails(c)
      BY <1>1, <3>1 DEF TerminateFails, CallsTyped, Placed, Attending
    <3>2. CASE Kill(c)
      BY <1>1, <3>2, DispatchAssumption DEF Kill, CallsTyped
    <3> QED  BY <1>4, <3>1, <3>2
  <2> QED  BY <1>2, <2>1, <2>2, LeaveEffect
<1> QED  BY <1>3, <1>4

-----------------------------------------------------------------------------
(* The steps of a box *)

BoxStep(b) == Boot(b) \/ Register(b) \/ Notice(b) \/ Reclaim(b) \/ Finish(b) \/ Vanish(b)

LEMMA BoxCalm ==
  ASSUME SpotTypeOK, NEW b \in Box, BoxStep(b)
  PROVE  Calm
<1>1. box \in [Box -> Instance] /\ box[b] \in Instance
  BY DEF SpotTypeOK
<1>2. CASE Boot(b)
  <2> DEFINE i == [box[b] EXCEPT !.state = "running"]
  <2>1. i \in Instance
    BY <1>1, InstanceSteps
  <2>2. i.state = "running" /\ i.noticed = box[b].noticed /\ i.working = box[b].working
    BY <1>1 DEF Instance
  <2>3. box' = [box EXCEPT ![b] = i] /\ box[b].state = "pending"
    BY <1>2 DEF Boot
  <2> HIDE DEF i
  <2> QED  BY <1>1, <2>1, <2>2, <2>3, CalmOne DEF Healthy, Alive
<1>3. CASE Register(b)
  <2> DEFINE i == [box[b] EXCEPT !.online = TRUE]
  <2>1. i \in Instance
    BY <1>1, InstanceSteps
  <2>2. i.state = box[b].state /\ i.noticed = box[b].noticed /\ i.working = box[b].working
    BY <1>1 DEF Instance
  <2>3. box' = [box EXCEPT ![b] = i]
    BY <1>3 DEF Register
  <2> HIDE DEF i
  <2> QED  BY <1>1, <2>1, <2>2, <2>3, CalmOne DEF Healthy, Alive
<1>4. CASE Notice(b)
  <2> DEFINE i == [box[b] EXCEPT !.noticed = TRUE]
  <2>1. i \in Instance
    BY <1>1, InstanceSteps
  <2>2. i.state = box[b].state /\ i.noticed /\ i.working = box[b].working
    BY <1>1 DEF Instance
  <2>3. box' = [box EXCEPT ![b] = i]
    BY <1>4 DEF Notice
  <2> HIDE DEF i
  <2> QED  BY <1>1, <2>1, <2>2, <2>3, CalmOne DEF Healthy, Alive
<1>5. CASE Reclaim(b) \/ Finish(b)
  <2>1. End(b)
    BY <1>5 DEF Reclaim, Finish
  <2> QED  BY <1>1, <2>1, CalmEnd
<1>6. CASE Vanish(b)
  <2> DEFINE i == New("gone", "spot", "spot_ok")
  <2>1. i \in Instance /\ i.state = "gone"
    BY NewInstance DEF New, LAUNCH_REASONS
  <2>2. box' = [box EXCEPT ![b] = i]
    BY <1>6 DEF Vanish
  <2> HIDE DEF i
  <2> QED  BY <1>1, <2>1, <2>2, CalmOne
<1> QED  BY <1>2, <1>3, <1>4, <1>5, <1>6 DEF BoxStep

LEMMA BoxIInv ==
  ASSUME IInv, NEW b \in Box, BoxStep(b)
  PROVE  IInv'
<1>1. SpotTypeOK /\ CallsTyped
  BY TypeParts DEF IInv
<1>2. Calm
  BY <1>1, BoxCalm
<1>3. /\ UNCHANGED <<at, forced, found, dying, mine, why, degraded>>
      /\ since' \in [Dispatcher -> SUBSET Box] /\ orphans' \in SUBSET Box /\ spotFaults' \in Nat
  BY <1>1 DEF BoxStep, Boot, Register, Notice, Reclaim, Finish, Vanish, calls, CallsTyped, Fault
<1>4. \A o \in Box : Alive(o)' =>
        /\ o \in orphans => o \in orphans'
        /\ \A d \in Dispatcher : o \in since[d] => o \in since'[d]
  <2>1. CASE UNCHANGED <<since, orphans>>
    BY <2>1
  <2>2. CASE Vanish(b)
    <3>1. ~Alive(b)'
      BY <1>1, <2>2 DEF SpotTypeOK, Vanish, Alive, New
    <3>2. orphans' = orphans \ {b} /\ \A d \in Dispatcher : since'[d] = since[d] \ {b}
      BY <2>2 DEF Vanish
    <3> QED  BY <3>1, <3>2
  <2> QED  BY <2>1, <2>2 DEF BoxStep, Boot, Register, Notice, Reclaim, Finish, calls
<1>5. SpotTypeOK'
  BY <1>1, <1>2, <1>3 DEF SpotTypeOK, Calm
<1>6. ASSUME NEW d \in Dispatcher PROVE Placed(d)' /\ Seen(d)'
  <2>1. Placed(d) /\ Seen(d) /\ mine[d] \in Box \cup {NoBox}
    BY <1>1 DEF IInv, CallsTyped
  <2>2. Placed(d)'
    BY <1>2, <1>3, <2>1 DEF Placed, Calm, Attending
  <2>3. Seen(d)'
    <3> SUFFICES ASSUME NEW o \in Box, Healthy(o)'
                 PROVE  /\ at[d] = "states" => o \in found[d] \cup since'[d]
                        /\ at[d] = "requests" => o \in (found[d] \ dying[d]) \cup since'[d]
                        /\ at[d] \in {"launch", "fallback"} /\ ~degraded[d] => o \in since'[d]
      BY <1>3 DEF Seen
    <3>1. Healthy(o) /\ (o \in since[d] => o \in since'[d])
      BY <1>2, <1>4 DEF Calm, Healthy
    <3> QED  BY <2>1, <3>1 DEF Seen
  <2> QED  BY <2>2, <2>3
<1>7. NoUnexplainedOrphan'
  BY <1>2, <1>3, <1>4 DEF IInv, NoUnexplainedOrphan, Attended, Calm
<1> QED  BY <1>5, <1>6, <1>7 DEF IInv

-----------------------------------------------------------------------------
(* Theorems *)

LEMMA InitIInv == SpotInit => IInv
<1> SUFFICES ASSUME SpotInit PROVE IInv
  OBVIOUS
<1>1. New("gone", "spot", "spot_ok") \in Instance /\ New("gone", "spot", "spot_ok").state = "gone"
  BY NewInstance DEF New, LAUNCH_REASONS
<1>2. SpotTypeOK
  BY <1>1 DEF SpotInit, SpotTypeOK, LAUNCH_REASONS
<1>3. \A b \in Box : ~Alive(b)
  BY <1>1 DEF SpotInit, Alive
<1>4. \A c \in Dispatcher : Placed(c) /\ Seen(c)
  BY DEF SpotInit, Placed, Seen, Attending
<1>5. NoUnexplainedOrphan
  BY <1>3 DEF NoUnexplainedOrphan
<1> QED  BY <1>2, <1>4, <1>5 DEF IInv

LEMMA NextIInv == IInv /\ [SpotNext]_spotVars => IInv'
<1> SUFFICES ASSUME IInv, [SpotNext]_spotVars PROVE IInv'
  OBVIOUS
<1>1. CASE UNCHANGED spotVars
  BY <1>1 DEF spotVars, IInv, SpotTypeOK, Placed, Seen, Healthy, Alive, NoUnexplainedOrphan, Attended
<1>2. ASSUME NEW b \in Box, BoxStep(b) PROVE IInv'
  BY <1>2, BoxIInv
<1>3. ASSUME NEW c \in Dispatcher, LaunchOnDemand(c) \/ LaunchSpot(c) \/ LaunchFallback(c)
      PROVE  IInv'
  <2>1. CASE LaunchOnDemand(c) \/ LaunchSpot(c)
    BY <2>1, LaunchIInv DEF LaunchOnDemand, LaunchSpot, LAUNCH_REASONS
  <2>2. CASE LaunchFallback(c)
    <3>1. why[c] # "spot_ok" /\ why[c] \in LAUNCH_REASONS
      BY <2>2 DEF IInv, SpotTypeOK, Placed, LaunchFallback
    <3> QED  BY <2>2, <3>1, LaunchIInv DEF LaunchFallback
  <2> QED  BY <1>3, <2>1, <2>2
<1>4. ASSUME NEW c \in Dispatcher,
             \/ Enter(c) \/ Step(c) \/ ProbeFails(c) \/ ImminentFails(c)
             \/ TerminateFails(c) \/ Kill(c)
      PROVE  IInv'
  BY <1>3, <1>4, ProbeIInv, DecideIInv, WaitIInv, SendIInv, EndIInv DEF Step
<1> QED  BY <1>1, <1>2, <1>4 DEF SpotNext, BoxStep

LEMMA Inductive == SpotSpec => []IInv
BY InitIInv, NextIInv, PTL DEF SpotSpec

\* Types: among them that an instance's market and launch reason agree.
THEOREM TypeCorrect == SpotSpec => []SpotTypeOK
<1>1. IInv => SpotTypeOK
  BY DEF IInv
<1> QED  BY <1>1, Inductive, PTL

\* terminate_on_failure leaves a box alone only where the code says "MANUAL cleanup needed",
\* or where there is no code left to clean up.
THEOREM OrphansExplained == SpotSpec => []NoUnexplainedOrphan
<1>1. IInv => NoUnexplainedOrphan
  BY DEF IInv
<1> QED  BY <1>1, Inductive, PTL

\* The probe and termination_imminent never let a call launch beside a box it found healthy.
THEOREM NoDuplicates == SpotSpec => NoDuplicateOfFound
<1>1. IInv => \A c \in Dispatcher : Launches(c) /\ ~degraded[c] =>
                 \A b \in Box : Healthy(b) => b \in since[c]
  BY DEF IInv, Seen, Launches
<1>2. IInv /\ [SpotNext]_spotVars =>
        [\A c \in Dispatcher : at'[c] # at[c] /\ Launches(c) /\ ~degraded[c] =>
           \A b \in Box : Healthy(b) => b \in since[c]]_spotVars
  BY <1>1
<1> QED  BY <1>2, Inductive, PTL DEF SpotSpec, NoDuplicateOfFound
=============================================================================
