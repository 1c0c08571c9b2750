--------------------------- MODULE AdmissionProofs ----------------------------
(*****************************************************************************)
(* Proofs about what may launch, merge and count as healthy: the dispatch    *)
(* lease, groom eligibility, the guards on workflow files, the cost gate     *)
(* and the substrate check.                                                  *)
(*****************************************************************************)
EXTENDS DispatchLease, GroomQueue, WorkflowGuards, CostGate, Substrate, DataLemmas

-----------------------------------------------------------------------------
(* The dispatch lease, for every set of callers, every TTL, every use of    *)
(* force and release, and any number of faults.                            *)

\* Every body a caller built or works under names that caller: two grants are
\* never the same body.
OwnBodies ==
  \A p \in Caller : /\ holder[p] # NoLease => holder[p].owner = p
                    /\ grant[p] # NoLease => grant[p].owner = p

\* A call that is running has built its body, and its caller works under no grant.
RunningHasBody ==
  \A p \in Caller : pc[p] # "idle" => holder[p] # NoLease /\ grant[p] = NoLease

\* The inductive invariant.
IInv == TypeOK /\ OwnBodies /\ RunningHasBody /\ LiveGrantIsStored

-----------------------------------------------------------------------------
LEMMA AgeFacts ==
  ASSUME NEW b \in Stored
  PROVE  /\ Age(b) \in Stored
         /\ b \in Holder => Age(b) \in Holder /\ Age(b).owner = b.owner
         /\ b \notin Holder => Age(b) = b
         /\ Unexpired(Age(b)) => Unexpired(b)
<1>1. CASE b \in Holder
  <2>1. Dec(b.left) \in Nat
    BY <1>1 DEF Holder, Dec
  <2>2. /\ Age(b) \in Holder
        /\ Age(b).owner = b.owner
        /\ Age(b).left = Dec(b.left)
    BY <1>1, <2>1 DEF Age, Holder
  <2>3. Age(b).left > 0 => b.left > 0
    BY <1>1, <2>2 DEF Holder, Dec
  <2> QED
    BY <1>1, <2>2, <2>3 DEF Unexpired, Stored
<1>2. CASE b \notin Holder
  BY <1>2 DEF Age
<1> QED
  BY <1>1, <1>2

LEMMA ReadFacts ==
  ASSUME NEW b \in Stored
  PROVE  ReadHolder(b) \in Holder \cup {NoLease}
BY DEF ReadHolder

LEMMA InitIInv == Init => IInv
<1> SUFFICES ASSUME Init PROVE IInv
  OBVIOUS
<1>1. TypeOK
  BY DEF Init, TypeOK, Stored, Steps
<1>2. OwnBodies /\ RunningHasBody
  BY DEF Init, OwnBodies, RunningHasBody
<1>3. LiveGrantIsStored
  BY LeaseAssumption DEF Init, LiveGrantIsStored, Live, Unexpired
<1> QED
  BY <1>1, <1>2, <1>3 DEF IInv

-----------------------------------------------------------------------------
(* One lemma per action, or per shape of action. *)

LEMMA CallStep ==
  ASSUME IInv, NEW p \in Caller, Call(p)
  PROVE  IInv'
<1> USE DEF IInv
<1>1. PICK ttl \in TTLs, force \in Forces :
        /\ holder' = [holder EXCEPT ![p] = BuildHolder(p, ttl)]
        /\ pc' = [pc EXCEPT ![p] = IF force THEN "forceDelete" ELSE "put"]
  BY DEF Call
<1>2. BuildHolder(p, ttl) \in Holder /\ BuildHolder(p, ttl).owner = p
  BY LeaseAssumption DEF BuildHolder, Holder
<1>3. TypeOK'
  BY <1>1, <1>2 DEF Call, TypeOK, Steps
<1>4. OwnBodies'
  BY <1>1, <1>2 DEF Call, TypeOK, OwnBodies
<1>5. RunningHasBody'
  BY <1>1, <1>2, LeaseAssumption DEF Call, TypeOK, RunningHasBody
<1>6. LiveGrantIsStored'
  BY LeaseAssumption DEF Call, TypeOK, LiveGrantIsStored, Live, Unexpired
<1> QED
  BY <1>3, <1>4, <1>5, <1>6

LEMMA PutStep ==
  ASSUME IInv, NEW p \in Caller, NEW from \in Steps, NEW to \in Steps,
         from # "idle", TryPut(p, from, to), UNCHANGED displaced
  PROVE  IInv'
<1> USE DEF IInv
<1>0. /\ holder[p] \in Holder /\ holder[p].owner = p
      /\ holder[p] # NoLease /\ grant[p] = NoLease
  BY DEF TryPut, TypeOK, RunningHasBody, OwnBodies
<1>1. CASE /\ lease = NoLease
           /\ lease' = holder[p]
           /\ grant' = [grant EXCEPT ![p] = holder[p]]
           /\ Return(p)
           /\ UNCHANGED faults
  <2>1. TypeOK'
    BY <1>0, <1>1 DEF TypeOK, Return, Stored, Steps
  <2>2. OwnBodies' /\ RunningHasBody'
    BY <1>0, <1>1, LeaseAssumption DEF TypeOK, OwnBodies, RunningHasBody, Return
  <2>3. LiveGrantIsStored'
    BY <1>0, <1>1, LeaseAssumption
    DEF TypeOK, LiveGrantIsStored, Live, Unexpired, Return
  <2> QED
    BY <2>1, <2>2, <2>3
<1>2. CASE /\ lease = NoLease
           /\ faults < MaxFaults
           /\ faults' = faults + 1
           /\ lease' = holder[p]
           /\ pc' = [pc EXCEPT ![p] = to]
           /\ UNCHANGED <<holder, existing, grant>>
  <2>1. TypeOK'
    BY <1>0, <1>2 DEF TypeOK, Stored
  <2>2. OwnBodies' /\ RunningHasBody'
    BY <1>0, <1>2, LeaseAssumption DEF TypeOK, OwnBodies, RunningHasBody
  <2>3. LiveGrantIsStored'
    BY <1>2, LeaseAssumption DEF TypeOK, LiveGrantIsStored, Live, Unexpired
  <2> QED
    BY <2>1, <2>2, <2>3
<1>3. CASE /\ lease # NoLease
           /\ pc' = [pc EXCEPT ![p] = to]
           /\ UNCHANGED <<lease, holder, existing, grant, faults>>
  <2>1. TypeOK'
    BY <1>3 DEF TypeOK
  <2>2. OwnBodies' /\ RunningHasBody'
    BY <1>0, <1>3, LeaseAssumption DEF TypeOK, OwnBodies, RunningHasBody
  <2>3. LiveGrantIsStored'
    BY <1>3 DEF LiveGrantIsStored, Live, Unexpired
  <2> QED
    BY <2>1, <2>2, <2>3
<1> QED
  BY <1>1, <1>2, <1>3 DEF TryPut

\* What a best-effort delete leaves of LiveGrantIsStored: the grants it takes
\* away are recorded as displaced.
LEMMA DeleteStep ==
  ASSUME TypeOK, LiveGrantIsStored, NEW p \in Caller, DeleteBestEffort(p),
         \/ UNCHANGED grant /\ grant[p] = NoLease
         \/ grant' = [grant EXCEPT ![p] = NoLease]
  PROVE  LiveGrantIsStored' /\ lease' \in Stored /\ displaced' \in SUBSET Caller
         /\ faults' \in Nat
<1>1. \A q \in Caller : Live(q)' => q # p /\ Live(q) /\ grant'[q] = grant[q]
  BY LeaseAssumption DEF TypeOK, Live, Unexpired
<1>2. ASSUME lease' = NoLease, displaced' = displaced \cup (Victims \ {p})
      PROVE  LiveGrantIsStored'
  BY <1>1, <1>2 DEF LiveGrantIsStored, Victims
<1>3. ASSUME UNCHANGED <<lease, displaced>>
      PROVE  LiveGrantIsStored'
  BY <1>1, <1>3 DEF LiveGrantIsStored
<1>4. lease' \in Stored /\ displaced' \in SUBSET Caller /\ faults' \in Nat
  BY DEF DeleteBestEffort, TypeOK, Stored, Victims
<1> QED
  BY <1>2, <1>3, <1>4 DEF DeleteBestEffort

\* A deleting step inside a call: Recover and ForceDelete.
LEMMA DeleteInCallStep ==
  ASSUME IInv, NEW p \in Caller, NEW to \in Steps, pc[p] # "idle",
         DeleteBestEffort(p), pc' = [pc EXCEPT ![p] = to],
         UNCHANGED <<holder, existing, grant>>
  PROVE  IInv'
<1> USE DEF IInv
<1>1. grant[p] = NoLease
  BY DEF RunningHasBody
<1>2. /\ LiveGrantIsStored' /\ lease' \in Stored
      /\ displaced' \in SUBSET Caller /\ faults' \in Nat
  BY <1>1, DeleteStep
<1>3. TypeOK'
  BY <1>2 DEF TypeOK
<1>4. OwnBodies' /\ RunningHasBody'
  BY DEF TypeOK, OwnBodies, RunningHasBody
<1> QED
  BY <1>2, <1>3, <1>4

LEMMA ReleaseStep ==
  ASSUME IInv, NEW p \in Caller, Release(p)
  PROVE  IInv'
<1> USE DEF IInv
<1>1. /\ LiveGrantIsStored' /\ lease' \in Stored
      /\ displaced' \in SUBSET Caller /\ faults' \in Nat
  BY DeleteStep DEF Release
<1>2. TypeOK'
  BY <1>1 DEF TypeOK, Release
<1>3. OwnBodies' /\ RunningHasBody'
  BY DEF TypeOK, OwnBodies, RunningHasBody, Release
<1> QED
  BY <1>1, <1>2, <1>3

LEMMA ReadStep ==
  ASSUME IInv, NEW p \in Caller, Read(p)
  PROVE  IInv'
<1> USE DEF IInv
<1>1. TypeOK'
  BY ReadFacts DEF TypeOK, Read, Steps
<1>2. OwnBodies' /\ RunningHasBody'
  BY DEF TypeOK, OwnBodies, RunningHasBody, Read
<1>3. LiveGrantIsStored'
  BY DEF LiveGrantIsStored, Live, Unexpired, Read
<1> QED
  BY <1>1, <1>2, <1>3

\* A call that ends without a grant: Yield, Report and Abort.
LEMMA ReturnStep ==
  ASSUME IInv, NEW p \in Caller, Return(p), faults' \in Nat,
         UNCHANGED <<lease, grant, displaced>>
  PROVE  IInv'
<1> USE DEF IInv
<1>1. TypeOK'
  BY DEF TypeOK, Return, Steps
<1>2. OwnBodies' /\ RunningHasBody'
  BY DEF TypeOK, OwnBodies, RunningHasBody, Return
<1>3. LiveGrantIsStored'
  BY DEF LiveGrantIsStored, Live, Unexpired, Return
<1> QED
  BY <1>1, <1>2, <1>3

\* Time passes: a grant and the object that is the same body stay the same body.
LEMMA TickStep ==
  ASSUME IInv, Tick
  PROVE  IInv'
<1> USE DEF IInv
<1>1. \A b \in Stored : /\ Age(b) \in Stored
                        /\ b \in Holder => Age(b) \in Holder /\ Age(b).owner = b.owner
                        /\ b \notin Holder => Age(b) = b
                        /\ Unexpired(Age(b)) => Unexpired(b)
  BY AgeFacts
<1>2. \A b \in Holder \cup {NoLease} :
        /\ b \in Stored
        /\ Age(b) \in Holder \cup {NoLease}
        /\ Age(b) # NoLease => b # NoLease /\ Age(b).owner = b.owner
        /\ b # NoLease => Age(b) # NoLease
        /\ Unexpired(Age(b)) => Unexpired(b)
  BY <1>1, LeaseAssumption DEF Stored
<1>3. \A p \in Caller : /\ holder'[p] = Age(holder[p])
                        /\ existing'[p] = Age(existing[p])
                        /\ grant'[p] = Age(grant[p])
  BY DEF Tick, AgeAll
<1>4. TypeOK'
  <2>1. lease' \in Stored
    BY <1>1 DEF TypeOK, Tick
  <2>2. /\ holder' \in [Caller -> Holder \cup {NoLease}]
        /\ existing' \in [Caller -> Holder \cup {NoLease}]
        /\ grant' \in [Caller -> Holder \cup {NoLease}]
    BY <1>2 DEF TypeOK, Tick, AgeAll
  <2> QED
    BY <2>1, <2>2 DEF TypeOK, Tick
<1>5. OwnBodies'
  BY <1>2, <1>3 DEF TypeOK, OwnBodies
<1>6. RunningHasBody'
  <2> SUFFICES ASSUME NEW p \in Caller, pc[p] # "idle"
               PROVE  holder'[p] # NoLease /\ grant'[p] = NoLease
    BY DEF RunningHasBody, Tick
  <2>1. holder[p] # NoLease /\ grant[p] = NoLease
    BY DEF RunningHasBody
  <2>2. Age(NoLease) = NoLease
    BY LeaseAssumption DEF Age
  <2> QED
    BY <2>1, <2>2, <1>2, <1>3 DEF TypeOK
<1>7. LiveGrantIsStored'
  <2> SUFFICES ASSUME NEW p \in Caller, Unexpired(grant'[p])
               PROVE  lease' = grant'[p] \/ p \in displaced
    BY DEF LiveGrantIsStored, Live, Tick
  <2>1. Unexpired(grant[p])
    BY <1>2, <1>3 DEF TypeOK
  <2>2. lease = grant[p] \/ p \in displaced
    BY <2>1 DEF LiveGrantIsStored, Live
  <2> QED
    BY <2>2, <1>3 DEF Tick
<1> QED
  BY <1>4, <1>5, <1>6, <1>7

-----------------------------------------------------------------------------
LEMMA NextStep == IInv /\ [Next]_vars => IInv'
<1> SUFFICES ASSUME IInv, [Next]_vars PROVE IInv'
  OBVIOUS
<1>1. ASSUME NEW p \in Caller, Call(p) PROVE IInv'
  BY <1>1, CallStep
<1>2. ASSUME NEW p \in Caller, FirstPut(p) PROVE IInv'
  BY <1>2, PutStep DEF FirstPut, TryPut, Steps
<1>3. ASSUME NEW p \in Caller, Read(p) PROVE IInv'
  BY <1>3, ReadStep
<1>4. ASSUME NEW p \in Caller, Yield(p) PROVE IInv'
  BY <1>4, ReturnStep DEF Yield, IInv, TypeOK
<1>5. ASSUME NEW p \in Caller, Recover(p) PROVE IInv'
  BY <1>5, DeleteInCallStep DEF Recover, Steps
<1>6. ASSUME NEW p \in Caller, SecondPut(p) PROVE IInv'
  BY <1>6, PutStep DEF SecondPut, TryPut, Steps
<1>7. ASSUME NEW p \in Caller, ForceDelete(p) PROVE IInv'
  BY <1>7, DeleteInCallStep DEF ForceDelete, Steps
<1>8. ASSUME NEW p \in Caller, ForcePut(p) PROVE IInv'
  BY <1>8, PutStep DEF ForcePut, TryPut, Steps
<1>9. ASSUME NEW p \in Caller, Report(p) PROVE IInv'
  BY <1>9, ReturnStep DEF Report, IInv, TypeOK
<1>10. ASSUME NEW p \in Caller, Abort(p) PROVE IInv'
  BY <1>10, ReturnStep DEF Abort, IInv, TypeOK
<1>11. ASSUME NEW p \in Caller, Release(p) PROVE IInv'
  BY <1>11, ReleaseStep
<1>12. ASSUME Tick PROVE IInv'
  BY <1>12, TickStep
<1>13. ASSUME UNCHANGED vars PROVE IInv'
  BY <1>13 DEF vars, IInv, TypeOK, OwnBodies, RunningHasBody, LiveGrantIsStored,
               Live, Unexpired
<1> QED
  BY <1>1, <1>2, <1>3, <1>4, <1>5, <1>6, <1>7, <1>8, <1>9, <1>10, <1>11, <1>12,
     <1>13 DEF Next, Acquire

LEMMA SpecIInv == Spec => []IInv
BY InitIInv, NextStep, PTL DEF Spec

\* Every variable keeps its type, under every interleaving and fault.
THEOREM TypeCorrect == Spec => []TypeOK
BY SpecIInv, PTL DEF IInv

\* An unexpired grant is the object stored under the key, or was displaced: what
\* acquire_lease returned stays true until its TTL elapses or somebody deletes it.
THEOREM GrantIsEvidenced == Spec => []LiveGrantIsStored
BY SpecIInv, PTL DEF IInv

\* Among callers that were not displaced, at most one works under an unexpired
\* grant: the conditional PUT admits no second owner.
THEOREM OneHolder == Spec => []OneHolderUnlessDisplaced
<1>1. IInv => OneHolderUnlessDisplaced
  <2> SUFFICES ASSUME IInv, NEW p \in Caller, NEW q \in Caller, Live(p), Live(q),
                      p \notin displaced, q \notin displaced
               PROVE  p = q
    BY DEF OneHolderUnlessDisplaced
  <2>1. lease = grant[p] /\ lease = grant[q]
    BY DEF IInv, LiveGrantIsStored
  <2>2. grant[p] # NoLease /\ grant[q] # NoLease
    BY LeaseAssumption DEF Live, Unexpired
  <2> QED
    BY <2>1, <2>2 DEF IInv, OwnBodies
<1> QED
  BY <1>1, SpecIInv, PTL

\* Both: the holder of the lane is alone, and the object stored says so.
THEOREM OwnedLane == Spec => []LaneIsOwned
BY OneHolder, GrantIsEvidenced, PTL DEF LaneIsOwned

\* A caller loses an unexpired grant only to a forced acquire, to a release by a
\* caller whose own lease is gone, or to a recovery acting on an outdated reading.
THEOREM DisplacementIsExplained == Spec => DisplacementNeedsRaceOrForce
<1>1. IInv /\ [Next]_vars => [DisplacementStep]_vars
  <2> SUFFICES ASSUME IInv, Next, NEW q \in displaced' \ displaced
               PROVE  \E p \in Caller \ {q} :
                        \/ pc[p] = "forceDelete"
                        \/ pc[p] = "recover" /\ existing[p] # lease
                        \/ grant'[p] = NoLease /\ grant[p] \notin {NoLease, lease}
    BY DEF DisplacementStep
  <2>1. ASSUME NEW p \in Caller, DeleteBestEffort(p)
        PROVE  q \in Caller \ {p} /\ Live(q) /\ lease = grant[q]
    BY <2>1 DEF DeleteBestEffort, Victims
  <2>2. ASSUME NEW p \in Caller, Recover(p)
        PROVE  p # q /\ pc[p] = "recover" /\ existing[p] # lease
    BY <2>1, <2>2 DEF Recover, Live
  <2>3. ASSUME NEW p \in Caller, ForceDelete(p)
        PROVE  p # q /\ pc[p] = "forceDelete"
    BY <2>1, <2>3 DEF ForceDelete
  <2>4. ASSUME NEW p \in Caller, Release(p)
        PROVE  p # q /\ grant'[p] = NoLease /\ grant[p] \notin {NoLease, lease}
    <3>1. q \in Caller \ {p} /\ lease = grant[q] /\ Live(q)
      BY <2>1, <2>4 DEF Release
    <3>2. grant[p] # NoLease /\ grant'[p] = NoLease
      BY <2>4 DEF Release, IInv, TypeOK
    <3>3. grant[q] # NoLease
      BY <3>1, LeaseAssumption DEF Live, Unexpired
    <3>4. grant[p].owner = p /\ grant[q].owner = q
      BY <3>1, <3>2, <3>3 DEF IInv, OwnBodies
    <3> QED
      BY <3>1, <3>2, <3>4
  <2>5. ASSUME NEW p \in Caller,
               \/ Call(p) \/ FirstPut(p) \/ Read(p) \/ Yield(p) \/ SecondPut(p)
               \/ ForcePut(p) \/ Report(p) \/ Abort(p)
        PROVE  FALSE
    BY <2>5 DEF Call, FirstPut, TryPut, Read, Yield, SecondPut, ForcePut, Report, Abort
  <2>6. ~Tick
    BY DEF Tick
  <2>7. PICK p \in Caller : Recover(p) \/ ForceDelete(p) \/ Release(p)
    BY <2>5, <2>6 DEF Next, Acquire
  <2> QED
    BY <2>2, <2>3, <2>4, <2>7
<1> QED
  BY <1>1, SpecIInv, PTL DEF Spec, DisplacementNeedsRaceOrForce

-----------------------------------------------------------------------------
(* Groom eligibility: what a dispatcher counted and a box owes stay what     *)
(* they were called, for as long as their labels do; an issue whose strikes  *)
(* a pass counted is stalled until a person rules on it or closes it.        *)

Dispositions == {"closed", "pr_opened", "commented", "labeled"}
Worked == TierAt \cup {"none"}

\* A decision launches in no group below one of its tiers.
Guarded(d) == d.tiers \subseteq TierAt /\ \A t \in d.tiers : Rank(t) <= Rank(d.group)

\* The strikes are the latest entries of the history.
StrikesAreTold(strike, entries) ==
    /\ strike \in 0 .. StrikeLimit /\ entries \in Seq(Dispositions)
    /\ strike <= Len(entries) /\ \A k \in 1 .. strike : entries[k] = "commented"

DispatchHolds(d, now) ==
    /\ DOMAIN d = DOMAIN IdleDispatch
    /\ d.seen \in [Issues -> Worked] /\ d.kept \subseteq Issues
    /\ \A i \in d.kept : d.seen[i] = IsActionable(now[i]) /\ d.seen[i] # "none"
    /\ \A i \in d.worn : Stalled \in now[i]
    /\ \A x \in d.pending : Guarded(x)

BoxHolds(x, now) ==
    /\ DOMAIN x = DOMAIN NoBox
    /\ Guarded(x) /\ x.owed \subseteq Issues
    /\ x.listed \in [Issues -> Worked] /\ \A i \in Issues : x.listed[i] \in x.tiers \cup {"none"}
    /\ x.pc = "booting" => \A i \in x.owed : IsActionable(now[i]) \in x.tiers
    /\ x.pc = "working" => \A i \in x.owed : x.listed[i] # "none"
    /\ \A i \in x.worn : i \in Issues /\ Stalled \in now[i] /\ x.listed[i] = "none"

GroomInv ==
    /\ labels = [i \in Issues |-> labels[i]] /\ box = [b \in Boxes |-> box[b]]
    /\ history = [i \in Issues |-> history[i]] /\ strikes = [i \in Issues |-> strikes[i]]
    /\ \A i \in Issues : StrikesAreTold(strikes[i], history[i])
    /\ DispatchHolds(dispatch, labels) /\ dispatch.worn \subseteq Issues
    /\ \A b \in Boxes : BoxHolds(box[b], labels)
    /\ passed = {}

\* The tiers and their ranks.
LEMMA TierRanks == Rank("low") = 1 /\ Rank("mid") = 2 /\ Rank("high") = 3
<1>1. TIERS[1] = "low" /\ TIERS[2] = "mid" /\ TIERS[3] = "high"
  BY DEF TIERS
<1>2. \A k \in 1 .. 3 : k = 1 \/ k = 2 \/ k = 3
  OBVIOUS
<1>3. \A t \in TierAt : \E k \in 1 .. 3 : TIERS[k] = t
  BY <1>1 DEF TierAt
<1>4. \A t \in TierAt : Rank(t) \in 1 .. 3 /\ TIERS[Rank(t)] = t
  BY <1>3 DEF Rank
<1> QED  BY <1>1, <1>2, <1>4 DEF TierAt

\* Labels make an issue actionable in a tier or in none, and a stalled one in none.
LEMMA ActionableFacts ==
  /\ \A ls : IsActionable(ls) \in Worked
  /\ \A ls : Stalled \in ls => IsActionable(ls) = "none"
  /\ "none" \notin TierAt
<1>1. \A ls : TierOf(ls) \in Worked
  BY DEF TierOf, Worked, TierAt
<1>2. \A ls : Stalled \in ls => TierOf(ls) = "none"
  BY DEF TierOf, BASE_EXCLUDE
<1> QED  BY <1>1, <1>2 DEF IsActionable, Worked, TierAt

\* The group of a bundle is that of its highest tier.
LEMMA BundleIsGuarded ==
  ASSUME NEW present \in SUBSET TierAt, present # {}
  PROVE  SlotDecision(present).tiers = present /\ Guarded(SlotDecision(present))
<1>1. \E t \in present : \A u \in present : Rank(u) <= Rank(t)
  <2>1. CASE "high" \in present
    BY <2>1, TierRanks DEF TierAt
  <2>2. CASE "high" \notin present /\ "mid" \in present
    BY <2>2, TierRanks DEF TierAt
  <2>3. CASE present = {"low"}
    BY <2>3, TierRanks
  <2> QED  BY <2>1, <2>2, <2>3 DEF TierAt
<1>2. \A u \in present : Rank(u) <= Rank(GroupOf(present))
  BY <1>1 DEF GroupOf
<1> QED  BY <1>2 DEF SlotDecision, Guarded

\* An issue makes its tier's count.
LEMMA SeenIsCounted ==
  ASSUME NEW seen \in [Issues -> Worked], NEW i \in Issues
  PROVE  CountOf(seen, seen[i]) \in Nat /\ CountOf(seen, seen[i]) > 0
<1> DEFINE S == {j \in Issues : seen[j] = seen[i]}
<1>1. IsFiniteSet(S) /\ S # {}
  BY FS_Subset, GroomAssumption
<1>2. Cardinality(S) \in Nat /\ Cardinality(S) # 0
  BY <1>1, FS_CardinalityType, FS_EmptySet
<1> QED  BY <1>2 DEF CountOf

LEMMA IdleDispatchHolds == ASSUME NEW now PROVE DispatchHolds(IdleDispatch, now)
BY DEF DispatchHolds, IdleDispatch, Worked

LEMMA NoBoxHolds == ASSUME NEW now PROVE BoxHolds(NoBox, now)
BY DEF BoxHolds, NoBox, Guarded, Worked

\* A box stands while labels change, if it forgets what moved and who was ruled on.
LEMMA BoxStands ==
  ASSUME NEW x, NEW now, BoxHolds(x, now), NEW y, DOMAIN y = DOMAIN NoBox, NEW new,
         y.pc = x.pc, y.tiers = x.tiers, y.group = x.group,
         y.owed \subseteq x.owed, y.worn \subseteq x.worn, y.listed \in [Issues -> Worked],
         \A i \in Issues : \/ y.listed[i] = x.listed[i]
                           \/ y.listed[i] = "none" /\ i \notin y.owed,
         \A i \in y.owed : new[i] = now[i],
         \A i \in y.worn : Stalled \in now[i] => Stalled \in new[i]
  PROVE  BoxHolds(y, new)
<1>1. Guarded(y)
  BY DEF BoxHolds, Guarded
<1>2. y.pc = "booting" => \A i \in y.owed : IsActionable(new[i]) \in y.tiers
  BY DEF BoxHolds
<1>3. y.pc = "working" => \A i \in y.owed : y.listed[i] # "none"
  BY DEF BoxHolds
<1>4. \A i \in y.worn : i \in Issues /\ Stalled \in new[i] /\ y.listed[i] = "none"
  BY DEF BoxHolds
<1> QED  BY <1>1, <1>2, <1>3, <1>4 DEF BoxHolds

\* So does the dispatcher.
LEMMA DispatchStands ==
  ASSUME NEW d, NEW now, DispatchHolds(d, now), NEW e, DOMAIN e = DOMAIN d, NEW new,
         e.seen = d.seen, e.kept \subseteq d.kept, e.worn \subseteq d.worn, e.pending = d.pending,
         \A i \in e.kept : new[i] = now[i],
         \A i \in e.worn : Stalled \in now[i] => Stalled \in new[i]
  PROVE  DispatchHolds(e, new)
BY DEF DispatchHolds

\* A disposition recorded keeps the strikes among the latest entries.
LEMMA StrikesGoOn ==
  ASSUME NEW strike, NEW entries, StrikesAreTold(strike, entries), NEW d \in Dispositions
  PROVE  StrikesAreTold(IF d = "commented" THEN Min({StrikeLimit, strike + 1}) ELSE 0,
                        SubSeq(<<d>> \o entries, 1, Min({StrikeLimit, Len(entries) + 1})))
<1> DEFINE all == <<d>> \o entries
           m == Min({StrikeLimit, Len(entries) + 1})
           n == Min({StrikeLimit, strike + 1})
           cut == SubSeq(all, 1, m)
<1>1. /\ strike \in Nat /\ strike <= StrikeLimit /\ entries \in Seq(Dispositions) /\ Len(entries) \in Nat
      /\ strike <= Len(entries) /\ StrikeLimit \in Nat /\ StrikeLimit >= 1
  BY GroomAssumption DEF StrikesAreTold
<1>2. all \in Seq(Dispositions) /\ Len(all) = Len(entries) + 1
  BY <1>1
<1>3. all[1] = d /\ \A k \in 1 .. Len(entries) : all[k + 1] = entries[k]
  BY <1>1
<1>4. /\ m \in {StrikeLimit, Len(entries) + 1} /\ m <= StrikeLimit /\ m <= Len(entries) + 1
      /\ n \in {StrikeLimit, strike + 1} /\ n <= StrikeLimit /\ n <= strike + 1
  <2>1. ASSUME NEW p \in Nat, NEW q \in Nat
        PROVE  Min({p, q}) \in {p, q} /\ Min({p, q}) <= p /\ Min({p, q}) <= q
    <3>1. {p, q} \in SUBSET Nat /\ {p, q} # {}
      OBVIOUS
    <3> QED  BY ONLY <3>1, MinIsLeast
  <2>2. Len(entries) + 1 \in Nat /\ strike + 1 \in Nat
    BY <1>1
  <2> QED  BY <1>1, <2>1, <2>2
<1> HIDE DEF m, n, all
<1>5. m \in 1 .. Len(all) /\ n \in 1 .. m
  BY <1>1, <1>2, <1>4
<1>6. cut \in Seq(Dispositions) /\ Len(cut) = m /\ \A k \in 1 .. m : cut[k] = all[k]
  BY <1>2, <1>5
<1> HIDE DEF cut
<1>7. ASSUME d = "commented", NEW k \in 1 .. n PROVE cut[k] = "commented"
  <2>1. CASE k = 1
    BY <1>3, <1>5, <1>6, <1>7, <2>1
  <2>2. CASE k # 1
    <3>1. k - 1 \in 1 .. strike /\ k - 1 \in 1 .. Len(entries) /\ k \in 1 .. m
      BY <1>1, <1>4, <1>5, <2>2
    <3>2. all[(k - 1) + 1] = entries[k - 1] /\ entries[k - 1] = "commented"
      BY <1>3, <3>1 DEF StrikesAreTold
    <3> QED  BY <1>6, <3>1, <3>2
  <2> QED  BY <2>1, <2>2
<1>8. StrikesAreTold(IF d = "commented" THEN n ELSE 0, cut)
  BY <1>1, <1>4, <1>5, <1>6, <1>7 DEF StrikesAreTold
<1> QED  BY <1>8 DEF n, m, cut, all

-----------------------------------------------------------------------------
LEMMA GroomInitHolds == GroomInit => GroomInv
<1> SUFFICES ASSUME GroomInit PROVE GroomInv
  OBVIOUS
<1>1. StrikesAreTold(0, <<>>)
  BY GroomAssumption DEF StrikesAreTold
<1>2. /\ labels = [i \in Issues |-> labels[i]] /\ box = [b \in Boxes |-> box[b]]
      /\ history = [i \in Issues |-> history[i]] /\ strikes = [i \in Issues |-> strikes[i]]
  BY DEF GroomInit
<1>3. dispatch.worn \subseteq Issues
  BY DEF GroomInit, IdleDispatch
<1> QED  BY <1>1, <1>2, <1>3, IdleDispatchHolds, NoBoxHolds DEF GroomInit, GroomInv

\* What changes labels alone, and forgets what it moved.
LEMMA RelabelKept ==
  ASSUME GroomInv, NEW moved, NEW ruled, Forget(moved, ruled),
         labels' = [i \in Issues |-> labels'[i]],
         \A i \in Issues : i \notin moved => labels'[i] = labels[i],
         \A i \in Issues : i \notin ruled /\ Stalled \in labels[i] => Stalled \in labels'[i],
         history' = [i \in Issues |-> history'[i]], strikes' = [i \in Issues |-> strikes'[i]],
         \A i \in Issues : StrikesAreTold(strikes'[i], history'[i]),
         passed' = passed
  PROVE  GroomInv'
<1>1. DispatchHolds(dispatch', labels') /\ dispatch'.worn \subseteq Issues
  <2> DEFINE e == [dispatch EXCEPT !.kept = @ \ moved, !.worn = @ \ ruled]
  <2>1. DispatchHolds(dispatch, labels) /\ dispatch.worn \subseteq Issues /\ dispatch' = e
    BY DEF GroomInv, Forget
  <2>2. /\ DOMAIN e = DOMAIN dispatch /\ e.seen = dispatch.seen /\ e.pending = dispatch.pending
        /\ e.kept = dispatch.kept \ moved /\ e.worn = dispatch.worn \ ruled
    BY <2>1 DEF DispatchHolds, IdleDispatch
  <2>3. dispatch.kept \subseteq Issues
    BY <2>1 DEF DispatchHolds
  <2> HIDE DEF e
  <2>4. DispatchHolds(e, labels')
    BY <2>1, <2>2, <2>3, DispatchStands
  <2> QED  BY <2>1, <2>2, <2>4
<1>2. ASSUME NEW b \in Boxes PROVE BoxHolds(box'[b], labels')
  <2> DEFINE y == [box[b] EXCEPT !.owed = @ \ moved, !.worn = @ \ ruled]
  <2>1. BoxHolds(box[b], labels) /\ box'[b] = y
    BY DEF GroomInv, Forget
  <2>2. /\ DOMAIN y = DOMAIN NoBox /\ y.pc = box[b].pc /\ y.tiers = box[b].tiers
        /\ y.group = box[b].group /\ y.listed = box[b].listed
        /\ y.owed = box[b].owed \ moved /\ y.worn = box[b].worn \ ruled
    BY <2>1 DEF BoxHolds, NoBox
  <2>3. /\ box[b].owed \subseteq Issues /\ box[b].worn \subseteq Issues
        /\ box[b].listed \in [Issues -> Worked]
    BY <2>1 DEF BoxHolds
  <2> HIDE DEF y
  <2>4. BoxHolds(y, labels')
    BY <2>1, <2>2, <2>3, BoxStands
  <2> QED  BY <2>1, <2>4
<1>3. box' = [b \in Boxes |-> box'[b]]
  BY DEF Forget
<1> QED  BY <1>1, <1>2, <1>3 DEF GroomInv

LEMMA CountKept ==
  ASSUME GroomInv, Count
  PROVE  GroomInv'
<1> DEFINE stuck == {i \in Issues : CommentOnlyStrikesExceeded(history[i])}
           routed == [i \in Issues |-> IF i \in stuck THEN labels[i] \cup {Stalled} ELSE labels[i]]
           seen == [i \in Issues |-> IsActionable(routed[i])]
           worn == {i \in Issues : strikes[i] >= StrikeLimit}
           d == [pc |-> "counted", seen |-> seen, pending |-> {},
                 kept |-> {i \in Issues : seen[i] # "none"}, worn |-> worn]
<1>1. /\ labels' = routed /\ dispatch' = d /\ history' = history /\ strikes' = strikes /\ passed' = passed
      /\ box' = [b \in Boxes |-> [box[b] EXCEPT !.owed = @ \ stuck]]
  BY DEF Count
<1>2. \A i \in worn : i \in stuck
  <2> SUFFICES ASSUME NEW i \in worn PROVE CommentOnlyStrikesExceeded(history[i])
    OBVIOUS
  <2>1. StrikesAreTold(strikes[i], history[i]) /\ strikes[i] >= StrikeLimit
    BY DEF GroomInv
  <2>2. strikes[i] = StrikeLimit /\ Len(history[i]) >= StrikeLimit
    BY <2>1, GroomAssumption DEF StrikesAreTold
  <2> QED  BY <2>1, <2>2 DEF StrikesAreTold, CommentOnlyStrikesExceeded
<1>3. DispatchHolds(d, routed) /\ d.worn \subseteq Issues
  <2>1. seen \in [Issues -> Worked]
    BY ActionableFacts
  <2>2. \A i \in worn : Stalled \in routed[i]
    BY <1>2
  <2>3. \A i \in d.kept : d.seen[i] = IsActionable(routed[i]) /\ d.seen[i] # "none"
    OBVIOUS
  <2>4. DOMAIN d = DOMAIN IdleDispatch
    BY DEF IdleDispatch
  <2> QED  BY <2>1, <2>2, <2>3, <2>4 DEF DispatchHolds
<1>4. ASSUME NEW b \in Boxes PROVE BoxHolds(box'[b], routed)
  <2> DEFINE y == [box[b] EXCEPT !.owed = @ \ stuck]
  <2>1. BoxHolds(box[b], labels) /\ box'[b] = y
    BY <1>1 DEF GroomInv
  <2>2. /\ DOMAIN y = DOMAIN NoBox /\ y.pc = box[b].pc /\ y.tiers = box[b].tiers
        /\ y.group = box[b].group /\ y.listed = box[b].listed
        /\ y.owed = box[b].owed \ stuck /\ y.worn = box[b].worn
    BY <2>1 DEF BoxHolds, NoBox
  <2>3. /\ box[b].owed \subseteq Issues /\ box[b].worn \subseteq Issues
        /\ box[b].listed \in [Issues -> Worked]
    BY <2>1 DEF BoxHolds
  <2>4. \A i \in y.owed : routed[i] = labels[i]
    BY <2>2, <2>3
  <2>5. \A i \in y.worn : Stalled \in labels[i] => Stalled \in routed[i]
    BY <2>2, <2>3
  <2> HIDE DEF y, routed, stuck
  <2>6. BoxHolds(y, routed)
    BY <2>1, <2>2, <2>3, <2>4, <2>5, BoxStands
  <2> QED  BY <2>1, <2>6
<1>5. routed = [i \in Issues |-> routed[i]] /\ box' = [b \in Boxes |-> box'[b]]
  BY <1>1
<1> HIDE DEF routed, d
<1> QED  BY <1>1, <1>3, <1>4, <1>5 DEF GroomInv

\* A decision: what it launches is guarded, and nothing owed is left out.
LEMMA DecideKept ==
  ASSUME GroomInv, NEW decisions, NEW owed, Decide(decisions, owed),
         \A x \in decisions : Guarded(x),
         \A i \in owed : \E x \in decisions : dispatch.seen[i] \in x.tiers
  PROVE  GroomInv'
<1>1. passed' = {}
  BY DEF Decide, GroomInv
<1>2. /\ labels' = labels /\ history' = history /\ strikes' = strikes /\ box' = box
      /\ dispatch' = IF decisions = {} THEN IdleDispatch
                     ELSE [dispatch EXCEPT !.pc = "launching", !.pending = decisions]
  BY DEF Decide
<1>3. DispatchHolds(dispatch', labels) /\ dispatch'.worn \subseteq Issues
  <2>1. CASE decisions = {}
    BY <1>2, <2>1, IdleDispatchHolds DEF IdleDispatch
  <2>2. CASE decisions # {}
    BY <1>2, <2>2 DEF GroomInv, DispatchHolds, IdleDispatch
  <2> QED  BY <2>1, <2>2
<1> QED  BY <1>1, <1>2, <1>3 DEF GroomInv

LEMMA SlotKept ==
  ASSUME GroomInv, NEW slot \in TierAt, NEW p0 \in BOOLEAN, NEW waits, DecideSlot(slot, p0, waits)
  PROVE  GroomInv'
<1> DEFINE seen == dispatch.seen
           present == Present(seen, slot)
           decisions == IF Launches(seen, present, p0, waits) THEN {SlotDecision(present)} ELSE {}
           owed == {i \in Issues : /\ seen[i] = slot
                                   /\ p0 \/ waits[slot] >= MaxWait \/ CountOf(seen, slot) >= Floor}
<1>1. Decide(decisions, owed)
  BY DEF DecideSlot
<1>2. seen \in [Issues -> Worked]
  BY DEF GroomInv, DispatchHolds
<1>3. present \subseteq TierAt
  BY DEF Present
<1>4. \A x \in decisions : Guarded(x) /\ x.tiers = present
  BY <1>3, BundleIsGuarded DEF Launches
<1>5. ASSUME NEW i \in owed PROVE slot \in present /\ Launches(seen, present, p0, waits)
  <2>1. i \in Issues /\ seen[i] = slot
    OBVIOUS
  <2>2. CountOf(seen, slot) \in Nat /\ CountOf(seen, slot) > 0
    BY <1>2, <2>1, SeenIsCounted
  <2>3. slot \in present
    BY <2>2 DEF Present
  <2>4. CASE p0 \/ waits[slot] >= MaxWait
    BY <2>3, <2>4 DEF Launches
  <2>5. CASE CountOf(seen, slot) >= Floor
    <3> DEFINE S == {j \in Issues : seen[j] \in present}
               T == {j \in Issues : seen[j] = slot}
    <3>1. T \subseteq S /\ IsFiniteSet(S)
      BY <2>3, FS_Subset, GroomAssumption
    <3>2. Cardinality(S) \in Nat /\ Cardinality(T) \in Nat /\ Cardinality(T) <= Cardinality(S)
      BY <3>1, FS_Subset, FS_CardinalityType
    <3>3. Cardinality(S) >= Floor
      BY <2>5, <3>2, GroomAssumption DEF CountOf
    <3> QED  BY <2>3, <3>3 DEF Launches
  <2> QED  BY <2>4, <2>5
<1>6. \A i \in owed : \E x \in decisions : seen[i] \in x.tiers
  BY <1>4, <1>5
<1> QED
  <2> HIDE DEF decisions, owed
  <2> QED  BY <1>1, <1>4, <1>6, DecideKept

LEMMA TriggerKept ==
  ASSUME GroomInv, DecideTrigger
  PROVE  GroomInv'
<1> DEFINE seen == dispatch.seen
           decisions == {SlotDecision({t}) : t \in TiersToLaunch(seen)}
           owed == {i \in Issues : seen[i] # "none"}
<1>1. Decide(decisions, owed)
  BY DEF DecideTrigger
<1>2. seen \in [Issues -> Worked]
  BY DEF GroomInv, DispatchHolds
<1>3. \A t \in TierAt : SlotDecision({t}).tiers = {t} /\ Guarded(SlotDecision({t}))
  BY BundleIsGuarded
<1>4. \A x \in decisions : Guarded(x)
  BY <1>3 DEF TiersToLaunch
<1>5. ASSUME NEW i \in owed PROVE \E x \in decisions : seen[i] \in x.tiers
  <2>1. seen[i] \in TierAt
    BY <1>2 DEF Worked
  <2>2. seen[i] \in TiersToLaunch(seen)
    BY <1>2, <2>1, SeenIsCounted DEF TiersToLaunch
  <2> QED  BY <1>3, <2>1, <2>2
<1> HIDE DEF decisions, owed
<1> QED  BY <1>1, <1>4, <1>5, DecideKept

LEMMA LaunchKept ==
  ASSUME GroomInv, NEW d, NEW b \in Boxes, Launch(d, b)
  PROVE  GroomInv'
<1> DEFINE y == [NoBox EXCEPT !.pc = "booting", !.tiers = d.tiers, !.group = d.group,
                              !.owed = {i \in dispatch.kept : dispatch.seen[i] \in d.tiers},
                              !.worn = dispatch.worn]
<1>1. /\ d \in dispatch.pending /\ box' = [box EXCEPT ![b] = y]
      /\ dispatch' = IF dispatch.pending = {d} THEN IdleDispatch
                     ELSE [dispatch EXCEPT !.pending = @ \ {d}]
      /\ labels' = labels /\ history' = history /\ strikes' = strikes /\ passed' = passed
  BY DEF Launch
<1>2. /\ DOMAIN y = DOMAIN NoBox /\ y.pc = "booting" /\ y.tiers = d.tiers /\ y.group = d.group
      /\ y.owed = {i \in dispatch.kept : dispatch.seen[i] \in d.tiers} /\ y.worn = dispatch.worn
      /\ y.listed = [i \in Issues |-> "none"]
  BY DEF NoBox
<1> HIDE DEF y
<1>3. DispatchHolds(dispatch, labels) /\ dispatch.worn \subseteq Issues
  BY DEF GroomInv
<1>4. BoxHolds(y, labels)
  <2>1. Guarded(y)
    BY <1>1, <1>2, <1>3 DEF DispatchHolds, Guarded
  <2>2. y.owed \subseteq Issues /\ \A i \in y.owed : IsActionable(labels[i]) \in y.tiers
    BY <1>2, <1>3 DEF DispatchHolds
  <2>3. \A i \in y.worn : i \in Issues /\ Stalled \in labels[i] /\ y.listed[i] = "none"
    BY <1>2, <1>3 DEF DispatchHolds
  <2> QED  BY <1>2, <2>1, <2>2, <2>3 DEF BoxHolds, Worked
<1>5. DispatchHolds(dispatch', labels) /\ dispatch'.worn \subseteq Issues
  <2>1. CASE dispatch.pending = {d}
    BY <1>1, <2>1, IdleDispatchHolds DEF IdleDispatch
  <2>2. CASE dispatch.pending # {d}
    BY <1>1, <1>3, <2>2 DEF DispatchHolds, IdleDispatch
  <2> QED  BY <2>1, <2>2
<1>6. box' = [c \in Boxes |-> box'[c]] /\ \A c \in Boxes : BoxHolds(box'[c], labels)
  BY <1>1, <1>4 DEF GroomInv
<1> QED  BY <1>1, <1>5, <1>6 DEF GroomInv

LEMMA ListKept ==
  ASSUME GroomInv, NEW b \in Boxes, List(b)
  PROVE  GroomInv'
<1> DEFINE lists == [i \in Issues |-> IF IsActionable(labels[i]) \in box[b].tiers
                                      THEN IsActionable(labels[i]) ELSE "none"]
           y == [box[b] EXCEPT !.pc = "working", !.listed = lists]
<1>1. BoxHolds(box[b], labels) /\ box[b].pc = "booting"
  BY DEF GroomInv, List
<1>2. box' = [box EXCEPT ![b] = y]
  BY DEF List, GroomInv
<1>3. /\ DOMAIN y = DOMAIN NoBox /\ y.pc = "working" /\ y.tiers = box[b].tiers
      /\ y.group = box[b].group /\ y.listed = lists /\ y.owed = box[b].owed /\ y.worn = box[b].worn
  BY <1>1 DEF BoxHolds, NoBox
<1>4. box[b].tiers \subseteq TierAt
  BY <1>1 DEF BoxHolds, Guarded
<1>5. lists \in [Issues -> Worked] /\ \A i \in Issues : lists[i] \in box[b].tiers \cup {"none"}
  BY ActionableFacts
<1>6. \A i \in box[b].owed : i \in Issues /\ lists[i] # "none"
  BY <1>1, <1>4, ActionableFacts DEF BoxHolds
<1>7. \A i \in box[b].worn : i \in Issues /\ Stalled \in labels[i] /\ lists[i] = "none"
  BY <1>1, ActionableFacts DEF BoxHolds
<1> HIDE DEF y, lists
<1>8. BoxHolds(y, labels)
  BY <1>1, <1>3, <1>5, <1>6, <1>7 DEF BoxHolds, Guarded
<1>9. /\ labels' = labels /\ history' = history /\ strikes' = strikes /\ passed' = passed
      /\ dispatch' = dispatch
  BY DEF List
<1>10. box' = [c \in Boxes |-> box'[c]] /\ \A c \in Boxes : BoxHolds(box'[c], labels)
  BY <1>2, <1>8 DEF GroomInv
<1> QED  BY <1>9, <1>10 DEF GroomInv

LEMMA EngageKept ==
  ASSUME GroomInv, NEW b \in Boxes, NEW i \in Issues, NEW d \in Dispositions, Engage(b, i, d)
  PROVE  GroomInv'
<1> DEFINE ruled == IF d = "closed" THEN {i} ELSE {}
<1>1. labels' = [labels EXCEPT ![i] =
          CASE d = "closed" -> {"closed"}
            [] d = "pr_opened" -> @ \cup {"in-progress"}
            [] d = "labeled" -> Downgraded(@)
            [] OTHER -> @]
  BY DEF Engage
<1>2. /\ labels' = [j \in Issues |-> labels'[j]]
      /\ \A j \in Issues : j # i => labels'[j] = labels[j]
      /\ \A j \in Issues : j \notin ruled /\ Stalled \in labels[j] => Stalled \in labels'[j]
  <2>1. labels = [j \in Issues |-> labels[j]]
    BY DEF GroomInv
  <2>2. labels' = [j \in Issues |-> labels'[j]] /\ \A j \in Issues : j # i => labels'[j] = labels[j]
    BY <1>1, <2>1
  <2>3. d # "closed" /\ Stalled \in labels[i] => Stalled \in labels'[i]
    BY <1>1, <2>1 DEF Downgraded, Stalled, Dispositions
  <2> QED  BY <2>2, <2>3
<1>3. /\ dispatch' = [dispatch EXCEPT !.kept = @ \ {i}, !.worn = IF d = "closed" THEN @ \ {i} ELSE @]
      /\ passed' = passed
  BY DEF Engage
<1>4. DispatchHolds(dispatch', labels') /\ dispatch'.worn \subseteq Issues
  <2> DEFINE e == [dispatch EXCEPT !.kept = @ \ {i}, !.worn = IF d = "closed" THEN @ \ {i} ELSE @]
  <2>1. DispatchHolds(dispatch, labels) /\ dispatch.worn \subseteq Issues
    BY DEF GroomInv
  <2>2. /\ DOMAIN e = DOMAIN dispatch /\ e.seen = dispatch.seen /\ e.pending = dispatch.pending
        /\ e.kept = dispatch.kept \ {i} /\ e.worn = dispatch.worn \ ruled
    BY <2>1 DEF DispatchHolds, IdleDispatch
  <2>3. dispatch.kept \subseteq Issues
    BY <2>1 DEF DispatchHolds
  <2> HIDE DEF e, ruled
  <2>4. DispatchHolds(e, labels')
    BY <1>2, <2>1, <2>2, <2>3, DispatchStands
  <2> QED  BY <1>3, <2>1, <2>2, <2>4 DEF e
<1>5. ASSUME NEW c \in Boxes PROVE BoxHolds(box'[c], labels')
  <2> DEFINE y == [box[c] EXCEPT !.owed = @ \ {i}, !.worn = IF d = "closed" THEN @ \ {i} ELSE @,
                                 !.listed = IF c = b THEN [@ EXCEPT ![i] = "none"] ELSE @]
  <2>1. BoxHolds(box[c], labels) /\ box'[c] = y
    BY DEF GroomInv, Engage
  <2>2. /\ DOMAIN y = DOMAIN NoBox /\ y.pc = box[c].pc /\ y.tiers = box[c].tiers
        /\ y.group = box[c].group /\ y.owed = box[c].owed \ {i} /\ y.worn = box[c].worn \ ruled
        /\ y.listed = IF c = b THEN [box[c].listed EXCEPT ![i] = "none"] ELSE box[c].listed
    BY <2>1 DEF BoxHolds, NoBox
  <2>3. /\ box[c].owed \subseteq Issues /\ box[c].worn \subseteq Issues
        /\ box[c].listed \in [Issues -> Worked]
    BY <2>1 DEF BoxHolds
  <2>4. /\ y.listed \in [Issues -> Worked]
        /\ \A j \in Issues : (y.listed[j] = box[c].listed[j] \/ (y.listed[j] = "none" /\ j \notin y.owed))
    BY <2>2, <2>3 DEF Worked
  <2> HIDE DEF y, ruled
  <2>5. BoxHolds(y, labels')
    BY <1>2, <2>1, <2>2, <2>3, <2>4, BoxStands
  <2> QED  BY <2>1, <2>5
<1>6. box' = [c \in Boxes |-> box'[c]]
  BY DEF Engage
<1>7. /\ history' = [j \in Issues |-> history'[j]] /\ strikes' = [j \in Issues |-> strikes'[j]]
      /\ \A j \in Issues : StrikesAreTold(strikes'[j], history'[j])
  <2> DEFINE strike == IF d = "commented" THEN Min({StrikeLimit, strikes[i] + 1}) ELSE 0
             entries == SubSeq(<<d>> \o history[i], 1, Min({StrikeLimit, Len(history[i]) + 1}))
  <2>1. history' = [history EXCEPT ![i] = entries] /\ strikes' = [strikes EXCEPT ![i] = strike]
    BY DEF Engage
  <2>2. StrikesAreTold(strikes[i], history[i])
    BY DEF GroomInv
  <2>3. StrikesAreTold(strike, entries)
    BY <2>2, StrikesGoOn
  <2> HIDE DEF strike, entries
  <2> QED  BY <2>1, <2>3 DEF GroomInv
<1> QED  BY <1>2, <1>3, <1>4, <1>5, <1>6, <1>7 DEF GroomInv

\* Every step.
LEMMA GroomStepKept ==
  ASSUME GroomInv, [GroomNext]_groomVars
  PROVE  GroomInv'
<1>1. CASE Count
  BY <1>1, CountKept
<1>2. CASE DecideTrigger
  BY <1>2, TriggerKept
<1>3. ASSUME NEW slot \in TierAt, NEW p0 \in BOOLEAN, NEW waits, DecideSlot(slot, p0, waits)
      PROVE  GroomInv'
  BY <1>3, SlotKept
<1>4. ASSUME NEW b \in Boxes, List(b) PROVE GroomInv'
  BY <1>4, ListKept
<1>5. ASSUME NEW b \in Boxes, EndBox(b) PROVE GroomInv'
  BY <1>5, NoBoxHolds DEF EndBox, GroomInv
<1>6. ASSUME NEW b \in Boxes, NEW d, Launch(d, b) PROVE GroomInv'
  BY <1>6, LaunchKept
<1>7. ASSUME NEW b \in Boxes, NEW i \in Issues, NEW d \in Dispositions, Engage(b, i, d) PROVE GroomInv'
  BY <1>7, EngageKept
<1>8. ASSUME NEW i \in Issues, Rule(i) \/ \E ls \in LabelSets : File(i, ls) PROVE GroomInv'
  <2>1. StrikesAreTold(0, <<>>)
    BY GroomAssumption DEF StrikesAreTold
  <2>2. /\ history' = [j \in Issues |-> history'[j]] /\ strikes' = [j \in Issues |-> strikes'[j]]
        /\ \A j \in Issues : StrikesAreTold(strikes'[j], history'[j])
    BY <1>8, <2>1 DEF Rule, File, Fresh, GroomInv
  <2>3. /\ labels' = [j \in Issues |-> labels'[j]]
        /\ \A j \in Issues : j \notin {i} => labels'[j] = labels[j]
    BY <1>8 DEF Rule, File, GroomInv
  <2>4. Forget({i}, {i}) /\ passed' = passed
    BY <1>8 DEF Rule, File
  <2> QED  BY <2>2, <2>3, <2>4, RelabelKept
<1>9. ASSUME NEW i \in Issues, NEW ls \in LabelSets, Relabel(i, ls) PROVE GroomInv'
  <2>1. /\ labels' = [j \in Issues |-> labels'[j]]
        /\ \A j \in Issues : j \notin {i} => labels'[j] = labels[j]
        /\ \A j \in Issues : Stalled \in labels[j] => Stalled \in labels'[j]
    BY <1>9 DEF Relabel, GroomInv
  <2>2. Forget({i}, {}) /\ passed' = passed /\ history' = history /\ strikes' = strikes
    BY <1>9 DEF Relabel
  <2>3. /\ history' = [j \in Issues |-> history'[j]] /\ strikes' = [j \in Issues |-> strikes'[j]]
        /\ \A j \in Issues : StrikesAreTold(strikes'[j], history'[j])
    BY <2>2 DEF GroomInv
  <2> QED  BY <2>1, <2>2, <2>3, RelabelKept
<1>10. CASE UNCHANGED groomVars
  BY <1>10 DEF groomVars, GroomInv
<1> QED  BY <1>1, <1>2, <1>3, <1>4, <1>5, <1>6, <1>7, <1>8, <1>9, <1>10 DEF GroomNext, Dispositions

\* Whatever is relabelled, closed, ruled on or engaged between a count and the
\* listings of the boxes launched on it, in any order of dispatches and boxes:
\* what was counted is listed unless it was relabelled, in no group below its
\* tier, and a third comment comes from no later count (decide_slot,
\* decide_trigger, comment_only_strikes_exceeded).
THEOREM CountedIsReached == GroomSpec => []CountedIsWorked
<1>1. GroomInit => GroomInv
  BY GroomInitHolds
<1>2. GroomInv /\ [GroomNext]_groomVars => GroomInv'
  BY GroomStepKept
<1>3. GroomInv => CountedIsWorked
  <2> SUFFICES ASSUME GroomInv PROVE CountedIsWorked
    OBVIOUS
  <2>1. NoneIsPassedOver
    BY DEF GroomInv, BoxHolds, NoneIsPassedOver
  <2>2. NeverBelowItsTier
    BY DEF GroomInv, BoxHolds, Guarded, NeverBelowItsTier
  <2>3. NoThirdComment
    BY DEF GroomInv, BoxHolds, NoThirdComment
  <2> QED  BY <2>1, <2>2, <2>3 DEF CountedIsWorked
<1> QED  BY <1>1, <1>2, <1>3, PTL DEF GroomSpec

-----------------------------------------------------------------------------
(* The guards on workflow files.                                            *)

\* What the guard matches among the patterns, the host reports, or it is one of
\* the two kinds that are excepted.
Covered(files, patterns, reported) ==
    /\ patterns \subseteq Seq(JobNames) \ {<<>>}
    /\ \A c \in Seq(JobNames) :
          (\E p \in patterns : JobNameMatches(p, c)) => c \in reported \/ Overmatched(files, c)

Jobs(files) == LibText.jobs \cup UNION {files[f].jobs : f \in Files}

\* A called workflow is one of the tree's texts.
LEMMA CalledIsText ==
  ASSUME NEW files, NEW uses
  PROVE  CalledText(uses, files) \in TextsOf(files)
BY DEF CalledText, TextsOf

\* A job of a text is one of the tree's jobs.
LEMMA JobIsThere ==
  ASSUME NEW files, NEW t \in TextsOf(files), NEW j \in t.jobs
  PROVE  j \in Jobs(files)
<1>1. CASE t = NoText
  <2>1. t.jobs = {}
    BY <1>1 DEF NoText
  <2> QED  BY <2>1
<1>2. CASE t = LibText
  BY <1>2 DEF Jobs
<1>3. CASE \E f \in Files : t = files[f]
  BY <1>3 DEF Jobs
<1> QED  BY <1>1, <1>2, <1>3 DEF TextsOf

\* Under a caller's name: the name is one of its legs or overmatched, and the
\* rest is covered as in the called workflow.
LEMMA OvermatchedUnder ==
  ASSUME NEW files, NEW n \in JobNames, NEW c \in Seq(JobNames), c # <<>>, Overmatched(files, c)
  PROVE  Overmatched(files, <<n>> \o c)
<1> DEFINE d == <<n>> \o c
<1>1. /\ Len(d) = Len(c) + 1
      /\ Len(c) \in Nat /\ Len(c) > 0
      /\ d[Len(d)] = c[Len(c)]
      /\ \A i \in DOMAIN c : i + 1 \in DOMAIN d /\ d[i + 1] = c[i]
  OBVIOUS
<1>2. PICK j \in Jobs(files) :
          \/ j.uses # "none" /\ c[Len(c)] \in Matched[j.label]
          \/ \E i \in DOMAIN c : c[i] \in Matched[j.label] \ Legs[j.label]
  BY DEF Overmatched, Jobs
<1> HIDE DEF d
<1>3. \/ j.uses # "none" /\ d[Len(d)] \in Matched[j.label]
      \/ \E i \in DOMAIN d : d[i] \in Matched[j.label] \ Legs[j.label]
  <2>1. CASE j.uses # "none" /\ c[Len(c)] \in Matched[j.label]
    BY <1>1, <2>1
  <2>2. CASE \E i \in DOMAIN c : c[i] \in Matched[j.label] \ Legs[j.label]
    <3>1. PICK i \in DOMAIN c : c[i] \in Matched[j.label] \ Legs[j.label]
      BY <2>2
    <3> QED  BY <1>1, <3>1
  <2> QED  BY <1>2, <2>1, <2>2
<1> QED  BY <1>3 DEF Overmatched, Jobs, d

\* A pattern under a name matches a context name by name.
LEMMA MatchesUnder ==
  ASSUME NEW label \in JobNames, NEW e \in Seq(JobNames), NEW c \in Seq(JobNames),
         NEW p, p = <<label>> \o e, JobNameMatches(p, c)
  PROVE  \E n \in JobNames, d \in Seq(JobNames) :
            /\ c = <<n>> \o d /\ n \in Matched[label] /\ JobNameMatches(e, d)
<1>1. /\ p \in Seq(JobNames) /\ Len(p) = Len(e) + 1 /\ Len(e) \in Nat
      /\ p[1] = label /\ 1 \in DOMAIN p
      /\ \A i \in DOMAIN e : i + 1 \in DOMAIN p /\ p[i + 1] = e[i]
  <2>1. <<label>> \in Seq(JobNames) /\ Len(<<label>>) = 1
    OBVIOUS
  <2>2. p \in Seq(JobNames) /\ Len(p) = Len(e) + 1 /\ Len(e) \in Nat
    BY <2>1
  <2>3. p[1] = label /\ 1 \in DOMAIN p
    BY <2>1, <2>2
  <2>4. ASSUME NEW i \in DOMAIN e PROVE i + 1 \in DOMAIN p /\ p[i + 1] = e[i]
    BY <2>1, <2>2
  <2> QED  BY <2>2, <2>3, <2>4
<1>2. Len(p) = Len(c) /\ \A i \in DOMAIN p : c[i] \in Matched[p[i]]
  BY DEF JobNameMatches
<1>3. c # <<>>
  BY <1>1, <1>2
<1>4. /\ c = <<Head(c)>> \o Tail(c) /\ Head(c) = c[1] /\ c[1] \in JobNames
      /\ Tail(c) \in Seq(JobNames) /\ Len(Tail(c)) = Len(c) - 1
      /\ \A i \in 1 .. Len(c) - 1 : Tail(c)[i] = c[i + 1]
  BY <1>3
<1>5. JobNameMatches(e, Tail(c))
  <2>1. Len(e) = Len(Tail(c))
    BY <1>1, <1>2, <1>4
  <2>2. ASSUME NEW i \in DOMAIN e PROVE Tail(c)[i] \in Matched[e[i]]
    <3>1. i \in 1 .. Len(c) - 1
      BY <1>1, <1>2
    <3>2. Tail(c)[i] = c[i + 1] /\ c[i + 1] \in Matched[p[i + 1]]
      BY <1>1, <1>2, <1>4, <3>1
    <3> QED  BY <1>1, <3>2
  <2> QED  BY <2>1, <2>2 DEF JobNameMatches
<1>6. Head(c) \in Matched[label]
  BY <1>1, <1>2, <1>4
<1> QED  BY <1>4, <1>5, <1>6

\* A job's name goes before those of the jobs it calls.
LEMMA NamesUnder ==
  ASSUME NEW names, NEW contexts, NEW n \in names, NEW c \in contexts
  PROVE  n \o c \in Under(names, contexts)
BY DEF Under

\* One level of calls more.
LEMMA OneCallDeeper ==
  ASSUME NEW files, \A j \in Jobs(files) : j.label \in JobNames,
         NEW emits, NEW reports,
         \A t \in TextsOf(files) : Covered(files, emits[t], reports[t]),
         emits[NoText] = {},
         NEW t \in TextsOf(files)
  PROVE  /\ Covered(files, Emitted(t, files, emits), Reported(t, files, reports))
         /\ Emitted(NoText, files, emits) = {}
<1>1. ASSUME NEW p \in Emitted(t, files, emits)
      PROVE  \E j \in t.jobs : \/ p = <<j.label>>
                               \/ \E e \in emits[CalledText(j.uses, files)] : p = <<j.label>> \o e
  <2>1. CASE p \in {<<j.label>> : j \in t.jobs}
    BY <2>1
  <2>2. CASE p \in UNION {Under({<<j.label>>}, emits[CalledText(j.uses, files)]) : j \in t.jobs}
    <3>1. PICK j \in t.jobs : p \in Under({<<j.label>>}, emits[CalledText(j.uses, files)])
      BY <2>2
    <3>2. PICK e \in emits[CalledText(j.uses, files)] : p = <<j.label>> \o e
      BY <3>1 DEF Under
    <3> QED  BY <3>2
  <2> QED  BY <2>1, <2>2 DEF Emitted
<1>2. ASSUME NEW j \in t.jobs
      PROVE  /\ j \in Jobs(files) /\ j.label \in JobNames
             /\ Covered(files, emits[CalledText(j.uses, files)], reports[CalledText(j.uses, files)])
  BY CalledIsText, JobIsThere
<1>3. ASSUME NEW p \in Emitted(t, files, emits)
      PROVE  p \in Seq(JobNames) \ {<<>>}
  <2>1. PICK j \in t.jobs : \/ p = <<j.label>>
                            \/ \E e \in emits[CalledText(j.uses, files)] : p = <<j.label>> \o e
    BY <1>1
  <2>2. j.label \in JobNames
    BY <1>2
  <2>3. CASE p = <<j.label>>
    BY <2>2, <2>3
  <2>4. CASE \E e \in emits[CalledText(j.uses, files)] : p = <<j.label>> \o e
    <3>1. PICK e \in emits[CalledText(j.uses, files)] : p = <<j.label>> \o e
      BY <2>4
    <3>2. e \in Seq(JobNames)
      BY <1>2, <3>1 DEF Covered
    <3> QED  BY <2>2, <3>1, <3>2
  <2> QED  BY <2>1, <2>3, <2>4
<1>4. ASSUME NEW c \in Seq(JobNames), NEW p \in Emitted(t, files, emits), JobNameMatches(p, c),
             ~Overmatched(files, c)
      PROVE  c \in Reported(t, files, reports)
  <2>1. PICK j \in t.jobs : \/ p = <<j.label>>
                            \/ \E e \in emits[CalledText(j.uses, files)] : p = <<j.label>> \o e
    BY <1>1
  <2>2. j.label \in JobNames /\ j \in Jobs(files)
    BY <1>2
  <2>3. CASE p = <<j.label>>
    <3>1. Len(c) = 1 /\ c[1] \in Matched[j.label] /\ c = <<c[1]>>
      BY <2>2, <2>3, <1>4 DEF JobNameMatches
    <3>2. 1 \in DOMAIN c /\ c[Len(c)] = c[1]
      BY <3>1
    <3>3. j.uses = "none" /\ c[1] \in Legs[j.label]
      BY <1>4, <2>2, <3>1, <3>2 DEF Overmatched, Jobs
    <3> QED  BY <3>1, <3>3 DEF Reported
  <2>4. CASE \E e \in emits[CalledText(j.uses, files)] : p = <<j.label>> \o e
    <3> DEFINE called == CalledText(j.uses, files)
    <3>1. PICK e \in emits[called] : p = <<j.label>> \o e
      BY <2>4
    <3>2. e \in Seq(JobNames) /\ e # <<>> /\ Covered(files, emits[called], reports[called])
      BY <1>2, <3>1 DEF Covered
    <3>3. PICK n \in JobNames, d \in Seq(JobNames) :
              c = <<n>> \o d /\ n \in Matched[j.label] /\ JobNameMatches(e, d)
      <4>1. PICK l \in JobNames : l = j.label
        BY <2>2
      <4>2. p = <<l>> \o e /\ JobNameMatches(p, c)
        BY <1>4, <3>1, <4>1
      <4>3. \E n \in JobNames, d \in Seq(JobNames) :
               c = <<n>> \o d /\ n \in Matched[l] /\ JobNameMatches(e, d)
        BY <3>2, <4>2, MatchesUnder
      <4> QED  BY <4>1, <4>3
    <3>4. d # <<>>
      BY <3>2, <3>3 DEF JobNameMatches
    <3>5. ~Overmatched(files, d)
      BY <1>4, <3>3, <3>4, OvermatchedUnder
    <3>6. d \in reports[called]
      BY <3>1, <3>2, <3>3, <3>5 DEF Covered
    <3>7. n \in Legs[j.label]
      <4>1. 1 \in DOMAIN c /\ c[1] = n
        BY <3>3
      <4> QED  BY <1>4, <2>2, <3>3, <4>1 DEF Overmatched, Jobs
    <3>8. j.uses # "none"
      <4> SUFFICES ASSUME j.uses = "none" PROVE FALSE
        OBVIOUS
      <4>1. called = NoText
        BY GuardAssumption DEF CalledText
      <4> QED  BY <3>1, <4>1
    <3>9. c \in Under({<<m>> : m \in Legs[j.label]}, reports[called])
      <4> DEFINE legs == {<<m>> : m \in Legs[j.label]}
      <4>1. <<n>> \in legs
        BY <3>7
      <4> HIDE DEF legs, called
      <4>2. PICK x \in legs : x = <<n>>
        BY <4>1
      <4>3. x \o d \in Under(legs, reports[called])
        BY <3>6, NamesUnder
      <4>4. c \in Under(legs, reports[called])
        BY <3>3, <4>2, <4>3
      <4> QED  BY <4>4 DEF legs
    <3> HIDE DEF called
    <3> QED  BY <3>8, <3>9 DEF Reported, called
  <2> QED  BY <2>1, <2>3, <2>4
<1>5. Emitted(NoText, files, emits) = {}
  <2>1. NoText.jobs = {}
    BY DEF NoText
  <2> QED  BY <2>1 DEF Emitted
<1> QED  BY <1>3, <1>4, <1>5 DEF Covered

EmitsByLevel(files, emits) ==
    /\ Emits(files) = emits[4]
    /\ emits[0] = [t \in TextsOf(files) |-> Emitted(t, files, NoContexts(files))]
    /\ \A d \in 1 .. 4 : emits[d] = [t \in TextsOf(files) |-> Emitted(t, files, emits[d - 1])]

\* The readings of four calls: each is one call deeper than the one before.
LEMMA EmitsAreDeep ==
  ASSUME NEW files
  PROVE  \E emits : EmitsByLevel(files, emits)
<1> DEFINE Level(below) == [t \in TextsOf(files) |-> Emitted(t, files, below)]
           emits[d \in 0 .. MaxReusableDepth] ==
               LET below == IF d = 0 THEN NoContexts(files) ELSE emits[d - 1]
               IN  [t \in TextsOf(files) |-> Emitted(t, files, below)]
           l0 == Level(NoContexts(files))
           l1 == Level(l0)
           l2 == Level(l1)
           l3 == Level(l2)
           l4 == Level(l3)
           f == [d \in 0 .. 4 |-> CASE d = 0 -> l0 [] d = 1 -> l1 [] d = 2 -> l2
                                    [] d = 3 -> l3 [] d = 4 -> l4]
           IsReading(g) == g = [d \in 0 .. 4 |-> Level(IF d = 0 THEN NoContexts(files) ELSE g[d - 1])]
<1>1. Emits(files) = emits[4]
  BY DEF Emits, MaxReusableDepth
<1>2. emits = CHOOSE g : IsReading(g)
  BY DEF MaxReusableDepth
<1>3. IsReading(f)
  <2>1. f[0] = l0 /\ f[1] = l1 /\ f[2] = l2 /\ f[3] = l3 /\ f[4] = l4
    <3> HIDE DEF l0, l1, l2, l3, l4
    <3> QED  OBVIOUS
  <2>2. \A d \in 0 .. 4 : d = 0 \/ d = 1 \/ d = 2 \/ d = 3 \/ d = 4
    OBVIOUS
  <2> HIDE DEF f
  <2>3. ASSUME NEW d \in 0 .. 4
        PROVE  f[d] = Level(IF d = 0 THEN NoContexts(files) ELSE f[d - 1])
    <3> HIDE DEF Level
    <3>1. CASE d = 0
      BY <2>1, <3>1
    <3>2. CASE d = 1
      BY <2>1, <3>2
    <3>3. CASE d = 2
      BY <2>1, <3>3
    <3>4. CASE d = 3
      BY <2>1, <3>4
    <3>5. CASE d = 4
      BY <2>1, <3>5
    <3> QED  BY <2>2, <3>1, <3>2, <3>3, <3>4, <3>5
  <2>4. DOMAIN f = 0 .. 4
    BY DEF f
  <2>5. f = [d \in 0 .. 4 |-> f[d]]
    BY DEF f
  <2> HIDE DEF Level
  <2> QED  BY <2>3, <2>5
<1> HIDE DEF f, Level, emits
<1>4. IsReading(emits)
  <2> HIDE DEF IsReading
  <2> QED  BY <1>2, <1>3
<1>5. emits[0] = Level(NoContexts(files)) /\ \A d \in 1 .. 4 : emits[d] = Level(emits[d - 1])
  BY <1>4
<1> QED  BY <1>1, <1>5 DEF Level, EmitsByLevel

ReportsByLevel(files, reports) ==
    /\ Reports(files) = reports[4]
    /\ reports[0] = [t \in TextsOf(files) |-> Reported(t, files, NoContexts(files))]
    /\ \A d \in 1 .. 4 : reports[d] = [t \in TextsOf(files) |-> Reported(t, files, reports[d - 1])]

\* What the host reports is what the called texts report, level by level.
LEMMA ReportsAreDeep ==
  ASSUME NEW files
  PROVE  \E reports : ReportsByLevel(files, reports)
<1> DEFINE Level(below) == [t \in TextsOf(files) |-> Reported(t, files, below)]
           reports[d \in 0 .. MaxReusableDepth] ==
               LET below == IF d = 0 THEN NoContexts(files) ELSE reports[d - 1]
               IN  [t \in TextsOf(files) |-> Reported(t, files, below)]
           l0 == Level(NoContexts(files))
           l1 == Level(l0)
           l2 == Level(l1)
           l3 == Level(l2)
           l4 == Level(l3)
           f == [d \in 0 .. 4 |-> CASE d = 0 -> l0 [] d = 1 -> l1 [] d = 2 -> l2
                                    [] d = 3 -> l3 [] d = 4 -> l4]
           IsReading(g) == g = [d \in 0 .. 4 |-> Level(IF d = 0 THEN NoContexts(files) ELSE g[d - 1])]
<1>1. Reports(files) = reports[4]
  BY DEF Reports, MaxReusableDepth
<1>2. reports = CHOOSE g : IsReading(g)
  BY DEF MaxReusableDepth
<1>3. IsReading(f)
  <2>1. f[0] = l0 /\ f[1] = l1 /\ f[2] = l2 /\ f[3] = l3 /\ f[4] = l4
    <3> HIDE DEF l0, l1, l2, l3, l4
    <3> QED  OBVIOUS
  <2>2. f = [d \in 0 .. 4 |-> f[d]]
    OBVIOUS
  <2>3. \A d \in 0 .. 4 : d = 0 \/ d = 1 \/ d = 2 \/ d = 3 \/ d = 4
    OBVIOUS
  <2> HIDE DEF f, Level
  <2>4. ASSUME NEW d \in 0 .. 4
        PROVE  f[d] = Level(IF d = 0 THEN NoContexts(files) ELSE f[d - 1])
    <3>1. CASE d = 0
      BY <2>1, <3>1
    <3>2. CASE d = 1
      BY <2>1, <3>2
    <3>3. CASE d = 2
      BY <2>1, <3>3
    <3>4. CASE d = 3
      BY <2>1, <3>4
    <3>5. CASE d = 4
      BY <2>1, <3>5
    <3> QED  BY <2>3, <3>1, <3>2, <3>3, <3>4, <3>5
  <2> QED  BY <2>2, <2>4
<1> HIDE DEF f, Level, reports
<1>4. IsReading(reports)
  <2> HIDE DEF IsReading
  <2> QED  BY <1>2, <1>3
<1>5. reports[0] = Level(NoContexts(files)) /\ \A d \in 1 .. 4 : reports[d] = Level(reports[d - 1])
  BY <1>4
<1> QED  BY <1>1, <1>5 DEF Level, ReportsByLevel

\* Four calls deep, what the guard takes for covered is reported on the merge
\* group, or is one of the two kinds that are excepted.
LEMMA CoveredIsReported ==
  ASSUME NEW files, \A j \in Jobs(files) : j.label \in JobNames,
         NEW contexts, NEW c \in contexts, c \in Seq(JobNames), CoverageGaps(contexts, files) = {}
  PROVE  c \in HostReports(files) \/ Overmatched(files, c)
<1>1. PICK emits : EmitsByLevel(files, emits)
  BY EmitsAreDeep
<1>2. PICK reports : ReportsByLevel(files, reports)
  BY ReportsAreDeep
<1> DEFINE Holds(e, r) == /\ \A t \in TextsOf(files) : Covered(files, e[t], r[t])
                          /\ e[NoText] = {}
           none == NoContexts(files)
<1>3. NoText \in TextsOf(files)
  BY DEF TextsOf
<1>4. ASSUME NEW e, NEW r, Holds(e, r), NEW f, NEW s,
             f = [t \in TextsOf(files) |-> Emitted(t, files, e)],
             s = [t \in TextsOf(files) |-> Reported(t, files, r)]
      PROVE  Holds(f, s)
  <2>1. ASSUME NEW t \in TextsOf(files)
        PROVE  Covered(files, Emitted(t, files, e), Reported(t, files, r))
    BY <1>4, OneCallDeeper
  <2>2. Emitted(NoText, files, e) = {}
    BY <1>3, <1>4, OneCallDeeper
  <2> QED  BY <1>3, <1>4, <2>1, <2>2
<1>5. Holds(none, none)
  BY <1>3 DEF Covered, NoContexts
<1> HIDE DEF Holds, none
<1>6. Holds(emits[0], reports[0])
  <2>1. /\ emits[0] = [t \in TextsOf(files) |-> Emitted(t, files, none)]
        /\ reports[0] = [t \in TextsOf(files) |-> Reported(t, files, none)]
    BY <1>1, <1>2 DEF none, EmitsByLevel, ReportsByLevel
  <2> QED  BY <1>4, <1>5, <2>1
<1>7. ASSUME NEW d \in 1 .. 4, Holds(emits[d - 1], reports[d - 1])
      PROVE  Holds(emits[d], reports[d])
  <2>1. /\ emits[d] = [t \in TextsOf(files) |-> Emitted(t, files, emits[d - 1])]
        /\ reports[d] = [t \in TextsOf(files) |-> Reported(t, files, reports[d - 1])]
    BY <1>1, <1>2 DEF EmitsByLevel, ReportsByLevel
  <2> QED  BY <1>4, <1>7, <2>1
<1>8. Holds(emits[1], reports[1])
  BY <1>6, <1>7
<1>9. Holds(emits[2], reports[2])
  BY <1>7, <1>8
<1>10. Holds(emits[3], reports[3])
  BY <1>7, <1>9
<1>11. Holds(Emits(files), Reports(files))
  <2>1. Holds(emits[4], reports[4])
    BY <1>7, <1>10
  <2> QED  BY <1>1, <1>2, <2>1 DEF EmitsByLevel, ReportsByLevel
<1>12. PICK f \in Files : /\ HasMergeGroup(files[f])
                          /\ \E p \in EmittedContexts(files)[f] : JobNameMatches(p, c)
  BY DEF CoverageGaps
<1>13. EmittedContexts(files)[f] = Emits(files)[files[f]] /\ files[f] \in TextsOf(files)
  BY DEF EmittedContexts, TextsOf
<1>14. c \in Reports(files)[files[f]] \/ Overmatched(files, c)
  BY <1>11, <1>12, <1>13 DEF Holds, Covered
<1>15. files[f].kind = "good" /\ "merge_group" \in files[f].on
  BY <1>12 DEF HasMergeGroup
<1>16. c \in Reports(files)[files[f]] => c \in HostReports(files)
  BY <1>15 DEF HostReports
<1> QED  BY <1>14, <1>16

-----------------------------------------------------------------------------
\* While the rules are read, what one place required all along is read or still
\* to be read; once they are, it is among the contexts; and a green head is one
\* that all three guards pass.
ReviewHolds(seen) ==
    /\ DOMAIN seen = DOMAIN NoReview /\ DOMAIN seen.head = Files
    /\ seen.steady \subseteq Places \X Seq(JobNames)
    /\ \A f \in Files : FitText(seen.head[f])
    /\ seen.pc = "ruleset" =>
          \A s \in seen.steady : s[1] \in RuleSets => s[1] \in seen.left \/ s[2] \in seen.contexts
    /\ seen.pc = "queue" => \A s \in seen.steady : s[2] \in seen.contexts
    /\ seen.pc = "graded" /\ seen.verdict = "green" =>
          /\ \A s \in seen.steady : s[2] \in seen.contexts
          /\ GuardVerdict(seen.head, seen.contexts, seen.allow) = "green"

\* What was required all along is required now.
SteadyStands == review.steady \subseteq Standing

\* What the nightly grader read is a files whose declarations hold.
SurfacesHold ==
    \/ surfaces = [tree |-> [f \in Files |-> NoText], findings |-> {}, gates |-> {}]
    \/ /\ \A f \in Files : FitText(surfaces.tree[f])
       /\ Strict(surfaces.tree)
       /\ surfaces.findings = InForce(surfaces.tree, "finding-surface")
       /\ surfaces.gates = InForce(surfaces.tree, "operator-gated")

GuardInv ==
    /\ DOMAIN main = Files
    /\ \A f \in Files : FitText(main[f])
    /\ Strict(main)
    /\ rules \in [Places -> [active : BOOLEAN, contexts : SUBSET Seq(JobNames)]]
    /\ ReviewHolds(review)
    /\ review.pc \in {"rulesets", "ruleset"} => SteadyStands
    /\ SurfacesHold

LEMMA FitNoText == FitText(NoText)
BY DEF FitText, NoText, Undeclared

\* The fields of a review, and that changing some leaves the others.
LEMMA ReviewFields ==
  DOMAIN NoReview = {"pc", "head", "allow", "left", "contexts", "steady", "warned", "verdict"}
BY DEF NoReview

LEMMA IdleHolds == ReviewHolds(NoReview)
<1>1. /\ NoReview.head = [f \in Files |-> NoText] /\ NoReview.steady = {}
      /\ NoReview.pc = "idle"
  BY DEF NoReview
<1> QED  BY <1>1, FitNoText DEF ReviewHolds

\* What is required is a set of places and contexts.
LEMMA StandingIsTyped ==
  ASSUME rules \in [Places -> [active : BOOLEAN, contexts : SUBSET Seq(JobNames)]]
  PROVE  /\ Standing \subseteq Places \X Seq(JobNames)
         /\ \A s \in Standing : s[1] \in Places /\ s[2] \in Requires(s[1])
         /\ \A p \in Places : \A c \in Requires(p) : rules[p].active /\ c \in rules[p].contexts
<1>1. ASSUME NEW p \in Places
      PROVE  /\ Requires(p) \subseteq Seq(JobNames)
             /\ \A c \in Requires(p) : rules[p].active /\ c \in rules[p].contexts
  <2>1. rules[p] \in [active : BOOLEAN, contexts : SUBSET Seq(JobNames)]
    OBVIOUS
  <2> QED  BY <2>1 DEF Requires
<1>2. \A s \in Standing : \E p \in Places : s \in {p} \X Requires(p)
  BY DEF Standing
<1>3. ASSUME NEW s \in Standing
      PROVE  s[1] \in Places /\ s[2] \in Requires(s[1]) /\ s \in Places \X Seq(JobNames)
  <2>1. PICK p \in Places : s \in {p} \X Requires(p)
    BY <1>2
  <2>2. s[1] = p /\ s[2] \in Requires(p) /\ s = <<s[1], s[2]>>
    BY <2>1
  <2> QED  BY <1>1, <2>2
<1> QED  BY <1>1, <1>3

\* Without an edit of the rules, what is required stays what it was.
LEMMA GuardStepKept ==
  ASSUME GuardInv, [GuardNext]_guardVars
  PROVE  GuardInv'
<1> USE ReviewFields
<1>1. ASSUME NEW f \in Files, NEW allow \in Allowlists, NEW text \in Texts[f],
             OpenPullRequest(f, text, allow)
      PROVE  GuardInv'
  <2>1. /\ review'.pc = "rulesets" /\ review'.steady = Standing
        /\ review'.head = [main EXCEPT ![f] = text]
        /\ DOMAIN review' = DOMAIN NoReview
        /\ main' = main /\ rules' = rules /\ surfaces' = surfaces
    BY <1>1 DEF OpenPullRequest, NoReview
  <2>2. FitText(text)
    BY GuardAssumption
  <2>3. DOMAIN review'.head = Files /\ \A g \in Files : FitText(review'.head[g])
    BY <2>1, <2>2 DEF GuardInv
  <2>4. ReviewHolds(review')
    BY <2>1, <2>3, StandingIsTyped DEF ReviewHolds, GuardInv
  <2>5. SteadyStands'
    BY <2>1 DEF SteadyStands, Standing, Requires
  <2> QED  BY <2>1, <2>4, <2>5 DEF GuardInv, SurfacesHold
<1>2. CASE ListRulesets
  <2>1. /\ review.pc = "rulesets" /\ review'.pc = "ruleset"
        /\ review'.left = {p \in RuleSets : rules[p].active}
        /\ review'.head = review.head /\ review'.steady = review.steady
        /\ DOMAIN review' = DOMAIN NoReview
        /\ main' = main /\ rules' = rules /\ surfaces' = surfaces
    BY <1>2 DEF ListRulesets, GuardInv, ReviewHolds
  <2>2. SteadyStands /\ SteadyStands'
    BY <2>1 DEF GuardInv, SteadyStands, Standing, Requires
  <2>3. ASSUME NEW s \in review.steady, s[1] \in RuleSets
        PROVE  s[1] \in review'.left
    <3>1. s[2] \in Requires(s[1]) /\ s[1] \in Places
      BY <2>2, StandingIsTyped DEF SteadyStands, GuardInv
    <3>2. rules[s[1]].active
      BY <3>1, StandingIsTyped DEF GuardInv
    <3> QED  BY <2>1, <2>3, <3>2
  <2>4. ReviewHolds(review')
    BY <2>1, <2>3 DEF ReviewHolds, GuardInv
  <2> QED  BY <2>1, <2>2, <2>4 DEF GuardInv, SurfacesHold
<1>3. ASSUME NEW p \in RuleSets, ReadRuleset(p)
      PROVE  GuardInv'
  <2>1. /\ review.pc = "ruleset" /\ review'.pc = "ruleset"
        /\ review'.left = review.left \ {p}
        /\ review'.contexts = review.contexts \cup rules[p].contexts
        /\ review'.head = review.head /\ review'.steady = review.steady
        /\ DOMAIN review' = DOMAIN NoReview
        /\ main' = main /\ rules' = rules /\ surfaces' = surfaces
    BY <1>3 DEF ReadRuleset, GuardInv, ReviewHolds
  <2>2. SteadyStands /\ SteadyStands'
    BY <2>1 DEF GuardInv, SteadyStands, Standing, Requires
  <2>3. ASSUME NEW s \in review.steady, s[1] \in RuleSets
        PROVE  s[1] \in review'.left \/ s[2] \in review'.contexts
    <3>1. s[2] \in Requires(s[1]) /\ s[1] \in Places
      BY <2>2, StandingIsTyped DEF SteadyStands, GuardInv
    <3>2. s[2] \in rules[s[1]].contexts
      BY <3>1, StandingIsTyped DEF GuardInv
    <3>3. s[1] \in review.left \/ s[2] \in review.contexts
      BY <2>1, <2>3 DEF GuardInv, ReviewHolds
    <3> QED  BY <2>1, <3>2, <3>3
  <2>4. ReviewHolds(review')
    BY <2>1, <2>3 DEF ReviewHolds, GuardInv
  <2> QED  BY <2>1, <2>2, <2>4 DEF GuardInv, SurfacesHold
<1>4. CASE ReadClassic
  <2>1. /\ review.pc = "ruleset" /\ review'.pc = "queue" /\ review.left = {}
        /\ review'.contexts = review.contexts \cup Requires("classic")
        /\ review'.head = review.head /\ review'.steady = review.steady
        /\ DOMAIN review' = DOMAIN NoReview
        /\ main' = main /\ rules' = rules /\ surfaces' = surfaces
    BY <1>4 DEF ReadClassic, GuardInv, ReviewHolds
  <2>2. ASSUME NEW s \in review.steady PROVE s[2] \in review'.contexts
    <3>1. s[2] \in Requires(s[1]) /\ s[1] \in Places
      BY <2>1, StandingIsTyped DEF SteadyStands, GuardInv
    <3>2. CASE s[1] \in RuleSets
      BY <2>1, <3>2 DEF GuardInv, ReviewHolds
    <3>3. CASE s[1] \notin RuleSets
      BY <2>1, <3>1, <3>3 DEF RuleSets
    <3> QED  BY <3>2, <3>3
  <2>3. ReviewHolds(review')
    BY <2>1, <2>2 DEF ReviewHolds, GuardInv
  <2> QED  BY <2>1, <2>3 DEF GuardInv, SurfacesHold
<1>5. CASE HostFails
  <2>1. /\ review'.pc = "graded" /\ review'.verdict = "red"
        /\ review'.head = review.head /\ review'.steady = review.steady
        /\ DOMAIN review' = DOMAIN NoReview
        /\ main' = main /\ rules' = rules /\ surfaces' = surfaces
    BY <1>5 DEF HostFails, GuardInv, ReviewHolds
  <2>2. ReviewHolds(review')
    BY <2>1 DEF ReviewHolds, GuardInv
  <2> QED  BY <2>1, <2>2 DEF GuardInv, SurfacesHold
<1>6. CASE Grade
  <2>1. /\ review.pc = "queue" /\ review'.pc = "graded"
        /\ review'.verdict = GuardVerdict(review.head, review.contexts, review.allow)
        /\ review'.head = review.head /\ review'.steady = review.steady
        /\ review'.contexts = review.contexts /\ review'.allow = review.allow
        /\ DOMAIN review' = DOMAIN NoReview
        /\ main' = main /\ rules' = rules /\ surfaces' = surfaces
    BY <1>6 DEF Grade, GuardInv, ReviewHolds
  <2>2. ReviewHolds(review')
    BY <2>1 DEF ReviewHolds, GuardInv
  <2> QED  BY <2>1, <2>2 DEF GuardInv, SurfacesHold
<1>7. CASE Close
  <2>1. /\ review.pc = "graded" /\ review' = NoReview /\ review'.pc = "idle"
        /\ rules' = rules /\ surfaces' = surfaces
        /\ main' = main \/ (review.verdict = "green" /\ main' = review.head)
    BY <1>7 DEF Close, NoReview
  <2>2. review.verdict = "green" => Strict(review.head)
    BY <2>1 DEF GuardInv, ReviewHolds, GuardVerdict
  <2>3. DOMAIN main' = Files /\ Strict(main') /\ \A f \in Files : FitText(main'[f])
    BY <2>1, <2>2 DEF GuardInv, ReviewHolds
  <2> QED  BY <2>1, <2>3, IdleHolds DEF GuardInv, SurfacesHold
<1>8. CASE ReadDeclarations
  <2>1. /\ surfaces' = [tree |-> main, findings |-> InForce(main, "finding-surface"),
                        gates |-> InForce(main, "operator-gated")]
        /\ main' = main /\ rules' = rules /\ review' = review
    BY <1>8 DEF ReadDeclarations
  <2>2. SurfacesHold'
    BY <2>1 DEF SurfacesHold, GuardInv
  <2> QED  BY <2>1, <2>2 DEF GuardInv, SteadyStands, Standing, Requires
<1>9. ASSUME NEW p \in Places, NEW active \in BOOLEAN, NEW contexts \in Requirements,
             Administer(p, active, contexts)
      PROVE  GuardInv'
  <2>1. /\ rules' = [rules EXCEPT ![p] = [active |-> active, contexts |-> contexts]]
        /\ review' = [review EXCEPT !.steady = {s \in @ : s[1] = p => active /\ s[2] \in contexts}]
        /\ main' = main /\ surfaces' = surfaces
    BY <1>9 DEF Administer
  <2>2. rules' \in [Places -> [active : BOOLEAN, contexts : SUBSET Seq(JobNames)]]
    BY <2>1, GuardAssumption DEF GuardInv
  <2>3. /\ review'.steady = {s \in review.steady : s[1] = p => active /\ s[2] \in contexts}
        /\ review'.pc = review.pc /\ review'.head = review.head /\ review'.left = review.left
        /\ review'.contexts = review.contexts /\ review'.verdict = review.verdict
        /\ review'.allow = review.allow
        /\ DOMAIN review' = DOMAIN NoReview
    BY <2>1 DEF GuardInv, ReviewHolds
  <2>4. ReviewHolds(review')
    BY <2>3 DEF GuardInv, ReviewHolds
  <2>5. ASSUME SteadyStands PROVE SteadyStands'
    <3>1. ASSUME NEW s \in review'.steady PROVE s \in Standing'
      <4>1. s \in review.steady /\ s \in Standing /\ (s[1] = p => active /\ s[2] \in contexts)
        BY <2>3, <2>5 DEF SteadyStands
      <4>2. s[1] \in Places /\ s[2] \in Requires(s[1]) /\ s = <<s[1], s[2]>>
        BY <4>1, StandingIsTyped DEF GuardInv
      <4>3. s[2] \in Requires(s[1])'
        <5>1. CASE s[1] = p
          BY <2>1, <4>1, <4>2, <5>1 DEF Requires, GuardInv
        <5>2. CASE s[1] # p
          BY <2>1, <4>2, <5>2 DEF Requires, GuardInv
        <5> QED  BY <5>1, <5>2
      <4> QED  BY <4>2, <4>3 DEF Standing
    <3> QED  BY <3>1 DEF SteadyStands
  <2> QED  BY <2>1, <2>2, <2>3, <2>4, <2>5 DEF GuardInv, SurfacesHold
<1>10. CASE UNCHANGED guardVars
  BY <1>10 DEF guardVars, GuardInv, SteadyStands, Standing, Requires, SurfacesHold
<1> QED  BY <1>1, <1>2, <1>3, <1>4, <1>5, <1>6, <1>7, <1>8, <1>9, <1>10 DEF GuardNext

-----------------------------------------------------------------------------
\* A condition the guard takes for excluding is one the host excludes by.
LEMMA ExcludedIsKeptOff ==
  ASSUME NEW when, NEW on, IsExcluded(when, on \cap PrEvents)
  PROVE  (on \cap PrEvents) \ ReallyExcludes(when) = {}
<1>1. PrEvents = {"pull_request", "pull_request_target"}
  BY DEF PrEvents
<1>2. when \in {"neither_call", "neither_and", "not_pull_request", "not_target"}
  BY DEF IsExcluded
<1> QED  BY <1>1, <1>2 DEF IsExcluded, ReallyExcludes

\* A job the path guard let pass and a pull request can start is declared.
LEMMA PathIsDeclared ==
  ASSUME NEW files, NEW allow, PathClean(files, allow), NEW f \in Files, FitText(files[f]),
         NEW j \in files[f].jobs, (files[f].on \cap PrEvents) \ ReallyExcludes(j.when) # {}
  PROVE  /\ Key(f, j) \in DOMAIN allow.reasons
         /\ allow.reasons[Key(f, j)] # "blank"
         /\ j.uses # "none" => Key(f, j) \in allow.reusable
<1> DEFINE named(k) == CHOOSE i \in files[k[1]].jobs : i.label = k[2]
<1>1. files[f].kind = "good"
  BY DEF PathClean, FitText
<1>2. ~IsExcluded(j.when, files[f].on \cap PrEvents) /\ files[f].on \cap PrEvents # {}
  BY ExcludedIsKeptOff
<1>3. Key(f, j) \in Reachable(files)
  <2>1. j \in {i \in files[f].jobs : /\ files[f].on \cap PrEvents # {}
                                    /\ ~IsExcluded(i.when, files[f].on \cap PrEvents)}
    BY <1>2
  <2>2. f \in {g \in Files : files[g].kind = "good"}
    BY <1>1
  <2> HIDE DEF named
  <2>3. Key(f, j) \in {Key(f, k) : k \in {i \in files[f].jobs : /\ files[f].on \cap PrEvents # {}
                                    /\ ~IsExcluded(i.when, files[f].on \cap PrEvents)}}
    BY <2>1
  <2> QED  BY <2>2, <2>3 DEF Reachable
<1>4. Key(f, j)[1] = f /\ Key(f, j)[2] = j.label
  BY DEF Key
<1>5. named(Key(f, j)) = j
  <2>1. \A i \in files[f].jobs : i.label = j.label <=> i = j
    BY DEF FitText
  <2> QED  BY <1>4, <2>1
<1>6. Reachable(files) = DOMAIN allow.reasons
  BY DEF PathClean
<1>7. \A k \in Reachable(files) : allow.reasons[k] # "blank"
  BY DEF PathClean
<1>8. \A k \in Reachable(files) : named(k).uses # "none" => k \in allow.reusable
  BY DEF PathClean
<1> HIDE DEF named
<1>9. Key(f, j) \in DOMAIN allow.reasons
  BY <1>3, <1>6
<1>10. allow.reasons[Key(f, j)] # "blank"
  BY <1>3, <1>7
<1>11. j.uses # "none" => Key(f, j) \in allow.reusable
  BY <1>3, <1>5, <1>8
<1> QED  BY <1>9, <1>10, <1>11

\* The declared red bites while its surfaces hold.
LEMMA HoldingBites ==
  ASSUME SurfacesHold
  PROVE  DeclarationsBite
<1> SUFFICES ASSUME NEW f \in Files
             PROVE  LET text == surfaces.tree[f]
                    IN /\ text.env.semantics \notin {"none", "execution-health"}
                             => f \in surfaces.findings \cup surfaces.gates
                       /\ f \in surfaces.findings \cup surfaces.gates
                             => text.env.steps # {} /\ text.env.steps \subseteq StepNames(text)
                       /\ f \in surfaces.findings
                             => Tolerated(text) \subseteq text.env.steps \cup text.env.exempt
  BY DEF DeclarationsBite
<1> DEFINE text == surfaces.tree[f]
<1>1. CASE surfaces = [tree |-> [g \in Files |-> NoText], findings |-> {}, gates |-> {}]
  <2>1. text = NoText /\ surfaces.findings = {} /\ surfaces.gates = {}
    BY <1>1
  <2>2. NoText.env.semantics = "none"
    BY DEF NoText, Undeclared
  <2> QED  BY <2>1, <2>2
<1>2. CASE /\ \A g \in Files : FitText(surfaces.tree[g])
           /\ Strict(surfaces.tree)
           /\ surfaces.findings = InForce(surfaces.tree, "finding-surface")
           /\ surfaces.gates = InForce(surfaces.tree, "operator-gated")
  <2>1. FitText(text) /\ text.kind # "broken" /\ (Parsed(text) => DeclarationHolds(text))
    BY <1>2 DEF Strict
  <2>2. /\ f \in surfaces.findings <=> Parsed(text) /\ text.env.semantics = "finding-surface"
                                         /\ DeclarationHolds(text)
        /\ f \in surfaces.gates <=> Parsed(text) /\ text.env.semantics = "operator-gated"
                                         /\ DeclarationHolds(text)
    BY <1>2 DEF InForce
  <2>3. Parsed(text) \/ text.env.semantics = "none"
    BY <2>1 DEF FitText, Parsed
  <2> HIDE DEF text
  <2>4. text.env.semantics \notin {"none", "execution-health"}
           => f \in surfaces.findings \cup surfaces.gates
    BY <2>1, <2>2, <2>3 DEF DeclarationHolds, Legal
  <2>5. f \in surfaces.findings \cup surfaces.gates
           => text.env.steps # {} /\ text.env.steps \subseteq StepNames(text)
    BY <2>2 DEF DeclarationHolds
  <2>6. f \in surfaces.findings => Tolerated(text) \subseteq text.env.steps \cup text.env.exempt
    BY <2>2 DEF DeclarationHolds
  <2> QED  BY <2>4, <2>5, <2>6 DEF text
<1> QED  BY <1>1, <1>2 DEF SurfacesHold

\* The files a history starts from passed the guards of its day.
FirstTreeIsFit(files) == /\ DOMAIN files = Files /\ Strict(files)
                        /\ \A f \in Files : FitText(files[f])

\* The invariant, from any first tree that is fit to parse.
LEMMA GuardHolds ==
  ASSUME NEW CONSTANT files, FirstTreeIsFit(files)
  PROVE  GuardSpec(files) => []GuardInv
<1>1. GuardInit(files) => GuardInv
  <2> SUFFICES ASSUME GuardInit(files) PROVE GuardInv
    OBVIOUS
  <2>1. rules \in [Places -> [active : BOOLEAN, contexts : SUBSET Seq(JobNames)]]
    <3>1. [active |-> FALSE, contexts |-> {}] \in [active : BOOLEAN, contexts : SUBSET Seq(JobNames)]
      OBVIOUS
    <3>2. \A p \in Places : rules[p] = [active |-> FALSE, contexts |-> {}]
      BY DEF GuardInit
    <3>3. rules = [p \in Places |-> rules[p]]
      BY DEF GuardInit
    <3> HIDE DEF Places
    <3> QED  BY <3>1, <3>2, <3>3
  <2>2. review.pc = "idle"
    BY DEF GuardInit, NoReview
  <2> QED  BY <2>1, <2>2, IdleHolds DEF GuardInit, GuardInv, FirstTreeIsFit, SurfacesHold
<1>2. GuardInv /\ [GuardNext]_guardVars => GuardInv'
  BY GuardStepKept
<1> QED  BY <1>1, <1>2, PTL DEF GuardSpec

\* On a head the guards passed, every job the host may run on a pull request is
\* in the allowlist, and what the default branch declares of its red is in force
\* for the nightly grader (pr_path_guard.py, workflow_health_semantics.py).
THEOREM GreenRunsWhatIsDeclared ==
  ASSUME NEW CONSTANT files, FirstTreeIsFit(files)
  PROVE  GuardSpec(files) => []GreenIsDeclared
<1>1. GuardInv => GreenIsDeclared
  <2> SUFFICES ASSUME GuardInv PROVE GreenPathIsDeclared /\ DeclarationsBite
    BY DEF GreenIsDeclared
  <2>1. ASSUME review.pc = "graded", review.verdict = "green"
        PROVE  PathClean(review.head, review.allow) /\ \A f \in Files : FitText(review.head[f])
    BY <2>1 DEF GuardInv, ReviewHolds, GuardVerdict
  <2>2. GreenPathIsDeclared
    BY <2>1, PathIsDeclared DEF GreenPathIsDeclared
  <2> QED  BY <2>2, HoldingBites DEF GuardInv
<1> QED  BY <1>1, GuardHolds, PTL

\* Whatever the administrators change between the guard's requests, a head it
\* passed reports on a merge group every check that one place required all
\* along, but for the two kinds it takes for covered (merge_queue.py).
THEOREM GreenHeadReports ==
  ASSUME NEW CONSTANT files, FirstTreeIsFit(files)
  PROVE  GuardSpec(files) => []GreenMeansReported
<1>1. GuardInv => GreenMeansReported
  <2> SUFFICES ASSUME GuardInv, review.pc = "graded", review.verdict = "green",
                      NEW s \in review.steady
               PROVE  s[2] \in HostReports(review.head) \/ Overmatched(review.head, s[2])
    BY DEF GreenMeansReported
  <2>1. /\ s[2] \in review.contexts /\ s \in Places \X Seq(JobNames)
        /\ \A f \in Files : FitText(review.head[f])
        /\ GuardVerdict(review.head, review.contexts, review.allow) = "green"
    BY DEF GuardInv, ReviewHolds
  <2>2. CoverageGaps(review.contexts, review.head) = {}
    BY <2>1 DEF GuardVerdict
  <2>3. \A j \in Jobs(review.head) : j.label \in JobNames
    BY <2>1, GuardAssumption DEF Jobs, FitText
  <2>4. s[2] \in Seq(JobNames)
    BY <2>1
  <2> QED  BY <2>1, <2>2, <2>3, <2>4, CoveredIsReported
<1> QED  BY <1>1, GuardHolds, PTL

-----------------------------------------------------------------------------
(* The cost gate.  What a diff shows of a thing that bills is a finding, or *)
(* a schedule noted as not graded: then a merge of a green request, whose   *)
(* findings were none, lets nothing bill but what is excused.               *)

FitTree(t) ==
    \A s \in Slots : /\ t[s].kind = "statement" => t[s].actions \subseteq DOMAIN Acts
                     /\ t[s].kind = "string" => t[s].action \in DOMAIN Acts

\* A pattern is approved only if every action under it is.
LEMMA ApprovedPattern ==
  ASSUME NEW p \in DOMAIN Acts, NEW doc, GradeActionPattern(p, doc) = "approved", NEW a \in Acts[p]
  PROVE  ActionApproved(a, doc)
<1> DEFINE s == PatternService(p)
<1>1. p \notin Wildcards
  BY DEF GradeActionPattern
<1>2. s = ServiceOf[a]
  <2> DEFINE S == {ServiceOf[x] : x \in Acts[p]}
  <2>1. S = {ServiceOf[a]}
    BY <1>1, CostAssumption
  <2>2. s = CHOOSE x \in S : TRUE
    BY DEF PatternService
  <2> QED  BY <2>1, <2>2
<1> HIDE DEF s
<1>3. \/ s \in NotAService
      \/ s \in doc.free /\ ~Narrowed(doc, s)
      \/ s \in doc.free /\ \E x \in FreeFor(doc, s) : PatternWithin(p, x)
      \/ s \in doc.budgeted
  BY <1>1 DEF GradeActionPattern, s, ApprovedPrefixes
<1>4. \A x : PatternWithin(p, x) => a \in Acts[x]
  BY DEF PatternWithin
<1> QED  BY <1>2, <1>3, <1>4 DEF ActionApproved

\* What a standing Deny covers of a pattern, it denies of every action.
LEMMA DeniedPattern ==
  ASSUME NEW p \in DOMAIN Acts, NEW t, FitTree(t), NEW at, DeniedBy(p, t, at), NEW a \in Acts[p]
  PROVE  a \in Denied(t, at)
<1>1. PICK s \in StandingDenies(t, at) :
          IF t[s].key = "NotAction" THEN ~ \E x \in t[s].actions : GlobsOverlap(p, x)
          ELSE \E d \in t[s].actions : PatternWithin(p, d)
  BY DEF DeniedBy
<1>2. a \in Universe
  BY CostAssumption
<1> DEFINE denies == {x \in WithStatement(t, at) : t[x].effect = "Deny" /\ t[x].standing}
           subtracts(x) == Named(t[x])
<1>3. s \in denies
  BY <1>1 DEF StandingDenies
<1>4. a \in subtracts(s)
  <2>1. CASE t[s].key = "NotAction"
    <3>1. \A x \in t[s].actions : a \notin Acts[x]
      BY <1>1, <2>1 DEF GlobsOverlap
    <3> QED  BY <1>2, <2>1, <3>1 DEF Named
  <2>2. CASE t[s].key # "NotAction"
    <3>1. PICK d \in t[s].actions : PatternWithin(p, d)
      BY <1>1, <2>2
    <3>2. a \in Acts[d]
      BY <3>1 DEF PatternWithin
    <3> QED  BY <2>2, <3>1, <3>2 DEF Named
  <2> QED  BY <2>1, <2>2
<1>5. Denied(t, at) = UNION {subtracts(x) : x \in denies}
  BY DEF Denied
<1> HIDE DEF subtracts, denies
<1> QED  BY <1>3, <1>4, <1>5

\* A grant of a statement that bills and is shown is a finding.
LEMMA ShownGrantIsFound ==
  ASSUME NEW t, FitTree(t), NEW added, NEW doc,
         NEW s \in ItemsOf(t, "statement"), FileOf[s] \notin Tests \cup Captures,
         NEW a \in Granted(t, s), ~ActionApproved(a, doc), Shown(<<s, "grant", a>>, t[s], added)
  PROVE  GradeActionsStructurally(t, added, doc) # {}
<1>1. /\ s \in Slots /\ t[s].kind = "statement" /\ t[s].actions \subseteq DOMAIN Acts
      /\ t[s].effect # "Deny" /\ ~Broken(t, FileOf[s])
      /\ a \in Named(t[s]) /\ a \notin Denied(t, s)
  BY DEF ItemsOf, Granted, FitTree
<1>2. \E p \in t[s].actions :
         /\ <<s, "value", p>> \in added
         /\ IF t[s].key = "NotAction" THEN ~DeniedBy("*", t, s)
            ELSE GradeActionPattern(p, doc) # "approved" /\ ~DeniedBy(p, t, s)
  <2>1. CASE t[s].key = "NotAction"
    <3>1. PICK p \in t[s].actions : <<s, "value", p>> \in added
      BY <1>1, <2>1 DEF Shown
    <3>2. a \in Universe
      BY <1>1, <2>1 DEF Named
    <3>3. ~DeniedBy("*", t, s)
      BY <1>1, <3>2, DeniedPattern, CostAssumption
    <3> QED  BY <2>1, <3>1, <3>3
  <2>2. CASE t[s].key # "NotAction"
    <3>1. PICK p \in t[s].actions : a \in Acts[p] /\ <<s, "value", p>> \in added
      BY <1>1, <2>2 DEF Shown
    <3>2. p \in DOMAIN Acts
      BY <1>1
    <3>3. ~DeniedBy(p, t, s)
      BY <1>1, <3>1, <3>2, DeniedPattern
    <3>4. GradeActionPattern(p, doc) # "approved"
      BY <3>1, <3>2, ApprovedPattern
    <3> QED  BY <2>2, <3>1, <3>3, <3>4
  <2> QED  BY <2>1, <2>2
<1>3. PICK p \in t[s].actions :
         /\ <<s, "value", p>> \in added
         /\ IF t[s].key = "NotAction" THEN ~DeniedBy("*", t, s)
            ELSE GradeActionPattern(p, doc) # "approved" /\ ~DeniedBy(p, t, s)
  BY <1>2
<1> DEFINE found(x) == {<<x, "grant", q>> : q \in
              {r \in t[x].actions : /\ <<x, "value", r>> \in added
                                    /\ IF t[x].key = "NotAction" THEN ~DeniedBy("*", t, x)
                                       ELSE /\ GradeActionPattern(r, doc) # "approved"
                                            /\ ~DeniedBy(r, t, x)}}
           granting == {x \in ItemsOf(t, "statement") : /\ FileOf[x] \notin Tests \cup Captures
                                                        /\ t[x].effect # "Deny" /\ ~Broken(t, FileOf[x])}
<1>4. s \in granting
  BY <1>1
<1>5. <<s, "grant", p>> \in found(s)
  BY <1>3
<1>6. GradeActionsStructurally(t, added, doc) = UNION {found(x) : x \in granting}
  BY DEF GradeActionsStructurally
<1> HIDE DEF found, granting
<1> QED  BY <1>4, <1>5, <1>6

\* So is whatever else bills and is shown, but for a schedule whose target is
\* in no service the gate knows, which is noted.
LEMMA ShownIsFound ==
  ASSUME NEW t, FitTree(t), NEW added, NEW doc,
         NEW b \in Billing(t, doc), Shown(b, t[b[1]], added), b \notin Ungraded(t, added)
  PROVE  Findings(t, added, doc) # {}
<1> DEFINE graded == {x \in ItemsOf(t, "statement") : FileOf[x] \notin Tests \cup Captures}
           written == {x \in ItemsOf(t, "string") : FileOf[x] \notin Tests \cup Captures}
<1>1. CASE b \in BilledGrants(t, doc)
  <2>1. PICK s \in graded : b \in GrantsOf(t, doc, s)
    BY <1>1 DEF BilledGrants
  <2>2. PICK a \in Granted(t, s) : b = <<s, "grant", a>> /\ ~ActionApproved(a, doc)
    BY <2>1 DEF GrantsOf
  <2>3. s \in ItemsOf(t, "statement") /\ FileOf[s] \notin Tests \cup Captures
    OBVIOUS
  <2>4. Shown(<<s, "grant", a>>, t[s], added)
    BY <2>2
  <2> HIDE DEF graded
  <2>5. GradeActionsStructurally(t, added, doc) # {}
    BY <2>2, <2>3, <2>4, ShownGrantIsFound
  <2> QED  BY <2>5 DEF Findings
<1>2. CASE b \in BilledStrings(t, doc)
  <2>1. PICK s \in written : b \in WrittenOf(t, doc, s)
    BY <1>2 DEF BilledStrings
  <2>2. PICK a \in Acts[t[s].action] : b = <<s, "grant", a>> /\ ~ActionApproved(a, doc)
    BY <2>1 DEF WrittenOf
  <2>3. /\ s \in ItemsOf(t, "string") /\ FileOf[s] \notin Tests \cup Captures
        /\ s \in Slots /\ t[s].kind = "string" /\ t[s].action \in DOMAIN Acts
    BY DEF ItemsOf, FitTree
  <2>4. <<s, "value", t[s].action>> \in added /\ (t[s].keyed \/ t[s].action \notin Wildcards)
    <3>1. b[1] = s /\ Shown(b, t[s], added)
      BY <2>2
    <3> QED  BY <2>3, <3>1 DEF Shown
  <2>5. GradeActionPattern(t[s].action, doc) # "approved"
    BY <2>2, <2>3, ApprovedPattern
  <2> HIDE DEF written
  <2>6. <<s, "grant", t[s].action>> \in GradeActionsByLine(t, added, doc)
    <3>1. <<s, "grant", t[s].action>> \in GradeStrings(t, added, doc)
      BY <2>3, <2>4, <2>5 DEF GradeStrings
    <3> QED  BY <3>1 DEF GradeActionsByLine
  <2> QED  BY <2>6 DEF Findings
<1>3. CASE b \in BilledResources(t, doc)
  <2>1. PICK s \in ItemsOf(t, "resource") :
             /\ b = <<s, "resource", t[s].type>> /\ FileOf[s] \notin Tests
             /\ TypeService[t[s].type] \notin Services(doc)
    BY <1>3 DEF BilledResources
  <2>2. t[s].kind = "resource" /\ s \in Slots /\ LinesOf(s, t[s]) = {<<s, "type", t[s].type>>}
    BY DEF ItemsOf, LinesOf
  <2>3. <<s, "type", t[s].type>> \in added
    BY <2>1, <2>2 DEF Shown
  <2>4. Services(doc) = Wholesale(doc)
    BY DEF Services, Wholesale, ApprovedPrefixes
  <2>5. b \in GradeResources(t, added, doc)
    BY <2>1, <2>3, <2>4 DEF GradeResources
  <2> QED  BY <2>5 DEF Findings
<1>4. CASE b \in BilledClients(t, doc)
  <2>1. PICK s \in ItemsOf(t, "client") :
             /\ b = <<s, "client", t[s].service>> /\ FileOf[s] \notin Tests
             /\ t[s].service \notin Services(doc) \cup NotAService
    BY <1>4 DEF BilledClients
  <2>2. t[s].kind = "client" /\ s \in Slots /\ LinesOf(s, t[s]) = {<<s, "client", t[s].service>>}
    BY DEF ItemsOf, LinesOf
  <2>3. <<s, "client", t[s].service>> \in added
    BY <2>1, <2>2 DEF Shown
  <2>4. Services(doc) = Wholesale(doc)
    BY DEF Services, Wholesale, ApprovedPrefixes
  <2>5. b \in GradeClients(t, added, doc)
    BY <2>1, <2>3, <2>4 DEF GradeClients
  <2> QED  BY <2>5 DEF Findings
<1>5. CASE b \in BilledRetries(t)
  <2>1. PICK s \in ItemsOf(t, "schedule") :
             b = <<s, "retry", t[s].retry>> /\ FileOf[s] \notin Tests /\ t[s].clock /\ t[s].retry # "bounded"
    BY <1>5 DEF BilledRetries
  <2>2. t[s].kind = "schedule"
    BY DEF ItemsOf
  <2>3. s \in Graded(t, added)
    BY <2>1, <2>2 DEF Graded, Shown
  <2>4. b \in GradeCfnSchedules(t, added, doc)
    BY <2>1, <2>3 DEF GradeCfnSchedules
  <2> QED  BY <2>4 DEF Findings
<1>6. CASE b \in BilledTargets(t, doc)
  <2>1. PICK s \in ItemsOf(t, "schedule") :
             /\ b = <<s, "target", ResolveTargetService(t, s)>> /\ FileOf[s] \notin Tests /\ t[s].clock
             /\ ResolveTargetService(t, s) \notin Services(doc)
    BY <1>6 DEF BilledTargets
  <2>2. t[s].kind = "schedule"
    BY DEF ItemsOf
  <2>3. s \in Graded(t, added)
    BY <2>1, <2>2 DEF Graded, Shown
  <2>4. Services(doc) = Wholesale(doc)
    BY DEF Services, Wholesale, ApprovedPrefixes
  <2>5. ResolveTargetService(t, s) # "unmapped"
    BY <2>1, <2>3 DEF Ungraded
  <2>6. b \in GradeCfnSchedules(t, added, doc)
    BY <2>1, <2>3, <2>4, <2>5 DEF GradeCfnSchedules
  <2> QED  BY <2>6 DEF Findings
<1> QED  BY <1>1, <1>2, <1>3, <1>4, <1>5, <1>6 DEF Billing

\* A line added is a line of the slot it is in, and not of its base.
LEMMA ShownIsTouched ==
  ASSUME NEW base, NEW head, NEW item, NEW b, NEW s \in Slots, s = b[1],
         Shown(b, item, Added(base, head))
  PROVE  head[s] # base[s]
<1>1. ASSUME NEW u \in Slots, NEW x, NEW l \in LinesOf(u, x) PROVE l[1] = u
  BY DEF LinesOf, LineIf
<1>2. \E l \in Added(base, head) : l[1] = s
  <2>1. \A k, v : <<s, k, v>>[1] = s
    OBVIOUS
  <2>2. \A l \in LinesOf(s, item) : l[1] = s
    BY <1>1
  <2> QED  BY <2>1, <2>2 DEF Shown
<1>3. PICK l \in Added(base, head) : l[1] = s
  BY <1>2
<1>4. PICK u \in Slots : l \in LinesOf(u, head[u]) /\ l \notin LinesOf(u, base[u])
  BY DEF Added
<1>5. u = s
  BY <1>1, <1>3, <1>4
<1> QED  BY <1>4, <1>5

\* What bills is named by its slot.
LEMMA BillingNames ==
  ASSUME NEW t, NEW doc, NEW b \in Billing(t, doc)
  PROVE  b[1] \in Slots
<1>1. \A kind : \A s \in ItemsOf(t, kind) : s \in Slots
  BY DEF ItemsOf
<1>2. CASE b \in BilledGrants(t, doc)
  BY <1>1, <1>2 DEF BilledGrants, GrantsOf
<1>3. CASE b \in BilledStrings(t, doc)
  BY <1>1, <1>3 DEF BilledStrings, WrittenOf
<1>4. CASE b \in BilledResources(t, doc)
  BY <1>1, <1>4 DEF BilledResources
<1>5. CASE b \in BilledClients(t, doc)
  BY <1>1, <1>5 DEF BilledClients
<1>6. CASE b \in BilledRetries(t)
  BY <1>1, <1>6 DEF BilledRetries
<1>7. CASE b \in BilledTargets(t, doc)
  BY <1>1, <1>7 DEF BilledTargets
<1> QED  BY <1>2, <1>3, <1>4, <1>5, <1>6, <1>7 DEF Billing

-----------------------------------------------------------------------------
RequestHolds(seen) ==
    /\ DOMAIN seen = DOMAIN NoRequest
    /\ seen.head = [s \in Slots |-> seen.head[s]]
    /\ FitTree(seen.head)
    /\ seen.pc = "green" =>
          /\ Findings(seen.head, Added(seen.base, seen.head), seen.doc) = {}
          /\ seen.noted = Ungraded(seen.head, Added(seen.base, seen.head))

CostInv ==
    /\ tree = [s \in Slots |-> tree[s]] /\ FitTree(tree)
    /\ request = [r \in Requests |-> request[r]]
    /\ \A r \in Requests : RequestHolds(request[r])
    /\ NoUnseenSpend

\* Of what a merge of a green request brings, all that bills is excused.
LEMMA MergeExcuses ==
  ASSUME CostInv, NEW r \in Requests, Merge(r)
  PROVE  NoUnseenSpend' /\ tree' = [s \in Slots |-> tree'[s]] /\ FitTree(tree')
<1> DEFINE base == request[r].base
           head == request[r].head
           touched == {s \in Slots : head[s] # base[s]}
           merged == [s \in Slots |-> IF s \in touched THEN head[s] ELSE tree[s]]
           added == Added(base, head)
<1>1. /\ request[r].pc = "green" /\ tree' = merged /\ ledger' = ledger
      /\ excused' = (excused \cap Billing(merged, ledger))
                        \cup {b \in Billing(merged, ledger) \ Billing(tree, ledger) :
                                 \/ ~Shown(b, merged[b[1]], added)
                                 \/ b \notin Billing(head, request[r].doc)
                                 \/ b \in request[r].noted}
  BY DEF Merge
<1>2. /\ Findings(head, added, request[r].doc) = {} /\ request[r].noted = Ungraded(head, added)
      /\ FitTree(head) /\ FitTree(tree)
  BY <1>1 DEF CostInv, RequestHolds
<1>3. FitTree(merged)
  BY <1>2 DEF FitTree
<1>4. ASSUME NEW b \in Billing(merged, ledger), b \in Billing(head, request[r].doc),
             Shown(b, merged[b[1]], added)
      PROVE  b \in request[r].noted
  <2> SUFFICES ASSUME b \notin Ungraded(head, added) PROVE FALSE
    BY <1>2
  <2>1. PICK s \in Slots : s = b[1]
    BY BillingNames
  <2>3. head[s] # base[s]
    BY <1>4, <2>1, ShownIsTouched
  <2>4. merged[s] = head[s]
    BY <2>3
  <2> HIDE DEF head, base, merged, added
  <2>5. Shown(b, head[b[1]], added)
    BY <1>4, <2>1, <2>4
  <2>6. Findings(head, added, request[r].doc) # {}
    BY <1>2, <1>4, <2>5, ShownIsFound
  <2> QED  BY <1>2, <2>6
<1> HIDE DEF head, base, merged, added
<1>5. Billing(tree, ledger) \subseteq excused
  BY DEF CostInv, NoUnseenSpend
<1>6. Billing(merged, ledger) \subseteq excused'
  BY <1>1, <1>4, <1>5
<1>7. merged = [s \in Slots |-> merged[s]]
  BY DEF merged
<1> QED  BY <1>1, <1>3, <1>6, <1>7 DEF NoUnseenSpend

\* A request that asks nothing promises nothing.
LEMMA IdleRequestHolds == RequestHolds(NoRequest)
BY DEF RequestHolds, NoRequest, FitTree, Nothing

\* One request moves, and the others stand.
LEMMA RequestKept ==
  ASSUME CostInv, NEW r \in Requests, NEW q, request' = [request EXCEPT ![r] = q], RequestHolds(q)
  PROVE  /\ request' = [p \in Requests |-> request'[p]]
         /\ \A p \in Requests : RequestHolds(request'[p])
<1>1. request = [p \in Requests |-> request[p]] /\ \A p \in Requests : RequestHolds(request[p])
  BY DEF CostInv
<1>2. request' = [p \in Requests |-> request'[p]]
  BY <1>1
<1>3. \A p \in Requests : request'[p] = IF p = r THEN q ELSE request[p]
  BY <1>1
<1> QED  BY <1>1, <1>2, <1>3

\* Every step.
LEMMA CostStepKept ==
  ASSUME CostInv, [CostNext]_costVars
  PROVE  CostInv'
<1> DEFINE fields == {"pc", "base", "head", "findings", "noted", "doc"}
<1>0. DOMAIN NoRequest = fields
  BY DEF NoRequest
<1>1. ASSUME NEW r \in Requests, NEW s \in Slots, NEW item \in Variants[s] \cup {Nothing},
             OpenRequest(r, s, item)
      PROVE  CostInv'
  <2> DEFINE q == [NoRequest EXCEPT !.pc = "open", !.base = tree, !.head = [tree EXCEPT ![s] = item]]
  <2>1. q.pc = "open" /\ q.head = [tree EXCEPT ![s] = item] /\ DOMAIN q = DOMAIN NoRequest
    BY DEF NoRequest
  <2>2. /\ item.kind = "statement" => item.actions \subseteq DOMAIN Acts
        /\ item.kind = "string" => item.action \in DOMAIN Acts
    BY CostAssumption DEF Nothing
  <2>3. request' = [request EXCEPT ![r] = q] /\ tree' = tree /\ ledger' = ledger /\ excused' = excused
    BY <1>1 DEF OpenRequest
  <2> HIDE DEF q
  <2>4. RequestHolds(q)
    BY <2>1, <2>2 DEF RequestHolds, CostInv, FitTree
  <2> QED  BY <2>3, <2>4, RequestKept DEF CostInv, NoUnseenSpend
<1>2. ASSUME NEW r \in Requests, NEW s \in Slots, NEW item \in Variants[s] \cup {Nothing},
             AmendRequest(r, s, item)
      PROVE  CostInv'
  <2> DEFINE q == [request[r] EXCEPT !.head[s] = item]
  <2>1. RequestHolds(request[r]) /\ request[r].pc = "open"
    BY <1>2 DEF CostInv, AmendRequest
  <2>2. q.pc = "open" /\ q.head = [request[r].head EXCEPT ![s] = item] /\ DOMAIN q = DOMAIN NoRequest
    BY <1>0, <2>1 DEF RequestHolds
  <2>3. /\ item.kind = "statement" => item.actions \subseteq DOMAIN Acts
        /\ item.kind = "string" => item.action \in DOMAIN Acts
    BY CostAssumption DEF Nothing
  <2>4. request' = [request EXCEPT ![r] = q] /\ tree' = tree /\ ledger' = ledger /\ excused' = excused
    BY <1>2 DEF AmendRequest
  <2> HIDE DEF q
  <2>5. RequestHolds(q)
    BY <2>1, <2>2, <2>3 DEF RequestHolds, FitTree
  <2> QED  BY <2>4, <2>5, RequestKept DEF CostInv, NoUnseenSpend
<1>3. ASSUME NEW r \in Requests, RunGate(r)
      PROVE  CostInv'
  <2> DEFINE added == Added(request[r].base, request[r].head)
             found == Findings(request[r].head, added, ledger)
             q == [request[r] EXCEPT !.findings = found, !.noted = Ungraded(request[r].head, added),
                      !.doc = ledger, !.pc = IF LoadSsot(ledger) /\ found = {} THEN "green" ELSE "red"]
  <2>1. RequestHolds(request[r]) /\ DOMAIN request[r] = fields
    BY <1>0 DEF CostInv, RequestHolds
  <2>2. /\ q.head = request[r].head /\ q.base = request[r].base /\ q.doc = ledger
        /\ q.noted = Ungraded(request[r].head, added) /\ (q.pc = "green" => found = {})
        /\ DOMAIN q = DOMAIN NoRequest
    BY <1>0, <2>1
  <2>3. request' = [request EXCEPT ![r] = q]
    BY <1>3 DEF RunGate
  <2>4. tree' = tree /\ ledger' = ledger /\ excused' = excused
    BY <1>3 DEF RunGate
  <2> HIDE DEF q
  <2>5. RequestHolds(q)
    BY <2>1, <2>2 DEF RequestHolds
  <2> QED  BY <2>3, <2>4, <2>5, RequestKept DEF CostInv, NoUnseenSpend
<1>4. ASSUME NEW r \in Requests, Merge(r)
      PROVE  CostInv'
  <2>1. request' = [request EXCEPT ![r] = NoRequest]
    BY <1>4 DEF Merge
  <2>2. NoUnseenSpend' /\ tree' = [s \in Slots |-> tree'[s]] /\ FitTree(tree')
    BY <1>4, MergeExcuses
  <2> QED  BY <2>1, <2>2, IdleRequestHolds, RequestKept DEF CostInv
<1>5. ASSUME NEW r \in Requests, Abandon(r)
      PROVE  CostInv'
  <2>1. request' = [request EXCEPT ![r] = NoRequest] /\ tree' = tree /\ ledger' = ledger /\ excused' = excused
    BY <1>5 DEF Abandon
  <2> QED  BY <2>1, IdleRequestHolds, RequestKept DEF CostInv, NoUnseenSpend
<1>6. ASSUME NEW doc \in Ledgers, UpgradeLedger(doc)
      PROVE  CostInv'
  <2>1. /\ tree' = tree /\ request' = request /\ ledger' = doc
        /\ excused' = excused \cup Billing(tree, doc)
    BY <1>6 DEF UpgradeLedger
  <2> QED  BY <2>1 DEF CostInv, NoUnseenSpend
<1>7. CASE UNCHANGED costVars
  BY <1>7 DEF costVars, CostInv, NoUnseenSpend
<1> QED  BY <1>1, <1>2, <1>3, <1>4, <1>5, <1>6, <1>7 DEF CostNext

\* Whatever is merged, over whatever base, and whatever budget line is withdrawn,
\* nothing bills on the default branch that a diff showed the gate, but for the
\* schedules it counts as not graded (grade.py).
THEOREM ShownSpendIsStopped == CostSpec => []NoUnseenSpend
<1>1. CostInit => CostInv
  <2> SUFFICES ASSUME CostInit PROVE CostInv
    OBVIOUS
  <2>1. \A s \in Slots : tree[s].kind = "nothing"
    BY DEF CostInit, Nothing
  <2>2. Billing(tree, ledger) = {}
    <3>1. \A kind \in {"statement", "string", "resource", "client", "schedule"} : ItemsOf(tree, kind) = {}
      BY <2>1 DEF ItemsOf
    <3> QED  BY <3>1 DEF Billing, BilledGrants, BilledStrings, BilledResources, BilledClients,
                         BilledRetries, BilledTargets
  <2>3. tree = [s \in Slots |-> tree[s]] /\ request = [r \in Requests |-> request[r]]
    BY DEF CostInit
  <2>4. \A r \in Requests : RequestHolds(request[r])
    BY IdleRequestHolds DEF CostInit
  <2> QED  BY <2>1, <2>2, <2>3, <2>4 DEF CostInv, FitTree, NoUnseenSpend
<1>2. CostInv /\ [CostNext]_costVars => CostInv'
  BY CostStepKept
<1>3. CostInv => NoUnseenSpend
  BY DEF CostInv
<1> QED  BY <1>1, <1>2, <1>3, PTL DEF CostSpec

-----------------------------------------------------------------------------
(* The substrate check: a check c under way, row by row.                   *)

Judging == {"row", "source", "get"}

\* A check has the rows still to do, and the verdicts so far, among its inventory's rows.
Checked(c) ==
    /\ DOMAIN c = DOMAIN IdleCheck /\ c.n \in Nat
    /\ c.pc \in {"idle", "row", "source", "get", "emit", "done"}
    /\ c.pc # "idle" => c.inventory \in Inventories
    /\ IsList(c.todo) /\ Range(c.todo) \subseteq Range(c.inventory)
    /\ DOMAIN c.results \subseteq Range(c.inventory)
    /\ c.pc \in {"source", "get"} => c.todo # <<>>

\* What is put for a metric when all goes well.
Due(c, m) == <<IF m = "failed" THEN Cardinality(With(c.results, "fail"))
               ELSE RowValue(c.results[m]), c.n>>
DataOf(c) == DOMAIN c.results \cup {"failed"}

\* Before the telling nothing is put, nor ever by a rehearsal; of the rest what is not
\* left to put is put, unless a call failed or it was told not to.
ToldSoFar(c, put) ==
    /\ \A m \in DOMAIN put : put[m][2] \in Nat /\ put[m][2] <= c.n
    /\ (c.pc \in Judging \/ (c.quiet /\ c.pc \in {"emit", "done"}))
          => \A m \in DOMAIN put : put[m][2] < c.n
    /\ c.pc = "emit" => IsList(c.left)
    /\ c.pc = "emit" /\ c.quiet => c.left = <<>>
    /\ c.pc = "emit" /\ ~c.quiet /\ c.emitted = "no" =>
          \A m \in DataOf(c) : m \in Range(c.left) \/ put[m] = Due(c, m)

SubstrateInv ==
    /\ DOMAIN metrics = InventoryRows \cup {"failed"}
    /\ Checked(check) /\ ToldSoFar(check, metrics)
    /\ FailureIsHeard

\* What the assumption gives, in the form the provers use.
LEMMA SubstrateNumbers ==
  /\ BatchSize \in Nat /\ BatchSize >= 1 /\ "failed" \notin InventoryRows
  /\ \A inventory \in Inventories : IsList(inventory) /\ Range(inventory) \subseteq InventoryRows
<1>1. ASSUME NEW inventory \in Inventories
      PROVE  IsList(inventory) /\ Range(inventory) \subseteq InventoryRows
  <2>1. inventory \in Seq(InventoryRows)
    BY SubstrateAssumption
  <2>2. IsList(inventory)
    BY <2>1, SeqIsList
  <2>3. \A i \in DOMAIN inventory : inventory[i] \in InventoryRows
    BY <2>1, ElementOfSeq, LenProperties
  <2> QED  BY <2>2, <2>3 DEF Range
<1> QED  BY <1>1, SubstrateAssumption

LEMMA SubstrateStarts == SubstrateInit => SubstrateInv
<1> SUFFICES ASSUME SubstrateInit PROVE SubstrateInv
  OBVIOUS
<1>1. check = IdleCheck /\ metrics = [m \in InventoryRows \cup {"failed"} |-> <<0, 0>>]
  BY DEF SubstrateInit
<1>2. IsList(<<>>) /\ DOMAIN <<>> = {}
  BY EmptyIsList
<1>3. /\ check.pc = "idle" /\ check.n = 0 /\ check.todo = <<>> /\ check.inventory = <<>>
      /\ check.results = <<>> /\ check.quiet = FALSE /\ DOMAIN check = DOMAIN IdleCheck
  BY <1>1 DEF IdleCheck
<1>4. Checked(check)
  BY <1>2, <1>3 DEF Checked, Range
<1>5. \A m \in DOMAIN metrics : metrics[m][2] = 0
  BY <1>1
<1>6. ToldSoFar(check, metrics)
  BY <1>3, <1>5 DEF ToldSoFar, Judging
<1> QED  BY <1>1, <1>3, <1>4, <1>6 DEF SubstrateInv, FailureIsHeard

\* The elements of a list without its first.
LEMMA TailAmong == ASSUME NEW s, IsList(s), s # <<>>
                   PROVE  /\ IsList(Tail(s)) /\ Range(Tail(s)) \subseteq Range(s)
                          /\ Head(s) \in Range(s)
<1>1. PICK t : t = Tail(s)
  OBVIOUS
<1>2. Shorter(s, t)
  BY <1>1, ListShrinks, Zenon
<1>3. /\ IsList(t) /\ DOMAIN s = 1 .. Len(s) /\ DOMAIN t = 1 .. Len(s) - 1 /\ Len(s) \in Nat
      /\ Head(s) = s[1] /\ 1 \in DOMAIN s /\ \A i \in 1 .. Len(s) - 1 : t[i] = s[i + 1]
  BY <1>2 DEF Shorter
<1>4. \A i \in DOMAIN t : i + 1 \in DOMAIN s /\ t[i] = s[i + 1]
  BY <1>3
<1> QED  BY <1>1, <1>3, <1>4 DEF Range

\* A verdict takes the row from those still to do to those told.
LEMMA ConcludesRow ==
  ASSUME Checked(check), check.todo # <<>>, check.pc # "idle", NEW status
  PROVE  /\ Checked(Concluded(status)) /\ Concluded(status).pc = "row"
         /\ Concluded(status).n = check.n /\ Concluded(status).quiet = check.quiet
         /\ Concluded(status).todo = Tail(check.todo) /\ Concluded(status).day = check.day
         /\ DOMAIN Concluded(status).results = DOMAIN check.results \cup {Row}
         /\ Row \notin DOMAIN check.results => Concluded(status).results[Row] = status
<1>1. DOMAIN check = DOMAIN IdleCheck
  BY DEF Checked
<1>2. PICK c : c = Concluded(status)
  OBVIOUS
<1>3. /\ DOMAIN c = DOMAIN IdleCheck /\ c.pc = "row" /\ c.todo = Tail(check.todo)
      /\ c.n = check.n /\ c.inventory = check.inventory /\ c.quiet = check.quiet
      /\ c.day = check.day /\ c.results = [row \in DOMAIN check.results \cup {Row} |->
                        IF row \in DOMAIN check.results THEN check.results[row] ELSE status]
  BY <1>1, <1>2 DEF Concluded, IdleCheck
<1>4. /\ DOMAIN c.results = DOMAIN check.results \cup {Row}
      /\ Row \notin DOMAIN check.results => c.results[Row] = status
  BY <1>3
<1>5. IsList(c.todo) /\ Range(c.todo) \subseteq Range(check.todo) /\ Row \in Range(check.todo)
  BY <1>3, TailAmong DEF Row, Checked
<1>6. Checked(c)
  BY <1>3, <1>4, <1>5 DEF Checked
<1> QED  BY <1>2, <1>3, <1>4, <1>6

-----------------------------------------------------------------------------
(* The substrate check: while rows are judged nothing is told.             *)

Advanced(c) == Checked(c) /\ c.pc \in Judging /\ c.n = check.n /\ c.quiet = check.quiet

\* A check that judges on has told nothing.
LEMMA AdvancedIsInv ==
  ASSUME SubstrateInv, check.pc \in Judging, Advanced(check'), metrics' = metrics
  PROVE  SubstrateInv'
<1>1. ToldSoFar(check, metrics)
  BY DEF SubstrateInv
<1>2. ToldSoFar(check', metrics')
  BY <1>1 DEF ToldSoFar, Advanced, Judging
<1>3. check'.pc # "done"
  BY DEF Advanced, Judging
<1> QED  BY <1>2, <1>3 DEF SubstrateInv, FailureIsHeard, Advanced, Checked, ToldSoFar

\* The history variable takes no part.
LEMMA CleanIsAside ==
  ASSUME NEW c, Advanced(c), NEW b
  PROVE  Advanced([c EXCEPT !.clean = b])
<1>1. PICK d : d = [c EXCEPT !.clean = b]
  OBVIOUS
<1>2. /\ DOMAIN d = DOMAIN IdleCheck /\ d.pc = c.pc /\ d.n = c.n /\ d.quiet = c.quiet
      /\ d.inventory = c.inventory /\ d.todo = c.todo /\ d.results = c.results
  BY <1>1 DEF Advanced, Checked, IdleCheck
<1> QED  BY <1>1, <1>2 DEF Advanced, Checked

\* Going on to a source of the row.
LEMMA GoesToSource ==
  ASSUME Checked(check), check.pc \in Judging, check.todo # <<>>, NEW s, NEW h, NEW o
  PROVE  Advanced([check EXCEPT !.pc = "source", !.source = s, !.hint = h, !.object = o])
<1>1. PICK d : d = [check EXCEPT !.pc = "source", !.source = s, !.hint = h, !.object = o]
  OBVIOUS
<1>2. /\ DOMAIN d = DOMAIN IdleCheck /\ d.pc = "source" /\ d.n = check.n
      /\ d.quiet = check.quiet
      /\ d.inventory = check.inventory /\ d.todo = check.todo /\ d.results = check.results
  BY <1>1 DEF Checked, IdleCheck
<1> QED  BY <1>1, <1>2 DEF Advanced, Checked, Judging

\* Going on to the next source, or to the row's verdict.
LEMMA AdvancesToNext ==
  ASSUME Checked(check), check.pc \in {"source", "get"}
  PROVE  /\ \A hint : Advanced(NextSource(hint))
         /\ \A verdict : Advanced(After(verdict))
<1>1. check.todo # <<>> /\ check.pc \in Judging /\ check.pc # "idle"
  BY DEF Checked, Judging
<1>2. \A status : Advanced(Concluded(status))
  BY <1>1, ConcludesRow DEF Advanced, Judging
<1>3. ASSUME NEW hint PROVE Advanced(NextSource(hint))
  <2>1. \/ NextSource(hint) = [check EXCEPT !.pc = "source", !.source = check.source + 1,
                                  !.hint = check.hint \/ hint, !.object = NoneFound]
        \/ \E status : NextSource(hint) = Concluded(status)
    BY DEF NextSource
  <2>2. Advanced([check EXCEPT !.pc = "source", !.source = check.source + 1,
                               !.hint = check.hint \/ hint, !.object = NoneFound])
    BY <1>1, GoesToSource
  <2> QED  BY <1>2, <2>1, <2>2
<1>4. \A verdict : Advanced(After(verdict))
  BY <1>2, <1>3 DEF After
<1> QED  BY <1>3, <1>4

\* The steps of a judgement.
LEMMA JudgesOn ==
  ASSUME SubstrateInv, BeginRow \/ LookForObject \/ ReadObject \/ AskCloudWatch
  PROVE  SubstrateInv'
<1>1. Checked(check) /\ metrics' = metrics
  BY DEF SubstrateInv, BeginRow, LookForObject, ReadObject, AskCloudWatch
<1>2. ASSUME BeginRow PROVE check.pc \in Judging /\ Advanced(check')
  <2>1. check.pc = "row" /\ check.todo # <<>>
    BY <1>2 DEF BeginRow
  <2>2. \A status : Advanced(Concluded(status))
    BY <1>1, <2>1, ConcludesRow DEF Advanced, Judging
  <2>3. PICK state \in {schedule, "unreadable"} :
          check' = IF check.day < InventoryRow[Row].effective THEN Concluded("not_yet_effective")
                   ELSE IF InventoryRow[Row].gated /\ RowGates(state) THEN Concluded("gated")
                   ELSE [check EXCEPT !.pc = "source", !.source = 1,
                                      !.clean = state # "unreadable"]
    BY <1>2 DEF BeginRow
  <2>4. Advanced([check EXCEPT !.pc = "source", !.source = 1, !.clean = state # "unreadable"])
    <3>1. PICK d : d = [check EXCEPT !.pc = "source", !.source = 1,
                                     !.clean = state # "unreadable"]
      OBVIOUS
    <3>2. /\ DOMAIN d = DOMAIN IdleCheck /\ d.pc = "source" /\ d.n = check.n
          /\ d.quiet = check.quiet
          /\ d.inventory = check.inventory /\ d.todo = check.todo /\ d.results = check.results
      BY <1>1, <3>1 DEF Checked, IdleCheck
    <3> QED  BY <1>1, <2>1, <3>1, <3>2 DEF Advanced, Checked, Judging
  <2> QED  BY <2>1, <2>2, <2>3, <2>4 DEF Judging
<1>3. ASSUME LookForObject PROVE check.pc \in Judging /\ Advanced(check')
  <2>1. check.pc = "source"
    BY <1>3 DEF LookForObject
  <2>2. PICK denied :
          LET found == ResolveAndAge(Source, check.day, denied)
              next == IF found # NoneFound
                      THEN [check EXCEPT !.pc = "get", !.object = found]
                      ELSE After(IF CompanionPresent(Source, check.day, denied)
                                 THEN "ok" ELSE "bad")
          IN  check' = [next EXCEPT !.clean = check.clean /\ denied = {}]
    BY <1>3 DEF LookForObject
  <2>3. PICK found : found = ResolveAndAge(Source, check.day, denied)
    OBVIOUS
  <2>4. PICK v : v = IF CompanionPresent(Source, check.day, denied) THEN "ok" ELSE "bad"
    OBVIOUS
  <2>5. PICK next : next = IF found # NoneFound
                           THEN [check EXCEPT !.pc = "get", !.object = found] ELSE After(v)
    OBVIOUS
  <2>6. check' = [next EXCEPT !.clean = check.clean /\ denied = {}]
    BY <2>2, <2>3, <2>4, <2>5
  <2>7. Advanced([check EXCEPT !.pc = "get", !.object = found])
    <3>1. PICK d : d = [check EXCEPT !.pc = "get", !.object = found]
      OBVIOUS
    <3>2. /\ DOMAIN d = DOMAIN IdleCheck /\ d.pc = "get" /\ d.n = check.n
          /\ d.quiet = check.quiet
          /\ d.inventory = check.inventory /\ d.todo = check.todo /\ d.results = check.results
      BY <1>1, <3>1 DEF Checked, IdleCheck
    <3> QED  BY <1>1, <2>1, <3>1, <3>2 DEF Advanced, Checked, Judging
  <2>8. Advanced(next)
    BY <1>1, <2>1, <2>5, <2>7, AdvancesToNext
  <2> QED  BY <2>1, <2>6, <2>8, CleanIsAside DEF Judging
<1>4. ASSUME ReadObject PROVE check.pc \in Judging /\ Advanced(check')
  <2>1. check.pc = "get"
    BY <1>4 DEF ReadObject
  <2>2. \/ check' = After(FileVerdict(Source, objects[check.object].file))
        \/ check' = [NextSource(FALSE) EXCEPT !.clean = FALSE]
    BY <1>4 DEF ReadObject
  <2>3. Advanced(After(FileVerdict(Source, objects[check.object].file))) /\ Advanced(NextSource(FALSE))
    BY <1>1, <2>1, AdvancesToNext, Zenon
  <2>4. Advanced([NextSource(FALSE) EXCEPT !.clean = FALSE])
    BY <2>3, CleanIsAside
  <2> QED  BY <2>1, <2>2, <2>3, <2>4, Zenon DEF Judging
<1>5. ASSUME AskCloudWatch PROVE check.pc \in Judging /\ Advanced(check')
  <2>1. check.pc = "source"
    BY <1>5 DEF AskCloudWatch
  <2>2. \/ check' = After(CloudWatchVerdict(Source))
        \/ check' = [NextSource(FALSE) EXCEPT !.clean = FALSE]
    BY <1>5 DEF AskCloudWatch
  <2>3. Advanced(After(CloudWatchVerdict(Source))) /\ Advanced(NextSource(FALSE))
    BY <1>1, <2>1, AdvancesToNext, Zenon
  <2>4. Advanced([NextSource(FALSE) EXCEPT !.clean = FALSE])
    BY <2>3, CleanIsAside
  <2> QED  BY <2>1, <2>2, <2>3, <2>4, Zenon DEF Judging
<1>6. check.pc \in Judging /\ Advanced(check')
  BY <1>2, <1>3, <1>4, <1>5
<1> QED  BY <1>1, <1>6, AdvancedIsInv

\* What the producers, the alarms and the clock do.
LEMMA WorldTurns ==
  ASSUME SubstrateInv, Disturbs, metrics' = metrics PROVE SubstrateInv'
<1>1. CASE check.pc \in {"source", "get"}
  <2>1. check' = [check EXCEPT !.clean = FALSE]
    BY <1>1 DEF Disturbs
  <2>2. check.pc \in Judging /\ Advanced(check)
    BY <1>1 DEF SubstrateInv, Advanced, Judging
  <2> QED  BY <2>1, <2>2, CleanIsAside, AdvancedIsInv
<1>2. CASE check.pc \notin {"source", "get"}
  <2>1. check' = check
    BY <1>2 DEF Disturbs
  <2>2. ToldSoFar(check', metrics') /\ Checked(check')
    BY <2>1 DEF SubstrateInv
  <2>3. Failing' = Failing
    BY <2>1 DEF Failing, With
  <2>4. FailureIsHeard'
    BY <2>1, <2>3 DEF SubstrateInv, FailureIsHeard
  <2> QED  BY <2>2, <2>4 DEF SubstrateInv, Checked, ToldSoFar
<1> QED  BY <1>1, <1>2

-----------------------------------------------------------------------------
(* The substrate check: the telling.                                       *)

\* A check starts with its rows to do and nothing told.
LEMMA StartsCheck ==
  ASSUME SubstrateInv, NEW inventory \in Inventories, NEW cadence, NEW env,
         NEW alert \in BOOLEAN, NEW noEmit \in BOOLEAN,
         StartCheck(inventory, cadence, env, alert, noEmit)
  PROVE  SubstrateInv'
<1>1. PICK todo : todo = FilterRows(inventory, cadence)
  OBVIOUS
<1>2. /\ check' = [IdleCheck EXCEPT
             !.n = check.n + 1, !.pc = "row", !.day = calendar, !.todo = todo,
             !.inventory = inventory, !.quiet = RehearsalToken(env), !.alert = alert,
             !.emitted = IF noEmit THEN "refused" ELSE "no"]
      /\ metrics' = metrics
  BY <1>1 DEF StartCheck
<1>3. /\ DOMAIN check' = DOMAIN IdleCheck /\ check'.n = check.n + 1 /\ check'.pc = "row"
      /\ check'.todo = todo /\ check'.inventory = inventory /\ check'.results = <<>>
  BY <1>2 DEF IdleCheck
<1>4. IsList(todo) /\ Range(todo) \subseteq Range(inventory)
  <2>1. PICK some : todo = Among(inventory, some)
    BY <1>1 DEF FilterRows
  <2>2. Filtered(inventory, some, todo)
    BY <2>1, SubstrateNumbers, ListIsFiltered, Zenon
  <2> QED  BY <2>2 DEF Filtered
<1>5. DOMAIN <<>> = {}
  BY EmptyIsList
<1>6. check.n \in Nat /\ \A m \in DOMAIN metrics : metrics[m][2] \in Nat /\ metrics[m][2] <= check.n
  BY DEF SubstrateInv, Checked, ToldSoFar
<1>7. Checked(check')
  BY <1>3, <1>4, <1>5, <1>6 DEF Checked
<1>8. \A m \in DOMAIN metrics : metrics[m][2] < check.n + 1 /\ metrics[m][2] <= check.n + 1
  BY <1>6
<1>9. ToldSoFar(check', metrics)
  BY <1>3, <1>6, <1>8 DEF ToldSoFar
<1>10. check'.pc # "done"
  BY <1>3
<1> QED  BY <1>2, <1>7, <1>9, <1>10 DEF SubstrateInv, FailureIsHeard, Checked, ToldSoFar

\* Joining lists joins their elements.
LEMMA JoinedLists ==
  ASSUME NEW s, IsList(s), NEW t, IsList(t)
  PROVE  IsList(s \o t) /\ Range(s \o t) = Range(s) \cup Range(t)
<1>1. PICK S : S = Range(s) \cup Range(t)
  OBVIOUS
<1>2. s \in Seq(S) /\ t \in Seq(S)
  <2>1. s \in Seq(Range(s)) /\ t \in Seq(Range(t))
    BY ListIsSeq
  <2>2. Len(s) \in Nat /\ Len(t) \in Nat /\ s \in [1 .. Len(s) -> Range(s)]
        /\ t \in [1 .. Len(t) -> Range(t)]
    BY <2>1, LenProperties
  <2>3. s \in [1 .. Len(s) -> S] /\ t \in [1 .. Len(t) -> S]
    BY <1>1, <2>2
  <2> QED  BY <2>2, <2>3, SeqDef
<1>3. PICK u : u = s \o t
  OBVIOUS
<1>4. /\ u \in Seq(S) /\ Len(u) = Len(s) + Len(t) /\ Len(s) \in Nat /\ Len(t) \in Nat
      /\ \A i \in 1 .. Len(s) : u[i] = s[i]
      /\ \A i \in 1 .. Len(t) : u[Len(s) + i] = t[i]
  BY <1>2, <1>3, ConcatProperties, LenProperties
<1>5. DOMAIN u = 1 .. Len(u) /\ DOMAIN s = 1 .. Len(s) /\ DOMAIN t = 1 .. Len(t)
  BY <1>2, <1>4, LenProperties
<1>6. IsList(u)
  BY <1>4, SeqIsList
<1>7. \A e \in Range(u) : e \in S
  BY <1>4, <1>5, ElementOfSeq DEF Range
<1>8. \A e \in Range(s) : e \in Range(u)
  <2>1. \A i \in DOMAIN s : i \in DOMAIN u /\ u[i] = s[i]
    BY <1>4, <1>5
  <2> QED  BY <2>1 DEF Range
<1>9. \A e \in Range(t) : e \in Range(u)
  <2>1. \A i \in DOMAIN t : Len(s) + i \in DOMAIN u /\ u[Len(s) + i] = t[i]
    BY <1>4, <1>5
  <2> QED  BY <2>1 DEF Range
<1> QED  BY <1>1, <1>3, <1>6, <1>7, <1>8, <1>9

\* What is put for the metrics covers what is due.
LEMMA DataIsDue ==
  ASSUME Checked(check), check.pc # "idle"
  PROVE  IsList(MetricData) /\ DataOf(check) \subseteq Range(MetricData)
<1>1. PICK counts : counts = <<"ok", "failed", "degraded", "pending", "gated">>
  OBVIOUS
<1>2. IsList(counts) /\ "failed" \in Range(counts)
  <2>1. counts \in Seq({"ok", "failed", "degraded", "pending", "gated"})
    BY <1>1
  <2>2. IsList(counts)
    BY <2>1, SeqIsList
  <2>3. 2 \in DOMAIN counts /\ counts[2] = "failed"
    BY <1>1
  <2> QED  BY <2>2, <2>3 DEF Range
<1>3. PICK told : told = Among(check.inventory, DOMAIN check.results)
  OBVIOUS
<1>4. IsList(check.inventory) /\ DOMAIN check.results \subseteq Range(check.inventory)
  BY SubstrateNumbers DEF Checked
<1>5. Filtered(check.inventory, DOMAIN check.results, told)
  BY <1>3, <1>4, ListIsFiltered, Zenon
<1>6. IsList(told) /\ Range(told) = DOMAIN check.results
  BY <1>4, <1>5 DEF Filtered
<1>7. MetricData = told \o counts
  BY <1>1, <1>3 DEF MetricData
<1> QED  BY <1>2, <1>6, <1>7, JoinedLists DEF DataOf

\* The judgement ends: what is to be told is what was found.
LEMMA ReportsDone ==
  ASSUME SubstrateInv, ReportDone
  PROVE  SubstrateInv'
<1>1. PICK left : left = IF check.quiet \/ check.emitted = "refused" THEN <<>>
                         ELSE Batches(MetricData)
  OBVIOUS
<1>2. /\ check' = [check EXCEPT !.pc = "emit", !.left = left]
      /\ metrics' = metrics /\ check.pc = "row"
  BY <1>1 DEF ReportDone
<1>3. Checked(check) /\ ToldSoFar(check, metrics) /\ check.pc # "idle" /\ check.pc \in Judging
  BY <1>2 DEF SubstrateInv, Judging
<1>4. /\ DOMAIN check' = DOMAIN IdleCheck /\ check'.pc = "emit" /\ check'.left = left
      /\ check'.n = check.n /\ check'.inventory = check.inventory /\ check'.todo = check.todo
      /\ check'.results = check.results /\ check'.quiet = check.quiet
      /\ check'.emitted = check.emitted
  BY <1>2, <1>3 DEF Checked, IdleCheck
<1>5. Checked(check')
  BY <1>3, <1>4 DEF Checked
<1>6. IsList(left) /\ (check.quiet => left = <<>>)
      /\ (~check.quiet /\ check.emitted # "refused" => DataOf(check) \subseteq Range(left))
  BY <1>1, <1>3, DataIsDue, EmptyIsList DEF Batches
<1>7. DataOf(check') = DataOf(check)
  BY <1>4 DEF DataOf
<1>8. ToldSoFar(check', metrics)
  BY <1>3, <1>4, <1>6, <1>7 DEF ToldSoFar, Judging
<1> QED  BY <1>2, <1>4, <1>5, <1>8 DEF SubstrateInv, FailureIsHeard, ToldSoFar

\* A list is its first elements and the others.
LEMMA CutLists ==
  ASSUME NEW s, IsList(s), NEW n \in 1 .. Len(s)
  PROVE  /\ IsList(SubSeq(s, n + 1, Len(s)))
         /\ Range(s) \subseteq Range(SubSeq(s, 1, n)) \cup Range(SubSeq(s, n + 1, Len(s)))
<1>1. PICK S : S = Range(s)
  OBVIOUS
<1>2. s \in Seq(S) /\ DOMAIN s = 1 .. Len(s) /\ Len(s) \in Nat /\ n \in Nat /\ n <= Len(s)
  BY <1>1, ListIsSeq DEF IsList
<1>3. \A i \in 1 .. Len(s) : s[i] \in S
  BY <1>2, ElementOfSeq
<1>4. PICK a : a = SubSeq(s, 1, n)
  OBVIOUS
<1>5. PICK b : b = SubSeq(s, n + 1, Len(s))
  OBVIOUS
<1>6. /\ a \in Seq(S) /\ Len(a) = n /\ \A i \in 1 .. n : a[i] = s[i]
  <2>1. n \in Int /\ 1 \in Int /\ 1 <= n /\ \A i \in 1 .. n : s[i] \in S
    BY <1>2, <1>3
  <2>2. /\ SubSeq(s, 1, n) \in Seq(S)
        /\ Len(SubSeq(s, 1, n)) = IF 1 <= n THEN n - 1 + 1 ELSE 0
        /\ \A i \in 1 .. n - 1 + 1 : SubSeq(s, 1, n)[i] = s[1 + i - 1]
    BY <2>1, SubSeqProperties
  <2>3. n - 1 + 1 = n /\ \A i \in 1 .. n : 1 + i - 1 = i
    BY <2>1
  <2> QED  BY <1>4, <2>1, <2>2, <2>3
<1>7. /\ b \in Seq(S) /\ Len(b) = Len(s) - n
      /\ \A i \in 1 .. Len(s) - n : b[i] = s[n + i]
  <2>1. n + 1 \in Int /\ Len(s) \in Int /\ \A i \in n + 1 .. Len(s) : s[i] \in S
    BY <1>2, <1>3
  <2>2. /\ SubSeq(s, n + 1, Len(s)) \in Seq(S)
        /\ Len(SubSeq(s, n + 1, Len(s))) = IF n + 1 <= Len(s) THEN Len(s) - (n + 1) + 1 ELSE 0
        /\ \A i \in 1 .. Len(s) - (n + 1) + 1 : SubSeq(s, n + 1, Len(s))[i] = s[n + 1 + i - 1]
    BY <2>1, SubSeqProperties
  <2>3. Len(s) - (n + 1) + 1 = Len(s) - n /\ (~ (n + 1 <= Len(s)) => Len(s) - n = 0)
        /\ \A i \in 1 .. Len(s) - n : n + 1 + i - 1 = n + i
    <3>1. PICK m \in Nat : m = Len(s)
      BY <1>2
    <3>2. PICK k \in Nat : k = n /\ k <= m
      BY <1>2, <3>1
    <3>3. m - (k + 1) + 1 = m - k /\ (~ (k + 1 <= m) => m - k = 0)
      BY <3>2
    <3>4. \A i \in Int : n + 1 + i - 1 = n + i
      BY <1>2
    <3> QED  BY <3>1, <3>2, <3>3, <3>4
  <2> QED  BY <1>5, <2>2, <2>3
<1>8. ASSUME NEW i \in DOMAIN s PROVE s[i] \in Range(a) \cup Range(b)
  <2>1. CASE i <= n
    <3>1. i \in DOMAIN a /\ a[i] = s[i]
      BY <1>2, <1>6, <2>1
    <3> QED  BY <3>1 DEF Range
  <2>2. CASE ~ (i <= n)
    <3>1. i - n \in 1 .. Len(s) - n /\ n + (i - n) = i
      BY <1>2, <2>2
    <3>2. i - n \in DOMAIN b /\ b[i - n] = s[i]
      BY <1>7, <3>1
    <3> QED  BY <3>2 DEF Range
  <2> QED  BY <2>1, <2>2
<1>9. IsList(b)
  BY <1>7, SeqIsList
<1> QED  BY <1>4, <1>5, <1>8, <1>9 DEF Range

\* A batch is put, or the call fails and the check is said to have.
LEMMA PutsBatch ==
  ASSUME SubstrateInv, PutBatch
  PROVE  SubstrateInv'
<1>1. /\ Checked(check) /\ ToldSoFar(check, metrics) /\ check.pc = "emit" /\ check.left # <<>>
      /\ DOMAIN metrics = InventoryRows \cup {"failed"}
  BY DEF SubstrateInv, PutBatch
<1>2. IsList(check.left) /\ ~ check.quiet /\ check.n \in Nat
  BY <1>1 DEF ToldSoFar, Checked
<1>3. CASE UNCHANGED metrics /\ check' = [check EXCEPT !.left = <<>>, !.emitted = "failed"]
  <2>1. /\ DOMAIN check' = DOMAIN IdleCheck /\ check'.pc = "emit" /\ check'.left = <<>>
        /\ check'.n = check.n /\ check'.inventory = check.inventory /\ check'.todo = check.todo
        /\ check'.results = check.results /\ check'.quiet = check.quiet
        /\ check'.emitted = "failed"
    BY <1>1, <1>3 DEF Checked, IdleCheck
  <2>2. Checked(check')
    BY <1>1, <2>1 DEF Checked
  <2>3. ToldSoFar(check', metrics)
    BY <1>1, <1>2, <2>1, EmptyIsList DEF ToldSoFar, Judging
  <2> QED  BY <1>1, <1>3, <2>1, <2>2, <2>3 DEF SubstrateInv, FailureIsHeard, ToldSoFar
<1>4. CASE LET size == Min({BatchSize, Len(check.left)})
               batch == Range(SubSeq(check.left, 1, size))
           IN  /\ metrics' = [m \in DOMAIN metrics |->
                      IF m \notin batch THEN metrics[m]
                      ELSE <<IF m = "failed" THEN Cardinality(Failing)
                             ELSE RowValue(check.results[m]), check.n>>]
               /\ check' = [check EXCEPT !.left = SubSeq(@, size + 1, Len(@))]
  <2>1. PICK size : size = Min({BatchSize, Len(check.left)})
    OBVIOUS
  <2>2. PICK batch : batch = Range(SubSeq(check.left, 1, size))
    OBVIOUS
  <2>3. PICK left : left = SubSeq(check.left, size + 1, Len(check.left))
    OBVIOUS
  <2>4. size \in 1 .. Len(check.left)
    <3>1. Shorter(check.left, Tail(check.left))
      BY <1>1, <1>2, ListShrinks, Zenon
    <3>2. Len(check.left) \in Nat /\ 1 \in 1 .. Len(check.left)
      BY <3>1 DEF Shorter
    <3>3. PICK S : S = {BatchSize, Len(check.left)}
      OBVIOUS
    <3>4. S \in SUBSET Nat /\ S # {}
      BY <3>2, <3>3, SubstrateNumbers
    <3>5. size \in S /\ \A y \in S : size <= y
      BY <2>1, <3>3, <3>4, MinIsLeast
    <3> QED  BY <3>2, <3>3, <3>5, SubstrateNumbers
  <2>5. IsList(left) /\ Range(check.left) \subseteq batch \cup Range(left)
    BY <1>2, <2>2, <2>3, <2>4, CutLists
  <2>6. metrics' = [m \in DOMAIN metrics |->
                       IF m \notin batch THEN metrics[m] ELSE Due(check, m)]
    BY <1>4, <2>1, <2>2 DEF Due, Failing
  <2>7. check' = [check EXCEPT !.left = left]
    BY <1>4, <2>1, <2>3
  <2>8. /\ DOMAIN check' = DOMAIN IdleCheck /\ check'.pc = "emit" /\ check'.left = left
        /\ check'.n = check.n /\ check'.inventory = check.inventory /\ check'.todo = check.todo
        /\ check'.results = check.results /\ check'.quiet = check.quiet
        /\ check'.emitted = check.emitted
    BY <1>1, <2>7 DEF Checked, IdleCheck
  <2>9. Checked(check')
    BY <1>1, <2>8 DEF Checked
  <2>10. DOMAIN metrics' = DOMAIN metrics
         /\ \A m \in DOMAIN metrics : metrics'[m] = IF m \notin batch THEN metrics[m] ELSE Due(check, m)
    BY <2>6
  <2>11. \A m : Due(check, m)[2] = check.n
    BY DEF Due
  <2>12. \A m \in DOMAIN metrics' : metrics'[m][2] \in Nat /\ metrics'[m][2] <= check'.n
    BY <1>1, <1>2, <2>8, <2>10, <2>11 DEF ToldSoFar
  <2>13. DataOf(check') = DataOf(check) /\ \A m : Due(check', m) = Due(check, m)
    BY <2>8 DEF DataOf, Due
  <2>14. DataOf(check) \subseteq DOMAIN metrics
    BY <1>1, SubstrateNumbers DEF DataOf, Checked
  <2>15. check.emitted = "no" =>
            \A m \in DataOf(check) : m \in Range(left) \/ metrics'[m] = Due(check, m)
    <3> SUFFICES ASSUME check.emitted = "no", NEW m \in DataOf(check), m \notin Range(left)
                 PROVE  metrics'[m] = Due(check, m)
      OBVIOUS
    <3>1. m \in Range(check.left) \/ metrics[m] = Due(check, m)
      BY <1>1, <1>2 DEF ToldSoFar
    <3>2. m \in batch \/ metrics[m] = Due(check, m)
      BY <2>5, <3>1
    <3>3. m \in DOMAIN metrics
      BY <2>14
    <3> QED  BY <2>10, <3>2, <3>3
  <2>16. ToldSoFar(check', metrics')
    BY <1>2, <2>5, <2>8, <2>12, <2>13, <2>15 DEF ToldSoFar, Judging
  <2>17. DOMAIN metrics' = InventoryRows \cup {"failed"}
    BY <1>1, <2>10
  <2> QED  BY <2>8, <2>9, <2>16, <2>17 DEF SubstrateInv, FailureIsHeard, ToldSoFar
<1> QED  BY <1>3, <1>4 DEF PutBatch

\* The page and the exit code.
LEMMA Exits ==
  ASSUME SubstrateInv, PageAndExit
  PROVE  SubstrateInv'
<1> DEFINE pages == Failing # {} /\ check.alert /\ ~check.quiet
<1>1. /\ Checked(check) /\ ToldSoFar(check, metrics) /\ check.pc = "emit" /\ check.left = <<>>
      /\ DOMAIN metrics = InventoryRows \cup {"failed"} /\ metrics' = metrics
  BY DEF SubstrateInv, PageAndExit
<1>2. PICK paged : /\ check' = [check EXCEPT !.pc = "done", !.paged = paged,
                                     !.exit = IF Failing = {} THEN 0 ELSE 1]
                   /\ \/ paged = IF pages THEN "yes" ELSE "no"
                      \/ pages /\ paged = "failed"
  BY DEF PageAndExit
<1>3. /\ DOMAIN check' = DOMAIN IdleCheck /\ check'.pc = "done" /\ check'.paged = paged
      /\ check'.exit = (IF Failing = {} THEN 0 ELSE 1)
      /\ check'.n = check.n /\ check'.inventory = check.inventory /\ check'.todo = check.todo
      /\ check'.results = check.results /\ check'.quiet = check.quiet
      /\ check'.emitted = check.emitted /\ check'.alert = check.alert
  BY <1>1, <1>2 DEF Checked, IdleCheck
<1>4. Checked(check')
  BY <1>1, <1>3 DEF Checked
<1>5. ToldSoFar(check', metrics)
  BY <1>1, <1>3 DEF ToldSoFar, Judging
<1>6. Failing' = Failing
  BY <1>3 DEF Failing, With
<1>7. check.n \in Nat /\ Range(<<>>) = {}
  BY <1>1, EmptyIsList DEF Checked, Range
<1>8. check.quiet => paged = "no" /\ \A m \in DOMAIN metrics : metrics[m][2] # check.n
  <2>1. check.quiet => \A m \in DOMAIN metrics : metrics[m][2] \in Nat /\ metrics[m][2] < check.n
    BY <1>1 DEF ToldSoFar
  <2> QED  BY <1>2, <1>7, <2>1
<1>9. ASSUME ~check.quiet, check.emitted = "no"
      PROVE  /\ \A row \in Failing : metrics[row] = <<0, check.n>>
             /\ metrics["failed"] = <<Cardinality(Failing), check.n>>
  <2>1. \A m \in DataOf(check) : metrics[m] = Due(check, m)
    BY <1>1, <1>7, <1>9 DEF ToldSoFar
  <2>2. \A row \in Failing : row \in DataOf(check) /\ row # "failed" /\ check.results[row] = "fail"
    BY <1>1, SubstrateNumbers DEF Failing, With, DataOf, Checked
  <2>3. RowValue("fail") = 0
    BY DEF RowValue
  <2>4. \A row \in Failing : Due(check, row) = <<0, check.n>>
    BY <2>2, <2>3 DEF Due
  <2>5. "failed" \in DataOf(check) /\ Due(check, "failed") = <<Cardinality(Failing), check.n>>
    BY DEF DataOf, Due, Failing
  <2> QED  BY <2>1, <2>2, <2>4, <2>5
<1>10. ~check.quiet /\ check.alert /\ Failing # {} => paged # "no"
  BY <1>2
<1>11. FailureIsHeard'
  BY <1>1, <1>3, <1>6, <1>8, <1>9, <1>10 DEF FailureIsHeard
<1> QED  BY <1>1, <1>4, <1>5, <1>11 DEF SubstrateInv, Checked, ToldSoFar

\* Every step.
LEMMA SubstrateSteps == SubstrateInv /\ [SubstrateNext]_substrateVars => SubstrateInv'
<1> SUFFICES ASSUME SubstrateInv, [SubstrateNext]_substrateVars PROVE SubstrateInv'
  OBVIOUS
<1>1. ASSUME NEW inventory \in Inventories, NEW cadence \in {"weekly", "daily", "per_event"},
             NEW env \in Envs, NEW alert \in BOOLEAN, NEW noEmit \in BOOLEAN,
             StartCheck(inventory, cadence, env, alert, noEmit)
      PROVE  SubstrateInv'
  BY <1>1, StartsCheck
<1>2. CASE UNCHANGED substrateVars
  <2>1. check' = check /\ metrics' = metrics
    BY <1>2 DEF substrateVars
  <2>2. Failing' = Failing
    BY <2>1 DEF Failing, With
  <2>3. FailureIsHeard'
    BY <2>1, <2>2 DEF SubstrateInv, FailureIsHeard
  <2> QED  BY <2>1, <2>3 DEF SubstrateInv, Checked, ToldSoFar
<1>3. ASSUME NEW key, NEW file, WriteObject(key, file) PROVE SubstrateInv'
  BY <1>3, WorldTurns DEF WriteObject
<1>4. CASE FlipSchedule \/ DayPasses
  BY <1>4, WorldTurns DEF FlipSchedule, DayPasses
<1>5. CASE BeginRow \/ LookForObject \/ ReadObject \/ AskCloudWatch
  BY <1>5, JudgesOn
<1>6. CASE ReportDone \/ PutBatch \/ PageAndExit
  BY <1>6, ReportsDone, PutsBatch, Exits
<1> QED  BY <1>1, <1>2, <1>3, <1>4, <1>5, <1>6 DEF SubstrateNext

\* A failing row is heard of: exit code, metrics and page, unless it is a rehearsal, or told
\* not to, or the call failed (transparency.py:emit_cloudwatch_metrics, main).
THEOREM FailuresAreHeard == SubstrateSpec => []FailureIsHeard
<1>1. SubstrateInv => FailureIsHeard
  BY DEF SubstrateInv
<1> QED  BY <1>1, SubstrateStarts, SubstrateSteps, PTL DEF SubstrateSpec

-----------------------------------------------------------------------------
(* The substrate check: verdicts are earned.                                *)

RowSources == InventoryRow[Row].sources

\* The calendar counts on, and what has no date in its name is in slot 0.
Shelved ==
    /\ calendar \in Nat /\ check.day \in Nat
    /\ DOMAIN objects = SubstrateKeys \X ObjectDays
    /\ \A k \in SubstrateKeys, d \in ObjectDays :
          ~Dated(k) /\ d # 0 => objects[<<k, d>>] = Missing

\* Where an undisturbed check stands says what the sources behind it are worth.
NoneHeld ==
    \A i \in 1 .. check.source - 1 : Worth(RowSources[i]) # "ok"
Hinted ==
    check.hint <=> \E i \in 1 .. check.source - 1 : Worth(RowSources[i]) = "degraded"
Weighed ==
    /\ check.hint \in BOOLEAN /\ check.clean \in BOOLEAN
    /\ check.pc = "row" => ~check.hint
    /\ check.pc \in {"source", "get"} =>
          /\ check.source \in 1 .. Len(RowSources)
          /\ check.day >= InventoryRow[Row].effective
          /\ check.clean => NoneHeld /\ Hinted
    /\ check.pc = "get" =>
          /\ Source.kind # "cloudwatch"
          /\ check.clean => NewestOf(Source, Source.key) = {check.object}

WeighedInv == SubstrateInv /\ Shelved /\ Weighed

\* What the assumption gives of a row amid its sources.
LEMMA RowIsKnown ==
  ASSUME SubstrateInv, check.todo # <<>>, check.pc # "idle"
  PROVE  /\ Row \in InventoryRows /\ InventoryRow[Row].effective \in Int
         /\ Len(RowSources) \in Nat /\ Len(RowSources) >= 1
         /\ DOMAIN RowSources = 1 .. Len(RowSources)
         /\ \A i \in 1 .. Len(RowSources) : RowSources[i] \in AllSources
<1>1. Row \in InventoryRows
  <2>1. Row \in Range(check.todo)
    BY TailAmong DEF Row, SubstrateInv, Checked
  <2>2. Range(check.inventory) \subseteq InventoryRows /\ Range(check.todo) \subseteq Range(check.inventory)
    BY SubstrateNumbers DEF SubstrateInv, Checked
  <2> QED  BY <2>1, <2>2
<1>2. /\ InventoryRow[Row].effective \in Int
      /\ Len(RowSources) \in Nat \ {0} /\ DOMAIN RowSources = 1 .. Len(RowSources)
  BY <1>1, SubstrateAssumption DEF RowSources
<1>3. ASSUME NEW i \in 1 .. Len(RowSources) PROVE RowSources[i] \in AllSources
  <2>1. RowSources[i] \in Range(InventoryRow[Row].sources)
    BY <1>2 DEF RowSources, Range
  <2> QED  BY <1>1, <2>1 DEF AllSources
<1> QED  BY <1>1, <1>2, <1>3

\* What is said of a file is a verdict, and so is a worth.
LEMMA FileIsJudged ==
  ASSUME NEW src \in AllSources, src.kind # "cloudwatch", NEW file
  PROVE  FileVerdict(src, file) \in {"ok", "bad", "degraded"}
<1>1. src.kind \in ObjectKinds
  BY SubstrateAssumption
<1>2. JsonVerdict(src, file) \in {"ok", "bad", "degraded"}
  BY DEF JsonVerdict
<1>3. CsvVerdict(src, file) \in {"ok", "bad", "degraded"}
  BY DEF CsvVerdict
<1>4. ParquetVerdict(src, file) \in {"ok", "bad", "degraded"}
  BY DEF ParquetVerdict
<1>5. SqliteVerdict(src, file) \in {"ok", "bad", "degraded"}
  BY DEF SqliteVerdict
<1> QED  BY <1>1, <1>2, <1>3, <1>4, <1>5 DEF FileVerdict, ObjectKinds

\* What a source is worth is a verdict, whatever the store holds.
LEMMA WorthIsVerdict == \A src \in AllSources : Worth(src) \in {"ok", "bad", "degraded"}
<1> SUFFICES ASSUME NEW src \in AllSources PROVE Worth(src) \in {"ok", "bad", "degraded"}
  OBVIOUS
<1>1. CloudWatchVerdict(src) \in {"ok", "bad"}
  BY DEF CloudWatchVerdict
<1>2. CASE src.kind = "cloudwatch"
  BY <1>1, <1>2 DEF Worth
<1>3. CASE src.kind # "cloudwatch"
  <2>1. \A file : FileVerdict(src, file) \in {"ok", "bad", "degraded"}
    BY <1>3, FileIsJudged
  <2> QED  BY <1>3, <2>1 DEF Worth
<1> QED  BY <1>2, <1>3

\* Said without the CHOOSE, which the provers do not look into.
OneOf(some) == CHOOSE o \in some : TRUE
WorthAsSeen(src, kept, verdict, newest, excuse) ==
    IF src.kind = "cloudwatch" THEN verdict
    ELSE IF newest # {} THEN FileVerdict(src, kept[OneOf(newest)].file)
    ELSE IF src.companion # "none" /\ excuse # {} THEN "ok" ELSE "bad"

\* A worth is a function of the objects, the newest, its excuse and the alarm.
LEMMA WorthIsSeen ==
  \A src : Worth(src) = WorthAsSeen(src, objects, CloudWatchVerdict(src),
                                    NewestOf(src, src.key), NewestOf(src, src.companion))
BY DEF Worth, WorthAsSeen, OneOf

\* It stands while the world does.
LEMMA WorthStands ==
  ASSUME objects' = objects, calendar' = calendar, tallies' = tallies, check'.day = check.day
  PROVE  /\ \A src : Worth(src)' = Worth(src)
         /\ \A src, key : NewestOf(src, key)' = NewestOf(src, key)
<1>1. ASSUME NEW src, NEW key PROVE NewestOf(src, key)' = NewestOf(src, key)
  BY DEF NewestOf, Young
<1>2. ASSUME NEW src PROVE CloudWatchVerdict(src)' = CloudWatchVerdict(src)
  BY DEF CloudWatchVerdict, SuccessRateHolds, DatapointsHold
<1>3. ASSUME NEW src PROVE Worth(src)' = Worth(src)
  <2>1. NewestOf(src, src.key)' = NewestOf(src, src.key)
        /\ NewestOf(src, src.companion)' = NewestOf(src, src.companion)
    BY <1>1
  <2>2. Worth(src) = WorthAsSeen(src, objects, CloudWatchVerdict(src),
                                 NewestOf(src, src.key), NewestOf(src, src.companion))
    BY WorthIsSeen
  <2>3. Worth(src)' = WorthAsSeen(src, objects', CloudWatchVerdict(src)',
                                  NewestOf(src, src.key)', NewestOf(src, src.companion)')
    BY DEF Worth, WorthAsSeen, OneOf
  <2> QED  BY <1>2, <2>1, <2>2, <2>3
<1> QED  BY <1>1, <1>3

-----------------------------------------------------------------------------
(* Finding the object: the walk finds the newest there is.                  *)

\* The objects of a dated family that are young enough, and the newest of some.
InReach(key, maxAge) ==
    {o \in DOMAIN objects : o[1] = key /\ objects[o] # Missing /\ check.day - o[2] \in 0 .. maxAge}
NewestIn(there) == {o \in there : \A other \in there : other[2] <= o[2]}

\* The walk back finds the greatest day.
LEMMA WalkFinds ==
  ASSUME Shelved, NEW key \in SubstrateKeys, NEW maxAge \in Int
  PROVE  LET found == WalkBack(key, check.day, maxAge, {})
             newest == NewestIn(InReach(key, maxAge))
         IN  /\ found = NoneFound => newest = {}
             /\ found # NoneFound => newest = {found}
<1> SUFFICES ASSUME NEW found, found = WalkBack(key, check.day, maxAge, {}),
                    NEW there, there = InReach(key, maxAge),
                    NEW newest, newest = NewestIn(there)
             PROVE  /\ found = NoneFound => newest = {}
                    /\ found # NoneFound => newest = {found}
  OBVIOUS
<1>1. PICK seen : seen = {d \in ObjectDays : /\ check.day - d \in 0 .. maxAge
                                            /\ objects[<<key, d>>] # Missing}
  OBVIOUS
<1>2. found = IF seen = {} THEN NoneFound ELSE <<key, Max(seen)>>
  <2>1. seen = {d \in ObjectDays : /\ check.day - d \in 0 .. maxAge /\ <<key, d>> \notin {}
                                  /\ objects[<<key, d>>] # Missing}
    BY <1>1
  <2> QED  BY <2>1 DEF WalkBack
<1>3. IsFiniteSet(seen) /\ seen \in SUBSET Nat
  <2>1. 0 \in Int /\ SubstrateDays \in Int /\ ObjectDays \in SUBSET Nat
    BY SubstrateAssumption DEF ObjectDays
  <2>2. IsFiniteSet(ObjectDays)
    BY <2>1, FS_Interval DEF ObjectDays
  <2> QED  BY <1>1, <2>1, <2>2, FS_Subset
<1>4. \A o : o \in there <=> \E d \in seen : o = <<key, d>>
  <2>1. ASSUME NEW o \in there PROVE \E d \in seen : o = <<key, d>>
    <3>1. o \in SubstrateKeys \X ObjectDays
      BY DEF Shelved, InReach
    <3>2. PICK k \in SubstrateKeys, d \in ObjectDays : o = <<k, d>>
      BY <3>1
    <3>3. k = key /\ objects[<<key, d>>] # Missing /\ check.day - d \in 0 .. maxAge
      BY <3>2 DEF InReach
    <3> QED  BY <1>1, <3>2, <3>3
  <2>2. ASSUME NEW d \in seen PROVE <<key, d>> \in there
    <3>1. d \in ObjectDays /\ objects[<<key, d>>] # Missing /\ check.day - d \in 0 .. maxAge
      BY <1>1
    <3>2. <<key, d>> \in DOMAIN objects
      BY <3>1 DEF Shelved
    <3> QED  BY <3>1, <3>2 DEF InReach
  <2> QED  BY <2>1, <2>2
<1>5. CASE seen = {}
  <2>1. there = {}
    BY <1>4, <1>5
  <2> QED  BY <1>2, <1>5, <2>1 DEF NewestIn
<1>6. CASE seen # {}
  <2>1. Max(seen) \in seen /\ \A d \in seen : d <= Max(seen)
    BY <1>3, <1>6, MaxIsGreatest
  <2>2. PICK m \in seen : m = Max(seen) /\ m \in Nat /\ \A d \in seen : d <= m /\ d \in Nat
    BY <1>3, <2>1
  <2>3. found = <<key, m>> /\ found # NoneFound
    BY <1>2, <1>6, <2>2, SubstrateAssumption DEF NoneFound
  <2>4. <<key, m>> \in newest
    <3>1. <<key, m>> \in there /\ <<key, m>>[2] = m
      BY <1>4
    <3>2. \A other \in there : other[2] <= m
      BY <1>4, <2>2
    <3> QED  BY <3>1, <3>2 DEF NewestIn
  <2>5. ASSUME NEW o \in newest PROVE o = <<key, m>>
    <3>1. PICK d \in seen : o = <<key, d>>
      BY <1>4 DEF NewestIn
    <3>2. <<key, m>> \in there
      BY <1>4
    <3>3. m <= d
      BY <3>1, <3>2 DEF NewestIn
    <3> QED  BY <2>2, <3>1, <3>3
  <2> QED  BY <2>3, <2>4, <2>5
<1> QED  BY <1>5, <1>6

\* What is looked for is what the store has.
LEMMA LookFinds ==
  ASSUME Shelved, NEW src \in AllSources, src.kind # "cloudwatch",
         NEW found, found = ResolveAndAge(src, check.day, {})
  PROVE  /\ found = NoneFound => NewestOf(src, src.key) = {}
         /\ found # NoneFound => NewestOf(src, src.key) = {found}
<1>1. /\ src.key \in SubstrateKeys /\ src.dated \in BOOLEAN /\ src.maxAge \in Int
      /\ ~src.dated => ~Dated(src.key)
  BY SubstrateAssumption
<1>2. CASE src.dated
  <2>1. found = WalkBack(src.key, check.day, src.maxAge, {})
    BY <1>2 DEF ResolveAndAge
  <2>2. NewestOf(src, src.key) = NewestIn(InReach(src.key, src.maxAge))
    BY <1>2 DEF NewestOf, Young, NewestIn, InReach
  <2> QED  BY <1>1, <2>1, <2>2, WalkFinds
<1>3. CASE ~src.dated
  <2>1. PICK there : there = {o \in DOMAIN objects : /\ o[1] = src.key /\ objects[o] # Missing
                                                     /\ calendar - objects[o].on <= src.maxAge}
    OBVIOUS
  <2>2. NewestOf(src, src.key) = {o \in there : \A other \in there : other[2] <= o[2]}
    BY <1>3, <2>1 DEF NewestOf
  <2>3. 0 \in ObjectDays
    BY SubstrateAssumption DEF ObjectDays
  <2>4. \A o : o \in there => o = <<src.key, 0>>
    <3>1. TAKE o
    <3>2. HAVE o \in there
    <3>3. PICK k \in SubstrateKeys, d \in ObjectDays : o = <<k, d>>
      BY <2>1, <3>2 DEF Shelved
    <3>4. k = src.key /\ objects[<<k, d>>] # Missing
      BY <2>1, <3>2, <3>3
    <3>5. d = 0
      BY <1>1, <1>3, <3>4 DEF Shelved
    <3> QED  BY <3>3, <3>4, <3>5
  <2>5. /\ found = IF /\ objects[<<src.key, 0>>] # Missing
                      /\ calendar - objects[<<src.key, 0>>].on <= src.maxAge
                   THEN <<src.key, 0>> ELSE NoneFound
        /\ <<src.key, 0>> # NoneFound
    BY <1>1, <1>3, SubstrateAssumption DEF ResolveAndAge, NoneFound
  <2>6. <<src.key, 0>> \in there <=> found # NoneFound
    BY <1>1, <2>1, <2>3, <2>5 DEF Shelved
  <2>7. 0 <= 0
    OBVIOUS
  <2> QED  BY <2>2, <2>4, <2>5, <2>6, <2>7
<1> QED  BY <1>1, <1>2, <1>3

\* The excuse is looked for in the same way.
LEMMA CompanionFinds ==
  ASSUME Shelved, NEW src \in AllSources, src.kind # "cloudwatch"
  PROVE  CompanionPresent(src, check.day, {})
            <=> src.companion # "none" /\ NewestOf(src, src.companion) # {}
<1>1. /\ src.companion \in SubstrateKeys \cup {"none"} /\ src.dated \in BOOLEAN
      /\ src.maxAge \in Int /\ (~src.dated => src.companion = "none")
  BY SubstrateAssumption
<1>2. CASE src.companion = "none"
  BY <1>2 DEF CompanionPresent
<1>3. CASE src.companion # "none"
  <2>1. NewestOf(src, src.companion) = NewestIn(InReach(src.companion, src.maxAge))
    BY <1>1, <1>3 DEF NewestOf, Young, NewestIn, InReach
  <2>2. WalkBack(src.companion, check.day, src.maxAge, {}) = NoneFound
           <=> NewestOf(src, src.companion) = {}
    BY <1>1, <1>3, <2>1, WalkFinds
  <2> QED  BY <1>3, <2>2 DEF CompanionPresent
<1> QED  BY <1>2, <1>3

-----------------------------------------------------------------------------
(* Judging by the sources.                                                  *)

\* What a check is after a source of worth v: amid the next, or done with the row.
ConcludedAs(c, status) ==
    /\ c.pc = "row" /\ c.hint = FALSE /\ c.day = check.day /\ c.clean = check.clean
    /\ c.results = [row \in DOMAIN check.results \cup {Row} |->
                       IF row \in DOMAIN check.results THEN check.results[row] ELSE status]
MovedOn(c, degraded) ==
    /\ c.pc = "source" /\ c.source = check.source + 1 /\ c.todo = check.todo
    /\ c.hint = (check.hint \/ degraded) /\ c.day = check.day
    /\ c.clean = check.clean /\ c.results = check.results

\* A row concluded is a row done: its verdict is noted beside the earlier ones.
LEMMA ConcludedIs ==
  ASSUME Checked(check), NEW status PROVE ConcludedAs(Concluded(status), status)
<1>1. PICK c : c = Concluded(status)
  OBVIOUS
<1>2. DOMAIN check = DOMAIN IdleCheck
  BY DEF Checked
<1>3. /\ c.pc = "row" /\ c.hint = FALSE /\ c.day = check.day /\ c.clean = check.clean
      /\ c.results = [row \in DOMAIN check.results \cup {Row} |->
                         IF row \in DOMAIN check.results THEN check.results[row] ELSE status]
  BY <1>1, <1>2 DEF Concluded, IdleCheck
<1> QED  BY <1>1, <1>3 DEF ConcludedAs

\* The verdict left when no source is left.
LastVerdict(degraded) ==
    IF InventoryRow[Row].nonFatal \/ check.hint \/ degraded THEN "degraded" ELSE "fail"

\* After a source the row holds, goes on to the next source, or is given up.
LEMMA AfterIs ==
  ASSUME Checked(check), NEW v
  PROVE  /\ v = "ok" => ConcludedAs(After(v), "ok")
         /\ v # "ok" /\ check.source < Len(RowSources) => MovedOn(After(v), v = "degraded")
         /\ v # "ok" /\ ~(check.source < Len(RowSources))
               => ConcludedAs(After(v), LastVerdict(v = "degraded"))
<1>1. CASE v = "ok"
  <2>1. After(v) = Concluded("ok")
    BY <1>1 DEF After
  <2> QED  BY <1>1, <2>1, ConcludedIs
<1>2. CASE v # "ok" /\ check.source < Len(RowSources)
  <2>1. PICK c : c = After(v)
    OBVIOUS
  <2>2. c = [check EXCEPT !.pc = "source", !.source = check.source + 1,
                          !.hint = (check.hint \/ (v = "degraded")), !.object = NoneFound]
    BY <1>2, <2>1 DEF After, NextSource, RowSources
  <2>3. DOMAIN check = DOMAIN IdleCheck
    BY DEF Checked
  <2>4. /\ c.pc = "source" /\ c.source = check.source + 1 /\ c.todo = check.todo
        /\ c.hint = (check.hint \/ (v = "degraded")) /\ c.day = check.day
        /\ c.clean = check.clean /\ c.results = check.results
    BY <2>2, <2>3 DEF IdleCheck
  <2> QED  BY <1>2, <2>1, <2>4 DEF MovedOn
<1>3. CASE v # "ok" /\ ~(check.source < Len(RowSources))
  <2>1. After(v) = Concluded(LastVerdict(v = "degraded"))
    BY <1>3 DEF After, NextSource, LastVerdict, RowSources
  <2> QED  BY <1>3, <2>1, ConcludedIs
<1> QED  BY <1>1, <1>2, <1>3

\* What an action has to show: a step's new verdicts are earned.
EarnedStep ==
    \A row \in DOMAIN check'.results \ DOMAIN check.results :
        EarnedVerdict(row, check'.results[row], check'.clean)

\* The verdict on a row whose sources are all weighed, or one of which held.
LEMMA WeighedIsEarned ==
  ASSUME WeighedInv, check.pc \in {"source", "get"}, NEW v \in {"ok", "bad", "degraded"},
         v = "ok" \/ ~(check.source < Len(RowSources)),
         NEW clean \in BOOLEAN, clean => check.clean /\ v = Worth(Source),
         NEW status, status = IF v = "ok" THEN "ok" ELSE LastVerdict(v = "degraded")
  PROVE  EarnedVerdict(Row, status, clean)
<1>1. /\ check.todo # <<>> /\ check.pc # "idle"
      /\ check.source \in 1 .. Len(RowSources) /\ check.day >= InventoryRow[Row].effective
      /\ check.clean => NoneHeld /\ Hinted
  BY DEF WeighedInv, SubstrateInv, Checked, Weighed
<1>2. /\ Len(RowSources) \in Nat /\ DOMAIN RowSources = 1 .. Len(RowSources)
      /\ \A i \in 1 .. Len(RowSources) : Worth(RowSources[i]) \in {"ok", "bad", "degraded"}
  BY <1>1, RowIsKnown, WorthIsVerdict DEF WeighedInv
<1>3. status \in {"ok", "degraded", "fail"}
  BY DEF LastVerdict
<1>4. ASSUME clean
      PROVE  /\ status = "ok" <=> "ok" \in WorthOf(Row)
             /\ status = "fail" <=> WorthOf(Row) = {"bad"} /\ ~InventoryRow[Row].nonFatal
  <2>1. /\ v = Worth(RowSources[check.source])
        /\ \A i \in 1 .. check.source - 1 : Worth(RowSources[i]) # "ok"
        /\ check.hint <=> \E i \in 1 .. check.source - 1 : Worth(RowSources[i]) = "degraded"
    BY <1>1, <1>4 DEF NoneHeld, Hinted, Source, RowSources
  <2>2. WorthOf(Row) = {Worth(RowSources[i]) : i \in 1 .. Len(RowSources)}
    BY <1>2 DEF WorthOf, RowSources
  <2>3. CASE v = "ok"
    <3>1. "ok" \in WorthOf(Row)
      BY <1>1, <2>1, <2>2, <2>3
    <3> QED  BY <2>3, <3>1
  <2>4. CASE v # "ok"
    <3>1. check.source = Len(RowSources)
      BY <1>1, <1>2, <2>4
    <3>2. \A i \in 1 .. Len(RowSources) : i \in 1 .. check.source - 1 \/ i = check.source
      <4>1. PICK n \in Nat : n = Len(RowSources) /\ n = check.source
        BY <1>2, <3>1
      <4>2. \A i \in 1 .. n : i \in 1 .. n - 1 \/ i = n
        OBVIOUS
      <4> QED  BY <4>1, <4>2
    <3>3. \A i \in 1 .. Len(RowSources) : Worth(RowSources[i]) # "ok"
      BY <2>1, <2>4, <3>2
    <3>4. "ok" \notin WorthOf(Row) /\ status # "ok"
      BY <2>2, <2>4, <3>3 DEF LastVerdict
    <3>5. check.hint \/ v = "degraded"
            <=> \E i \in 1 .. Len(RowSources) : Worth(RowSources[i]) = "degraded"
      <4>1. \A i \in 1 .. check.source - 1 : i \in 1 .. Len(RowSources)
        BY <1>1, <1>2
      <4> QED  BY <1>1, <2>1, <3>2, <4>1
    <3>6. WorthOf(Row) = {"bad"} <=> ~(check.hint \/ v = "degraded")
      <4>1. WorthOf(Row) = {"bad"} <=> \A i \in 1 .. Len(RowSources) : Worth(RowSources[i]) = "bad"
        BY <1>1, <2>2
      <4> QED  BY <1>2, <3>3, <3>5, <4>1
    <3> QED  BY <2>4, <3>4, <3>6 DEF LastVerdict
  <2> QED  BY <2>3, <2>4
<1> QED  BY <1>1, <1>3, <1>4 DEF EarnedVerdict

\* A source is weighed: the check goes on, and whatever it says is earned.
LEMMA SourceIsWeighed ==
  ASSUME WeighedInv, check.pc \in {"source", "get"}, NEW v \in {"ok", "bad", "degraded"},
         UNCHANGED <<objects, calendar, tallies>>,
         NEW clean \in BOOLEAN, clean => check.clean /\ v = Worth(Source),
         check' = [After(v) EXCEPT !.clean = clean] \/ (check' = After(v) /\ clean = check.clean)
  PROVE  Shelved' /\ Weighed' /\ EarnedStep
<1>1. /\ Checked(check) /\ check.todo # <<>> /\ check.pc # "idle"
      /\ check.source \in 1 .. Len(RowSources) /\ check.day >= InventoryRow[Row].effective
      /\ check.hint \in BOOLEAN
      /\ check.clean => NoneHeld /\ Hinted
  BY DEF WeighedInv, SubstrateInv, Checked, Weighed
<1>2. Len(RowSources) \in Nat
  BY <1>1, RowIsKnown DEF WeighedInv
<1>3. PICK c : c = After(v) /\ Checked(c) /\ c.pc \in Judging
  BY <1>1, AdvancesToNext DEF Advanced
<1>4. /\ check'.pc = c.pc /\ check'.source = c.source /\ check'.todo = c.todo /\ check'.hint = c.hint
      /\ check'.day = c.day /\ check'.results = c.results /\ check'.clean = clean
  <2>1. DOMAIN c = DOMAIN IdleCheck
    BY <1>3 DEF Checked
  <2>2. CASE check' = [c EXCEPT !.clean = clean]
    BY <2>1, <2>2 DEF IdleCheck
  <2>3. CASE check' = c /\ clean = check.clean
    <3>1. c.clean = check.clean
      BY <1>1, <1>3, AfterIs DEF ConcludedAs, MovedOn
    <3> QED  BY <2>3, <3>1
  <2> QED  BY <1>3, <2>2, <2>3
<1>5. ASSUME v # "ok", check.source < Len(RowSources)
      PROVE  Shelved' /\ Weighed' /\ EarnedStep
  <2>1. /\ check'.pc = "source" /\ check'.source = check.source + 1 /\ check'.todo = check.todo
        /\ check'.hint = (check.hint \/ v = "degraded") /\ check'.day = check.day
        /\ check'.results = check.results
    BY <1>1, <1>3, <1>4, <1>5, AfterIs DEF MovedOn
  <2>2. /\ Row' = Row /\ RowSources' = RowSources
        /\ InventoryRow[Row]' = InventoryRow[Row]
    BY <2>1 DEF Row, RowSources
  <2>3. \A i : Worth(RowSources[i])' = Worth(RowSources[i])
    BY <2>1, <2>2, WorthStands
  <2>4. check'.source \in 1 .. Len(RowSources) /\ check'.source - 1 = check.source
    BY <1>1, <1>2, <1>5, <2>1
  <2>5. \A i \in 1 .. check.source : i \in 1 .. check.source - 1 \/ i = check.source
    BY <1>1
  <2>6. ASSUME clean PROVE NoneHeld' /\ Hinted'
    <3>1. /\ v = Worth(RowSources[check.source])
          /\ \A i \in 1 .. check.source - 1 : Worth(RowSources[i]) # "ok"
          /\ check.hint <=> \E i \in 1 .. check.source - 1 : Worth(RowSources[i]) = "degraded"
      <4>1. NoneHeld /\ Hinted /\ v = Worth(Source)
        BY <1>1, <2>6
      <4>2. Source = RowSources[check.source]
        BY DEF Source, RowSources
      <4> QED  BY <4>1, <4>2 DEF NoneHeld, Hinted
    <3>2. \A i \in 1 .. check.source : Worth(RowSources[i]) # "ok"
      BY <1>5, <2>5, <3>1
    <3>3. (check.hint \/ v = "degraded")
             <=> \E i \in 1 .. check.source : Worth(RowSources[i]) = "degraded"
      <4>1. \A i \in 1 .. check.source - 1 : i \in 1 .. check.source
        BY <1>1
      <4> QED  BY <1>1, <2>5, <3>1, <4>1
    <3>4. \A i \in 1 .. check'.source - 1 : Worth(RowSources[i])' # "ok"
      BY <2>3, <2>4, <3>2
    <3>5. check'.hint <=> \E i \in 1 .. check'.source - 1 : Worth(RowSources[i])' = "degraded"
      BY <2>1, <2>3, <2>4, <3>3
    <3> QED  BY <3>4, <3>5 DEF NoneHeld, Hinted
  <2>7. Shelved'
    BY <2>1 DEF WeighedInv, Shelved
  <2>8. Weighed'
    BY <1>1, <1>4, <2>1, <2>2, <2>4, <2>6 DEF Weighed
  <2> QED  BY <2>1, <2>7, <2>8 DEF EarnedStep
<1>6. ASSUME v = "ok" \/ ~(check.source < Len(RowSources))
      PROVE  Shelved' /\ Weighed' /\ EarnedStep
  <2>1. PICK status : status = IF v = "ok" THEN "ok" ELSE LastVerdict(v = "degraded")
    OBVIOUS
  <2>2. ConcludedAs(c, status)
    BY <1>1, <1>3, <1>6, <2>1, AfterIs
  <2>3. /\ check'.pc = "row" /\ check'.hint = FALSE /\ check'.day = check.day
        /\ check'.results = [row \in DOMAIN check.results \cup {Row} |->
                         IF row \in DOMAIN check.results THEN check.results[row] ELSE status]
    BY <1>4, <2>2 DEF ConcludedAs
  <2>4. EarnedVerdict(Row, status, clean)
    BY <1>6, <2>1, WeighedIsEarned
  <2>5. EarnedStep
    BY <1>4, <2>3, <2>4 DEF EarnedStep
  <2>6. Shelved'
    BY <2>3 DEF WeighedInv, Shelved
  <2>7. Weighed'
    BY <1>4, <2>3 DEF Weighed
  <2> QED  BY <2>5, <2>6, <2>7
<1> QED  BY <1>5, <1>6

-----------------------------------------------------------------------------
(* Every step of the check, and the theorem.                                *)

\* A row is begun at its first source, or is not due or gated and so concluded.
LEMMA RowBegins ==
  ASSUME WeighedInv, BeginRow
  PROVE  Shelved' /\ Weighed' /\ EarnedStep
<1>1. /\ check.pc = "row" /\ check.todo # <<>> /\ Checked(check) /\ ~check.hint
      /\ check.hint \in BOOLEAN /\ check.clean \in BOOLEAN
      /\ UNCHANGED <<objects, calendar, tallies, schedule>> /\ check.day \in Nat
  BY DEF WeighedInv, SubstrateInv, BeginRow, Weighed, Shelved, world
<1>2. InventoryRow[Row].effective \in Int /\ Len(RowSources) \in Nat /\ Len(RowSources) >= 1
  BY <1>1, RowIsKnown DEF WeighedInv
<1>3. PICK state \in {schedule, "unreadable"} :
        check' = IF check.day < InventoryRow[Row].effective THEN Concluded("not_yet_effective")
                 ELSE IF InventoryRow[Row].gated /\ RowGates(state) THEN Concluded("gated")
                 ELSE [check EXCEPT !.pc = "source", !.source = 1,
                                    !.clean = state # "unreadable"]
  BY DEF BeginRow
<1>4. ASSUME NEW status, check' = Concluded(status), EarnedVerdict(Row, status, check'.clean)
      PROVE  Shelved' /\ Weighed' /\ EarnedStep
  <2>1. /\ check'.pc = "row" /\ check'.hint = FALSE /\ check'.day = check.day
        /\ check'.clean = check.clean
        /\ check'.results = [row \in DOMAIN check.results \cup {Row} |->
                         IF row \in DOMAIN check.results THEN check.results[row] ELSE status]
    BY <1>1, <1>4, ConcludedIs DEF ConcludedAs
  <2>2. EarnedStep
    BY <1>4, <2>1 DEF EarnedStep
  <2>3. Shelved'
    BY <1>1, <2>1 DEF WeighedInv, Shelved
  <2>4. Weighed'
    BY <1>1, <2>1 DEF Weighed
  <2> QED  BY <2>2, <2>3, <2>4
<1>5. CASE check.day < InventoryRow[Row].effective
  <2>1. \A clean : EarnedVerdict(Row, "not_yet_effective", clean)
    BY <1>1, <1>2, <1>5 DEF EarnedVerdict
  <2> QED  BY <1>3, <1>4, <1>5, <2>1
<1>6. CASE ~(check.day < InventoryRow[Row].effective)
            /\ InventoryRow[Row].gated /\ RowGates(state)
  <2>1. schedule = "DISABLED"
    BY <1>3, <1>6 DEF RowGates
  <2>2. \A clean : EarnedVerdict(Row, "gated", clean)
    BY <1>1, <1>2, <1>6, <2>1 DEF EarnedVerdict
  <2> QED  BY <1>3, <1>4, <1>6, <2>2
<1>7. CASE ~(check.day < InventoryRow[Row].effective)
            /\ ~(InventoryRow[Row].gated /\ RowGates(state))
  <2>1. check' = [check EXCEPT !.pc = "source", !.source = 1, !.clean = state # "unreadable"]
    BY <1>3, <1>7
  <2>2. /\ check'.pc = "source" /\ check'.source = 1 /\ check'.clean = (state # "unreadable")
        /\ check'.hint = check.hint /\ check'.day = check.day /\ check'.todo = check.todo
        /\ check'.results = check.results
    BY <1>1, <2>1 DEF Checked, IdleCheck
  <2>3. Row' = Row /\ RowSources' = RowSources
    BY <2>2 DEF Row, RowSources
  <2>4. NoneHeld' /\ Hinted'
    <3>1. 1 .. check'.source - 1 = {}
      BY <2>2
    <3> QED  BY <1>1, <2>2, <3>1 DEF NoneHeld, Hinted
  <2>5. Weighed'
    BY <1>1, <1>2, <1>7, <2>2, <2>3, <2>4 DEF Weighed
  <2>6. Shelved'
    BY <1>1, <2>2 DEF WeighedInv, Shelved
  <2> QED  BY <2>2, <2>5, <2>6 DEF EarnedStep
<1> QED  BY <1>5, <1>6, <1>7

\* A look for an object finds the newest, or its excuse, or weighs it as bad.
LEMMA LookIsWeighed ==
  ASSUME WeighedInv, LookForObject
  PROVE  Shelved' /\ Weighed' /\ EarnedStep
<1>1. /\ check.pc = "source" /\ Source.kind # "cloudwatch" /\ Checked(check) /\ check.todo # <<>>
      /\ check.clean \in BOOLEAN /\ UNCHANGED <<objects, calendar, tallies>>
      /\ check.source \in 1 .. Len(RowSources) /\ Shelved
  BY DEF WeighedInv, SubstrateInv, Checked, LookForObject, Weighed, world
<1>2. Source \in AllSources
  BY <1>1, RowIsKnown DEF WeighedInv, Source, RowSources
<1>3. PICK denied :
        LET found == ResolveAndAge(Source, check.day, denied)
            next == IF found # NoneFound
                    THEN [check EXCEPT !.pc = "get", !.object = found]
                    ELSE After(IF CompanionPresent(Source, check.day, denied)
                               THEN "ok" ELSE "bad")
        IN  check' = [next EXCEPT !.clean = check.clean /\ denied = {}]
  BY DEF LookForObject
<1>4. PICK found : found = ResolveAndAge(Source, check.day, denied)
  OBVIOUS
<1>5. PICK v \in {"ok", "bad", "degraded"} :
        v = IF CompanionPresent(Source, check.day, denied) THEN "ok" ELSE "bad"
  OBVIOUS
<1>6. PICK clean \in BOOLEAN : clean = (check.clean /\ denied = {})
  OBVIOUS
<1>7. PICK next : /\ next = IF found # NoneFound
                            THEN [check EXCEPT !.pc = "get", !.object = found] ELSE After(v)
                  /\ check' = [next EXCEPT !.clean = clean]
  BY <1>3, <1>4, <1>5, <1>6
<1>8. ASSUME clean
      PROVE  /\ found # NoneFound => NewestOf(Source, Source.key) = {found}
             /\ found = NoneFound => v = Worth(Source)
  <2>1. denied = {} /\ found = ResolveAndAge(Source, check.day, {})
    BY <1>4, <1>6, <1>8
  <2>2. /\ found = NoneFound => NewestOf(Source, Source.key) = {}
        /\ found # NoneFound => NewestOf(Source, Source.key) = {found}
    BY <1>1, <1>2, <2>1, LookFinds
  <2>3. v = IF Source.companion # "none" /\ NewestOf(Source, Source.companion) # {}
            THEN "ok" ELSE "bad"
    BY <1>1, <1>2, <1>5, <2>1, CompanionFinds
  <2>4. ASSUME found = NoneFound PROVE v = Worth(Source)
    BY <1>1, <2>2, <2>3, <2>4, WorthIsSeen DEF WorthAsSeen
  <2> QED  BY <2>2, <2>4
<1>9. CASE found = NoneFound
  <2>1. check' = [After(v) EXCEPT !.clean = clean]
    BY <1>7, <1>9
  <2>2. clean => check.clean /\ v = Worth(Source)
    BY <1>6, <1>8, <1>9
  <2> QED  BY <1>1, <2>1, <2>2, SourceIsWeighed
<1>10. CASE found # NoneFound
  <2>1. /\ check'.pc = "get" /\ check'.object = found /\ check'.clean = clean
        /\ check'.source = check.source /\ check'.todo = check.todo /\ check'.hint = check.hint
        /\ check'.day = check.day /\ check'.results = check.results
    BY <1>1, <1>7, <1>10 DEF Checked, IdleCheck
  <2>2. Row' = Row /\ RowSources' = RowSources /\ Source' = Source
    BY <2>1 DEF Row, RowSources, Source
  <2>3. /\ \A i : Worth(RowSources[i])' = Worth(RowSources[i])
        /\ NewestOf(Source, Source.key)' = NewestOf(Source, Source.key)
    BY <1>1, <2>1, <2>2, WorthStands
  <2>4. ASSUME clean PROVE NoneHeld' /\ Hinted' /\ NewestOf(Source, Source.key)' = {found}
    <3>1. NoneHeld /\ Hinted
      BY <1>1, <1>6, <2>4 DEF WeighedInv, Weighed
    <3>2. NoneHeld'
      BY <2>1, <2>3, <3>1 DEF NoneHeld
    <3>3. Hinted'
      BY <2>1, <2>3, <3>1 DEF Hinted
    <3> QED  BY <1>8, <1>10, <2>3, <2>4, <3>2, <3>3
  <2>5. Weighed'
    BY <1>1, <2>1, <2>2, <2>4 DEF WeighedInv, Weighed
  <2>6. Shelved'
    BY <1>1, <2>1 DEF Shelved
  <2> QED  BY <2>1, <2>5, <2>6 DEF EarnedStep
<1> QED  BY <1>9, <1>10

\* What is read of the object found, or of the alarm, is what the source is worth.
LEMMA AnswersAreWeighed ==
  ASSUME WeighedInv, ReadObject \/ AskCloudWatch
  PROVE  Shelved' /\ Weighed' /\ EarnedStep
<1>1. /\ check.pc \in {"source", "get"} /\ check.todo # <<>>
      /\ check.clean \in BOOLEAN /\ UNCHANGED <<objects, calendar, tallies>>
      /\ check.source \in 1 .. Len(RowSources) /\ check.pc # "idle"
  BY DEF WeighedInv, SubstrateInv, Checked, ReadObject, AskCloudWatch, Weighed, world
<1>2. Source \in AllSources
  BY <1>1, RowIsKnown DEF WeighedInv, Source, RowSources
<1>3. ASSUME check' = [NextSource(FALSE) EXCEPT !.clean = FALSE]
      PROVE  Shelved' /\ Weighed' /\ EarnedStep
  <2>1. After("bad") = NextSource(FALSE)
    BY DEF After
  <2>2. check' = [After("bad") EXCEPT !.clean = FALSE]
    BY <1>3, <2>1
  <2> QED  BY <1>1, <2>2, SourceIsWeighed
<1>4. ASSUME NEW v \in {"ok", "bad", "degraded"}, check' = After(v),
             check.clean => v = Worth(Source)
      PROVE  Shelved' /\ Weighed' /\ EarnedStep
  BY <1>1, <1>4, SourceIsWeighed
<1>5. CASE ReadObject
  <2>1. check.pc = "get" /\ Source.kind # "cloudwatch"
    BY <1>5 DEF ReadObject, WeighedInv, Weighed
  <2>2. PICK v : v = FileVerdict(Source, objects[check.object].file)
    OBVIOUS
  <2>3. v \in {"ok", "bad", "degraded"}
    BY <1>2, <2>1, <2>2, FileIsJudged
  <2>4. ASSUME check.clean PROVE v = Worth(Source)
    <3>1. NewestOf(Source, Source.key) = {check.object}
      BY <2>1, <2>4 DEF WeighedInv, Weighed
    <3>2. OneOf({check.object}) = check.object
      BY DEF OneOf
    <3> QED  BY <2>1, <2>2, <3>1, <3>2, WorthIsSeen DEF WorthAsSeen
  <2>5. check' = After(v) \/ check' = [NextSource(FALSE) EXCEPT !.clean = FALSE]
    BY <1>5, <2>2 DEF ReadObject
  <2> QED  BY <1>3, <1>4, <2>3, <2>4, <2>5
<1>6. CASE AskCloudWatch
  <2>1. Source.kind = "cloudwatch"
    BY <1>6 DEF AskCloudWatch
  <2>2. PICK v : v = CloudWatchVerdict(Source)
    OBVIOUS
  <2>3. v = Worth(Source)
    BY <2>1, <2>2 DEF Worth
  <2>4. v \in {"ok", "bad", "degraded"}
    BY <1>2, <2>3, WorthIsVerdict
  <2>5. check' = After(v) \/ check' = [NextSource(FALSE) EXCEPT !.clean = FALSE]
    BY <1>6, <2>2 DEF AskCloudWatch
  <2> QED  BY <1>3, <1>4, <2>3, <2>4, <2>5
<1> QED  BY <1>5, <1>6

\* What the world does to a row being judged is held against its verdict.
LEMMA WorldIsWeighed ==
  ASSUME WeighedInv, Disturbs
  PROVE  Weighed' /\ EarnedStep /\ check'.day = check.day
<1>1. Checked(check) /\ check.clean \in BOOLEAN
  BY DEF WeighedInv, SubstrateInv, Weighed
<1>2. /\ check'.pc = check.pc /\ check'.hint = check.hint /\ check'.source = check.source
      /\ check'.day = check.day /\ check'.todo = check.todo /\ check'.results = check.results
      /\ check'.clean \in BOOLEAN /\ (check.pc \in {"source", "get"} => ~check'.clean)
  <2>1. CASE check.pc \in {"source", "get"}
    <3>1. check' = [check EXCEPT !.clean = FALSE]
      BY <2>1 DEF Disturbs
    <3> QED  BY <1>1, <3>1 DEF Checked, IdleCheck
  <2>2. CASE check.pc \notin {"source", "get"}
    BY <1>1, <2>2 DEF Disturbs
  <2> QED  BY <2>1, <2>2
<1>3. Row' = Row /\ RowSources' = RowSources /\ Source' = Source
  BY <1>2 DEF Row, RowSources, Source
<1>4. Weighed'
  BY <1>2, <1>3 DEF WeighedInv, Weighed
<1> QED  BY <1>2, <1>4 DEF EarnedStep

\* Every step keeps the strengthening, and gives no verdict that is not earned.
LEMMA WeighedSteps ==
  WeighedInv /\ [SubstrateNext]_substrateVars => Shelved' /\ Weighed' /\ (EarnedStep \/ UNCHANGED substrateVars)
<1> SUFFICES ASSUME WeighedInv, SubstrateNext \/ UNCHANGED substrateVars
             PROVE  Shelved' /\ Weighed' /\ (EarnedStep \/ UNCHANGED substrateVars)
  OBVIOUS
<1>1. Checked(check) /\ Shelved /\ Weighed
  BY DEF WeighedInv, SubstrateInv
<1>2. ASSUME NEW inventory \in Inventories, NEW cadence, NEW env,
             NEW alert \in BOOLEAN, NEW noEmit \in BOOLEAN,
             StartCheck(inventory, cadence, env, alert, noEmit)
      PROVE  Shelved' /\ Weighed' /\ EarnedStep
  <2>1. /\ check'.pc = "row" /\ check'.hint = FALSE /\ check'.clean = TRUE
        /\ check'.day = calendar /\ check'.results = <<>>
        /\ UNCHANGED <<objects, calendar>>
    BY <1>2 DEF StartCheck, IdleCheck, world
  <2>2. DOMAIN <<>> = {}
    BY EmptyIsList
  <2>3. Shelved'
    BY <1>1, <2>1 DEF Shelved
  <2>4. Weighed'
    BY <2>1 DEF Weighed
  <2> QED  BY <2>1, <2>2, <2>3, <2>4 DEF EarnedStep
<1>3. ASSUME ReportDone \/ PutBatch \/ PageAndExit
      PROVE  Shelved' /\ Weighed' /\ EarnedStep
  <2>1. /\ check'.pc \in {"emit", "done"} /\ check'.hint = check.hint /\ check'.clean = check.clean
        /\ check'.day = check.day /\ check'.results = check.results
    <3>1. DOMAIN check = DOMAIN IdleCheck
      BY <1>1 DEF Checked
    <3>2. CASE ReportDone
      BY <3>1, <3>2 DEF ReportDone, IdleCheck
    <3>3. CASE PutBatch
      BY <3>1, <3>3 DEF PutBatch, IdleCheck
    <3>4. CASE PageAndExit
      BY <3>1, <3>4 DEF PageAndExit, IdleCheck
    <3> QED  BY <1>3, <3>2, <3>3, <3>4
  <2>2. UNCHANGED <<objects, calendar>>
    BY <1>3 DEF ReportDone, PutBatch, PageAndExit, world
  <2>3. Shelved'
    BY <1>1, <2>1, <2>2 DEF Shelved
  <2>4. Weighed'
    BY <1>1, <2>1 DEF Weighed
  <2> QED  BY <2>1, <2>3, <2>4 DEF EarnedStep
<1>4. ASSUME NEW key \in SubstrateKeys, NEW file, WriteObject(key, file)
      PROVE  Shelved' /\ Weighed' /\ EarnedStep
  <2>1. /\ objects' = [objects EXCEPT ![<<key, IF Dated(key) THEN calendar ELSE 0>>] =
                          [on |-> calendar, file |-> file]]
        /\ calendar' = calendar /\ Disturbs
    BY <1>4 DEF WriteObject
  <2>2. check'.day = check.day /\ Weighed' /\ EarnedStep
    BY <2>1, WorldIsWeighed
  <2>3. DOMAIN objects' = DOMAIN objects
    BY <2>1
  <2>4. ASSUME NEW k \in SubstrateKeys, NEW d \in ObjectDays, ~Dated(k), d # 0
        PROVE  objects'[<<k, d>>] = Missing
    <3>1. <<k, d>> # <<key, IF Dated(key) THEN calendar ELSE 0>>
      BY <2>4
    <3>2. objects'[<<k, d>>] = objects[<<k, d>>]
      BY <1>1, <2>1, <3>1 DEF Shelved
    <3> QED  BY <1>1, <2>4, <3>2 DEF Shelved
  <2>5. Shelved'
    BY <1>1, <2>1, <2>2, <2>3, <2>4 DEF Shelved
  <2> QED  BY <2>2, <2>5
<1>5. ASSUME FlipSchedule \/ DayPasses
      PROVE  Shelved' /\ Weighed' /\ EarnedStep
  <2>1. Disturbs /\ objects' = objects /\ (calendar' = calendar \/ calendar' = calendar + 1)
    BY <1>5 DEF FlipSchedule, DayPasses
  <2>2. check'.day = check.day /\ Weighed' /\ EarnedStep
    BY <2>1, WorldIsWeighed
  <2>3. Shelved'
    BY <1>1, <2>1, <2>2 DEF Shelved
  <2> QED  BY <2>2, <2>3
<1>6. CASE UNCHANGED substrateVars
  <2>1. /\ objects' = objects /\ calendar' = calendar /\ tallies' = tallies /\ check' = check
    BY <1>6 DEF substrateVars
  <2>2. /\ Row' = Row /\ RowSources' = RowSources /\ Source' = Source
    BY <2>1 DEF Row, RowSources, Source
  <2>3. /\ \A i : Worth(RowSources[i])' = Worth(RowSources[i])
        /\ NewestOf(Source, Source.key)' = NewestOf(Source, Source.key)
    BY <2>1, <2>2, WorthStands
  <2>4. (NoneHeld => NoneHeld') /\ (Hinted => Hinted')
    BY <2>1, <2>3 DEF NoneHeld, Hinted
  <2>5. Weighed'
    BY <1>1, <2>1, <2>2, <2>3, <2>4 DEF Weighed
  <2>6. Shelved'
    BY <1>1, <2>1 DEF Shelved
  <2> QED  BY <1>6, <2>5, <2>6
<1> QED  BY <1>2, <1>3, <1>4, <1>5, <1>6, RowBegins, LookIsWeighed, AnswersAreWeighed DEF SubstrateNext

\* The verdict on a row that nothing disturbed is what the store as a whole says of it,
\* for any inventory, any files and any history before it (transparency.py's _check_row).
THEOREM VerdictsAreEarned == SubstrateSpec => VerdictIsEarned
<1>1. SubstrateInit => WeighedInv
  <2> SUFFICES ASSUME SubstrateInit PROVE WeighedInv
    OBVIOUS
  <2>1. /\ calendar = 1 /\ check = IdleCheck
        /\ objects = [o \in SubstrateKeys \X ObjectDays |-> Missing]
    BY DEF SubstrateInit
  <2>2. check.pc = "idle" /\ check.hint = FALSE /\ check.clean = TRUE /\ check.day = 0
    BY <2>1 DEF IdleCheck
  <2>3. Shelved
    BY <2>1, <2>2 DEF Shelved
  <2>4. Weighed
    BY <2>2 DEF Weighed
  <2> QED  BY <2>3, <2>4, SubstrateStarts DEF WeighedInv
<1>2. WeighedInv /\ [SubstrateNext]_substrateVars => WeighedInv'
  BY WeighedSteps, SubstrateSteps DEF WeighedInv
<1>3. WeighedInv /\ [SubstrateNext]_substrateVars => [EarnedStep]_substrateVars
  BY WeighedSteps
<1>4. [EarnedStep]_substrateVars =>
         [\A row \in DOMAIN check'.results \ DOMAIN check.results :
             EarnedVerdict(row, check'.results[row], check'.clean)]_substrateVars
  BY DEF EarnedStep
<1> QED  BY <1>1, <1>2, <1>3, <1>4, PTL DEF SubstrateSpec, VerdictIsEarned
===============================================================================
