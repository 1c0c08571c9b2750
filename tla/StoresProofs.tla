----------------------------- MODULE StoresProofs -----------------------------
(*****************************************************************************)
(* Proofs about what is stored and what is read of it: the arena's register  *)
(* and pointer, the price store, the windowed readers, the retrieval store.  *)
(*****************************************************************************)
EXTENDS Arena, PriceStore, ArtifactWindow, RagStore, DataLemmas

-----------------------------------------------------------------------------
(* The arena, for any arms, controls, configurations and evidence.          *)

\* What the cycle in progress was computed from still holds: it stays true of the
\* register until the slot has published it.
CycleInv ==
  stage # "idle" =>
    /\ cycle.active \subseteq ActiveArms(week)
    /\ [champion |-> cycle.champion, status |-> cycle.status] \in
         Decide(config, cycle.ev, cycle.active, cycle.unfit, cycle.incumbent)
    /\ cycle.retire \subseteq Pool \ {cycle.champion}
    /\ \A a \in cycle.retire : OverCap(config, cycle.ev, cycle.active, Pool, a)
    /\ cycle.retire # {} =>
         Cardinality(Pool) - Cardinality(cycle.retire) >= config.min_active_arms
    /\ stage = "served" => pointer = cycle.champion

\* The inductive invariant.
IInv == TypeOK /\ ServingArmIsActive /\ CycleInv

-----------------------------------------------------------------------------
LEMMA ArmSetsAreFinite ==
  ASSUME NEW S \in SUBSET Arm
  PROVE  IsFiniteSet(S) /\ Cardinality(S) \in Nat
BY ArenaAssumption, FS_Subset, FS_CardinalityType

\* A decision names an active arm, or nobody.
LEMMA DecideFacts ==
  ASSUME NEW c, NEW ev, NEW active \in SUBSET Arm, NEW unfit,
         NEW inc \in Arm \cup {NoArm}, NEW d \in Decide(c, ev, active, unfit, inc)
  PROVE  /\ d = [champion |-> d.champion, status |-> d.status]
         /\ d.champion \in active \cup {NoArm}
         /\ d.status \in Statuses
         /\ d.champion = NoArm <=> d.status = "unservable"
<1> DEFINE eligible == active \ unfit
           challengers == eligible \ {inc}
           promotable == Promotable(c, ev, challengers, inc)
<1>1. FirstRanked(ev, eligible) \subseteq active
  BY DEF FirstRanked
<1>2. Forced(c, ev, eligible, inc) \subseteq active
  BY DEF Forced, Leaders, Promotable
<1>3. Leaders(c, ev, inc, promotable) \subseteq active
  BY DEF Leaders, Promotable
<1> DEFINE Says(arms, status) == {[champion |-> a, status |-> status] : a \in arms}
<1>4. \/ d \in Says({NoArm}, "unservable")
      \/ d \in Says(FirstRanked(ev, eligible), "bootstrap")
      \/ d \in Says(Forced(c, ev, eligible, inc), "decided")
      \/ inc \in active /\ d \in Says({inc}, "unmeasurable")
      \/ inc \in active /\ d \in Says({inc}, "held")
      \/ d \in Says(Leaders(c, ev, inc, promotable), "decided")
  BY Zenon DEF Decide
<1>5. CASE d \in Says({NoArm}, "unservable")
  BY <1>5, ArenaAssumption DEF Statuses
<1>6. ASSUME NEW X \in SUBSET active, NEW s \in Statuses \ {"unservable"}, d \in Says(X, s)
      PROVE  /\ d = [champion |-> d.champion, status |-> d.status]
             /\ d.champion \in active /\ d.status = s
  BY <1>6
<1> HIDE DEF Says
<1>7. CASE d \in Says(FirstRanked(ev, eligible), "bootstrap")
  BY <1>1, <1>6, <1>7, ArenaAssumption DEF Statuses
<1>8. CASE d \in Says(Forced(c, ev, eligible, inc), "decided")
  BY <1>2, <1>6, <1>8, ArenaAssumption DEF Statuses
<1>9. CASE inc \in active /\ d \in Says({inc}, "unmeasurable")
  BY <1>6, <1>9, ArenaAssumption DEF Statuses
<1>10. CASE inc \in active /\ d \in Says({inc}, "held")
  BY <1>6, <1>10, ArenaAssumption DEF Statuses
<1>11. CASE d \in Says(Leaders(c, ev, inc, promotable), "decided")
  BY <1>3, <1>6, <1>11, ArenaAssumption DEF Statuses
<1> QED
  BY <1>4, <1>5, <1>7, <1>8, <1>9, <1>10, <1>11

\* What a cycle retires, and what it leaves.
LEMMA RetiringFacts ==
  ASSUME NEW ev, NEW champion, NEW R \in Retiring(ev, champion)
  PROVE  /\ R \subseteq PromotableArms(week) \ {champion}
         /\ \A a \in R : OverCap(config, ev, ActiveArms(week), PromotableArms(week), a)
         /\ R # {} => Cardinality(PromotableArms(week)) - Cardinality(R)
                        >= config.min_active_arms
BY DEF Retiring, Retirements, Candidates, Grown

LEMMA PoolFacts ==
  ActiveArms(week) \ Control = PromotableArms(week)
BY DEF PromotableArms

-----------------------------------------------------------------------------
LEMMA InitInv == Init => IInv
<1> SUFFICES ASSUME Init PROVE IInv
  OBVIOUS
<1>1. TypeOK
  BY ArenaAssumption DEF Init, TypeOK, Registered
<1>2. ServingArmIsActive /\ CycleInv
  BY DEF Init, ServingArmIsActive, CycleInv
<1> QED
  BY <1>1, <1>2 DEF IInv

\* While a cycle is being published only rows of other arms are added.
LEMMA RegisterStep ==
  ASSUME IInv, NEW a \in Arm, Register(a)
  PROVE  IInv'
<1> USE DEF IInv
<1>1. created' \in [Arm -> Nat] /\ filed' \in [Arm -> Nat \cup {Never}]
  <2>1. PICK d \in Created[a] : created' = [created EXCEPT ![a] = d]
    BY DEF Register
  <2>2. week \in Nat
    BY ArenaAssumption DEF TypeOK
  <2>3. Created[a] \in SUBSET Nat
    BY ArenaAssumption, Zenon
  <2>4. d \in Nat
    BY <2>1, <2>3
  <2> QED
    BY <2>1, <2>2, <2>4 DEF Register, TypeOK
<1>2. Registered \subseteq Registered' /\ ActiveArms(week) \subseteq ActiveArms(week)'
  BY ArenaAssumption DEF Register, TypeOK, Registered, ActiveArms, ExistsAt
<1>3. TypeOK'
  BY <1>1, <1>2 DEF Register, TypeOK
<1>4. ServingArmIsActive'
  BY DEF Register, ServingArmIsActive
<1>5. CycleInv'
  BY <1>2 DEF Register, CycleInv, Pool, ActiveArms, ExistsAt
<1> QED
  BY <1>3, <1>4, <1>5

LEMMA RunCycleStep ==
  ASSUME IInv, NEW ev \in Evidences, NEW unfit \in Unfits, RunCycle(ev, unfit)
  PROVE  IInv'
<1> USE DEF IInv
<1>1. PICK d \in Decide(config, ev, ActiveArms(week), unfit, pointer) :
        \E R \in Retiring(ev, d.champion) : cycle' = Record(ev, unfit, d, R)
  BY DEF RunCycle, Cycles
<1>2. PICK R \in Retiring(ev, d.champion) : cycle' = Record(ev, unfit, d, R)
  BY <1>1
<1>3. ActiveArms(week) \subseteq Registered /\ Registered \subseteq Arm
  BY DEF ActiveArms, ExistsAt, Registered
<1>4. pointer \in Arm \cup {NoArm} /\ ActiveArms(week) \in SUBSET Arm
  BY <1>3 DEF TypeOK
<1>5. /\ d = [champion |-> d.champion, status |-> d.status]
      /\ d.champion \in ActiveArms(week) \cup {NoArm}
      /\ d.status \in Statuses
      /\ d.champion = NoArm <=> d.status = "unservable"
  BY <1>4, DecideFacts
<1>6. /\ R \subseteq PromotableArms(week) \ {d.champion}
      /\ \A a \in R : OverCap(config, ev, ActiveArms(week), PromotableArms(week), a)
      /\ R # {} => Cardinality(PromotableArms(week)) - Cardinality(R)
                     >= config.min_active_arms
  BY RetiringFacts, Zenon
<1>7. /\ cycle'.as_of = week /\ cycle'.ev = ev /\ cycle'.unfit = unfit
      /\ cycle'.active = ActiveArms(week) /\ cycle'.incumbent = pointer
      /\ cycle'.champion = d.champion /\ cycle'.status = d.status /\ cycle'.retire = R
  BY <1>2 DEF Record
<1>8. cycle' \in CycleRecord
  <2>1. PromotableArms(week) \subseteq ActiveArms(week)
    BY DEF PromotableArms
  <2> QED
    BY <1>2, <1>3, <1>4, <1>5, <1>6, <2>1 DEF CycleRecord, Record, TypeOK
<1>9. /\ stage' = "decided" /\ config' = config /\ week' = week /\ created' = created
      /\ filed' = filed /\ retired' = retired /\ pointer' = pointer
  BY DEF RunCycle, register
<1>10. TypeOK'
  BY <1>3, <1>7, <1>8, <1>9 DEF TypeOK, Registered
<1>11. ServingArmIsActive'
  BY <1>9 DEF ServingArmIsActive
<1>12. CycleInv'
  <2>1. ActiveArms(week)' = ActiveArms(week)
    BY <1>9 DEF ActiveArms, ExistsAt, Registered
  <2>2. Pool' = PromotableArms(week)
    BY <1>7 DEF Pool, PromotableArms
  <2>3. [champion |-> cycle'.champion, status |-> cycle'.status] = d
    BY <1>5, <1>7
  <2>4. CycleInv' = (stage' # "idle" =>
          /\ cycle'.active \subseteq ActiveArms(week)'
          /\ [champion |-> cycle'.champion, status |-> cycle'.status] \in
               Decide(config', cycle'.ev, cycle'.active, cycle'.unfit, cycle'.incumbent)
          /\ cycle'.retire \subseteq Pool' \ {cycle'.champion}
          /\ \A a \in cycle'.retire : OverCap(config', cycle'.ev, cycle'.active, Pool', a)
          /\ cycle'.retire # {} =>
               Cardinality(Pool') - Cardinality(cycle'.retire) >= config'.min_active_arms
          /\ stage' = "served" => pointer' = cycle'.champion)
    BY DEF CycleInv
  <2> QED
    BY <1>1, <1>6, <1>7, <1>9, <2>1, <2>2, <2>3, <2>4
<1> QED
  BY <1>10, <1>11, <1>12

LEMMA ServeStep ==
  ASSUME IInv, Serve
  PROVE  IInv'
<1> USE DEF IInv
<1>1. /\ stage = "decided" /\ stage' = "served" /\ pointer' = cycle.champion
      /\ cycle' = cycle /\ config' = config /\ week' = week /\ created' = created
      /\ filed' = filed /\ retired' = retired
  BY DEF Serve, register
<1>2. cycle.champion \in ActiveArms(week) \cup {NoArm}
  BY <1>1 DEF TypeOK, CycleInv, CycleRecord
<1>3. TypeOK'
  BY <1>1, <1>2 DEF TypeOK, Registered, ActiveArms, ExistsAt
<1>4. ServingArmIsActive'
  BY <1>1, <1>2 DEF ServingArmIsActive, ActiveArms
<1>5. CycleInv'
  BY <1>1 DEF CycleInv, Pool, ActiveArms, ExistsAt, Registered
<1> QED
  BY <1>3, <1>4, <1>5

LEMMA RetireStep ==
  ASSUME IInv, Retire
  PROVE  IInv'
<1> USE DEF IInv
<1>1. retired' \in [Arm -> Nat \cup {Never}]
  BY DEF Retire, TypeOK
<1>2. TypeOK'
  BY <1>1 DEF Retire, TypeOK, Registered
<1>3. pointer = cycle.champion /\ cycle.champion \notin cycle.retire
  BY DEF Retire, CycleInv
<1>4. ServingArmIsActive'
  BY <1>3 DEF Retire, ServingArmIsActive, TypeOK, Registered
<1>5. CycleInv'
  BY DEF Retire, CycleInv
<1> QED
  BY <1>2, <1>4, <1>5

LEMMA OtherSteps ==
  ASSUME IInv, Crash \/ NextWeek \/ UNCHANGED vars
  PROVE  IInv'
<1> USE DEF IInv
<1>1. CASE Crash
  BY <1>1 DEF Crash, register, TypeOK, ServingArmIsActive, CycleInv, Registered
<1>2. CASE NextWeek
  BY <1>2, ArenaAssumption
  DEF NextWeek, register, TypeOK, ServingArmIsActive, CycleInv, Registered
<1>3. CASE UNCHANGED vars
  BY <1>3
  DEF vars, register, TypeOK, ServingArmIsActive, CycleInv, Registered, Pool, ActiveArms,
      ExistsAt
<1> QED
  BY <1>1, <1>2, <1>3

\* The invariant holds of every behaviour, whatever the evidence and wherever the slot stops.
THEOREM Inductive == Spec => []IInv
<1>1. IInv /\ [Next]_vars => IInv'
  <2> SUFFICES ASSUME IInv, [Next]_vars PROVE IInv'
    OBVIOUS
  <2> QED
    BY RegisterStep, RunCycleStep, ServeStep, RetireStep, OtherSteps DEF Next
<1> QED
  BY InitInv, <1>1, PTL DEF Spec

\* Every variable stays in its set; a cycle names a champion among its active arms
\* exactly when the slot has something to serve.
THEOREM TypeCorrect == Spec => []TypeOK
BY Inductive, PTL DEF IInv

\* The serving arm is never a retired one, wherever the slot stops between storing
\* the pointer and appending the retirements.
THEOREM ServesActive == Spec => []ServingArmIsActive
BY Inductive, PTL DEF IInv

-----------------------------------------------------------------------------
(* The cap *)

LEMMA CardOfDisjoint ==
  ASSUME NEW S, NEW T, IsFiniteSet(S), IsFiniteSet(T), S \cap T = {}
  PROVE  Cardinality(S \cup T) = Cardinality(S) + Cardinality(T)
<1>1. Cardinality(S \cup T) = Cardinality(S) + Cardinality(T) - Cardinality(S \cap T)
  BY FS_Union
<1>2. Cardinality(S \cap T) = 0
  BY FS_EmptySet
<1>3. Cardinality(S) \in Nat /\ Cardinality(T) \in Nat
  BY FS_CardinalityType
<1> QED
  BY <1>1, <1>2, <1>3

\* An arm over the cap was beaten by at least cap real arms, and is none of them.
LEMMA OverCapFacts ==
  ASSUME NEW active \in SUBSET Arm, NEW ev, NEW a \in active \ Control,
         config \in Configs, OverCap(config, ev, active, active \ Control, a)
  PROVE  /\ Cardinality(active \ Control) > config.cap
         /\ Cardinality(BeatenBy(ev, config.retire_evidence, active \ Control, a)) >= config.cap
         /\ config.cap \in Nat
<1> DEFINE real == active \ Control
           mode == config.retire_evidence
           rivals == BeatenBy(ev, mode, real, a)
           controls == BeatenBy(ev, mode, active \ real, a)
<1>1. BeatenBy(ev, mode, active, a) = rivals \cup controls /\ rivals \cap controls = {}
  BY DEF BeatenBy
<1>2. rivals \in SUBSET (real \ {a}) /\ controls \in SUBSET Arm
  BY DEF BeatenBy, Beats, Measurable
<1>3. /\ IsFiniteSet(rivals) /\ IsFiniteSet(controls) /\ IsFiniteSet(real)
      /\ Cardinality(rivals) \in Nat /\ Cardinality(controls) \in Nat
      /\ Cardinality(real) \in Nat
  BY <1>2, ArmSetsAreFinite
<1>4. Cardinality(BeatenBy(ev, mode, active, a)) = Cardinality(rivals) + Cardinality(controls)
  <2> HIDE DEF rivals, controls
  <2> QED
    BY <1>1, <1>3, CardOfDisjoint
<1>5. Cardinality(rivals) >= config.cap
  BY <1>3, <1>4 DEF OverCap
<1>6. /\ Cardinality(rivals) <= Cardinality(real \ {a})
      /\ Cardinality(real \ {a}) = Cardinality(real) - 1
  <2>1. IsFiniteSet(real \ {a}) /\ Cardinality(real \ {a}) = Cardinality(real) - 1
    BY <1>3, FS_RemoveElement
  <2> HIDE DEF rivals, real
  <2> QED
    BY <1>2, <2>1, FS_Subset
<1>7. config.cap \in Nat
  BY ArenaAssumption DEF ArenaConfig
<1> QED
  BY <1>3, <1>5, <1>6, <1>7

\* The cap retires nobody from a pool of real arms within the cap, whatever the
\* controls do.
THEOREM CapRespectsCap == Spec => []CapRetiresOnlyAboveCap
<1>1. IInv => CapRetiresOnlyAboveCap
  <2> SUFFICES ASSUME IInv, stage # "idle", NEW a \in cycle.retire
               PROVE  Cardinality(Pool) > config.cap
    BY DEF CapRetiresOnlyAboveCap
  <2>1. cycle.active \in SUBSET Arm /\ config \in Configs
    BY DEF IInv, TypeOK, CycleRecord
  <2>2. a \in Pool /\ OverCap(config, cycle.ev, cycle.active, Pool, a)
    BY DEF IInv, CycleInv
  <2> QED
    BY <2>1, <2>2, OverCapFacts DEF Pool
<1> QED
  BY Inductive, <1>1, PTL

\* Without a Condorcet cycle at least cap real arms are kept: of the arms to be retired
\* one is beaten by none of the others, so the cap or more that beat it all stay
\* (ranking.py, engine.py:evaluate_retirements).
THEOREM OrderKeepsCap == Spec => []OrderedPoolKeepsCap
<1>1. IInv => OrderedPoolKeepsCap
  <2> DEFINE mode == config.retire_evidence
             kept == Pool \ cycle.retire
  <2> SUFFICES ASSUME IInv, stage # "idle", ~CyclesPresent(cycle.ev, mode, cycle.active),
                      Cardinality(Pool) >= config.cap
               PROVE  Cardinality(kept) >= config.cap
    BY DEF OrderedPoolKeepsCap
  <2>1. cycle.active \in SUBSET Arm /\ config \in Configs
    BY DEF IInv, TypeOK, CycleRecord
  <2>2. /\ cycle.retire \subseteq Pool
        /\ \A a \in cycle.retire : OverCap(config, cycle.ev, cycle.active, Pool, a)
    BY DEF IInv, CycleInv
  <2>3. CASE cycle.retire = {}
    BY <2>3
  <2>4. CASE cycle.retire # {}
    <3>1. cycle.retire \in (SUBSET cycle.active) \ {{}}
      BY <2>2, <2>4 DEF Pool
    <3>2. PICK a \in cycle.retire : BeatenBy(cycle.ev, mode, cycle.retire, a) = {}
      BY <3>1 DEF CyclesPresent
    <3>3. Cardinality(BeatenBy(cycle.ev, mode, Pool, a)) >= config.cap /\ config.cap \in Nat
      BY <2>1, <2>2, OverCapFacts DEF Pool
    <3>4. BeatenBy(cycle.ev, mode, Pool, a) \in SUBSET kept
      <4> DEFINE beats(b) == Beats(cycle.ev, mode, b, a)
      <4>1. \A b \in cycle.retire : ~ beats(b)
        BY <3>2 DEF BeatenBy
      <4>2. BeatenBy(cycle.ev, mode, Pool, a) = {b \in Pool : beats(b)}
        BY DEF BeatenBy
      <4> HIDE DEF beats
      <4> QED  BY <4>1, <4>2
    <3>5. kept \in SUBSET Arm
      BY <2>1 DEF Pool
    <3> HIDE DEF kept
    <3>6. /\ IsFiniteSet(kept) /\ Cardinality(kept) \in Nat
          /\ Cardinality(BeatenBy(cycle.ev, mode, Pool, a)) \in Nat
      BY <3>4, <3>5, ArmSetsAreFinite
    <3>7. Cardinality(BeatenBy(cycle.ev, mode, Pool, a)) <= Cardinality(kept)
      BY <3>4, <3>6, FS_Subset
    <3> QED  BY <3>3, <3>6, <3>7
  <2> QED  BY <2>3, <2>4
<1> QED
  BY Inductive, <1>1, PTL

\* Both: nobody is retired whom the slot serves, or whom the cap does not ask for.
THEOREM DueRetirements == Spec => []RetirementsAreDue
BY ServesActive, CapRespectsCap, PTL DEF RetirementsAreDue

-----------------------------------------------------------------------------
(* The floor *)

LEMMA CardOfLarger ==
  ASSUME NEW S \in SUBSET Arm, NEW T \in SUBSET S
  PROVE  Cardinality(T) <= Cardinality(S)
BY ArmSetsAreFinite, FS_Subset

LEMMA CardOfRest ==
  ASSUME NEW S \in SUBSET Arm, NEW T \in SUBSET S
  PROVE  Cardinality(S \ T) = Cardinality(S) - Cardinality(T)
<1>1. /\ IsFiniteSet(T) /\ IsFiniteSet(S \ T)
      /\ Cardinality(T) \in Nat /\ Cardinality(S \ T) \in Nat
  BY ArmSetsAreFinite
<1>2. (S \ T) \cup T = S /\ (S \ T) \cap T = {}
  OBVIOUS
<1> QED
  BY <1>1, <1>2, CardOfDisjoint

\* Once the pool of real arms has min_active_arms it keeps them, over any number of
\* cycles, crashes and registrations.
THEOREM FloorHolds == Spec => PoolStaysAboveFloor
<1> DEFINE Size == Cardinality(PromotableArms(week))
           A == Cardinality(PromotableArms(week)) >= config.min_active_arms =>
                  Cardinality(PromotableArms(week)') >= config.min_active_arms
<1>1. IInv /\ [Next]_vars => A
  <2> SUFFICES ASSUME IInv, [Next]_vars, Size >= config.min_active_arms
               PROVE  Size' >= config.min_active_arms
    OBVIOUS
  <2>0. /\ PromotableArms(week) \in SUBSET Arm /\ PromotableArms(week)' \in SUBSET Arm
        /\ Size \in Nat /\ Size' \in Nat
        /\ config.min_active_arms \in Nat
    <3>1. PromotableArms(week) \in SUBSET Arm /\ PromotableArms(week)' \in SUBSET Arm
      BY DEF PromotableArms, ActiveArms, ExistsAt, Registered
    <3>2. config.min_active_arms \in Nat
      BY ArenaAssumption DEF IInv, TypeOK, ArenaConfig
    <3> QED
      BY <3>1, <3>2, ArmSetsAreFinite
  <2>1. ASSUME PromotableArms(week) \subseteq PromotableArms(week)'
        PROVE  Size' >= config.min_active_arms
    BY <2>0, <2>1, CardOfLarger
  <2>2. ASSUME NEW a \in Arm, Register(a)
        PROVE  PromotableArms(week) \subseteq PromotableArms(week)'
    BY <2>2, ArenaAssumption
    DEF Register, IInv, TypeOK, PromotableArms, ActiveArms, ExistsAt, Registered
  <2>3. ASSUME NextWeek PROVE PromotableArms(week) \subseteq PromotableArms(week)'
    <3> SUFFICES ASSUME NEW a \in PromotableArms(week) PROVE a \in PromotableArms(week)'
      OBVIOUS
    <3>1. /\ week \in Nat /\ week' = week + 1
          /\ created' = created /\ filed' = filed /\ retired' = retired
      BY <2>3, ArenaAssumption DEF NextWeek, register, IInv, TypeOK
    <3>2. a \in Arm \ Control /\ filed[a] # Never /\ retired[a] = Never
          /\ created[a] <= week /\ filed[a] <= week
      BY DEF PromotableArms, ActiveArms, ExistsAt, Registered
    <3>3. created[a] \in Nat /\ filed[a] \in Nat
      BY <3>2 DEF IInv, TypeOK
    <3>4. created[a] <= week + 1 /\ filed[a] <= week + 1
      BY <3>1, <3>2, <3>3
    <3> QED
      BY <3>1, <3>2, <3>4 DEF PromotableArms, ActiveArms, ExistsAt, Registered
  <2>4. ASSUME UNCHANGED <<week, register>>
        PROVE  PromotableArms(week) \subseteq PromotableArms(week)'
    BY <2>4 DEF register, PromotableArms, ActiveArms, ExistsAt, Registered
  <2>5. ASSUME Retire PROVE Size' >= config.min_active_arms
    <3>1. PromotableArms(week)' = PromotableArms(week) \ cycle.retire
      BY <2>5, ArenaAssumption
      DEF Retire, IInv, TypeOK, PromotableArms, ActiveArms, ExistsAt, Registered
    <3>2. /\ Pool \subseteq PromotableArms(week) /\ cycle.retire \subseteq Pool
          /\ cycle.retire # {} =>
               Cardinality(Pool) - Cardinality(cycle.retire) >= config.min_active_arms
      BY <2>5 DEF Retire, IInv, CycleInv, Pool, PromotableArms
    <3>3. Size' = Size - Cardinality(cycle.retire)
      BY <2>0, <3>1, <3>2, CardOfRest
    <3>4. Cardinality(Pool) <= Size
      BY <2>0, <3>2, CardOfLarger
    <3>5. Cardinality(Pool) \in Nat /\ Cardinality(cycle.retire) \in Nat
      BY <2>0, <3>2, ArmSetsAreFinite
    <3>6. CASE cycle.retire = {}
      BY <3>1, <3>6
    <3>7. CASE cycle.retire # {}
      BY <2>0, <3>2, <3>3, <3>4, <3>5, <3>7
    <3> QED
      BY <3>6, <3>7
  <2>6. ASSUME NEW ev, NEW unfit, RunCycle(ev, unfit) PROVE UNCHANGED <<week, register>>
    BY <2>6 DEF RunCycle
  <2>7. ASSUME Serve \/ Crash \/ UNCHANGED vars PROVE UNCHANGED <<week, register>>
    BY <2>7 DEF Serve, Crash, vars
  <2> QED
    BY <2>1, <2>2, <2>3, <2>4, <2>5, <2>6, <2>7 DEF Next
<1>2. IInv /\ [Next]_vars => [A]_vars
  BY <1>1
<1> QED
  BY Inductive, <1>2, PTL DEF Spec, PoolStaysAboveFloor

-----------------------------------------------------------------------------
(* The pointer settles *)

\* A pair has one window: read from its other side, every statistic changes sign.
LEMMA FlipFacts ==
  ASSUME NEW c, NEW s \in Sheet
  PROVE  /\ Flip(s) \in Sheet
         /\ Flip(s).weeks = s.weeks
         /\ Statistic(c, s) \in Int \cup {NoValue}
         /\ Statistic(c, Flip(s)) = Neg(Statistic(c, s))
         /\ Statistic(c, s) = Neg(Statistic(c, Flip(s)))
<1>1. /\ s.mean \in Int /\ s.ratio \in Int \cup {NoValue} /\ s.weeks \in Nat
      /\ s.lower \in Int /\ s.upper \in Int
  BY DEF Sheet
<1>2. /\ Neg(s.ratio) \in Int \cup {NoValue} /\ Neg(s.mean) = -s.mean
      /\ Neg(Neg(s.ratio)) = s.ratio /\ Neg(Neg(s.mean)) = s.mean
  BY <1>1, ArenaAssumption DEF Neg
<1> QED
  BY <1>1, <1>2 DEF Flip, Sheet, Statistic

LEMMA WindowFacts ==
  ASSUME NEW c, NEW ev \in Evidences, NEW a \in Arm, NEW b \in Arm, a # b
  PROVE  /\ Window(ev, a, b).weeks = Window(ev, b, a).weeks
         /\ Statistic(c, Window(ev, b, a)) \in Int \cup {NoValue}
         /\ Statistic(c, Window(ev, a, b)) = Neg(Statistic(c, Window(ev, b, a)))
<1>1. a \in Nat /\ b \in Nat /\ ev \in [Pair -> Sheet]
  BY ArenaAssumption
<1>2. CASE a < b
  <2>1. ev[<<a, b>>] \in Sheet /\ ~(b < a)
    BY <1>1, <1>2 DEF Pair
  <2>2. Window(ev, a, b) = ev[<<a, b>>] /\ Window(ev, b, a) = Flip(ev[<<a, b>>])
    BY <1>2, <2>1 DEF Window
  <2>3. Statistic(c, Flip(ev[<<a, b>>])) \in Int \cup {NoValue}
    BY <2>1, FlipFacts
  <2> QED
    BY <2>1, <2>2, <2>3, FlipFacts
<1>3. CASE b < a
  <2>1. ev[<<b, a>>] \in Sheet /\ ~(a < b)
    BY <1>1, <1>3 DEF Pair
  <2>2. Window(ev, b, a) = ev[<<b, a>>] /\ Window(ev, a, b) = Flip(ev[<<b, a>>])
    BY <1>3, <2>1 DEF Window
  <2> QED
    BY <2>1, <2>2, FlipFacts
<1> QED
  BY <1>1, <1>2, <1>3

\* Whoever was promoted under every_arm leads the arm it took the pointer from and
\* outperforms every other arm that was eligible then, so none of them leads it.
LEMMA NobodyLeadsTheWinner ==
  ASSUME NEW c \in ArenaConfig, c.promote_against = "every_arm",
         NEW ev \in Evidences, NEW challengers \in SUBSET Arm, NEW inc \in Arm,
         NEW w \in Promotable(c, ev, challengers, inc),
         NEW S \in SUBSET (challengers \cup {inc}), w \notin S
  PROVE  Promotable(c, ev, S, w) = {}
<1>0. c.promote_evidence = "point"
  BY DEF ArenaConfig
<1>1. /\ w \in challengers /\ w \in Arm
      /\ Measurable(ev, w, inc)
      /\ Statistic(c, Window(ev, w, inc)) # NoValue
      /\ Statistic(c, Window(ev, w, inc)) > 0
      /\ RivalBlockers(c, ev, challengers, w) = {}
  BY <1>0 DEF Promotable
<1> SUFFICES ASSUME NEW x \in S, x \in Promotable(c, ev, S, w)
             PROVE  FALSE
  BY DEF Promotable
<1>2. /\ Measurable(ev, x, w)
      /\ Statistic(c, Window(ev, x, w)) # NoValue
      /\ Statistic(c, Window(ev, x, w)) > 0
  BY <1>0 DEF Promotable
<1>3. x \in Arm /\ x # w
  OBVIOUS
<1>4. /\ Window(ev, w, x).weeks = Window(ev, x, w).weeks
      /\ Statistic(c, Window(ev, x, w)) \in Int \cup {NoValue}
      /\ Statistic(c, Window(ev, w, x)) = Neg(Statistic(c, Window(ev, x, w)))
  BY <1>1, <1>3, WindowFacts
<1>5. Statistic(c, Window(ev, w, x)) # NoValue /\ Statistic(c, Window(ev, w, x)) < 0
  BY <1>2, <1>4, ArenaAssumption DEF Neg
<1>6. CASE x = inc
  BY <1>1, <1>2, <1>4, <1>6, ArenaAssumption DEF Neg
<1>7. CASE x \in challengers
  <2>1. Measurable(ev, w, x)
    BY <1>2, <1>4 DEF Measurable
  <2>2. Statistic(c, Window(ev, w, x)) <= 0
    BY <1>2, <1>4, ArenaAssumption DEF Neg
  <2> QED
    BY <1>1, <1>5, <1>7, <2>1, <2>2 DEF RivalBlockers
<1> QED
  BY <1>6, <1>7

\* An earned promotion under promote_against=every_arm is final on the evidence it was
\* made on.
THEOREM PromotionSettles == Spec => []EveryArmSettles
<1>1. IInv => EveryArmSettles
  <2> SUFFICES ASSUME IInv, EarnedPromotion, config.promote_against = "every_arm",
                      NEW active \in {cycle.active, cycle.active \ cycle.retire},
                      NEW unfit \in SUBSET cycle.active,
                      cycle.unfit \cap cycle.active \subseteq unfit, cycle.champion \notin unfit
               PROVE  {d.champion : d \in Decide(config, cycle.ev, active, unfit, cycle.champion)}
                        = {cycle.champion}
    BY DEF EveryArmSettles
  <2> DEFINE before == (cycle.active \ cycle.unfit) \ {cycle.incumbent}
             after == (active \ unfit) \ {cycle.champion}
             Says(arms, status) == {[champion |-> a, status |-> status] : a \in arms}
  <2>1. /\ stage # "idle" /\ cycle.status = "decided" /\ cycle.incumbent \notin cycle.unfit
        /\ config \in ArenaConfig /\ cycle.ev \in Evidences /\ cycle.active \in SUBSET Arm
    BY ArenaAssumption DEF EarnedPromotion, IInv, TypeOK, CycleRecord
  <2>2. [champion |-> cycle.champion, status |-> "decided"] \in
          Decide(config, cycle.ev, cycle.active, cycle.unfit, cycle.incumbent)
    BY <2>1 DEF IInv, CycleInv
  <2>3. /\ cycle.incumbent \in cycle.active
        /\ [champion |-> cycle.champion, status |-> "decided"] \in
             Says(Leaders(config, cycle.ev, cycle.incumbent,
                          Promotable(config, cycle.ev, before, cycle.incumbent)), "decided")
    <3> DEFINE d == [champion |-> cycle.champion, status |-> "decided"]
    <3>1. \/ d \in Says({NoArm}, "unservable")
          \/ d \in Says(FirstRanked(cycle.ev, cycle.active \ cycle.unfit), "bootstrap")
          \/ d \in Says({cycle.incumbent}, "unmeasurable")
          \/ d \in Says({cycle.incumbent}, "held")
          \/ /\ cycle.incumbent \in cycle.active
             /\ d \in Says(Leaders(config, cycle.ev, cycle.incumbent,
                          Promotable(config, cycle.ev, before, cycle.incumbent)), "decided")
      BY <2>1, <2>2, Zenon DEF Decide
    <3> QED
      BY <3>1
  <2>4. cycle.champion \in Promotable(config, cycle.ev, before, cycle.incumbent)
    BY <2>3 DEF Leaders
  <2>5. /\ cycle.champion \in active \ unfit
        /\ after \subseteq before \cup {cycle.incumbent} /\ cycle.champion \notin after
    <3>1. cycle.champion \in cycle.active /\ cycle.champion \notin cycle.retire
      BY <2>1, <2>4 DEF Promotable, IInv, CycleInv
    <3> QED
      BY <3>1
  <2>6. Promotable(config, cycle.ev, after, cycle.champion) = {}
    <3>1. cycle.incumbent \in Arm /\ before \in SUBSET Arm
      BY <2>1, <2>3
    <3> HIDE DEF before, after
    <3> QED
      BY <2>1, <2>4, <2>5, <3>1, NobodyLeadsTheWinner
  <2>7. \/ Decide(config, cycle.ev, active, unfit, cycle.champion)
             = Says({cycle.champion}, "unmeasurable")
        \/ Decide(config, cycle.ev, active, unfit, cycle.champion)
             = Says({cycle.champion}, "held")
    <3>1. active \ unfit # {} /\ cycle.champion \in active /\ cycle.champion \notin unfit
      BY <2>5
    <3> QED
      BY <2>6, <3>1, Zenon DEF Decide
  <2>8. \A status : Says({cycle.champion}, status)
                     = {[champion |-> cycle.champion, status |-> status]}
    OBVIOUS
  <2>9. PICK status \in {"unmeasurable", "held"} :
          Decide(config, cycle.ev, active, unfit, cycle.champion)
            = {[champion |-> cycle.champion, status |-> status]}
    <3> HIDE DEF Says
    <3> QED
      BY <2>7, <2>8, Zenon
  <2>10. \A d : d \in Decide(config, cycle.ev, active, unfit, cycle.champion)
                 <=> d = [champion |-> cycle.champion, status |-> status]
    BY <2>9
  <2>11. [champion |-> cycle.champion, status |-> status].champion = cycle.champion
    OBVIOUS
  <2> DEFINE D == Decide(config, cycle.ev, active, unfit, cycle.champion)
  <2> QED
    <3>1. \A x : x \in {d.champion : d \in D} <=> x = cycle.champion
      BY <2>10, <2>11, Zenon
    <3>2. {d.champion : d \in D} = {cycle.champion}
      <4> HIDE DEF D
      <4> QED
        BY <3>1, Zenon
    <3> QED
      BY <3>2
<1> QED
  BY Inductive, <1>1, PTL

-----------------------------------------------------------------------------
(* The price store: a version's rows are never written again.              *)

\* A report is what its version still says, and the version is live or pruned.
ReportHolds(report) ==
    /\ report.version \in 1 .. Newest
    /\ report.rows = SettledRows(versions[report.version].rows, report.flagged)
    /\ versions[report.version].live \/ report.version \in pruned

VersionInv ==
    /\ DOMAIN versions = 1 .. Newest /\ Newest \in Nat
    /\ \A n \in 1 .. Newest : DOMAIN versions[n] = {"rows", "live", "by"}
    /\ \A r \in reports : ReportHolds(r)
    /\ \A n \in 1 .. Newest : versions[n].live \in BOOLEAN
    /\ Newest > 0 => versions[Newest].live

\* A write adds a version and leaves the rows of the others; it takes a version's
\* life only where it prunes.
LEMMA WriteAdds ==
  ASSUME VersionInv, NEW rows, NEW prune \in BOOLEAN, NEW by, Write(rows, prune, by)
  PROVE  /\ Newest' = Newest + 1 /\ DOMAIN versions' = 1 .. Newest + 1
         /\ \A n \in 1 .. Newest : /\ DOMAIN versions'[n] = {"rows", "live", "by"}
                                   /\ versions'[n].rows = versions[n].rows
                                   /\ versions'[n].live = (versions[n].live /\ ~prune)
         /\ versions'[Newest + 1] = [rows |-> rows, live |-> TRUE, by |-> by]
         /\ reports' = reports
<1>1. versions' = [n \in 1 .. Newest + 1 |->
                      IF n = Newest + 1 THEN [rows |-> rows, live |-> TRUE, by |-> by]
                      ELSE [versions[n] EXCEPT !.live = versions[n].live /\ ~prune]]
  BY DEF Write
<1>2. Newest \in Nat
  BY DEF VersionInv
<1>3. versions' \in Seq({versions'[n] : n \in 1 .. Newest + 1})
  <2>1. DOMAIN versions' = 1 .. Newest + 1
    BY <1>1
  <2>2. versions' \in [1 .. Newest + 1 -> {versions'[n] : n \in 1 .. Newest + 1}]
    BY <1>1, <2>1
  <2> QED  BY <1>2, <2>2
<1>4. Len(versions') = Newest + 1
  <2>1. DOMAIN versions' = 1 .. Newest + 1
    BY <1>1
  <2> QED  BY <1>2, <1>3, <2>1
<1>5. ASSUME NEW n \in 1 .. Newest
      PROVE  /\ DOMAIN versions'[n] = {"rows", "live", "by"}
             /\ versions'[n].rows = versions[n].rows
             /\ versions'[n].live = (versions[n].live /\ ~prune)
  <2>1. n \in 1 .. Newest + 1 /\ n # Newest + 1
    BY <1>2
  <2>2. versions'[n] = [versions[n] EXCEPT !.live = versions[n].live /\ ~prune]
    BY <1>1, <2>1
  <2>3. DOMAIN versions[n] = {"rows", "live", "by"}
    BY DEF VersionInv
  <2> QED  BY <2>2, <2>3
<1>6. versions'[Newest + 1] = [rows |-> rows, live |-> TRUE, by |-> by]
  <2>1. Newest + 1 \in 1 .. Newest + 1
    BY <1>2
  <2> QED  BY <1>1, <2>1
<1> QED  BY <1>1, <1>4, <1>5, <1>6 DEF Newest, Write

\* A new version leaves what the older ones say.
LEMMA WriteKeepsReports ==
  ASSUME VersionInv, NEW rows, NEW prune \in BOOLEAN, NEW by, Write(rows, prune, by),
         pruned \subseteq pruned', prune => 1 .. Newest \subseteq pruned'
  PROVE  VersionInv'
<1>1. /\ Newest' = Newest + 1 /\ DOMAIN versions' = 1 .. Newest + 1
      /\ \A n \in 1 .. Newest : /\ DOMAIN versions'[n] = {"rows", "live", "by"}
                                /\ versions'[n].rows = versions[n].rows
                                /\ versions'[n].live = (versions[n].live /\ ~prune)
      /\ versions'[Newest + 1] = [rows |-> rows, live |-> TRUE, by |-> by]
      /\ reports' = reports
  BY WriteAdds
<1>2. Newest \in Nat
  BY DEF VersionInv
<1>3. ASSUME NEW n \in 1 .. Newest'
      PROVE  DOMAIN versions'[n] = {"rows", "live", "by"} /\ versions'[n].live \in BOOLEAN
  <2>1. CASE n = Newest + 1
    <3>1. versions'[n] = [rows |-> rows, live |-> TRUE, by |-> by]
      BY <1>1, <2>1
    <3> QED  BY <3>1
  <2>2. CASE n # Newest + 1
    <3>1. n \in 1 .. Newest
      BY <1>1, <1>2, <2>2
    <3>2. versions'[n].live = (versions[n].live /\ ~prune)
      BY <1>1, <3>1
    <3>3. versions'[n].live \in BOOLEAN
      BY <3>2, Zenon
    <3> QED  BY <1>1, <3>1, <3>3
  <2> QED  BY <2>1, <2>2
<1>4. ASSUME NEW r \in reports'
      PROVE  ReportHolds(r)'
  <2>1. /\ r.version \in 1 .. Newest
        /\ r.rows = SettledRows(versions[r.version].rows, r.flagged)
        /\ versions[r.version].live \/ r.version \in pruned
    BY <1>1, <1>4 DEF VersionInv, ReportHolds
  <2>2. r.version \in 1 .. Newest'
    BY <1>1, <1>2, <2>1
  <2>3. versions'[r.version].rows = versions[r.version].rows
        /\ versions'[r.version].live = (versions[r.version].live /\ ~prune)
    BY <1>1, <2>1
  <2>4. versions'[r.version].live \/ r.version \in pruned'
    <3>1. CASE prune
      BY <2>1, <3>1
    <3>2. CASE ~prune
      BY <2>1, <2>3, <3>2
    <3> QED  BY <3>1, <3>2
  <2> QED  BY <2>1, <2>2, <2>3, <2>4 DEF ReportHolds
<1>5. versions'[Newest'].live
  <2>1. versions'[Newest'] = [rows |-> rows, live |-> TRUE, by |-> by]
    BY <1>1
  <2> QED  BY <2>1
<1> QED  BY <1>1, <1>2, <1>3, <1>4, <1>5 DEF VersionInv

\* Every step, for the versions.
LEMMA VersionStep ==
  ASSUME VersionInv, [PriceNext]_priceVars
  PROVE  VersionInv'
<1> USE PriceAssumption
<1>1. CASE UNCHANGED prices
  BY <1>1 DEF VersionInv, prices, ReportHolds, Newest
<1>2. ASSUME NEW flag \in {"none", "settled", "unsettled"}, NEW prune \in BOOLEAN,
             WriteDay(flag, prune)
      PROVE  VersionInv'
  <2> DEFINE rows == (IF Newest = 0 THEN {} ELSE versions[Newest].rows)
                         \cup {<<Newest + 1, Newest + 1, flag>>}
  <2>1. Write(rows, prune, "producer")
    BY <1>2 DEF WriteDay
  <2>2. pruned \subseteq pruned' /\ (prune => 1 .. Newest \subseteq pruned')
    BY <1>2 DEF WriteDay
  <2> HIDE DEF rows
  <2> QED  BY <2>1, <2>2, WriteKeepsReports
<1>3. ASSUME NEW day, WriteCorrection(day)
      PROVE  VersionInv'
  <2> DEFINE rows == {IF row[1] = day THEN <<day, Newest + 1, "settled">> ELSE row
                        : row \in versions[Newest].rows}
  <2>1. Write(rows, FALSE, "correction") /\ pruned' = pruned
    BY <1>3 DEF WriteCorrection
  <2> HIDE DEF rows
  <2> QED  BY <2>1, WriteKeepsReports
<1>4. ASSUME NEW flagged, ReadSettledOnly(flagged)
      PROVE  VersionInv'
  <2>1. PICK new : new = [version |-> Newest, flagged |-> flagged,
                          rows |-> SettledRows(versions[Newest].rows, flagged)]
    OBVIOUS
  <2>2. /\ Newest > 0 /\ reports' = reports \cup {new}
        /\ versions' = versions /\ pruned' = pruned
    BY <1>4, <2>1 DEF ReadSettledOnly
  <2>3. ReportHolds(new)
    <3>1. versions[Newest].live /\ Newest \in 1 .. Newest
      BY <2>2 DEF VersionInv
    <3> QED  BY <2>1, <3>1 DEF ReportHolds
  <2>4. ASSUME NEW r \in reports'
        PROVE  ReportHolds(r)'
    <3>1. ReportHolds(r)
      BY <2>2, <2>3 DEF VersionInv
    <3> QED  BY <2>2, <3>1 DEF ReportHolds, Newest
  <2> QED  BY <2>2, <2>4 DEF VersionInv, Newest
<1>5. ASSUME RosterNext
      PROVE  UNCHANGED prices
  BY <1>5 DEF RosterNext, DayBegins, UpdateLibrary, RefreshMembership, AskSymbols, ListSymbols,
              BeginLoad, LoadFrames
<1> QED  BY <1>1, <1>2, <1>3, <1>4, <1>5 DEF PriceNext, VersionNext, priceVars, prices

-----------------------------------------------------------------------------
(* The roster of a day.  The map beside the library is a prefix of the      *)
(* index's history, so the first change it knows after a day ended the      *)
(* roster of that day.                                                      *)

MapReaches(seen) ==
    /\ DOMAIN membership = {d \in 2 .. seen : rosterOn[d] # rosterOn[d - 1]}
    /\ \A d \in DOMAIN membership : membership[d] = rosterOn[d - 1]

\* A lookup that read the map is right, or late, whatever day it is by now.
LookupInv ==
    /\ DOMAIN lookup = DOMAIN IdleLookup /\ lookup.late \in BOOLEAN
    /\ lookup.pc \in {"library", "answered"} => lookup.asOf \in 1 .. Today
    /\ lookup.pc = "library" => lookup.late \/ rosterOn[lookup.asOf] = rosterOn[Today]
    /\ lookup.pc = "answered" => lookup.late \/ lookup.answer = rosterOn[lookup.asOf]

RosterInv ==
    /\ rosterOn \in Seq(Rosters) /\ Today \in Nat /\ Today >= 1
    /\ \E seen \in 1 .. Today : MapReaches(seen)
    /\ LookupInv

\* Without a change in between, the roster of a day is that of a later one.
LEMMA NoChangeNoDifference ==
  ASSUME NEW m \in Nat, NEW f, NEW a \in 1 .. m, NEW b \in a .. m,
         \A d \in a + 1 .. b : f[d] = f[d - 1]
  PROVE  f[b] = f[a]
<1> DEFINE Odd == {k \in Nat : k \in a .. b /\ f[k] # f[a]}
<1>1. CASE Odd = {}
  <2>1. b \in Nat /\ b \in a .. b
    OBVIOUS
  <2> QED  BY <1>1, <2>1
<1>2. CASE Odd # {}
  <2>0. Odd \subseteq Nat
    OBVIOUS
  <2>1. PICK k \in Odd : \A y \in Odd : k <= y
    <3> HIDE DEF Odd
    <3> QED  BY <1>2, <2>0, LeastNatural
  <2>2. k \in Nat /\ k \in a .. b /\ f[k] # f[a]
    BY <2>1
  <2>3. k # a
    BY <2>2
  <2>4. k \in a + 1 .. b /\ k - 1 \in Nat /\ k - 1 \in a .. b
    BY <2>2, <2>3
  <2>5. f[k - 1] # f[a]
    BY <2>2, <2>4
  <2>6. k - 1 \in Odd
    BY <2>4, <2>5
  <2> HIDE DEF Odd
  <2>7. k <= k - 1
    BY <2>1, <2>6
  <2> QED  BY <2>2, <2>7
<1> QED  BY <1>1, <1>2

\* The day the map answers for is a day whose roster it tells.
LEMMA MapTellsTheRoster ==
  ASSUME NEW seen \in 1 .. Today, MapReaches(seen), Today \in Nat, NEW asOf \in 1 .. Today,
         NEW pit, pit = PitMembershipAsOf(asOf), pit # {}
  PROVE  (CHOOSE r \in pit : TRUE) = rosterOn[asOf]
<1> DEFINE later == {d \in DOMAIN membership : d > asOf}
<1>1. later # {} /\ pit = {membership[Min(later)]}
  BY DEF PitMembershipAsOf
<1>2. \A d \in later : /\ d \in Nat /\ d \in 2 .. seen /\ d > asOf
                       /\ rosterOn[d] # rosterOn[d - 1] /\ membership[d] = rosterOn[d - 1]
  BY DEF MapReaches
<1>3. \A d \in 2 .. seen : rosterOn[d] # rosterOn[d - 1] /\ d > asOf => d \in later
  BY DEF MapReaches
<1> HIDE DEF later
<1>4. later \in SUBSET Nat
  BY <1>2
<1>5. PICK m \in later : m = Min(later) /\ \A y \in later : m <= y
  BY <1>1, <1>4, MinIsLeast
<1>6. m \in Nat /\ m \in 2 .. seen /\ m > asOf /\ membership[m] = rosterOn[m - 1]
  BY <1>2, <1>5
<1>7. \A d \in asOf + 1 .. m - 1 : rosterOn[d] = rosterOn[d - 1]
  <2> SUFFICES ASSUME NEW d \in asOf + 1 .. m - 1, rosterOn[d] # rosterOn[d - 1]
               PROVE  FALSE
    OBVIOUS
  <2>1. d \in 2 .. seen /\ d > asOf /\ d < m
    BY <1>6
  <2>2. m <= d
    BY <1>3, <1>5, <2>1
  <2> QED  BY <1>6, <2>1, <2>2
<1>8. m - 1 \in asOf .. Today
  BY <1>6
<1>9. rosterOn[m - 1] = rosterOn[asOf]
  BY <1>7, <1>8, NoChangeNoDifference
<1>10. pit = {rosterOn[asOf]}
  BY <1>1, <1>5, <1>6, <1>9
<1> QED  BY <1>10

\* Without an answer in a map that has every change, the day's roster is today's.
LEMMA NothingSinceIsToday ==
  ASSUME NEW seen \in 1 .. Today, MapReaches(seen), Today \in Nat, NEW asOf \in 1 .. Today,
         PitMembershipAsOf(asOf) = {}, DOMAIN membership = Changes
  PROVE  rosterOn[asOf] = rosterOn[Today]
<1>1. \A d \in DOMAIN membership : ~(d > asOf)
  BY DEF PitMembershipAsOf
<1>2. \A d \in 2 .. Today : rosterOn[d] # rosterOn[d - 1] => d \in DOMAIN membership
  BY DEF Changes
<1>3. \A d \in asOf + 1 .. Today : rosterOn[d] = rosterOn[d - 1]
  BY <1>1, <1>2
<1>4. Today \in asOf .. Today
  OBVIOUS
<1> QED  BY <1>3, <1>4, NoChangeNoDifference

\* Every step, for the rosters.
LEMMA RosterStep ==
  ASSUME RosterInv, [PriceNext]_priceVars
  PROVE  RosterInv'
<1> USE PriceAssumption
<1>0. PICK seen \in 1 .. Today : MapReaches(seen)
  BY DEF RosterInv
<1>1. /\ rosterOn \in Seq(Rosters) /\ Today \in Nat /\ Today >= 1 /\ LookupInv
  BY DEF RosterInv
<1>2. CASE UNCHANGED <<rosterOn, membership, lookup>>
  <2>1. Today' = Today /\ MapReaches(seen)' /\ LookupInv'
    BY <1>0, <1>1, <1>2 DEF Today, MapReaches, LookupInv
  <2> QED  BY <1>1, <1>2, <2>1 DEF RosterInv
<1>3. ASSUME UNCHANGED <<rosterOn, membership>>, LookupInv'
      PROVE  RosterInv'
  <2>1. Today' = Today /\ MapReaches(seen)'
    BY <1>0, <1>3 DEF Today, MapReaches
  <2> QED  BY <1>1, <1>3, <2>1 DEF RosterInv
<1>4. ASSUME NEW next \in Rosters, DayBegins(next)
      PROVE  RosterInv'
  <2>1. /\ rosterOn' = Append(rosterOn, next) /\ membership' = membership
        /\ lookup' = [lookup EXCEPT !.late = lookup.late
                                      \/ (lookup.pc = "library" /\ next # rosterOn[Today])]
    BY <1>4 DEF DayBegins
  <2>2. rosterOn' \in Seq(Rosters) /\ Today' = Today + 1 /\ rosterOn'[Today + 1] = next
        /\ \A d \in 1 .. Today : rosterOn'[d] = rosterOn[d]
    BY <1>1, <2>1 DEF Today
  <2>3. MapReaches(seen)'
    <3>1. \A d \in 2 .. seen : rosterOn'[d] = rosterOn[d] /\ rosterOn'[d - 1] = rosterOn[d - 1]
      BY <1>1, <2>2
    <3> QED  BY <1>0, <2>1, <3>1 DEF MapReaches
  <2>4. LookupInv'
    <3>1. /\ DOMAIN lookup' = DOMAIN lookup /\ lookup'.pc = lookup.pc
          /\ lookup'.asOf = lookup.asOf /\ lookup'.answer = lookup.answer
          /\ lookup'.late = (lookup.late \/ (lookup.pc = "library" /\ next # rosterOn[Today]))
      BY <1>1, <2>1 DEF LookupInv, IdleLookup
    <3>2. lookup'.late \in BOOLEAN
      BY <3>1, Zenon
    <3>3. Today \in 1 .. Today /\ Today \in 1 .. Today + 1
      BY <1>1
    <3>4. ASSUME lookup.pc = "library"
          PROVE  lookup'.late \/ rosterOn'[lookup.asOf] = rosterOn'[Today + 1]
      <4>1. lookup.asOf \in 1 .. Today /\ (lookup.late \/ rosterOn[lookup.asOf] = rosterOn[Today])
        BY <1>1, <3>4 DEF LookupInv
      <4>2. CASE next = rosterOn[Today]
        BY <2>2, <3>1, <4>1, <4>2
      <4>3. CASE next # rosterOn[Today]
        BY <3>1, <3>4, <4>3
      <4> QED  BY <4>2, <4>3
    <3>5. ASSUME lookup.pc = "answered"
          PROVE  lookup'.late \/ lookup.answer = rosterOn'[lookup.asOf]
      BY <1>1, <2>2, <3>1, <3>5 DEF LookupInv
    <3>6. lookup.pc \in {"library", "answered"} => lookup.asOf \in 1 .. Today + 1
      BY <1>1 DEF LookupInv
    <3>7. DOMAIN lookup' = DOMAIN IdleLookup
      BY <1>1, <3>1 DEF LookupInv
    <3> QED  BY <2>2, <3>1, <3>2, <3>4, <3>5, <3>6, <3>7 DEF LookupInv, IdleLookup
  <2>5. seen \in 1 .. Today'
    BY <1>1, <2>2
  <2> QED  BY <1>1, <2>2, <2>3, <2>4, <2>5 DEF RosterInv
<1>5. ASSUME RefreshMembership
      PROVE  RosterInv'
  <2>1. /\ membership' = [d \in Changes |-> rosterOn[d - 1]]
        /\ rosterOn' = rosterOn /\ lookup' = lookup
    BY <1>5 DEF RefreshMembership
  <2>2. MapReaches(Today)' /\ Today' = Today
    BY <2>1 DEF MapReaches, Today, Changes
  <2>3. LookupInv'
    BY <1>1, <2>1, <2>2 DEF LookupInv
  <2> QED  BY <1>1, <2>1, <2>2, <2>3 DEF RosterInv
<1>6. ASSUME NEW asOf \in 1 .. Days, AskSymbols(asOf)
      PROVE  RosterInv'
  <2>1. PICK pit : pit = PitMembershipAsOf(asOf)
    OBVIOUS
  <2>2. PICK late \in BOOLEAN : late = (pit = {} /\ DOMAIN membership # Changes)
    BY Zenon
  <2>3. PICK pc : pc = CASE DOMAIN membership = {} -> "raised"
                         [] OTHER -> IF pit = {} THEN "library" ELSE "answered"
    OBVIOUS
  <2>4. PICK answer : answer = IF pit = {} THEN {} ELSE CHOOSE r \in pit : TRUE
    OBVIOUS
  <2>5. /\ asOf <= Today /\ UNCHANGED <<rosterOn, membership>>
        /\ lookup' = [IdleLookup EXCEPT !.asOf = asOf, !.late = late, !.pc = pc,
                                        !.answer = answer]
    BY <1>6, <2>1, <2>2, <2>3, <2>4 DEF AskSymbols
  <2>6. /\ DOMAIN lookup' = DOMAIN IdleLookup /\ lookup'.asOf = asOf /\ lookup'.late = late
        /\ lookup'.pc = pc /\ lookup'.answer = answer
    BY <2>5 DEF IdleLookup
  <2>7. asOf \in 1 .. Today
    BY <1>1, <2>5
  <2>8. ASSUME pc = "library"
        PROVE  late \/ rosterOn[asOf] = rosterOn[Today]
    <3>1. pit = {}
      BY <2>3, <2>8
    <3>2. CASE DOMAIN membership = Changes
      BY <1>0, <1>1, <2>1, <2>7, <3>1, <3>2, NothingSinceIsToday
    <3>3. CASE DOMAIN membership # Changes
      BY <2>2, <3>1, <3>3
    <3> QED  BY <3>2, <3>3
  <2>9. ASSUME pc = "answered"
        PROVE  answer = rosterOn[asOf]
    <3>1. pit # {}
      BY <2>3, <2>9
    <3> QED  BY <1>0, <1>1, <2>1, <2>4, <2>7, <3>1, MapTellsTheRoster
  <2>10. Today' = Today
    BY <2>5 DEF Today
  <2>11. LookupInv'
    BY <2>5, <2>6, <2>7, <2>8, <2>9, <2>10 DEF LookupInv
  <2> QED  BY <1>3, <2>5, <2>11
<1>7. ASSUME ListSymbols
      PROVE  RosterInv'
  <2>1. /\ lookup.pc = "library" /\ UNCHANGED <<rosterOn, membership>>
        /\ lookup' = [lookup EXCEPT !.pc = "answered", !.answer = library,
                                    !.late = lookup.late \/ library # rosterOn[Today]]
    BY <1>7 DEF ListSymbols
  <2>2. PICK late \in BOOLEAN : late = (lookup.late \/ library # rosterOn[Today])
    BY Zenon
  <2>3. /\ DOMAIN lookup' = DOMAIN IdleLookup /\ lookup'.asOf = lookup.asOf
        /\ lookup'.late = late /\ lookup'.pc = "answered" /\ lookup'.answer = library
    BY <1>1, <2>1, <2>2 DEF LookupInv, IdleLookup
  <2>4. lookup.asOf \in 1 .. Today /\ (lookup.late \/ rosterOn[lookup.asOf] = rosterOn[Today])
    BY <1>1, <2>1 DEF LookupInv
  <2>5. Today' = Today
    BY <2>1 DEF Today
  <2>6. LookupInv'
    BY <2>1, <2>2, <2>3, <2>4, <2>5 DEF LookupInv, IdleLookup
  <2> QED  BY <1>3, <2>1, <2>6
<1>8. ASSUME BeginLoad \/ \E failing \in SUBSET UNION Rosters : LoadFrames(failing)
      PROVE  RosterInv'
  <2>1. UNCHANGED <<rosterOn, membership>> /\ lookup'.pc \in {"batch", "loaded"}
        /\ DOMAIN lookup' = DOMAIN IdleLookup /\ lookup'.late \in BOOLEAN
    BY <1>1, <1>8 DEF BeginLoad, LoadFrames, LookupInv, IdleLookup
  <2>2. LookupInv'
    BY <2>1 DEF LookupInv, IdleLookup
  <2> QED  BY <1>3, <2>1, <2>2
<1>9. ASSUME VersionNext \/ UpdateLibrary \/ UNCHANGED priceVars
      PROVE  UNCHANGED <<rosterOn, membership, lookup>>
  BY <1>9 DEF VersionNext, WriteDay, WriteCorrection, Write, ReadSettledOnly, UpdateLibrary,
              priceVars, roster
<1> QED  BY <1>2, <1>4, <1>5, <1>6, <1>7, <1>8, <1>9 DEF PriceNext, RosterNext

\* PriceStore: for any rosters and any number of days and versions, what is asked as of
\* a version or of a day is answered as of it.
THEOREM AsOfIsAnsweredAlways == PriceSpec => []AsOfIsAnswered
<1>1. PriceInit => VersionInv /\ RosterInv
  <2> SUFFICES ASSUME PriceInit PROVE VersionInv /\ RosterInv
    OBVIOUS
  <2>1. VersionInv
    BY DEF PriceInit, VersionInv, Newest
  <2>2. PICK r \in Rosters : rosterOn = <<r>>
    BY DEF PriceInit
  <2>3. rosterOn \in Seq(Rosters) /\ Today = 1
    BY <2>2 DEF Today
  <2>4. MapReaches(1)
    BY DEF PriceInit, MapReaches
  <2>5. LookupInv
    BY DEF PriceInit, LookupInv, IdleLookup
  <2> QED  BY <2>1, <2>3, <2>4, <2>5 DEF RosterInv
<1>2. VersionInv /\ RosterInv /\ [PriceNext]_priceVars => (VersionInv /\ RosterInv)'
  BY VersionStep, RosterStep
<1>3. VersionInv /\ RosterInv => AsOfIsAnswered
  <2>1. VersionInv => PublishedStaysProvable
    BY DEF VersionInv, ReportHolds, PublishedStaysProvable, ReadAsOf
  <2>2. RosterInv => RosterIsOfItsDay
    BY DEF RosterInv, LookupInv, RosterIsOfItsDay
  <2> QED  BY <2>1, <2>2 DEF AsOfIsAnswered
<1> QED  BY <1>1, <1>2, <1>3, PTL DEF PriceSpec

-----------------------------------------------------------------------------
(* The windowed readers: the keys a walk asks for.                         *)

\* The elements of a set of numbers, each once and the greatest first.
SortsDown(s, days) ==
    /\ IsList(s) /\ DOMAIN s = 1 .. Len(s)
    /\ \A i \in DOMAIN s : s[i] \in days
    /\ \A d \in days : \E i \in DOMAIN s : s[i] = d
    /\ \A i, j \in DOMAIN s : i < j => s[j] < s[i]

\* NewestFirst lists each day once, the newest first.
LEMMA NewestFirstSorts ==
  \A m \in Nat : \A days \in SUBSET (1 .. m) : SortsDown(NewestFirst(days), days)
<1> SUFFICES ASSUME NEW m \in Nat, NEW days \in SUBSET (1 .. m), NEW s, s = NewestFirst(days)
             PROVE  SortsDown(s, days)
  OBVIOUS
<1> DEFINE Upto(d) == {e \in days : e <= d}
<1>0. \A d \in days : d \in Nat /\ d <= m
  OBVIOUS
<1>1. IsFiniteSet(days)
  <2>1. IsFiniteSet(1 .. m)
    BY FS_Interval
  <2> QED  BY <2>1, FS_Subset
<1>2. PICK c \in Nat : c = Cardinality(days)
  BY <1>1, FS_CardinalityType
<1>3. \A n \in 1 .. c : \E d \in days : Cardinality(Upto(d)) = n
  <2> SUFFICES ASSUME NEW n \in 1 .. c PROVE \E d \in days : Cardinality(Upto(d)) = n
    OBVIOUS
  <2>1. n \in 1 .. Cardinality(days)
    BY <1>2
  <2> QED  BY <2>1, NthIsThere
<1>4. s = [n \in 1 .. c |-> CHOOSE d \in days : Cardinality(Upto(d)) = c + 1 - n]
  BY <1>2 DEF NewestFirst
<1>5. \A n \in 1 .. c : s[n] \in days /\ Cardinality(Upto(s[n])) = c + 1 - n
  <2> SUFFICES ASSUME NEW n \in 1 .. c
               PROVE  s[n] \in days /\ Cardinality(Upto(s[n])) = c + 1 - n
    OBVIOUS
  <2>1. c + 1 - n \in 1 .. c
    OBVIOUS
  <2>2. \E d \in days : Cardinality(Upto(d)) = c + 1 - n
    BY <1>3, <2>1
  <2>3. s[n] = CHOOSE d \in days : Cardinality(Upto(d)) = c + 1 - n
    BY <1>4
  <2> QED  BY <2>2, <2>3
<1>6. \A d \in days : /\ IsFiniteSet(Upto(d)) /\ Cardinality(Upto(d)) \in 1 .. c
  <2> SUFFICES ASSUME NEW d \in days
               PROVE  IsFiniteSet(Upto(d)) /\ Cardinality(Upto(d)) \in 1 .. c
    OBVIOUS
  <2>1. Upto(d) \subseteq days /\ d \in Upto(d)
    BY <1>0
  <2> HIDE DEF Upto
  <2>2. IsFiniteSet(Upto(d)) /\ Cardinality(Upto(d)) <= Cardinality(days)
    BY <1>1, <2>1, FS_Subset
  <2>3. Cardinality(Upto(d)) \in Nat /\ Cardinality(Upto(d)) # 0
    BY <2>1, <2>2, FS_CardinalityType, FS_EmptySet
  <2> QED  BY <1>2, <2>2, <2>3
<1>7. \A d, e \in days : d < e => Cardinality(Upto(d)) < Cardinality(Upto(e))
  <2> SUFFICES ASSUME NEW d \in days, NEW e \in days, d < e
               PROVE  Cardinality(Upto(d)) < Cardinality(Upto(e))
    OBVIOUS
  <2>1. Upto(d) \subseteq Upto(e) /\ e \in Upto(e) /\ e \notin Upto(d)
    <3>1. d \in Nat /\ e \in Nat /\ \A x \in days : x <= d => x <= e
      BY <1>0
    <3>2. e <= e /\ ~(e <= d)
      BY <3>1
    <3> QED  BY <3>1, <3>2
  <2>2. IsFiniteSet(Upto(e)) /\ IsFiniteSet(Upto(d))
    BY <1>6
  <2>3. Cardinality(Upto(e)) \in Nat /\ Cardinality(Upto(d)) \in Nat
    BY <1>6
  <2> HIDE DEF Upto
  <2>4. Upto(d) # Upto(e)
    BY <2>1
  <2>5. Cardinality(Upto(d)) <= Cardinality(Upto(e))
        /\ (Cardinality(Upto(d)) = Cardinality(Upto(e)) => Upto(d) = Upto(e))
    BY <2>1, <2>2, FS_Subset
  <2> QED  BY <2>3, <2>4, <2>5
<1> HIDE DEF Upto
<1>8. \A i, j \in 1 .. c : i < j => s[j] < s[i]
  <2> SUFFICES ASSUME NEW i \in 1 .. c, NEW j \in 1 .. c, i < j
               PROVE  s[j] < s[i]
    OBVIOUS
  <2>1. s[i] \in days /\ s[j] \in days /\ Cardinality(Upto(s[i])) = c + 1 - i
        /\ Cardinality(Upto(s[j])) = c + 1 - j
    BY <1>5
  <2>2. PICK a \in days : a = s[i]
    BY <2>1
  <2>3. PICK b \in days : b = s[j]
    BY <2>1
  <2>4. ~(a < b) /\ a # b
    BY <1>7, <2>1, <2>2, <2>3
  <2> QED  BY <1>0, <2>2, <2>3, <2>4
<1>9. \A d \in days : \E i \in 1 .. c : s[i] = d
  <2> SUFFICES ASSUME NEW d \in days PROVE \E i \in 1 .. c : s[i] = d
    OBVIOUS
  <2>1. PICK k \in 1 .. c : k = Cardinality(Upto(d))
    BY <1>6
  <2>2. c + 1 - k \in 1 .. c
    OBVIOUS
  <2>3. PICK e \in days : e = s[c + 1 - k]
    BY <1>5, <2>2
  <2>4. Cardinality(Upto(e)) = k
    BY <1>5, <2>2, <2>3
  <2>5. ~(d < e) /\ ~(e < d)
    BY <1>7, <2>1, <2>4
  <2> QED  BY <1>0, <2>2, <2>3, <2>5
<1>10. IsList(s) /\ DOMAIN s = 1 .. c /\ Len(s) = c
  <2>1. s \in [1 .. c -> days]
    <3>1. DOMAIN s = 1 .. c
      BY <1>4
    <3>2. s = [n \in 1 .. c |-> s[n]]
      BY <1>4
    <3> QED  BY <1>5, <3>1, <3>2
  <2>2. s \in Seq(days)
    BY <2>1, SeqDef
  <2>3. Len(s) = c /\ DOMAIN s = 1 .. c
    BY <2>1, <2>2, LenProperties
  <2> QED  BY <2>1, <2>3 DEF IsList
<1> QED  BY <1>5, <1>8, <1>9, <1>10 DEF SortsDown

\* What a walk may find, and what it may not leave behind, said of a walk w.
Reaches(w, k) ==
    IF w.run = Literal THEN k = Literal
    ELSE k \in 1 .. w.run /\ w.run - k <= IF w.reader = "signals" THEN MaxWeekdays ELSE MaxAge
Skips(w) == IF w.reader = "signals" THEN Weekend \cup {Literal} ELSE {}

WalkType(w) == /\ DOMAIN w = DOMAIN IdleWalk
               /\ w.pc # "idle" => w.reader \in Readers /\ w.run \in 0 .. LastDay

\* The keys still to be asked for: in reach or the pointer, in descending order, the
\* pointer last for the signals chain; no sure key is behind.
Orderly(w) ==
    /\ IsList(w.left) /\ DOMAIN w.left = 1 .. Len(w.left)
    /\ \A i \in DOMAIN w.left :
          \/ w.left[i] = Pointer /\ w.reader \in {"resolve_pointer", "signals"}
          \/ w.left[i] # Pointer /\ Reaches(w, w.left[i])
    /\ \A i, j \in DOMAIN w.left : i < j /\ w.left[i] # Pointer /\ w.left[j] # Pointer
                                       => w.left[j] < w.left[i]
    /\ w.reader = "signals" => \A i \in DOMAIN w.left : w.left[i] = Pointer => i = Len(w.left)
Covers(w, keys) ==
    \A k \in keys : Reaches(w, k) /\ k \notin Skips(w) => \E i \in DOMAIN w.left : w.left[i] = k
PointerFirst(w, keys) ==
    w.reader = "resolve_pointer" /\ Pointer \in keys => 1 \in DOMAIN w.left /\ w.left[1] = Pointer

\* What the assumption gives, in the form the provers use.
LEMMA WindowNumbers ==
  /\ LastDay \in Nat /\ MaxAge \in Nat /\ MaxWeekdays \in Nat
  /\ Literal = 0 /\ Pointer = LastDay + 1 /\ None = LastDay + 2
BY WindowAssumption DEF Literal, Pointer, None

\* No day is the pointer.
LEMMA InReachIsADay ==
  ASSUME NEW w, WalkType(w), w.pc # "idle", NEW k, Reaches(w, k)
  PROVE  k \in Nat /\ k <= LastDay /\ k # Pointer /\ k # None
<1>1. w.run \in 0 .. LastDay
  BY DEF WalkType
<1> QED  BY <1>1, WindowNumbers DEF Reaches

\* A walk begins with every key of its window before it, in order.
LEMMA BeginsOrderly ==
  ASSUME NEW w, WalkType(w), w.pc # "idle", w.left = KeysOf(w.reader, w.run), NEW keys
  PROVE  Orderly(w) /\ Covers(w, keys) /\ PointerFirst(w, keys)
<1>1. w.run \in 0 .. LastDay /\ w.reader \in Readers
  BY DEF WalkType
<1>2. w.run \in Nat /\ w.run <= LastDay
  BY <1>1, WindowNumbers
<1>3. PICK run : run = w.run
  OBVIOUS
<1>4. PICK keysLeft : keysLeft = w.left
  OBVIOUS
<1>5. CASE w.reader # "signals"
  <2> DEFINE days == IF run = Literal THEN {Literal} ELSE {d \in 1 .. run : run - d <= MaxAge}
  <2>1. PICK s : s = WalkBackDates(run)
    OBVIOUS
  <2>3. \A d \in days : Reaches(w, d) /\ d # Pointer
    <3>1. \A d \in days : Reaches(w, d)
      BY <1>2, <1>3, <1>5 DEF Reaches
    <3> QED  BY <3>1, InReachIsADay
  <2>4. \A k : Reaches(w, k) => k \in days
    BY <1>3, <1>5 DEF Reaches
  <2>5. keysLeft = IF w.reader = "resolve_pointer" THEN <<Pointer>> \o s ELSE s
    BY <1>3, <1>4, <1>5, <2>1 DEF KeysOf
  <2>6. /\ IsList(s) /\ DOMAIN s = 1 .. Len(s)
        /\ \A i \in DOMAIN s : s[i] \in days
        /\ \A d \in days : \E i \in DOMAIN s : s[i] = d
        /\ \A i, j \in DOMAIN s : i < j => s[j] < s[i]
    <3>1. CASE run = Literal
      <4>1. s = <<Literal>> /\ days = {Literal}
        BY <2>1, <3>1 DEF WalkBackDates
      <4> HIDE DEF days
      <4> QED  BY <4>1 DEF IsList
    <3>2. CASE run # Literal
      <4>1. s = NewestFirst(days) /\ days \in SUBSET (1 .. run) /\ run \in Nat
        BY <1>2, <1>3, <2>1, <3>2 DEF WalkBackDates
      <4> HIDE DEF days
      <4>2. SortsDown(s, days)
        BY <4>1, NewestFirstSorts
      <4> QED  BY <4>2 DEF SortsDown
    <3> QED  BY <3>1, <3>2
  <2> HIDE DEF days
  <2>7. CASE w.reader # "resolve_pointer"
    <3>1. keysLeft = s
      BY <2>5, <2>7
    <3> QED  BY <1>4, <1>5, <2>3, <2>4, <2>6, <2>7, <3>1 DEF Orderly, Covers, PointerFirst
  <2>8. CASE w.reader = "resolve_pointer"
    <3>1. keysLeft = <<Pointer>> \o s
      BY <2>5, <2>8
    <3>2. /\ IsList(keysLeft) /\ Len(keysLeft) = Len(s) + 1 /\ DOMAIN keysLeft = 1 .. Len(s) + 1
          /\ keysLeft[1] = Pointer /\ Len(s) \in Nat
          /\ \A i \in 1 .. Len(s) : keysLeft[i + 1] = s[i]
      <4>1. PICK S : S = {s[i] : i \in DOMAIN s} \cup {Pointer}
        OBVIOUS
      <4>2. s \in Seq(S) /\ <<Pointer>> \in Seq(S) /\ Len(s) \in Nat
        <5>1. s \in [1 .. Len(s) -> S] /\ Len(s) \in Nat
          BY <2>6, <4>1 DEF IsList
        <5> QED  BY <4>1, <5>1, SeqDef
      <4>3. /\ keysLeft \in Seq(S) /\ Len(keysLeft) = Len(s) + 1 /\ keysLeft[1] = Pointer
            /\ \A i \in 1 .. Len(s) : keysLeft[i + 1] = s[i]
        BY <3>1, <4>2
      <4>4. keysLeft \in [1 .. Len(keysLeft) -> S]
        BY <4>3, LenProperties
      <4> QED  BY <4>2, <4>3, <4>4 DEF IsList
    <3>3. \A i \in DOMAIN keysLeft : i = 1 \/ (i - 1 \in DOMAIN s /\ keysLeft[i] = s[i - 1])
      <4> SUFFICES ASSUME NEW i \in 1 .. Len(s) + 1, i # 1
                   PROVE  i - 1 \in 1 .. Len(s) /\ keysLeft[i] = s[i - 1]
        BY <2>6, <3>2
      <4>1. i - 1 \in 1 .. Len(s) /\ (i - 1) + 1 = i
        BY <3>2
      <4> QED  BY <3>2, <4>1
    <3>4. \A i \in DOMAIN keysLeft :
             keysLeft[i] = Pointer \/ (keysLeft[i] # Pointer /\ Reaches(w, keysLeft[i]))
      BY <2>3, <2>6, <3>2, <3>3
    <3>5. \A i, j \in DOMAIN keysLeft :
             i < j /\ keysLeft[i] # Pointer /\ keysLeft[j] # Pointer => keysLeft[j] < keysLeft[i]
      <4> SUFFICES ASSUME NEW i \in DOMAIN keysLeft, NEW j \in DOMAIN keysLeft, i < j,
                          keysLeft[i] # Pointer
                   PROVE  keysLeft[j] < keysLeft[i]
        OBVIOUS
      <4>1. i # 1 /\ j # 1
        BY <3>2
      <4>2. i - 1 \in DOMAIN s /\ j - 1 \in DOMAIN s /\ i - 1 < j - 1
        BY <3>2, <3>3, <4>1
      <4> QED  BY <2>6, <3>3, <4>1, <4>2
    <3>6. \A k \in days : \E i \in DOMAIN keysLeft : keysLeft[i] = k
      <4> SUFFICES ASSUME NEW k \in days PROVE \E i \in DOMAIN keysLeft : keysLeft[i] = k
        OBVIOUS
      <4>1. PICK i \in 1 .. Len(s) : s[i] = k
        BY <2>6
      <4>2. i + 1 \in DOMAIN keysLeft /\ keysLeft[i + 1] = k
        BY <3>2, <4>1
      <4> QED  BY <4>2
    <3>7. DOMAIN keysLeft = 1 .. Len(keysLeft)
      BY <3>2
    <3>8. 1 \in DOMAIN keysLeft
      BY <3>2
    <3> QED  BY <1>4, <2>4, <2>8, <3>2, <3>4, <3>5, <3>6, <3>7, <3>8 DEF Orderly, Covers, PointerFirst
  <2> QED  BY <2>7, <2>8
<1>6. CASE w.reader = "signals"
  <2> DEFINE days == {d \in (1 .. run) \ Weekend : run - d <= MaxWeekdays}
  <2>1. PICK s : s = NewestFirst(days)
    OBVIOUS
  <2>2. days \in SUBSET (1 .. run) /\ run \in Nat
    BY <1>2, <1>3
  <2>3. \A d \in days : Reaches(w, d) /\ d # Pointer
    BY <1>2, <1>3, <1>6, WindowNumbers DEF Reaches
  <2>4. \A k : Reaches(w, k) /\ k \notin Skips(w) => k \in days
    BY <1>3, <1>6 DEF Reaches, Skips
  <2>5. keysLeft = Append(s, Pointer)
    BY <1>3, <1>4, <1>6, <2>1 DEF KeysOf, FallbackResearchDateKeys
  <2> HIDE DEF days
  <2>6. /\ IsList(s) /\ DOMAIN s = 1 .. Len(s)
        /\ \A i \in DOMAIN s : s[i] \in days
        /\ \A d \in days : \E i \in DOMAIN s : s[i] = d
        /\ \A i, j \in DOMAIN s : i < j => s[j] < s[i]
    <3>1. SortsDown(s, days)
      BY <2>1, <2>2, NewestFirstSorts
    <3> QED  BY <3>1 DEF SortsDown
  <2>7. Longer(s, Pointer, keysLeft)
    BY <2>5, <2>6, ListGrows, Zenon
  <2>8. /\ IsList(keysLeft) /\ Len(keysLeft) = Len(s) + 1 /\ DOMAIN keysLeft = 1 .. Len(s) + 1
        /\ keysLeft[Len(s) + 1] = Pointer /\ Len(s) \in Nat
        /\ \A i \in 1 .. Len(s) : keysLeft[i] = s[i]
    BY <2>6, <2>7 DEF Longer, IsList
  <2>9. \A i \in DOMAIN keysLeft : i = Len(s) + 1 \/ (i \in DOMAIN s /\ keysLeft[i] = s[i])
    BY <2>6, <2>8
  <2>10. \A i \in DOMAIN keysLeft :
            \/ keysLeft[i] = Pointer /\ i = Len(keysLeft)
            \/ keysLeft[i] # Pointer /\ Reaches(w, keysLeft[i])
    BY <2>3, <2>6, <2>8, <2>9
  <2>11. \A i, j \in DOMAIN keysLeft :
            i < j /\ keysLeft[i] # Pointer /\ keysLeft[j] # Pointer => keysLeft[j] < keysLeft[i]
    BY <2>6, <2>8, <2>9
  <2>12. \A k \in days : \E i \in DOMAIN keysLeft : keysLeft[i] = k
    <3> SUFFICES ASSUME NEW k \in days PROVE \E i \in DOMAIN keysLeft : keysLeft[i] = k
      OBVIOUS
    <3>1. PICK i \in 1 .. Len(s) : s[i] = k
      BY <2>6
    <3>2. i \in DOMAIN keysLeft /\ keysLeft[i] = k
      BY <2>8, <3>1
    <3> QED  BY <3>2
  <2>13. DOMAIN keysLeft = 1 .. Len(keysLeft)
    BY <2>8
  <2>14. \A i \in DOMAIN keysLeft : keysLeft[i] = Pointer => i = Len(keysLeft)
    BY <2>10
  <2> QED  BY <1>4, <1>6, <2>4, <2>8, <2>10, <2>11, <2>12, <2>13, <2>14 DEF Orderly, Covers, PointerFirst
<1> QED  BY <1>5, <1>6

-----------------------------------------------------------------------------
(* The windowed readers: what a step leaves.                               *)

\* The result of a walk w is the freshest of the keys that were there all through it.
Fresh(w, keys) ==
    w.pc = "done" =>
        LET sure == {k \in keys : Reaches(w, k) /\ k \notin Skips(w)}
        IN  /\ w.found \in {None, Pointer} \/ Reaches(w, w.found)
            /\ w.found = Pointer => w.reader \in {"resolve_pointer", "signals"}
            /\ (w.found = Pointer /\ w.reader = "signals") => sure = {}
            /\ w.found = None => sure = {}
            /\ w.found \notin {None, Pointer} => \A k \in sure : k <= w.found
            /\ (w.reader = "resolve_pointer" /\ w.found # Pointer) => Pointer \notin keys
            /\ w.found = Pointer => \A k \in w.told : k <= w.day

Standing(keys) == DOMAIN object = Keys /\ \A k \in keys : k \in Keys /\ object[k] = "good"
Sound(w, keys) == /\ WalkType(w)
                  /\ w.pc = "walking" => /\ w.found = None /\ Orderly(w) /\ Covers(w, keys)
                                         /\ PointerFirst(w, keys)
                  /\ Fresh(w, keys)

\* A key that is in steady stands; the walk under way will still ask for every sure one,
\* in descending order; and a walk that is over has the freshest.  What went into the
\* pointer and had nothing older put over it is no newer than what is there.
WindowInv == Standing(steady) /\ Sound(walk, steady) /\ \A k \in told : k <= latest

\* What was there all along only gets less.
LEMMA FewerKeys ==
  ASSUME NEW w, NEW keys, NEW fewer, \A k \in fewer : k \in keys, Sound(w, keys)
  PROVE  Sound(w, fewer)
<1>1. w.pc = "walking" => Covers(w, fewer) /\ PointerFirst(w, fewer)
  BY DEF Sound, Covers, PointerFirst
<1>2. Fresh(w, fewer)
  BY DEF Sound, Fresh
<1> QED  BY <1>1, <1>2 DEF Sound

LEMMA WindowStarts == WindowInit => WindowInv
<1> SUFFICES ASSUME WindowInit PROVE WindowInv
  OBVIOUS
<1>1. DOMAIN object = Keys /\ steady = {} /\ walk = IdleWalk /\ told = {}
  BY DEF WindowInit
<1>2. walk.pc = "idle"
  BY <1>1 DEF IdleWalk
<1>3. WalkType(walk)
  BY <1>1, <1>2 DEF WalkType
<1> QED  BY <1>1, <1>2, <1>3 DEF WindowInv, Standing, Sound, Fresh

\* The key asked for is the newest of those that are left.
LEMMA FoundIsFresh ==
  ASSUME NEW w, WalkType(w), w.pc = "walking", w.left # <<>>, NEW keys, Orderly(w),
         Covers(w, keys), PointerFirst(w, keys), NEW day, NEW seen,
         Head(w.left) = Pointer => \A k \in seen : k <= day,
         NEW v, v = [w EXCEPT !.pc = "done", !.found = Head(w.left), !.left = <<>>, !.day = day, !.told = seen]
  PROVE  Sound(v, keys)
<1>1. /\ DOMAIN v = DOMAIN w /\ v.pc = "done" /\ v.found = Head(w.left)
      /\ v.reader = w.reader /\ v.run = w.run /\ v.day = day /\ v.told = seen
  BY DEF WalkType, IdleWalk
<1>2. WalkType(v) /\ \A k : (Reaches(v, k) <=> Reaches(w, k)) /\ Skips(v) = Skips(w)
  BY <1>1 DEF WalkType, Reaches, Skips
<1>3. PICK s : s = w.left
  OBVIOUS
<1>4. PICK h : h = Head(s)
  OBVIOUS
<1>5. Shorter(s, Tail(s))
  <2>1. IsList(s) /\ s # <<>>
    BY <1>3 DEF Orderly
  <2> QED  BY <2>1, ListShrinks, Zenon
<1>6. h = s[1] /\ 1 \in DOMAIN s /\ DOMAIN s = 1 .. Len(s) /\ Len(s) \in Nat
  BY <1>4, <1>5 DEF Shorter
<1>7. \/ h = Pointer /\ w.reader \in {"resolve_pointer", "signals"}
      \/ h # Pointer /\ Reaches(w, h)
  BY <1>3, <1>6 DEF Orderly
<1>8. h # None
  BY <1>7, InReachIsADay, WindowNumbers
<1>9. \A k \in keys : Reaches(w, k) /\ k \notin Skips(w)
                        => k # Pointer /\ k \in Nat /\ \E i \in DOMAIN s : s[i] = k
  <2>1. \A k : Reaches(w, k) => k # Pointer /\ k \in Nat
    BY InReachIsADay
  <2> QED  BY <1>3, <2>1 DEF Covers
<1>10. ASSUME h = Pointer, w.reader = "signals", NEW k \in keys, Reaches(w, k), k \notin Skips(w)
       PROVE  FALSE
  <2>1. PICK i \in DOMAIN s : s[i] = k
    BY <1>9, <1>10
  <2>2. 1 = Len(s)
    BY <1>3, <1>6, <1>10 DEF Orderly
  <2>3. i = 1
    <3>1. DOMAIN s = 1 .. 1
      BY <1>6, <2>2
    <3> QED  BY <2>1, <3>1
  <2> QED  BY <1>6, <1>9, <1>10, <2>1, <2>3
<1>11. ASSUME h # Pointer, NEW k \in keys, Reaches(w, k), k \notin Skips(w)
       PROVE  k <= h
  <2>1. PICK i \in DOMAIN s : s[i] = k
    BY <1>9, <1>11
  <2>2. k # Pointer /\ k \in Nat
    BY <1>9, <1>11
  <2>3. h \in Nat
    BY <1>7, <1>11, InReachIsADay
  <2>4. i = 1 \/ 1 < i
    BY <1>6
  <2>5. 1 < i => k < h
    BY <1>3, <1>6, <1>11, <2>1, <2>2 DEF Orderly
  <2> QED  BY <1>6, <2>1, <2>2, <2>3, <2>4, <2>5
<1>12. Fresh(v, keys)
  <2>1. v.found = h
    BY <1>1, <1>3, <1>4
  <2>2. {k \in keys : Reaches(v, k) /\ k \notin Skips(v)}
          = {k \in keys : Reaches(w, k) /\ k \notin Skips(w)}
    BY <1>2
  <2>3. h = Pointer /\ w.reader = "signals"
          => {k \in keys : Reaches(w, k) /\ k \notin Skips(w)} = {}
    BY <1>10
  <2>4. h # Pointer => \A k \in {x \in keys : Reaches(w, x) /\ x \notin Skips(w)} : k <= h
    BY <1>11
  <2>5. Reaches(v, h) <=> Reaches(w, h)
    BY <1>2
  <2>6. v.reader = "resolve_pointer" /\ h # Pointer => Pointer \notin keys
    BY <1>1, <1>3, <1>6 DEF PointerFirst
  <2>7. h = Pointer => \A k \in v.told : k <= v.day
    BY <1>1, <1>3, <1>4
  <2> QED  BY <1>1, <1>7, <1>8, <2>1, <2>2, <2>3, <2>4, <2>5, <2>6, <2>7 DEF Fresh
<1> QED  BY <1>1, <1>2, <1>12 DEF Sound

\* Passing over the first key leaves the rest of the walk.
LEMMA PassedOver ==
  ASSUME NEW w, WalkType(w), w.pc = "walking", w.left # <<>>, w.found = None, NEW keys,
         Orderly(w), Covers(w, keys), PointerFirst(w, keys), Head(w.left) \notin keys,
         NEW v, v = [w EXCEPT !.left = Tail(@)]
  PROVE  Sound(v, keys)
<1>1. /\ DOMAIN v = DOMAIN w /\ v.pc = "walking" /\ v.found = None
      /\ v.reader = w.reader /\ v.run = w.run /\ v.left = Tail(w.left)
  BY DEF WalkType, IdleWalk
<1>2. WalkType(v) /\ Skips(v) = Skips(w) /\ \A k : Reaches(v, k) <=> Reaches(w, k)
  BY <1>1 DEF WalkType, Reaches, Skips
<1>3. PICK s : s = w.left
  OBVIOUS
<1>4. PICK t : t = v.left
  OBVIOUS
<1>5. Shorter(s, t)
  <2>1. IsList(s) /\ s # <<>> /\ t = Tail(s)
    BY <1>1, <1>3, <1>4 DEF Orderly
  <2> QED  BY <2>1, ListShrinks, Zenon
<1>6. /\ IsList(t) /\ Len(t) = Len(s) - 1 /\ Len(s) \in Nat /\ DOMAIN s = 1 .. Len(s)
      /\ DOMAIN t = 1 .. Len(t) /\ Len(t) \in Nat /\ 1 \in DOMAIN s /\ Head(s) = s[1]
      /\ \A i \in DOMAIN t : t[i] = s[i + 1]
  BY <1>5 DEF Shorter
<1>7. \A i \in DOMAIN t : i + 1 \in DOMAIN s
  BY <1>6
<1>8. Orderly(v)
  <2>1. \A i \in DOMAIN t :
          \/ t[i] = Pointer /\ v.reader \in {"resolve_pointer", "signals"}
          \/ t[i] # Pointer /\ Reaches(v, t[i])
    <3>1. TAKE i \in DOMAIN t
    <3>2. i + 1 \in DOMAIN s /\ t[i] = s[i + 1]
      BY <1>6, <1>7
    <3>3. \A k \in DOMAIN w.left :
            \/ w.left[k] = Pointer /\ w.reader \in {"resolve_pointer", "signals"}
            \/ w.left[k] # Pointer /\ Reaches(w, w.left[k])
      BY <1>1, Zenon DEF Orderly
    <3>4. \/ s[i + 1] = Pointer /\ w.reader \in {"resolve_pointer", "signals"}
          \/ s[i + 1] # Pointer /\ Reaches(w, s[i + 1])
      BY <1>3, <3>2, <3>3, Zenon
    <3> QED  BY <1>1, <1>2, <3>2, <3>4
  <2>2. \A i, j \in DOMAIN t : i < j /\ t[i] # Pointer /\ t[j] # Pointer => t[j] < t[i]
    <3> SUFFICES ASSUME NEW i \in DOMAIN t, NEW j \in DOMAIN t, i < j,
                        t[i] # Pointer, t[j] # Pointer
                 PROVE  t[j] < t[i]
      OBVIOUS
    <3>1. i + 1 \in DOMAIN s /\ j + 1 \in DOMAIN s /\ i + 1 < j + 1
      BY <1>6, <1>7
    <3> QED  BY <1>3, <1>6, <3>1 DEF Orderly
  <2>3. v.reader = "signals" => \A i \in DOMAIN t : t[i] = Pointer => i = Len(t)
    <3> SUFFICES ASSUME v.reader = "signals", NEW i \in DOMAIN t, t[i] = Pointer
                 PROVE  i = Len(t)
      OBVIOUS
    <3>1. i + 1 = Len(s)
      BY <1>1, <1>3, <1>6, <1>7 DEF Orderly
    <3> QED  BY <1>6, <3>1
  <2> QED  BY <1>4, <1>6, <2>1, <2>2, <2>3 DEF Orderly
<1>9. Covers(v, keys)
  <2> SUFFICES ASSUME NEW k \in keys, Reaches(w, k), k \notin Skips(w)
               PROVE  \E i \in DOMAIN t : t[i] = k
    BY <1>2, <1>4 DEF Covers
  <2>1. PICK i \in DOMAIN s : s[i] = k
    BY <1>3 DEF Covers
  <2>2. i # 1
    BY <1>3, <1>6, <2>1
  <2>3. i - 1 \in DOMAIN t /\ (i - 1) + 1 = i
    BY <1>6, <2>2
  <2>4. t[i - 1] = k
    BY <1>6, <2>1, <2>3
  <2> QED  BY <2>3, <2>4
<1>10. PointerFirst(v, keys)
  BY <1>1, <1>3, <1>6 DEF PointerFirst
<1> QED  BY <1>1, <1>2, <1>8, <1>9, <1>10 DEF Sound, Fresh

\* A look moves past one key.
LEMMA LooksOn ==
  ASSUME WindowInv, NEW answer, Look(answer)
  PROVE  WindowInv'
<1> DEFINE h == Head(walk.left)
           passes == answer = "denied" /\ walk.reader = "signals"
           raises == \/ answer # "ok" /\ ~passes
                     \/ h = Literal /\ walk.reader = "json" /\ object[h] = "corrupt"
           day == IF h = Pointer THEN latest ELSE h
           seen == IF h = Pointer THEN told ELSE {}
<1>1. walk.pc = "walking" /\ walk.left # <<>> /\ object' = object /\ told' = told /\ latest' = latest
  BY DEF Look, writing
<1>2. walk' = CASE answer = "ok" /\ Usable(walk.reader, object[h]) ->
                        [walk EXCEPT !.pc = "done", !.found = h, !.left = <<>>, !.day = day, !.told = seen]
                [] raises -> [walk EXCEPT !.pc = "raised", !.left = <<>>]
                [] OTHER -> [walk EXCEPT !.left = Tail(@)]
  BY DEF Look
<1>3. steady' = IF passes THEN steady \ {h} ELSE steady
  BY DEF Look
<1>4. /\ WalkType(walk) /\ walk.found = None /\ Orderly(walk) /\ Covers(walk, steady)
      /\ PointerFirst(walk, steady) /\ \A k \in told : k <= latest
      /\ DOMAIN object = Keys /\ \A k \in steady : k \in Keys /\ object[k] = "good"
  BY <1>1 DEF WindowInv, Sound, Standing
<1>0. h = Pointer => \A k \in seen : k <= day
  BY <1>4
<1> HIDE DEF h, day, seen
<1>5. \A k \in steady' : k \in steady
  BY <1>3
<1>6. Standing(steady)'
  BY <1>1, <1>4, <1>5 DEF Standing
<1>7. Covers(walk, steady') /\ PointerFirst(walk, steady')
  BY <1>4, <1>5 DEF Covers, PointerFirst
<1>8. CASE answer = "ok" /\ Usable(walk.reader, object[h])
  <2>1. ~ raises
    BY <1>8 DEF Usable
  <2>2. walk' = [walk EXCEPT !.pc = "done", !.found = h, !.left = <<>>, !.day = day, !.told = seen]
    BY <1>2, <1>8, <2>1
  <2>3. Sound(walk', steady')
    BY <1>0, <1>1, <1>4, <1>7, <2>2, FoundIsFresh DEF h
  <2> QED  BY <1>1, <1>4, <1>6, <2>3 DEF WindowInv, Standing, Sound
<1>9. CASE ~ (answer = "ok" /\ Usable(walk.reader, object[h])) /\ raises
  <2>1. walk' = [walk EXCEPT !.pc = "raised", !.left = <<>>]
    BY <1>2, <1>9
  <2>2. DOMAIN walk' = DOMAIN walk /\ walk'.pc = "raised" /\ walk'.reader = walk.reader
        /\ walk'.run = walk.run
    BY <1>4, <2>1 DEF WalkType, IdleWalk
  <2>3. WalkType(walk')
    BY <1>1, <1>4, <2>2 DEF WalkType
  <2>4. Sound(walk', steady')
    BY <2>2, <2>3 DEF Sound, Fresh
  <2> QED  BY <1>1, <1>4, <1>6, <2>4 DEF WindowInv, Standing, Sound
<1>10. CASE ~ (answer = "ok" /\ Usable(walk.reader, object[h])) /\ ~ raises
  <2>1. walk' = [walk EXCEPT !.left = Tail(@)]
    BY <1>2, <1>10
  <2>2. h \notin steady'
    <3>1. CASE passes
      BY <1>3, <3>1
    <3>2. CASE ~ passes
      <4>1. answer = "ok" /\ ~ Usable(walk.reader, object[h])
        BY <1>10, <3>2
      <4>2. object[h] # "good"
        BY <4>1 DEF Usable
      <4> QED  BY <1>4, <1>5, <4>2
    <3> QED  BY <3>1, <3>2
  <2>3. Sound(walk', steady')
    BY <1>1, <1>4, <1>7, <2>1, <2>2, PassedOver DEF h
  <2> QED  BY <1>1, <1>4, <1>6, <2>3 DEF WindowInv, Standing, Sound
<1> QED  BY <1>8, <1>9, <1>10

\* Every step.
LEMMA WindowSteps == WindowInv /\ [WindowNext]_windowVars => WindowInv'
<1> SUFFICES ASSUME WindowInv, [WindowNext]_windowVars PROVE WindowInv'
  OBVIOUS
<1>1. Standing(steady) /\ Sound(walk, steady) /\ \A k \in told : k <= latest
  BY DEF WindowInv
<1>2. CASE UNCHANGED windowVars
  BY <1>1, <1>2 DEF windowVars, WindowInv, Standing, Sound, Fresh, Orderly, Covers, PointerFirst,
                    WalkType, Reaches, Skips
<1>3. ASSUME NEW key \in Keys, NEW content \in {"good", "corrupt"}, Publish(key, content)
      PROVE  WindowInv'
  <2>1. /\ object' = [object EXCEPT ![key] = content] /\ steady' = steady \ {key}
        /\ walk' = walk /\ told' = told \ {key} /\ latest' = latest
    BY <1>3 DEF Publish
  <2>2. Standing(steady)'
    BY <1>1, <2>1 DEF Standing
  <2>3. Sound(walk, steady')
    BY <1>1, <2>1, FewerKeys
  <2>4. Sound(walk', steady')
    BY <2>1, <2>3
  <2> QED  BY <1>1, <2>1, <2>2, <2>4 DEF WindowInv, Sound
<1>4. ASSUME NEW day \in 1 .. LastDay, MovePointer(day)
      PROVE  WindowInv'
  <2>1. /\ object' = [object EXCEPT ![Pointer] = "good"] /\ steady' = steady
        /\ walk' = walk /\ latest' = day /\ told' = {e \in told : e <= day} \cup {day}
    BY <1>4 DEF MovePointer
  <2>3. day <= day
    BY WindowNumbers
  <2>2. Standing(steady)'
    BY <1>1, <2>1 DEF Standing
  <2>4. Sound(walk', steady')
    BY <1>1, <2>1
  <2> QED  BY <2>1, <2>2, <2>3, <2>4 DEF WindowInv, Sound
<1>5. ASSUME NEW reader \in Readers, NEW run \in 0 .. LastDay, BeginWalk(reader, run)
      PROVE  WindowInv'
  <2>1. /\ object' = object /\ steady' = {k \in Keys : object[k] = "good"}
        /\ walk' = [pc |-> "walking", reader |-> reader, run |-> run,
                    left |-> KeysOf(reader, run), found |-> None, day |-> 0, told |-> {}]
        /\ told' = told /\ latest' = latest
    BY <1>5 DEF BeginWalk, writing
  <2>2. Standing(steady)'
    BY <1>1, <2>1 DEF Standing
  <2>3. PICK w : w = [pc |-> "walking", reader |-> reader, run |-> run,
                      left |-> KeysOf(reader, run), found |-> None, day |-> 0, told |-> {}]
    OBVIOUS
  <2>4. /\ w.pc = "walking" /\ w.found = None /\ w.left = KeysOf(w.reader, w.run)
        /\ WalkType(w)
    BY <2>3 DEF WalkType, IdleWalk
  <2>5. Orderly(w) /\ Covers(w, steady') /\ PointerFirst(w, steady')
    BY <2>4, BeginsOrderly
  <2>6. Sound(w, steady')
    BY <2>4, <2>5 DEF Sound, Fresh
  <2>7. Sound(walk', steady')
    BY <2>1, <2>3, <2>6
  <2> QED  BY <1>1, <2>1, <2>2, <2>7 DEF WindowInv, Sound
<1>6. ASSUME NEW answer \in {"ok", "denied", "throttled"}, Look(answer)
      PROVE  WindowInv'
  BY <1>6, LooksOn
<1>7. CASE GiveUp
  <2>1. /\ walk.pc = "walking" /\ walk.left = <<>> /\ object' = object /\ steady' = steady
        /\ walk' = [walk EXCEPT !.pc = "done"] /\ told' = told /\ latest' = latest
    BY <1>7 DEF GiveUp, writing
  <2>2. Standing(steady)'
    BY <1>1, <2>1 DEF Standing
  <2>3. WalkType(walk) /\ walk.found = None /\ Covers(walk, steady) /\ PointerFirst(walk, steady)
    BY <1>1, <2>1 DEF Sound
  <2>4. DOMAIN walk' = DOMAIN walk /\ walk'.pc = "done" /\ walk'.reader = walk.reader
        /\ walk'.run = walk.run /\ walk'.found = None
    BY <2>1, <2>3 DEF WalkType, IdleWalk
  <2>5. PICK v : v = walk'
    OBVIOUS
  <2>6. WalkType(v) /\ v.pc = "done" /\ v.found = None
    BY <2>1, <2>3, <2>4, <2>5 DEF WalkType
  <2>7. {k \in steady : Reaches(v, k) /\ k \notin Skips(v)} = {}
    <3>1. Skips(v) = Skips(walk) /\ \A k : Reaches(v, k) <=> Reaches(walk, k)
      BY <2>4, <2>5 DEF Skips, Reaches
    <3>2. DOMAIN walk.left = {}
      BY <2>1, EmptyIsList
    <3> QED  BY <2>3, <3>1, <3>2 DEF Covers
  <2>8. None # Pointer
    BY WindowNumbers
  <2>11. v.reader = "resolve_pointer" => Pointer \notin steady
    BY <2>1, <2>3, <2>4, <2>5, EmptyIsList DEF PointerFirst
  <2>9. Sound(v, steady)
    BY <2>6, <2>7, <2>8, <2>11 DEF Sound, Fresh
  <2>10. Sound(walk', steady')
    BY <2>1, <2>5, <2>9
  <2> QED  BY <1>1, <2>1, <2>2, <2>10 DEF WindowInv, Sound
<1> QED  BY <1>2, <1>3, <1>4, <1>5, <1>6, <1>7 DEF WindowNext

\* A walk over dated keys answers with the freshest artifact of the window its code makes that
\* was there and readable all through it, whatever the runs write meanwhile; the pointer, when
\* it is asked for, goes before them, and is behind no artifact that went into it last
\* (artifact_resolution.py:resolve_windowed_artifact, get_json_windowed, signals.py).
THEOREM FreshestIsFound == WindowSpec => []FreshestOfItsWindow
<1>1. WindowInv => FreshestOfItsWindow
  <2> SUFFICES ASSUME WindowInv, walk.pc = "done" PROVE FreshestOfItsWindow
    BY DEF FreshestOfItsWindow
  <2>1. Fresh(walk, steady)
    BY DEF WindowInv, Sound
  <2>2. \A k : InReach(k) <=> Reaches(walk, k)
    BY DEF InReach, Reaches, Age
  <2>3. {k \in steady \ Skips(walk) : InReach(k)}
          = {k \in steady : Reaches(walk, k) /\ k \notin Skips(walk)}
    BY <2>2
  <2>4. FreshestOfItsWindow <=>
          /\ walk.found \in {None, Pointer} \/ Reaches(walk, walk.found)
          /\ walk.found = Pointer => walk.reader \in {"resolve_pointer", "signals"}
          /\ (walk.found = Pointer /\ walk.reader = "signals")
                => {k \in steady \ Skips(walk) : InReach(k)} = {}
          /\ walk.found = None => {k \in steady \ Skips(walk) : InReach(k)} = {}
          /\ walk.found \notin {None, Pointer}
                => \A k \in {k \in steady \ Skips(walk) : InReach(k)} : k <= walk.found
          /\ (walk.reader = "resolve_pointer" /\ walk.found # Pointer) => Pointer \notin steady
          /\ walk.found = Pointer => \A k \in walk.told : k <= walk.day
    BY <2>2 DEF FreshestOfItsWindow, Skips
  <2> QED  BY <2>1, <2>3, <2>4 DEF Fresh
<1> QED  BY <1>1, WindowStarts, WindowSteps, PTL DEF WindowSpec

-----------------------------------------------------------------------------
(* The retrieval store: rows are only added, and the mirror only grows.    *)

\* A row is of the article its job brought.
RowsType ==
    /\ IsList(documents)
    /\ \A i \in DOMAIN documents :
          LET row == documents[i]
          IN  /\ row.by \in Ingests
              /\ row.slot = ArticleOf[row.by].slot /\ row.news = ArticleOf[row.by].news
              /\ row.filed = ArticleOf[row.by].filed /\ row.text = ArticleOf[row.by].text
JobsType ==
    /\ DOMAIN ingest = Ingests /\ DOMAIN looked = Ingests
    /\ \A j \in Ingests : DOMAIN ingest[j] = {"pc", "id"}

\* A job about to insert saw no row of its document; one that was turned away saw one.
AskedInv ==
    \A j \in Ingests :
        /\ \A i \in looked[j] : i \in DOMAIN documents
        /\ ingest[j].pc = "insert" =>
              \A i \in looked[j] : ~ DocumentExists(documents[i], ArticleOf[j])
        /\ ingest[j].pc = "skipped" =>
              \E i \in DOMAIN documents : DocumentExists(documents[i], ArticleOf[j])

OncePerDocument ==
    \A a, b \in DOMAIN documents : a < b /\ SameDocument(documents[a], documents[b]) =>
        documents[b].news /\ documents[b].ext = "none" /\ a \notin documents[b].saw

MirrorInv ==
    /\ \A i \in mirror : i \in DOMAIN documents
    /\ \A j \in Ingests : ingest[j].pc = "mirror" => ingest[j].id \in DOMAIN documents
    /\ \A i \in DOMAIN documents : i \notin mirror =>
          \/ documents[i].chunks = 0 \/ ~ArticleOf[documents[i].by].mirrors \/ i \in gaps
          \/ \E j \in Ingests : ingest[j].pc = "mirror" /\ ingest[j].id = i

\* What was mirrored when a listing began is in a page it has, or behind its place.
CorpusInv ==
    /\ \A i \in corpus.there : i \in mirror
    /\ \A i \in corpus.keys : i \in mirror /\ documents[i].filed >= FiledFrom
    /\ DOMAIN corpus = DOMAIN IdleCorpus
    /\ corpus.pc \in {"idle", "listing", "loaded"}
    /\ corpus.pc = "listing" =>
          \A i \in corpus.there : \/ i \in corpus.keys \/ ~ (documents[i].filed >= FiledFrom)
                                  \/ KeyBefore(corpus.from, MirrorKey(i))
    /\ corpus.pc = "loaded" =>
          \A i \in corpus.there : i \in corpus.keys \/ ~ (documents[i].filed >= FiledFrom)

RagInv == RowsType /\ JobsType /\ AskedInv /\ OncePerDocument /\ MirrorInv /\ CorpusInv

\* What the assumption gives, in the form the provers use.
LEMMA RagConstants ==
  /\ KeyPage \in Nat /\ KeyPage >= 1
  /\ \A j \in Ingests : ArticleOf[j].filed \in Nat /\ ArticleOf[j].news \in BOOLEAN
  /\ \A j, k \in Ingests : ArticleOf[j].slot = ArticleOf[k].slot
                              => ArticleOf[j].news = ArticleOf[k].news
  /\ TopK \in Nat /\ RerankInput \in Nat /\ CacheSize \in Nat
  /\ Finer \in Nat /\ Finer >= 1 /\ Decimals \in Nat /\ WeightScale \in Nat /\ WeightScale >= 1
  /\ VectorWeight \in Nat /\ WeightScale - VectorWeight \in Nat
  /\ \A q \in Queries, j \in Ingests : /\ Closeness[q][ArticleOf[j].text] \in Nat
                                       /\ Matches[q][ArticleOf[j].text] \in Nat
                                       /\ Judgement[q][ArticleOf[j].text] \in Int
BY RagAssumption

LEMMA RagStarts == RagInit => RagInv
<1> SUFFICES ASSUME RagInit PROVE RagInv
  OBVIOUS
<1>1. /\ documents = <<>> /\ mirror = {} /\ corpus = IdleCorpus
      /\ ingest = [j \in Ingests |-> IdleIngest] /\ looked = [j \in Ingests |-> {}]
  BY DEF RagInit
<1>2. DOMAIN documents = {} /\ IsList(documents)
  BY <1>1, EmptyIsList
<1>3. JobsType /\ \A j \in Ingests : ingest[j].pc = "idle" /\ looked[j] = {}
  BY <1>1 DEF JobsType, IdleIngest
<1>4. CorpusInv
  BY <1>1 DEF CorpusInv, IdleCorpus
<1> QED
  BY <1>1, <1>2, <1>3, <1>4 DEF RagInv, RowsType, AskedInv, OncePerDocument, MirrorInv

-----------------------------------------------------------------------------
(* The mirror in the order of its keys.                                    *)

\* The numbers of a committed row's key.
LEMMA KeyNumbers ==
  ASSUME RowsType, NEW i \in DOMAIN documents
  PROVE  documents[i].filed \in Nat /\ i \in Nat /\ i >= 1
<1>1. DOMAIN documents = 1 .. Len(documents) /\ Len(documents) \in Nat
  BY DEF RowsType, IsList
<1>2. documents[i].filed = ArticleOf[documents[i].by].filed /\ documents[i].by \in Ingests
  BY DEF RowsType
<1> QED  BY <1>1, <1>2, RagConstants

Before(i, k) == KeyBefore(MirrorKey(i), MirrorKey(k))

\* The mirror is listed in a strict order of its keys.
LEMMA KeysAreOrdered ==
  ASSUME RowsType
  PROVE  /\ \A i \in DOMAIN documents : ~ Before(i, i)
         /\ \A i, k \in DOMAIN documents : Before(i, k) \/ Before(k, i) \/ i = k
         /\ \A i, k, l \in DOMAIN documents : Before(i, k) /\ Before(k, l) => Before(i, l)
<1>1. \A i \in DOMAIN documents : documents[i].filed \in Nat /\ i \in Nat
  BY KeyNumbers
<1> QED  BY <1>1 DEF Before, KeyBefore, MirrorKey

\* How many of a finite set of rows come before a row.
Behind(S, i) == {k \in S : Before(k, i)}

\* An object's place in a set is how many sort before it.
LEMMA PlacesAreOrdered ==
  ASSUME RowsType, NEW S, IsFiniteSet(S), \A i \in S : i \in DOMAIN documents
  PROVE  /\ \A i \in S : Cardinality(Behind(S, i)) \in Nat
         /\ \A i, k \in S : Before(i, k) => Cardinality(Behind(S, i)) < Cardinality(Behind(S, k))
<1>1. \A i \in S : IsFiniteSet(Behind(S, i)) /\ Cardinality(Behind(S, i)) \in Nat
  <2> SUFFICES ASSUME NEW i \in S
               PROVE  IsFiniteSet(Behind(S, i)) /\ Cardinality(Behind(S, i)) \in Nat
    OBVIOUS
  <2>1. Behind(S, i) \subseteq S
    BY DEF Behind
  <2>2. IsFiniteSet(Behind(S, i))
    BY <2>1, FS_Subset
  <2> QED  BY <2>2, FS_CardinalityType
<1>2. ASSUME NEW i \in S, NEW k \in S, Before(i, k)
      PROVE  Cardinality(Behind(S, i)) < Cardinality(Behind(S, k))
  <2>1. i \in Behind(S, k) /\ i \notin Behind(S, i)
    BY <1>2, KeysAreOrdered DEF Behind
  <2>2. Behind(S, i) \subseteq Behind(S, k)
    BY <1>2, KeysAreOrdered DEF Behind
  <2>3. IsFiniteSet(Behind(S, k)) /\ Cardinality(Behind(S, k)) \in Nat
        /\ Cardinality(Behind(S, i)) \in Nat
    BY <1>1
  <2>4. /\ Cardinality(Behind(S, i)) <= Cardinality(Behind(S, k))
        /\ Cardinality(Behind(S, i)) = Cardinality(Behind(S, k)) => Behind(S, i) = Behind(S, k)
    BY <2>2, <2>3, FS_Subset
  <2> QED  BY <2>1, <2>3, <2>4
<1> QED  BY <1>1, <1>2

\* A set of rows that is not empty has a first and a last one.
LEMMA FirstOfRows ==
  ASSUME RowsType, NEW S, IsFiniteSet(S), \A i \in S : i \in DOMAIN documents, S # {}
  PROVE  \E i \in S : Behind(S, i) = {}
<1> DEFINE T == {Cardinality(Behind(S, i)) : i \in S}
<1>1. T # {} /\ T \subseteq Nat
  BY PlacesAreOrdered
<1>2. PICK n \in T : \A m \in T : n <= m
  <2> HIDE DEF T
  <2> QED  BY <1>1, LeastNatural
<1>3. PICK i \in S : n = Cardinality(Behind(S, i))
  BY <1>2
<1>4. \A k \in Behind(S, i) : FALSE
  <2> SUFFICES ASSUME NEW k \in S, Before(k, i) PROVE FALSE
    BY DEF Behind
  <2>1. /\ Cardinality(Behind(S, k)) < Cardinality(Behind(S, i))
        /\ Cardinality(Behind(S, k)) \in Nat /\ Cardinality(Behind(S, i)) \in Nat
    BY PlacesAreOrdered
  <2>2. Cardinality(Behind(S, k)) \in T
    OBVIOUS
  <2>3. Cardinality(Behind(S, i)) <= Cardinality(Behind(S, k))
    BY <1>2, <1>3, <2>2
  <2> QED  BY <2>1, <2>3
<1> QED  BY <1>4

\* A finite set of keys has a last one.
LEMMA LastOfRows ==
  ASSUME RowsType, NEW S, IsFiniteSet(S), \A i \in S : i \in DOMAIN documents, S # {}
  PROVE  \E i \in S : \A k \in S : ~ Before(i, k)
<1> DEFINE T == {Cardinality(Behind(S, i)) : i \in S}
<1>1. T # {} /\ T \in SUBSET Nat
  BY PlacesAreOrdered
<1>2. IsFiniteSet(T)
  <2>1. PICK f : f = [i \in S |-> Cardinality(Behind(S, i))]
    OBVIOUS
  <2>2. IsFiniteSet({f[i] : i \in S})
    BY ImageIsFinite
  <2>3. T = {f[i] : i \in S}
    BY <2>1
  <2> QED  BY <2>2, <2>3
<1>3. PICK n \in T : \A m \in T : m <= n
  <2> HIDE DEF T
  <2> QED  BY <1>1, <1>2, GreatestNatural
<1>4. PICK i \in S : n = Cardinality(Behind(S, i))
  BY <1>3
<1>5. ASSUME NEW k \in S, Before(i, k) PROVE FALSE
  <2>1. /\ Cardinality(Behind(S, i)) < Cardinality(Behind(S, k))
        /\ Cardinality(Behind(S, k)) \in Nat /\ Cardinality(Behind(S, i)) \in Nat
    BY <1>5, PlacesAreOrdered
  <2>2. Cardinality(Behind(S, k)) \in T
    OBVIOUS
  <2>3. Cardinality(Behind(S, k)) <= Cardinality(Behind(S, i))
    BY <1>3, <1>4, <2>2
  <2> QED  BY <2>1, <2>3
<1> QED  BY <1>5

\* The mirror holds rows of the store only.
LEMMA MirrorIsFinite ==
  ASSUME RowsType, MirrorInv, NEW S, \A i \in S : i \in mirror
  PROVE  IsFiniteSet(S) /\ \A i \in S : i \in DOMAIN documents
<1>1. DOMAIN documents = 1 .. Len(documents) /\ Len(documents) \in Nat
  BY DEF RowsType, IsList
<1>2. IsFiniteSet(DOMAIN documents)
  BY <1>1, FS_Interval
<1>3. S \subseteq DOMAIN documents
  BY DEF MirrorInv
<1> QED  BY <1>2, <1>3, FS_Subset

\* What the next page does not reach comes after all that it has, and a page is empty
\* only if nothing is left.
LEMMA PageIsNext ==
  ASSUME RowsType, MirrorInv
  PROVE  /\ \A i \in NextPage : i \in mirror
         /\ NextPage # {} => \E i \in NextPage : \A k \in NextPage : ~ Before(i, k)
         /\ \A i \in mirror : KeyBefore(corpus.from, MirrorKey(i)) =>
               i \in NextPage \/ (NextPage # {} /\ \A k \in NextPage : Before(k, i))
<1> DEFINE after == {id \in mirror : KeyBefore(corpus.from, MirrorKey(id))}
<1>1. \A i \in NextPage : i \in after
  BY DEF NextPage
<1>2. IsFiniteSet(after) /\ \A i \in after : i \in DOMAIN documents
  BY MirrorIsFinite
<1>3. IsFiniteSet(NextPage) /\ \A i \in NextPage : i \in DOMAIN documents
  BY <1>1, MirrorIsFinite
<1>4. \A i : i \in NextPage <=> i \in after /\ Cardinality(Behind(after, i)) < KeyPage
  BY DEF NextPage, Behind, Before
<1>5. \A i \in NextPage : i \in mirror
  BY <1>1
<1>6. NextPage # {} => \E i \in NextPage : \A k \in NextPage : ~ Before(i, k)
  BY <1>3, LastOfRows
<1> HIDE DEF after
<1>7. ASSUME NEW i \in after, i \notin NextPage
      PROVE  NextPage # {} /\ \A k \in NextPage : Before(k, i)
  <2>1. Cardinality(Behind(after, i)) \in Nat /\ Cardinality(Behind(after, i)) >= KeyPage
    BY <1>2, <1>4, <1>7, PlacesAreOrdered, RagConstants
  <2>2. NextPage # {}
    <3>1. PICK f \in after : Behind(after, f) = {}
      BY <1>2, <1>7, FirstOfRows
    <3>2. Cardinality(Behind(after, f)) < KeyPage
      BY <3>1, FS_EmptySet, RagConstants
    <3> QED  BY <1>4, <3>1, <3>2
  <2>3. ASSUME NEW k \in NextPage PROVE Before(k, i)
    <3>1. k \in after /\ Cardinality(Behind(after, k)) < KeyPage
      BY <1>4
    <3>2. ~ Before(i, k)
      <4> SUFFICES ASSUME Before(i, k) PROVE FALSE
        OBVIOUS
      <4>1. Cardinality(Behind(after, i)) < Cardinality(Behind(after, k))
            /\ Cardinality(Behind(after, k)) \in Nat
        BY <1>2, <3>1, PlacesAreOrdered
      <4> QED  BY <2>1, <3>1, <4>1, RagConstants
    <3>3. i # k
      BY <1>7
    <3> QED  BY <1>2, <3>1, <3>2, <3>3, KeysAreOrdered
  <2> QED  BY <2>2, <2>3
<1>8. \A i \in mirror : KeyBefore(corpus.from, MirrorKey(i)) => i \in after
  BY DEF after
<1> QED  BY <1>5, <1>6, <1>7, <1>8

-----------------------------------------------------------------------------
(* The retrieval store: what a step leaves.                                *)

\* The reader's part stands as long as the rows and the mirror only grow.
LEMMA CorpusStands ==
  ASSUME RowsType, MirrorInv, CorpusInv, corpus' = corpus,
         \A i \in mirror : i \in mirror',
         \A i \in DOMAIN documents : documents'[i] = documents[i]
  PROVE  CorpusInv'
<1>1. \A i \in mirror : documents'[i] = documents[i] /\ i \in mirror'
  BY DEF MirrorInv
<1>2. \A i \in mirror : MirrorKey(i)' = MirrorKey(i)
  BY <1>1 DEF MirrorKey
<1>3. \A i \in corpus.there : i \in mirror
  BY DEF CorpusInv
<1>4. \A i \in corpus.keys : i \in mirror' /\ documents'[i].filed >= FiledFrom
  BY <1>1 DEF CorpusInv
<1>5. corpus.pc = "listing" =>
        \A i \in corpus.there : \/ i \in corpus.keys \/ ~ (documents'[i].filed >= FiledFrom)
                                \/ KeyBefore(corpus.from, MirrorKey(i)')
  BY <1>1, <1>2, <1>3 DEF CorpusInv
<1>6. corpus.pc = "loaded" =>
        \A i \in corpus.there : i \in corpus.keys \/ ~ (documents'[i].filed >= FiledFrom)
  BY <1>1, <1>3 DEF CorpusInv
<1>7. DOMAIN corpus = DOMAIN IdleCorpus /\ corpus.pc \in {"idle", "listing", "loaded"}
  BY DEF CorpusInv
<1>8. \A i \in corpus.there : i \in mirror'
  BY <1>1, <1>3
<1> QED  BY <1>4, <1>5, <1>6, <1>7, <1>8 DEF CorpusInv

\* A job's step that leaves the rows alone.
JobMoves(j, pc, id) ==
    /\ documents' = documents /\ corpus' = corpus
    /\ DOMAIN ingest' = Ingests /\ DOMAIN ingest'[j] = {"pc", "id"}
    /\ ingest'[j].pc = pc /\ ingest'[j].id = id
    /\ \A k \in Ingests : k # j => ingest'[k] = ingest[k]

\* A job moves, and the others stand.
LEMMA JobTypeStands ==
  ASSUME JobsType, NEW j \in Ingests, NEW pc, NEW id, JobMoves(j, pc, id),
         DOMAIN looked' = Ingests
  PROVE  JobsType'
BY DEF JobsType, JobMoves

\* The steps of an ingestion.
LEMMA BeginsJob ==
  ASSUME RagInv, NEW j \in Ingests, BeginIngest(j)
  PROVE  RagInv'
<1>1. /\ ingest' = [ingest EXCEPT ![j] = [IdleIngest EXCEPT !.pc = "check"]]
      /\ UNCHANGED <<documents, mirror, gaps, looked, corpus>>
      /\ ingest[j].pc # "mirror"
  BY DEF BeginIngest, reading
<1>2. DOMAIN ingest = Ingests
  BY DEF RagInv, JobsType
<1>3. JobMoves(j, "check", 0)
  BY <1>1, <1>2 DEF JobMoves, IdleIngest
<1>4. JobsType'
  BY <1>1, <1>3, JobTypeStands DEF RagInv, JobsType
<1>5. AskedInv'
  BY <1>1, <1>3 DEF RagInv, AskedInv, JobMoves
<1>6. MirrorInv'
  BY <1>1, <1>3 DEF RagInv, MirrorInv, JobMoves
<1>7. RowsType' /\ OncePerDocument'
  BY <1>1 DEF RagInv, RowsType, OncePerDocument
<1>8. CorpusInv'
  BY <1>1, CorpusStands DEF RagInv
<1> QED  BY <1>4, <1>5, <1>6, <1>7, <1>8 DEF RagInv

LEMMA ChecksForDuplicates ==
  ASSUME RagInv, NEW j \in Ingests, NEW ok \in BOOLEAN, CheckDuplicate(j, ok)
  PROVE  RagInv'
<1> DEFINE there == \E i \in DOMAIN documents : DocumentExists(documents[i], ArticleOf[j])
           pc == CASE ~ok -> "raised" [] OTHER -> IF there THEN "skipped" ELSE "insert"
<1>1. /\ ingest' = [ingest EXCEPT ![j].pc = pc]
      /\ looked' = [looked EXCEPT ![j] = DOMAIN documents]
      /\ UNCHANGED <<documents, mirror, gaps, corpus>>
      /\ ingest[j].pc = "check"
  BY DEF CheckDuplicate, IngestAt, reading
<1>2. DOMAIN ingest = Ingests /\ DOMAIN looked = Ingests /\ DOMAIN ingest[j] = {"pc", "id"}
  BY DEF RagInv, JobsType
<1>3. /\ pc \in {"raised", "skipped", "insert"} /\ (pc = "skipped" => there)
      /\ (pc = "insert" => ~ there)
  OBVIOUS
<1> HIDE DEF pc
<1>4. JobMoves(j, pc, ingest[j].id)
  BY <1>1, <1>2 DEF JobMoves
<1>5. JobsType'
  BY <1>1, <1>2, <1>4, JobTypeStands DEF RagInv
<1>6. AskedInv'
  <2>1. \A k \in Ingests : k # j => ingest'[k] = ingest[k] /\ looked'[k] = looked[k]
    BY <1>1, <1>2
  <2>2. looked'[j] = DOMAIN documents /\ ingest'[j].pc = pc
    BY <1>1, <1>2
  <2> QED  BY <1>1, <1>3, <2>1, <2>2 DEF RagInv, AskedInv
<1>7. MirrorInv'
  BY <1>1, <1>3, <1>4 DEF RagInv, MirrorInv, JobMoves
<1>8. RowsType' /\ OncePerDocument'
  BY <1>1 DEF RagInv, RowsType, OncePerDocument
<1>9. CorpusInv'
  BY <1>1, CorpusStands DEF RagInv
<1> QED  BY <1>5, <1>6, <1>7, <1>8, <1>9 DEF RagInv

LEMMA MirrorsDocument ==
  ASSUME RagInv, NEW j \in Ingests, NEW o, MirrorDocument(j, o)
  PROVE  RagInv'
<1> DEFINE id == ingest[j].id
           empty == documents[id].chunks = 0
<1>1. /\ ingest' = [ingest EXCEPT ![j].pc = "returned"]
      /\ mirror' = IF empty \/ o = "refused" THEN mirror ELSE mirror \cup {id}
      /\ gaps' = IF o = "ok" THEN gaps ELSE gaps \cup {id}
      /\ empty => o = "ok"
      /\ UNCHANGED <<documents, looked, corpus>>
      /\ ingest[j].pc = "mirror"
  BY DEF MirrorDocument, IngestAt, reading
<1>2. DOMAIN ingest = Ingests /\ DOMAIN ingest[j] = {"pc", "id"} /\ DOMAIN looked = Ingests
  BY DEF RagInv, JobsType
<1>3. JobMoves(j, "returned", id)
  BY <1>1, <1>2 DEF JobMoves
<1>4. JobsType'
  BY <1>1, <1>2, <1>3, JobTypeStands DEF RagInv
<1>5. AskedInv'
  BY <1>1, <1>3 DEF RagInv, AskedInv, JobMoves
<1>6. MirrorInv'
  <2>1. id \in DOMAIN documents /\ \A i \in mirror : i \in DOMAIN documents
    BY <1>1 DEF RagInv, MirrorInv
  <2>2. \A i \in mirror' : i \in DOMAIN documents
    BY <1>1, <2>1
  <2>3. \A k \in Ingests : ingest'[k].pc = "mirror" => ingest'[k].id \in DOMAIN documents
    BY <1>3 DEF RagInv, MirrorInv, JobMoves
  <2>4. ASSUME NEW i \in DOMAIN documents, i \notin mirror'
        PROVE  \/ documents[i].chunks = 0 \/ ~ArticleOf[documents[i].by].mirrors \/ i \in gaps'
               \/ \E k \in Ingests : ingest'[k].pc = "mirror" /\ ingest'[k].id = i
    <3>1. i \notin mirror
      BY <1>1, <2>4
    <3>2. CASE i = id
      <4>1. empty \/ o = "refused"
        BY <1>1, <2>4, <3>2
      <4> QED  BY <1>1, <3>2, <4>1
    <3>3. CASE i # id
      <4>1. i \in gaps => i \in gaps'
        BY <1>1
      <4>2. \A k \in Ingests : ingest[k].id = i => ingest'[k] = ingest[k]
        BY <1>3, <3>3 DEF JobMoves
      <4> QED  BY <3>1, <4>1, <4>2 DEF RagInv, MirrorInv
    <3> QED  BY <3>2, <3>3
  <2> QED  BY <1>1, <2>2, <2>3, <2>4 DEF MirrorInv
<1>7. RowsType' /\ OncePerDocument'
  BY <1>1 DEF RagInv, RowsType, OncePerDocument
<1>8. CorpusInv'
  BY <1>1, CorpusStands DEF RagInv
<1> QED  BY <1>4, <1>5, <1>6, <1>7, <1>8 DEF RagInv

LEMMA KillsJob ==
  ASSUME RagInv, NEW j \in Ingests, KillIngest(j)
  PROVE  RagInv'
<1>1. /\ ingest' = [ingest EXCEPT ![j] = [IdleIngest EXCEPT !.pc = "killed"]]
      /\ gaps' = IF ingest[j].pc = "mirror" THEN gaps \cup {ingest[j].id} ELSE gaps
      /\ UNCHANGED <<documents, mirror, looked, corpus>>
  BY DEF KillIngest, reading
<1>2. DOMAIN ingest = Ingests /\ DOMAIN looked = Ingests
  BY DEF RagInv, JobsType
<1>3. JobMoves(j, "killed", 0)
  BY <1>1, <1>2 DEF JobMoves, IdleIngest
<1>4. JobsType'
  BY <1>1, <1>2, <1>3, JobTypeStands DEF RagInv
<1>5. AskedInv'
  BY <1>1, <1>3 DEF RagInv, AskedInv, JobMoves
<1>6. MirrorInv'
  BY <1>1, <1>3 DEF RagInv, MirrorInv, JobMoves
<1>7. RowsType' /\ OncePerDocument'
  BY <1>1 DEF RagInv, RowsType, OncePerDocument
<1>8. CorpusInv'
  BY <1>1, CorpusStands DEF RagInv
<1> QED  BY <1>4, <1>5, <1>6, <1>7, <1>8 DEF RagInv

\* A row that no index refuses is of a new document, or of news without an identity that
\* nobody could have seen.
LEMMA NewRowIsNews ==
  ASSUME RagInv, NEW j \in Ingests, ingest[j].pc = "insert",
         \A i \in DOMAIN documents : ~ Conflicts(documents[i], ArticleOf[j]),
         NEW i \in DOMAIN documents, documents[i].slot = ArticleOf[j].slot,
         ArticleOf[j].news => documents[i].ext = ArticleOf[j].ext
  PROVE  ArticleOf[j].news /\ ArticleOf[j].ext = "none" /\ i \notin looked[j]
<1>1. documents[i].by \in Ingests /\ documents[i].slot = ArticleOf[documents[i].by].slot
      /\ documents[i].news = ArticleOf[documents[i].by].news
  BY DEF RagInv, RowsType
<1>2. documents[i].news = ArticleOf[j].news
  BY <1>1, RagConstants
<1>3. ArticleOf[j].news /\ ArticleOf[j].ext = "none"
  BY <1>2 DEF Conflicts
<1>4. DocumentExists(documents[i], ArticleOf[j])
  BY <1>3 DEF DocumentExists
<1> QED  BY <1>3, <1>4 DEF RagInv, AskedInv

LEMMA InsertsDocument ==
  ASSUME RagInv, NEW j \in Ingests, NEW o, InsertDocument(j, o)
  PROVE  RagInv'
<1> DEFINE a == ArticleOf[j]
           conflict == \E i \in DOMAIN documents : Conflicts(documents[i], a)
           id == Len(documents) + 1
<1>0. /\ DOMAIN ingest = Ingests /\ DOMAIN ingest[j] = {"pc", "id"} /\ DOMAIN looked = Ingests
      /\ ingest[j].pc = "insert"
      /\ UNCHANGED <<mirror, looked, corpus>>
  BY DEF RagInv, JobsType, InsertDocument, reading
<1>1. CASE conflict \/ o = "refused"
  <2>1. /\ ingest' = [ingest EXCEPT ![j].pc = "raised"]
        /\ UNCHANGED <<documents, gaps>>
    BY <1>1 DEF InsertDocument, IngestAt
  <2>2. JobMoves(j, "raised", ingest[j].id)
    BY <1>0, <2>1 DEF JobMoves
  <2>3. JobsType'
    BY <1>0, <2>2, JobTypeStands DEF RagInv
  <2>4. AskedInv'
    BY <1>0, <2>1, <2>2 DEF RagInv, AskedInv, JobMoves
  <2>5. MirrorInv'
    BY <1>0, <2>1, <2>2 DEF RagInv, MirrorInv, JobMoves
  <2>6. RowsType' /\ OncePerDocument'
    BY <2>1 DEF RagInv, RowsType, OncePerDocument
  <2>7. CorpusInv'
    BY <1>0, <2>1, CorpusStands DEF RagInv
  <2> QED  BY <2>3, <2>4, <2>5, <2>6, <2>7 DEF RagInv
<1>2. CASE ~ (conflict \/ o = "refused")
  <2> DEFINE row == [slot |-> a.slot, news |-> a.news, ext |-> a.ext, chunks |-> a.chunks,
                     filed |-> a.filed, text |-> a.text, by |-> j, saw |-> looked[j]]
             pc == CASE o = "lost" -> "raised"
                     [] OTHER -> IF a.mirrors THEN "mirror" ELSE "returned"
  <2>1. /\ documents' = Append(documents, row)
        /\ gaps' = IF o = "lost" THEN gaps \cup {id} ELSE gaps
        /\ ingest' = [ingest EXCEPT ![j] = [pc |-> pc, id |-> IF o = "lost" THEN 0 ELSE id]]
    BY <1>2 DEF InsertDocument
  <2>2. PICK r : r = row
    OBVIOUS
  <2>3. /\ r.slot = a.slot /\ r.news = a.news /\ r.ext = a.ext /\ r.chunks = a.chunks
        /\ r.filed = a.filed /\ r.text = a.text /\ r.by = j /\ r.saw = looked[j]
    BY <2>2
  <2>4. Longer(documents, r, documents')
    <3>1. IsList(documents)
      BY DEF RagInv, RowsType
    <3>2. documents' = Append(documents, r)
      BY <2>1, <2>2
    <3> QED  BY <3>1, <3>2, ListGrows, Zenon
  <2>5. /\ IsList(documents') /\ Len(documents) \in Nat
        /\ DOMAIN documents = 1 .. Len(documents) /\ DOMAIN documents' = 1 .. Len(documents) + 1
        /\ documents'[id] = r
        /\ \A i \in DOMAIN documents : documents'[i] = documents[i]
    <3>1. IsList(documents)
      BY DEF RagInv, RowsType
    <3> QED  BY <2>4, <3>1 DEF Longer, IsList
  <2>6. \A i : i \in DOMAIN documents' <=> i \in DOMAIN documents \/ i = id
    BY <2>5
  <2>7. id \notin DOMAIN documents /\ \A i \in DOMAIN documents : i < id /\ ~ (id < i)
    BY <2>5
  <2>8. /\ ingest'[j].pc = pc /\ (o # "lost" => ingest'[j].id = id)
        /\ DOMAIN ingest'[j] = {"pc", "id"} /\ DOMAIN ingest' = Ingests
        /\ \A k \in Ingests : k # j => ingest'[k] = ingest[k]
    BY <1>0, <2>1
  <2>9. /\ pc \in {"raised", "mirror", "returned"} /\ (pc = "mirror" => o # "lost")
        /\ (o # "lost" /\ a.mirrors => pc = "mirror")
    OBVIOUS
  <2> HIDE DEF row, pc
  <2>10. RowsType'
    BY <2>3, <2>5, <2>6 DEF RagInv, RowsType
  <2>11. JobsType'
    BY <1>0, <2>8 DEF RagInv, JobsType
  <2>12. AskedInv'
    <3>1. ASSUME NEW k \in Ingests
          PROVE  \A i \in looked'[k] : i \in DOMAIN documents /\ i \in DOMAIN documents'
                                       /\ documents'[i] = documents[i]
      BY <1>0, <2>5, <2>6 DEF RagInv, AskedInv
    <3>2. ASSUME NEW k \in Ingests, ingest'[k].pc = "insert"
          PROVE  \A i \in looked'[k] : ~ DocumentExists(documents'[i], ArticleOf[k])
      <4>1. k # j
        BY <2>8, <2>9, <3>2
      <4> QED  BY <1>0, <2>8, <3>1, <3>2, <4>1 DEF RagInv, AskedInv
    <3>3. ASSUME NEW k \in Ingests, ingest'[k].pc = "skipped"
          PROVE  \E i \in DOMAIN documents' : DocumentExists(documents'[i], ArticleOf[k])
      <4>1. k # j
        BY <2>8, <2>9, <3>3
      <4>2. PICK i \in DOMAIN documents : DocumentExists(documents[i], ArticleOf[k])
        BY <2>8, <3>3, <4>1 DEF RagInv, AskedInv
      <4> QED  BY <2>5, <2>6, <4>2
    <3> QED  BY <3>1, <3>2, <3>3 DEF AskedInv
  <2>13. OncePerDocument'
    <3> SUFFICES ASSUME NEW m \in DOMAIN documents', NEW n \in DOMAIN documents', m < n,
                        SameDocument(documents'[m], documents'[n])
                 PROVE  /\ documents'[n].news /\ documents'[n].ext = "none"
                        /\ m \notin documents'[n].saw
      BY DEF OncePerDocument
    <3>1. m \in DOMAIN documents
      <4>1. m # id
        <5> SUFFICES ASSUME m = id PROVE FALSE
          OBVIOUS
        <5>1. n = id \/ n \in DOMAIN documents
          BY <2>6
        <5> QED  BY <2>5, <2>7, <5>1
      <4> QED  BY <2>6, <4>1
    <3>2. CASE n \in DOMAIN documents
      BY <2>5, <3>1, <3>2 DEF RagInv, OncePerDocument
    <3>3. CASE n = id
      <4>1. documents'[n] = r /\ documents'[m] = documents[m]
        BY <2>5, <3>1, <3>3
      <4>2. documents[m].slot = a.slot /\ (documents[m].news => documents[m].ext = a.ext)
        BY <2>3, <4>1 DEF SameDocument
      <4>3. documents[m].news = a.news
        <5>1. documents[m].by \in Ingests /\ documents[m].slot = ArticleOf[documents[m].by].slot
              /\ documents[m].news = ArticleOf[documents[m].by].news
          BY <3>1 DEF RagInv, RowsType
        <5> QED  BY <4>2, <5>1, RagConstants
      <4>4. a.news /\ a.ext = "none" /\ m \notin looked[j]
        BY <1>0, <1>2, <3>1, <4>2, <4>3, NewRowIsNews
      <4> QED  BY <2>3, <4>1, <4>4
    <3> QED  BY <2>6, <3>2, <3>3
  <2>14. MirrorInv'
    <3>1. \A i \in mirror' : i \in DOMAIN documents'
      BY <1>0, <2>6 DEF RagInv, MirrorInv
    <3>2. \A k \in Ingests : ingest'[k].pc = "mirror" => ingest'[k].id \in DOMAIN documents'
      BY <2>6, <2>8, <2>9 DEF RagInv, MirrorInv
    <3>3. ASSUME NEW i \in DOMAIN documents', i \notin mirror'
          PROVE  \/ documents'[i].chunks = 0 \/ ~ArticleOf[documents'[i].by].mirrors
                 \/ i \in gaps'
                 \/ \E k \in Ingests : ingest'[k].pc = "mirror" /\ ingest'[k].id = i
      <4>1. CASE i = id
        BY <2>1, <2>3, <2>5, <2>8, <2>9, <4>1
      <4>2. CASE i \in DOMAIN documents
        <5>1. \/ documents[i].chunks = 0 \/ ~ArticleOf[documents[i].by].mirrors \/ i \in gaps
              \/ \E k \in Ingests : ingest[k].pc = "mirror" /\ ingest[k].id = i
          BY <1>0, <3>3, <4>2 DEF RagInv, MirrorInv
        <5>2. \A k \in Ingests : ingest[k].pc = "mirror" => ingest'[k] = ingest[k]
          BY <1>0, <2>8
        <5>3. i \in gaps => i \in gaps'
          BY <2>1
        <5> QED  BY <2>5, <4>2, <5>1, <5>2, <5>3
      <4> QED  BY <2>6, <4>1, <4>2
    <3> QED  BY <3>1, <3>2, <3>3 DEF MirrorInv
  <2>15. CorpusInv'
    BY <1>0, <2>5, CorpusStands DEF RagInv
  <2> QED  BY <2>10, <2>11, <2>12, <2>13, <2>14, <2>15 DEF RagInv
<1> QED  BY <1>1, <1>2

\* A page adds what comes next, and nothing that it passes over.
LEMMA ListsPage ==
  ASSUME RagInv, ListPage
  PROVE  CorpusInv'
<1> DEFINE page == NextPage
           last == CHOOSE i \in page : \A k \in page : ~KeyBefore(MirrorKey(i), MirrorKey(k))
           truncated == page # {} /\ \E i \in mirror : KeyBefore(MirrorKey(last), MirrorKey(i))
<1>1. /\ corpus.pc = "listing" /\ UNCHANGED <<documents, mirror>>
      /\ corpus' = [corpus EXCEPT
             !.keys = @ \cup {i \in page : documents[i].filed >= FiledFrom},
             !.from = IF truncated THEN MirrorKey(last) ELSE @,
             !.pc = IF truncated THEN "listing" ELSE "loaded"]
  BY DEF ListPage, ingesting
<1>2. RowsType /\ MirrorInv /\ CorpusInv
  BY DEF RagInv
<1>3. \A i \in page : i \in mirror
  BY <1>2, PageIsNext
<1>4. page # {} => last \in page
  BY <1>2, PageIsNext DEF Before
<1>5. \A i \in mirror : KeyBefore(corpus.from, MirrorKey(i)) =>
         i \in page \/ (page # {} /\ KeyBefore(MirrorKey(last), MirrorKey(i)))
  BY <1>2, <1>4, PageIsNext DEF Before
<1> HIDE DEF page, last
<1>6. DOMAIN corpus = {"pc", "keys", "from", "there"}
  BY <1>2 DEF CorpusInv, IdleCorpus
<1>7. /\ corpus'.keys = corpus.keys \cup {i \in page : documents[i].filed >= FiledFrom}
      /\ corpus'.from = IF truncated THEN MirrorKey(last) ELSE corpus.from
      /\ corpus'.pc = IF truncated THEN "listing" ELSE "loaded"
      /\ corpus'.there = corpus.there /\ DOMAIN corpus' = DOMAIN IdleCorpus
  BY <1>1, <1>6 DEF IdleCorpus
<1>8. /\ \A i \in corpus'.there : i \in mirror'
      /\ \A i \in corpus'.keys : i \in mirror' /\ documents'[i].filed >= FiledFrom
  BY <1>1, <1>2, <1>3, <1>7 DEF CorpusInv
<1>9. ASSUME NEW i \in corpus.there
      PROVE  \/ i \in corpus'.keys \/ ~ (documents[i].filed >= FiledFrom)
             \/ truncated /\ KeyBefore(MirrorKey(last), MirrorKey(i))
  <2>1. i \in mirror
    BY <1>2 DEF CorpusInv
  <2>3. \/ i \in corpus.keys \/ ~ (documents[i].filed >= FiledFrom)
        \/ KeyBefore(corpus.from, MirrorKey(i))
    BY <1>1, <1>2 DEF CorpusInv
  <2>4. CASE i \in page
    BY <1>7, <2>4
  <2>5. CASE KeyBefore(corpus.from, MirrorKey(i)) /\ i \notin page
    BY <1>5, <2>1, <2>5
  <2> QED  BY <1>7, <2>3, <2>4, <2>5
<1>10. \A i : MirrorKey(i)' = MirrorKey(i)
  BY <1>1 DEF MirrorKey
<1>11. CASE truncated
  BY <1>1, <1>7, <1>8, <1>9, <1>10, <1>11 DEF CorpusInv
<1>12. CASE ~ truncated
  BY <1>1, <1>7, <1>8, <1>9, <1>12 DEF CorpusInv
<1> QED  BY <1>11, <1>12

\* Every step.
LEMMA RagSteps == RagInv /\ [RagNext]_ragVars => RagInv'
<1> SUFFICES ASSUME RagInv, [RagNext]_ragVars PROVE RagInv'
  OBVIOUS
<1>1. ASSUME UNCHANGED <<documents, mirror, ingest, gaps, looked>>, CorpusInv'
      PROVE  RagInv'
  BY <1>1 DEF RagInv, RowsType, JobsType, AskedInv, OncePerDocument, MirrorInv
<1>2. ASSUME UNCHANGED <<documents, mirror, ingest, gaps, looked>>, UNCHANGED corpus
      PROVE  RagInv'
  BY <1>1, <1>2, CorpusStands DEF RagInv
<1>3. CASE BeginListing
  <2>1. /\ corpus' = [IdleCorpus EXCEPT !.pc = "listing", !.there = mirror]
        /\ UNCHANGED <<documents, mirror, ingest, gaps, looked>>
    BY <1>3 DEF BeginListing, ingesting
  <2>2. /\ corpus'.pc = "listing" /\ corpus'.there = mirror /\ corpus'.keys = {}
        /\ corpus'.from = <<0, 0>> /\ DOMAIN corpus' = DOMAIN IdleCorpus
    BY <2>1 DEF IdleCorpus
  <2>3. \A i \in mirror : KeyBefore(<<0, 0>>, MirrorKey(i))
    <3>1. \A i \in mirror : documents[i].filed \in Nat /\ i \in Nat /\ i >= 1
      BY KeyNumbers DEF RagInv, MirrorInv
    <3> QED  BY <3>1 DEF KeyBefore, MirrorKey
  <2>4. \A i : MirrorKey(i)' = MirrorKey(i)
    BY <2>1 DEF MirrorKey
  <2>5. CorpusInv'
    BY <2>1, <2>2, <2>3, <2>4 DEF CorpusInv
  <2> QED  BY <1>1, <2>1, <2>5
<1>4. CASE ListPage
  <2>1. UNCHANGED <<documents, mirror, ingest, gaps, looked>>
    BY <1>4 DEF ListPage, ingesting
  <2> QED  BY <1>1, <1>4, <2>1, ListsPage
<1>5. CASE \/ \E query \in Queries, method \in Methods, rerank \in BOOLEAN :
                 BeginSearch(query, method, rerank)
           \/ VectorSearch \/ KeywordSearch \/ Retrieve
  BY <1>2, <1>5 DEF BeginSearch, VectorSearch, KeywordSearch, Retrieve, ingesting
<1>6. CASE UNCHANGED ragVars
  BY <1>2, <1>6 DEF ragVars
<1>7. ASSUME NEW j \in Ingests, BeginIngest(j) PROVE RagInv'
  BY <1>7, BeginsJob
<1>8. ASSUME NEW j \in Ingests, KillIngest(j) PROVE RagInv'
  BY <1>8, KillsJob
<1>9. ASSUME NEW j \in Ingests, NEW ok \in BOOLEAN, CheckDuplicate(j, ok) PROVE RagInv'
  BY <1>9, ChecksForDuplicates
<1>10. ASSUME NEW j \in Ingests, NEW o \in {"ok", "refused", "lost"}, InsertDocument(j, o)
       PROVE  RagInv'
  BY <1>10, InsertsDocument
<1>11. ASSUME NEW j \in Ingests, NEW o \in {"ok", "refused", "lost"}, MirrorDocument(j, o)
       PROVE  RagInv'
  BY <1>11, MirrorsDocument
<1> QED
  BY <1>3, <1>4, <1>5, <1>6, <1>7, <1>8, <1>9, <1>10, <1>11 DEF RagNext

\* The corpus is consistent whatever is retried, killed or told to have failed after its
\* commit: a document has one row, unless it is news without an identity, the mirror lacks
\* only what is explained, and a paged listing misses nothing that was there when it began
\* (rag/retrieval.py:ingest_document, rag/parquet_mirror.py, rag/local_ann.py).
THEOREM CorpusStaysConsistent == RagSpec => []CorpusIsConsistent
<1>1. RagInv => CorpusIsConsistent
  <2> SUFFICES ASSUME RagInv PROVE CorpusIsConsistent
    OBVIOUS
  <2>1. RowsType /\ AskedInv /\ OncePerDocument /\ MirrorInv /\ CorpusInv
    BY DEF RagInv
  <2>2. OneRowPerDocument
    <3>1. ASSUME NEW j \in Ingests, ingest[j].pc = "skipped", ArticleOf[j].ext # "none"
          PROVE  \E i \in DOMAIN documents : SameDocument(documents[i], ArticleOf[j])
      BY <2>1, <3>1 DEF AskedInv, DocumentExists, SameDocument
    <3> QED  BY <2>1, <3>1 DEF OneRowPerDocument, OncePerDocument
  <2>3. MirrorGapIsExplained
    <3>1. mirror \subseteq DOMAIN documents
      BY <2>1 DEF MirrorInv
    <3>2. \A i \in DOMAIN documents \ mirror :
            \/ documents[i].chunks = 0 \/ ~ArticleOf[documents[i].by].mirrors \/ i \in gaps
            \/ \E j \in Ingests : ingest[j].pc = "mirror" /\ ingest[j].id = i
      BY <2>1 DEF MirrorInv
    <3>3. ASSUME corpus.pc = "loaded"
          PROVE  /\ {i \in corpus.there : documents[i].filed >= FiledFrom} \subseteq corpus.keys
                 /\ corpus.keys \subseteq {i \in mirror : documents[i].filed >= FiledFrom}
      <4>1. \A i \in corpus.keys : i \in mirror /\ documents[i].filed >= FiledFrom
        BY <2>1 DEF CorpusInv
      <4>2. ASSUME NEW i \in corpus.there, documents[i].filed >= FiledFrom
            PROVE  i \in corpus.keys
        BY <2>1, <3>3, <4>2 DEF CorpusInv
      <4> QED  BY <4>1, <4>2
    <3> QED  BY <3>1, <3>2, <3>3 DEF MirrorGapIsExplained
  <2> QED  BY <2>2, <2>3 DEF CorpusIsConsistent
<1> QED  BY <1>1, RagStarts, RagSteps, PTL DEF RagSpec

-----------------------------------------------------------------------------
(* Search: lists in the order of their scores.                              *)

\* r has the elements of a list, each from one place of it, the ones ahead first.
Sorts(list, score, r, p) ==
    /\ IsList(r) /\ Len(r) = Len(list)
    /\ p \in [1 .. Len(list) -> 1 .. Len(list)]
    /\ \A n \in 1 .. Len(list) : r[n] = list[p[n]]
    /\ \A i \in 1 .. Len(list) : \E n \in 1 .. Len(list) : p[n] = i
    /\ \A m, n \in 1 .. Len(list) : m < n => Ahead(list, score, p[m], p[n])

LEMMA AheadIsStrict ==
  ASSUME NEW list, IsList(list), NEW score, \A i \in DOMAIN list : score[list[i]] \in Int
  PROVE  /\ \A i \in 1 .. Len(list) : ~Ahead(list, score, i, i)
         /\ \A i, j \in 1 .. Len(list) : i # j => Ahead(list, score, i, j) \/ Ahead(list, score, j, i)
         /\ \A i, j, k \in 1 .. Len(list) :
               Ahead(list, score, i, j) /\ Ahead(list, score, j, k) => Ahead(list, score, i, k)
<1>1. Len(list) \in Nat /\ DOMAIN list = 1 .. Len(list)
  BY DEF IsList
<1>2. \A i \in 1 .. Len(list) : score[list[i]] \in Int /\ i \in Int
  BY <1>1
<1>3. \A i \in 1 .. Len(list) : ~Ahead(list, score, i, i)
  BY <1>2 DEF Ahead
<1>4. \A i, j \in 1 .. Len(list) : i # j => Ahead(list, score, i, j) \/ Ahead(list, score, j, i)
  BY <1>2 DEF Ahead
<1>5. ASSUME NEW i \in 1 .. Len(list), NEW j \in 1 .. Len(list), NEW k \in 1 .. Len(list),
             Ahead(list, score, i, j), Ahead(list, score, j, k)
      PROVE  Ahead(list, score, i, k)
  <2>1. /\ score[list[i]] \in Int /\ score[list[j]] \in Int /\ score[list[k]] \in Int
        /\ i \in Int /\ j \in Int /\ k \in Int
    BY <1>2
  <2> QED  BY <1>5, <2>1 DEF Ahead
<1> QED  BY <1>3, <1>4, <1>5

\* What Ranked makes of a list.
LEMMA RankedSorts ==
  ASSUME NEW list, IsList(list), NEW score, \A i \in DOMAIN list : score[list[i]] \in Int
  PROVE  \E p : Sorts(list, score, Ranked(list, score), p)
<1> DEFINE above(i) == {j \in DOMAIN list : Ahead(list, score, j, i)}
           f == [i \in 1 .. Len(list) |-> Cardinality(above(i)) + 1]
           p == [n \in 1 .. Len(list) |-> CHOOSE i \in DOMAIN list : Cardinality(above(i)) = n - 1]
<1>1. Len(list) \in Nat /\ DOMAIN list = 1 .. Len(list)
  BY DEF IsList
<1>2. PICK c \in Nat : c = Len(list)
  BY <1>1
<1>3. /\ \A i \in 1 .. c : ~Ahead(list, score, i, i)
      /\ \A i, j \in 1 .. c : i # j => Ahead(list, score, i, j) \/ Ahead(list, score, j, i)
      /\ \A i, j, k \in 1 .. c :
            Ahead(list, score, i, j) /\ Ahead(list, score, j, k) => Ahead(list, score, i, k)
  BY <1>2, AheadIsStrict
<1>4. IsFiniteSet(1 .. c) /\ Cardinality(1 .. c) = c
  BY FS_Interval
<1>5. \A i \in 1 .. c : IsFiniteSet(above(i)) /\ Cardinality(above(i)) \in 0 .. c - 1
  <2> SUFFICES ASSUME NEW i \in 1 .. c PROVE IsFiniteSet(above(i)) /\ Cardinality(above(i)) \in 0 .. c - 1
    OBVIOUS
  <2>1. above(i) \in SUBSET (1 .. c) /\ i \notin above(i)
    BY <1>1, <1>2, <1>3
  <2> HIDE DEF above
  <2>2. /\ IsFiniteSet(above(i)) /\ Cardinality(above(i)) <= c
        /\ Cardinality(above(i)) = c => above(i) = 1 .. c
    BY <1>4, <2>1, FS_Subset
  <2>3. Cardinality(above(i)) \in Nat
    BY <2>2, FS_CardinalityType
  <2> QED  BY <2>1, <2>2, <2>3
<1>6. ASSUME NEW i \in 1 .. c, NEW j \in 1 .. c, Ahead(list, score, i, j)
      PROVE  Cardinality(above(i)) < Cardinality(above(j))
  <2>1. above(i) \in SUBSET above(j)
    BY <1>1, <1>2, <1>3, <1>6
  <2>2. i \in above(j) /\ i \notin above(i)
    BY <1>1, <1>2, <1>3, <1>6
  <2> HIDE DEF above
  <2>3. IsFiniteSet(above(j)) /\ Cardinality(above(j)) \in Nat /\ Cardinality(above(i)) \in Nat
    BY <1>5
  <2>4. /\ Cardinality(above(i)) <= Cardinality(above(j))
        /\ Cardinality(above(j)) = Cardinality(above(i)) => above(j) = above(i)
    BY <2>1, <2>3, FS_Subset
  <2> QED  BY <2>2, <2>3, <2>4
<1>7. Ranked(list, score) = [n \in 1 .. c |-> list[p[n]]]
  BY <1>1, <1>2 DEF Ranked
<1>8. f = [i \in 1 .. c |-> Cardinality(above(i)) + 1]
  BY <1>2
<1>9. p = [n \in 1 .. c |-> CHOOSE i \in 1 .. c : Cardinality(above(i)) = n - 1]
  BY <1>1, <1>2
<1> HIDE DEF above, f, p
<1>10. \A i, j \in 1 .. c : i # j => Cardinality(above(i)) # Cardinality(above(j))
  <2> SUFFICES ASSUME NEW i \in 1 .. c, NEW j \in 1 .. c, i # j
               PROVE  Cardinality(above(i)) # Cardinality(above(j))
    OBVIOUS
  <2>1. Cardinality(above(i)) \in Int /\ Cardinality(above(j)) \in Int
    BY <1>5
  <2>2. Cardinality(above(i)) < Cardinality(above(j)) \/ Cardinality(above(j)) < Cardinality(above(i))
    BY <1>3, <1>6
  <2> QED  BY <2>1, <2>2
<1>11. \A n \in 1 .. c : \E i \in 1 .. c : f[i] = n
  <2>1. f \in [1 .. c -> 1 .. c]
    BY <1>5, <1>8
  <2>2. \A i, j \in 1 .. c : i # j => f[i] # f[j]
    <3> SUFFICES ASSUME NEW i \in 1 .. c, NEW j \in 1 .. c, i # j PROVE f[i] # f[j]
      OBVIOUS
    <3>1. Cardinality(above(i)) \in Int /\ Cardinality(above(j)) \in Int
      BY <1>5
    <3> QED  BY <1>8, <1>10, <3>1
  <2> QED  BY <2>1, <2>2, CountsAreOnto
<1>12. \A n \in 1 .. c : p[n] \in 1 .. c /\ Cardinality(above(p[n])) = n - 1
  <2> SUFFICES ASSUME NEW n \in 1 .. c PROVE p[n] \in 1 .. c /\ Cardinality(above(p[n])) = n - 1
    OBVIOUS
  <2>1. \E i \in 1 .. c : Cardinality(above(i)) = n - 1
    <3>1. PICK i \in 1 .. c : Cardinality(above(i)) + 1 = n
      BY <1>8, <1>11
    <3>2. Cardinality(above(i)) \in Int
      BY <1>5
    <3> QED  BY <3>1, <3>2
  <2> QED  BY <1>9, <2>1
<1>13. \A i \in 1 .. c : \E n \in 1 .. c : p[n] = i
  <2> SUFFICES ASSUME NEW i \in 1 .. c PROVE \E n \in 1 .. c : p[n] = i
    OBVIOUS
  <2>1. PICK n \in 1 .. c : n - 1 = Cardinality(above(i))
    <3>1. Cardinality(above(i)) + 1 \in 1 .. c /\ (Cardinality(above(i)) + 1) - 1 = Cardinality(above(i))
      BY <1>5
    <3> QED  BY <3>1
  <2> QED  BY <1>10, <1>12, <2>1
<1>14. ASSUME NEW m \in 1 .. c, NEW n \in 1 .. c, m < n PROVE Ahead(list, score, p[m], p[n])
  <2>1. /\ p[m] \in 1 .. c /\ p[n] \in 1 .. c
        /\ Cardinality(above(p[m])) < Cardinality(above(p[n])) /\ Cardinality(above(p[m])) \in Int
        /\ Cardinality(above(p[n])) \in Int
    BY <1>12, <1>14
  <2>2. ~Ahead(list, score, p[n], p[m])
    <3>1. SUFFICES ASSUME Ahead(list, score, p[n], p[m]) PROVE FALSE
      OBVIOUS
    <3>2. Cardinality(above(p[n])) < Cardinality(above(p[m]))
      BY <1>6, <2>1, <3>1
    <3> QED  BY <2>1, <3>2
  <2>3. p[m] # p[n]
    BY <2>1
  <2> QED  BY <1>3, <2>1, <2>2, <2>3
<1>15. IsList(Ranked(list, score)) /\ Len(Ranked(list, score)) = c
  BY <1>7 DEF IsList
<1>16. p \in [1 .. c -> 1 .. c]
  BY <1>9, <1>12
<1> WITNESS p
<1> QED  BY <1>2, <1>7, <1>12, <1>13, <1>14, <1>15, <1>16 DEF Sorts

LEMMA CutKeeps ==
  ASSUME NEW list, IsList(list), NEW limit \in Nat
  PROVE  /\ IsList(Cut(list, limit)) /\ Len(Cut(list, limit)) \in 0 .. Len(list)
         /\ \A n \in 1 .. Len(Cut(list, limit)) : Cut(list, limit)[n] = list[n]
<1> DEFINE m == Min({limit, Len(list)})
<1>1. Len(list) \in Nat
  BY DEF IsList
<1>2. m \in 0 .. Len(list)
  <2> DEFINE sizes == {limit, Len(list)}
  <2>1. sizes \in SUBSET Nat /\ sizes # {} /\ Len(list) \in sizes /\ m = Min(sizes)
    BY <1>1
  <2> HIDE DEF sizes, m
  <2>2. m \in sizes /\ m <= Len(list)
    BY <2>1, MinIsLeast
  <2> QED  BY <1>1, <2>1, <2>2
<1>3. Cut(list, limit) = SubSeq(list, 1, m)
  BY DEF Cut
<1> HIDE DEF m
<1>4. PICK S : list \in Seq(S)
  BY ListIsSeq
<1>5. SubSeq(list, 1, m) \in Seq(S) /\ Len(SubSeq(list, 1, m)) = m
      /\ \A n \in 1 .. m : SubSeq(list, 1, m)[n] = list[n]
  BY <1>1, <1>2, <1>4, SubSeqProperties, ElementOfSeq
<1> QED  BY <1>2, <1>3, <1>5, SeqIsList

\* In the best of a list there is, before every element, each that is ahead of it.
Leads(list, score, r) ==
    /\ IsList(r)
    /\ \A n \in DOMAIN r : \E i \in DOMAIN list : r[n] = list[i]
    /\ \A m, n \in DOMAIN r : m < n => score[r[m]] >= score[r[n]]
    /\ \A n \in DOMAIN r, x \in DOMAIN list :
          (\A y \in DOMAIN list : list[y] = r[n] => Ahead(list, score, x, y))
             => \E m \in 1 .. n - 1 : r[m] = list[x]

LEMMA AheadIsBefore ==
  ASSUME NEW list, IsList(list), NEW score, \A i \in DOMAIN list : score[list[i]] \in Int,
         NEW limit \in Nat, NEW r, r = Cut(Ranked(list, score), limit)
  PROVE  Leads(list, score, r)
<1> DEFINE s == Ranked(list, score)
<1>1. Len(list) \in Nat /\ DOMAIN list = 1 .. Len(list)
  BY DEF IsList
<1>2. PICK p : Sorts(list, score, s, p)
  BY RankedSorts
<1> HIDE DEF s
<1>3. IsList(s) /\ Len(s) = Len(list)
  BY <1>2 DEF Sorts
<1>4. /\ IsList(r) /\ DOMAIN r = 1 .. Len(r) /\ Len(r) \in 0 .. Len(list)
      /\ \A n \in DOMAIN r : n \in 1 .. Len(list) /\ r[n] = list[p[n]] /\ p[n] \in 1 .. Len(list)
  <2>1. r = Cut(s, limit)
    BY DEF s
  <2>2. IsList(r) /\ Len(r) \in 0 .. Len(list) /\ \A n \in 1 .. Len(r) : r[n] = s[n]
    BY <1>3, <2>1, CutKeeps
  <2>3. DOMAIN r = 1 .. Len(r)
    BY <2>2 DEF IsList
  <2>4. \A n \in 1 .. Len(r) : n \in 1 .. Len(list)
    BY <1>1, <2>2
  <2> QED  BY <1>2, <2>2, <2>3, <2>4 DEF Sorts
<1>5. ASSUME NEW m \in DOMAIN r, NEW n \in DOMAIN r, m < n PROVE score[r[m]] >= score[r[n]]
  <2>1. Ahead(list, score, p[m], p[n])
    BY <1>2, <1>4, <1>5 DEF Sorts
  <2>2. score[list[p[m]]] \in Int /\ score[list[p[n]]] \in Int
    BY <1>1, <1>4
  <2>3. score[list[p[m]]] >= score[list[p[n]]]
    BY <2>1, <2>2 DEF Ahead
  <2>4. r[m] = list[p[m]] /\ r[n] = list[p[n]]
    BY <1>4
  <2> QED  BY <2>3, <2>4
<1>6. ASSUME NEW n \in DOMAIN r, NEW x \in DOMAIN list,
             \A y \in DOMAIN list : list[y] = r[n] => Ahead(list, score, x, y)
      PROVE  \E m \in 1 .. n - 1 : r[m] = list[x]
  <2>1. PICK m \in 1 .. Len(list) : p[m] = x
    BY <1>1, <1>2 DEF Sorts
  <2>2. Ahead(list, score, p[m], p[n])
    BY <1>1, <1>4, <1>6, <2>1
  <2>3. n \in 1 .. Len(list) /\ p[m] \in 1 .. Len(list) /\ p[n] \in 1 .. Len(list)
    BY <1>1, <1>4, <2>1
  <2>4. ~(n < m) /\ n # m
    <3>1. ~Ahead(list, score, p[n], p[m]) /\ p[n] # p[m]
      BY <2>2, <2>3, AheadIsStrict
    <3> QED  BY <1>2, <2>3, <3>1 DEF Sorts
  <2>5. m \in 1 .. n - 1
    BY <2>3, <2>4
  <2>6. m \in DOMAIN r
    BY <1>1, <1>4, <2>5
  <2> QED  BY <1>4, <2>1, <2>5, <2>6
<1>7. \A n \in DOMAIN r : \E i \in DOMAIN list : r[n] = list[i]
  BY <1>1, <1>4
<1> QED  BY <1>4, <1>5, <1>6, <1>7 DEF Leads

\* The unit is a positive number.
LEMMA UnitIsPositive == ASSUME NEW score, Spread(score) \in Nat PROVE Unit(score) \in Nat /\ Unit(score) >= 1
<1> DEFINE S == {1, Spread(score)}
           T == {} \cup {1}
<1>1. IsFiniteSet(T) /\ S = T \cup {Spread(score)}
  BY FS_EmptySet, FS_AddElement
<1>2. IsFiniteSet(S)
  <2> HIDE DEF T, S
  <2>1. IsFiniteSet(T \cup {Spread(score)})
    BY <1>1, FS_AddElement
  <2> QED  BY <1>1, <2>1
<1>3. S \in SUBSET Nat /\ S # {} /\ 1 \in S /\ Unit(score) = Max(S)
  BY DEF Unit
<1> HIDE DEF S
<1> QED  BY <1>2, <1>3, MaxIsGreatest

\* What min-max does to one side's scores: it keeps their order.
LEMMA NormalizedOrders ==
  ASSUME NEW score, IsFiniteSet(DOMAIN score), \A id \in DOMAIN score : score[id] \in Nat
  PROVE  /\ Unit(score) \in Nat /\ Unit(score) >= 1
         /\ \A a : Normalized(score, a) \in Nat
         /\ \A a, b : SideScore(score, a) >= SideScore(score, b)
                         => Normalized(score, a) >= Normalized(score, b)
<1> DEFINE R == Range(score)
           low == Min(R)
           high == Max(R)
<1>1. CASE DOMAIN score = {}
  <2>1. Spread(score) = 0 /\ \A a : Normalized(score, a) = 0 /\ SideScore(score, a) = -1
    BY <1>1 DEF Spread, Normalized, SideScore
  <2>2. Unit(score) \in Nat /\ Unit(score) >= 1
    BY <2>1, UnitIsPositive
  <2> QED  BY <2>1, <2>2
<1>2. CASE DOMAIN score # {}
  <2>1. R \in SUBSET Nat /\ R # {} /\ \A id \in DOMAIN score : score[id] \in R
    BY <1>2 DEF Range
  <2>2. IsFiniteSet(R)
    BY ImageIsFinite DEF Range
  <2>3. Spread(score) = high - low
    BY <1>2 DEF Spread
  <2> HIDE DEF R
  <2>4. /\ low \in Nat /\ high \in Nat /\ low <= high
        /\ \A id \in DOMAIN score : low <= score[id] /\ score[id] <= high
    <3>1. low \in R /\ \A y \in R : low <= y
      BY <2>1, MinIsLeast
    <3>2. high \in R /\ \A y \in R : y <= high
      BY <2>1, <2>2, MaxIsGreatest
    <3> QED  BY <2>1, <3>1, <3>2
  <2>5. \A a : Normalized(score, a) = IF a \notin DOMAIN score THEN 0
                                      ELSE IF Spread(score) = 0 THEN 1 ELSE score[a] - low
    BY DEF Normalized, R
  <2> HIDE DEF low, high
  <2>6. Spread(score) \in Nat
    BY <2>3, <2>4
  <2>7. Unit(score) \in Nat /\ Unit(score) >= 1
    BY <2>6, UnitIsPositive
  <2>8. \A a : Normalized(score, a) \in Nat
    BY <2>4, <2>5
  <2>9. \A a : /\ a \in DOMAIN score => SideScore(score, a) = score[a] /\ score[a] \in Nat
               /\ a \notin DOMAIN score => SideScore(score, a) = -1
    BY DEF SideScore
  <2>10. ASSUME NEW a, NEW b, SideScore(score, a) >= SideScore(score, b)
         PROVE  Normalized(score, a) >= Normalized(score, b)
    <3>1. CASE b \notin DOMAIN score
      <4>1. Normalized(score, b) = 0
        BY <2>5, <3>1
      <4> QED  BY <2>8, <4>1
    <3>2. CASE b \in DOMAIN score
      <4>1. a \in DOMAIN score
        BY <2>9, <2>10, <3>2
      <4>2. score[a] >= score[b]
        BY <2>9, <2>10, <3>2, <4>1
      <4> QED  BY <2>4, <2>5, <2>9, <3>2, <4>1, <4>2
    <3> QED  BY <3>1, <3>2
  <2> QED  BY <2>7, <2>8, <2>10
<1> QED  BY <1>1, <1>2

\* Rounding keeps an order.
LEMMA RoundedGrows ==
  ASSUME NEW a \in Nat, NEW c \in Nat, a >= c, NEW b \in Nat, b >= 1
  PROVE  Rounded(a, b) \in Nat /\ Rounded(c, b) \in Nat /\ Rounded(a, b) >= Rounded(c, b)
<1>1. 2 * a + b \in Nat /\ 2 * c + b \in Nat /\ 2 * b \in Nat /\ 2 * b >= 1 /\ 2 * a + b >= 2 * c + b
  OBVIOUS
<1> QED  BY <1>1, QuotientGrows DEF Rounded

\* So a side's order is kept in what it shows.
LEMMA ShownOrders ==
  ASSUME NEW score, \A id \in DOMAIN score : score[id] \in Nat
  PROVE  /\ DOMAIN Shown(score) = DOMAIN score /\ \A id \in DOMAIN score : Shown(score)[id] \in Nat
         /\ \A a, b : SideScore(score, a) >= SideScore(score, b)
                         => SideScore(Shown(score), a) >= SideScore(Shown(score), b)
<1>1. Finer \in Nat /\ Finer >= 1
  BY RagConstants
<1>2. ASSUME NEW x \in Nat, NEW y \in Nat
      PROVE  Rounded(x, Finer) \in Nat /\ (x >= y => Rounded(x, Finer) >= Rounded(y, Finer))
  <2>1. x >= x
    OBVIOUS
  <2> QED  BY <1>1, <2>1, RoundedGrows
<1>3. /\ DOMAIN Shown(score) = DOMAIN score
      /\ \A id \in DOMAIN score : Shown(score)[id] = Rounded(score[id], Finer) /\ Shown(score)[id] \in Nat
  BY <1>2 DEF Shown
<1> QED  BY <1>2, <1>3 DEF SideScore

\* Each of a list has a greater score than those after it, or the same.
Descends(list, score) ==
    \A i, j \in DOMAIN list : score[list[i]] > score[list[j]] => i < j

\* One side's list: the best of its candidates.
LEMMA BestDescends ==
  ASSUME RowsType, NEW score, \A id \in DOMAIN score : id \in DOMAIN documents /\ score[id] \in Nat
  PROVE  /\ IsList(Best(score)) /\ \A n \in DOMAIN Best(score) : Best(score)[n] \in DOMAIN score
         /\ Descends(Best(score), score)
<1> DEFINE ids == [id \in DOMAIN documents |-> id]
           list == Among(ids, DOMAIN score)
<1>1. IsList(ids) /\ Range(ids) = DOMAIN documents
  BY DEF RowsType, IsList, Range
<1>2. PICK r : r = Best(score)
  OBVIOUS
<1>3. r = Cut(Ranked(list, score), RetrieveK) /\ RetrieveK \in Nat
  BY <1>2, RagConstants DEF Best, RetrieveK
<1> HIDE DEF ids
<1>4. IsList(list) /\ Range(list) \subseteq DOMAIN score
  BY <1>1, ListIsFiltered DEF Filtered
<1> HIDE DEF list
<1>5. \A i \in DOMAIN list : list[i] \in DOMAIN score /\ score[list[i]] \in Int
  BY <1>4 DEF Range
<1>6. /\ IsList(r)
      /\ \A n \in DOMAIN r : \E i \in DOMAIN list : r[n] = list[i]
      /\ \A m, n \in DOMAIN r : m < n => score[r[m]] >= score[r[n]]
  <2>1. Leads(list, score, r)
    BY <1>3, <1>4, <1>5, AheadIsBefore
  <2> QED  BY <2>1 DEF Leads
<1>7. \A n \in DOMAIN r : r[n] \in DOMAIN score
  BY <1>5, <1>6
<1>8. ASSUME NEW i \in DOMAIN r, NEW j \in DOMAIN r, score[r[i]] > score[r[j]] PROVE i < j
  <2>1. i \in Int /\ j \in Int /\ score[r[i]] \in Int /\ score[r[j]] \in Int
    BY <1>6, <1>7 DEF IsList
  <2>2. CASE j < i
    BY <1>6, <1>8, <2>1, <2>2
  <2>3. CASE i = j
    BY <1>8, <2>1, <2>3
  <2> QED  BY <2>1, <2>2, <2>3
<1> QED  BY <1>2, <1>6, <1>7, <1>8 DEF Descends

\* What two sides' lists of committed rows score for a query.
Sided(vector, keyword) ==
    /\ search.query \in Queries
    /\ IsList(vector) /\ IsList(keyword)
    /\ \A n \in DOMAIN vector : vector[n] \in DOMAIN documents
    /\ \A n \in DOMAIN keyword : keyword[n] \in DOMAIN documents
    /\ Descends(vector, Cosine(Range(vector))) /\ Descends(keyword, Rank(Range(keyword)))

LEMMA SideScores ==
  ASSUME RowsType, search.query \in Queries, NEW S, \A id \in S : id \in DOMAIN documents
  PROVE  /\ DOMAIN Cosine(S) = S /\ \A id \in S : Cosine(S)[id] \in Nat
         /\ DOMAIN Rank(S) = S /\ \A id \in S : Rank(S)[id] \in Nat
         /\ \A id \in S : Judged(id) \in Int
<1>1. \A id \in S : documents[id].text = ArticleOf[documents[id].by].text /\ documents[id].by \in Ingests
  BY DEF RowsType
<1>2. \A id \in S : /\ Closeness[search.query][documents[id].text] \in Nat
                    /\ Matches[search.query][documents[id].text] \in Nat
                    /\ Judgement[search.query][documents[id].text] \in Int
  BY <1>1, RagConstants
<1> QED  BY <1>2 DEF Cosine, Rank, Judged

\* The blended score follows the sides' scores, through the rounding of each and of itself.
LEMMA BlendedFollows ==
  ASSUME RowsType, NEW vector, NEW keyword, Sided(vector, keyword)
  PROVE  LET v(id) == SideScore(Cosine(Range(vector)), id)
             k(id) == SideScore(Rank(Range(keyword)), id)
         IN  /\ \A a : Blended(vector, keyword, a) \in Nat
             /\ \A a, b : v(a) >= v(b) /\ k(a) >= k(b) =>
                   Blended(vector, keyword, a) >= Blended(vector, keyword, b)
<1> DEFINE cs == Cosine(Range(vector))
           rs == Rank(Range(keyword))
           vs == Shown(cs)
           ks == Shown(rs)
           w == VectorWeight
           rest == WeightScale - VectorWeight
           nv(a) == Normalized(vs, a)
           nk(a) == Normalized(ks, a)
           v(a) == SideScore(cs, a)
           k(a) == SideScore(rs, a)
           sum(a) == w * nv(a) * Unit(ks) + rest * nk(a) * Unit(vs)
           whole == WeightScale * Unit(vs) * Unit(ks)
<1>1. /\ DOMAIN cs = Range(vector) /\ \A id \in DOMAIN cs : cs[id] \in Nat
      /\ DOMAIN rs = Range(keyword) /\ \A id \in DOMAIN rs : rs[id] \in Nat
  <2>1. search.query \in Queries
        /\ (\A id \in Range(vector) : id \in DOMAIN documents)
        /\ (\A id \in Range(keyword) : id \in DOMAIN documents)
    BY DEF Sided, Range
  <2> QED  BY <2>1, SideScores
<1>2. IsFiniteSet(Range(vector)) /\ IsFiniteSet(Range(keyword))
  BY ListIsFinite DEF Sided
<1>3. \A a : Blended(vector, keyword, a) = Rounded(Decimals * sum(a), whole)
  BY DEF Blended
<1>4. w \in Nat /\ rest \in Nat /\ WeightScale \in Nat /\ WeightScale >= 1 /\ Decimals \in Nat
  BY RagConstants
<1> HIDE DEF cs, rs, w, rest
<1>5. /\ DOMAIN vs = DOMAIN cs /\ \A id \in DOMAIN vs : vs[id] \in Nat
      /\ \A a, b : v(a) >= v(b) => SideScore(vs, a) >= SideScore(vs, b)
  BY <1>1, ShownOrders
<1>6. /\ DOMAIN ks = DOMAIN rs /\ \A id \in DOMAIN ks : ks[id] \in Nat
      /\ \A a, b : k(a) >= k(b) => SideScore(ks, a) >= SideScore(ks, b)
  BY <1>1, ShownOrders
<1> HIDE DEF vs, ks
<1>7. /\ Unit(vs) \in Nat /\ Unit(vs) >= 1 /\ \A a : nv(a) \in Nat
      /\ \A a, b : v(a) >= v(b) => nv(a) >= nv(b)
  BY <1>1, <1>2, <1>5, NormalizedOrders
<1>8. /\ Unit(ks) \in Nat /\ Unit(ks) >= 1 /\ \A a : nk(a) \in Nat
      /\ \A a, b : k(a) >= k(b) => nk(a) >= nk(b)
  BY <1>1, <1>2, <1>6, NormalizedOrders
<1> HIDE DEF v, k, nv, nk
<1>9. whole \in Nat /\ whole >= 1
  <2>1. PICK x \in Nat : x = Unit(vs) * Unit(ks) /\ x >= 1
    BY <1>7, <1>8
  <2>2. WeightScale * x \in Nat /\ WeightScale * x >= 1
    BY <1>4, <2>1
  <2> QED  BY <1>4, <1>7, <1>8, <2>1, <2>2
<1> HIDE DEF whole
<1>10. ASSUME NEW a, NEW b, nv(a) >= nv(b), nk(a) >= nk(b)
       PROVE  /\ Blended(vector, keyword, a) \in Nat
              /\ Blended(vector, keyword, a) >= Blended(vector, keyword, b)
  <2> DEFINE va == w * nv(a) * Unit(ks)
             vb == w * nv(b) * Unit(ks)
             ka == rest * nk(a) * Unit(vs)
             kb == rest * nk(b) * Unit(vs)
  <2>1. va \in Nat /\ vb \in Nat /\ va >= vb
    BY <1>4, <1>7, <1>8, <1>10, ProductGrows
  <2>2. ka \in Nat /\ kb \in Nat /\ ka >= kb
    BY <1>4, <1>7, <1>8, <1>10, ProductGrows
  <2>3. sum(a) = va + ka /\ sum(b) = vb + kb
    OBVIOUS
  <2> HIDE DEF va, vb, ka, kb, sum
  <2>4. PICK x \in Nat, y \in Nat : x = sum(a) /\ y = sum(b) /\ x >= y
    BY <2>1, <2>2, <2>3
  <2>5. Decimals * x \in Nat /\ Decimals * y \in Nat /\ Decimals * x >= Decimals * y
    <3>1. 1 \in Nat /\ Decimals * x * 1 = Decimals * x /\ Decimals * y * 1 = Decimals * y
      BY <1>4, <2>4
    <3>2. /\ Decimals * x * 1 \in Nat /\ Decimals * y * 1 \in Nat
          /\ Decimals * x * 1 >= Decimals * y * 1
      BY <1>4, <2>4, <3>1, ProductGrows
    <3> QED  BY <3>1, <3>2
  <2>6. /\ Rounded(Decimals * x, whole) \in Nat
        /\ Rounded(Decimals * x, whole) >= Rounded(Decimals * y, whole)
    BY <1>9, <2>5, RoundedGrows
  <2> QED  BY <1>3, <2>4, <2>6
<1> HIDE DEF sum
<1>11. \A a : nv(a) >= nv(a) /\ nk(a) >= nk(a)
  BY <1>7, <1>8
<1> QED  BY <1>7, <1>8, <1>10, <1>11 DEF v, k, cs, rs

\* A blend is sorted, and has every candidate that beats one of its own on both sides before
\* it, but for ties.
LEMMA BlendOrders ==
  ASSUME RowsType, Sided(search.vector, search.keyword),
         search.method \notin {"vector", "keyword"},
         NEW r, r = Blend(search.vector, search.keyword)
  PROVE  /\ IsList(r) /\ \A n \in DOMAIN r : r[n] \in Range(search.vector) \cup Range(search.keyword)
         /\ \A m, n \in DOMAIN r : m < n => SimilarityOf(r[m]) >= SimilarityOf(r[n])
         /\ \A n \in DOMAIN r : \A id \in Range(search.vector) \cup Range(search.keyword) :
               Dominates(id, r[n]) => Tied(id, r[n]) \/ \E m \in 1 .. n - 1 : r[m] = id
<1> DEFINE vector == search.vector
           keyword == search.keyword
           vs == Cosine(Range(vector))
           ks == Rank(Range(keyword))
           v(id) == SideScore(vs, id)
           k(id) == SideScore(ks, id)
           only == Range(keyword) \ Range(vector)
           rest == Among(keyword, only)
           union == vector \o rest
           score == [id \in Range(union) |-> Blended(vector, keyword, id)]
<1>1. Sided(vector, keyword)
  OBVIOUS
<1>2. IsList(vector) /\ IsList(keyword) /\ Descends(vector, vs) /\ Descends(keyword, ks)
  BY <1>1 DEF Sided
<1>3. r = Cut(Ranked(union, score), RetrieveK) /\ RetrieveK \in Nat
  BY RagConstants DEF Blend, RetrieveK
<1>4. /\ \A a, b : Dominates(a, b) =>
            v(a) >= v(b) /\ k(a) >= k(b) /\ (v(a) > v(b) \/ k(a) > k(b))
      /\ \A a : SimilarityOf(a) = Blended(vector, keyword, a)
      /\ \A a, b : v(a) = v(b) /\ v(b) >= 0 /\ SimilarityOf(a) = SimilarityOf(b) => Tied(a, b)
  BY DEF Dominates, Tied, SimilarityOf, VectorScore, KeywordScore
<1>5. /\ DOMAIN vs = Range(vector) /\ \A id \in DOMAIN vs : vs[id] \in Nat
      /\ DOMAIN ks = Range(keyword) /\ \A id \in DOMAIN ks : ks[id] \in Nat
  <2>1. search.query \in Queries
        /\ (\A id \in Range(vector) : id \in DOMAIN documents)
        /\ (\A id \in Range(keyword) : id \in DOMAIN documents)
    BY <1>1 DEF Sided, Range
  <2> QED  BY <2>1, SideScores
<1>6. /\ \A a : Blended(vector, keyword, a) \in Nat
      /\ \A a, b : v(a) >= v(b) /\ k(a) >= k(b) =>
            Blended(vector, keyword, a) >= Blended(vector, keyword, b)
  BY <1>1, BlendedFollows
<1>7. /\ \A a : a \in Range(vector) => v(a) = vs[a] /\ v(a) \in Nat
      /\ \A a : a \notin Range(vector) => v(a) = -1
      /\ \A a : a \in Range(keyword) => k(a) = ks[a] /\ k(a) \in Nat
      /\ \A a : a \notin Range(keyword) => k(a) = -1
  BY <1>5 DEF SideScore
<1> HIDE DEF vector, keyword, vs, ks, v, k
<1>8. IsList(rest) /\ Range(rest) = only
  <2>1. Range(keyword) \cap only = only
    OBVIOUS
  <2> QED  BY <1>2, <2>1, ListIsFiltered DEF Filtered
<1>9. PICK p \in [DOMAIN rest -> DOMAIN keyword] :
         /\ \A n \in DOMAIN rest : rest[n] = keyword[p[n]]
         /\ \A m, n \in DOMAIN rest : m < n => p[m] < p[n]
  BY <1>2, AmongOrders
<1> HIDE DEF rest
<1>10. PICK u : u = union
  OBVIOUS
<1>11. /\ IsList(u) /\ Len(u) = Len(vector) + Len(rest) /\ DOMAIN u = 1 .. Len(vector) + Len(rest)
       /\ \A i \in DOMAIN vector : i \in DOMAIN u /\ u[i] = vector[i]
       /\ \A i \in DOMAIN rest : Len(vector) + i \in DOMAIN u /\ u[Len(vector) + i] = rest[i]
       /\ \A n \in DOMAIN u : \/ n \in DOMAIN vector
                              \/ /\ n - Len(vector) \in DOMAIN rest
                                 /\ n = Len(vector) + (n - Len(vector)) /\ n > Len(vector)
       /\ Range(u) = Range(vector) \cup Range(rest)
  <2>1. Joined(vector, rest, u)
    BY <1>2, <1>8, <1>10, ListsJoin
  <2> QED  BY <2>1 DEF Joined
<1>12. Range(u) = Range(vector) \cup Range(keyword)
  BY <1>8, <1>11
<1>13. /\ \A i \in DOMAIN u : u[i] \in Range(u) /\ score[u[i]] = Blended(vector, keyword, u[i])
       /\ \A i \in DOMAIN u : score[u[i]] \in Int
  BY <1>6, <1>10 DEF Range
<1>14. /\ Len(vector) \in Nat /\ DOMAIN vector = 1 .. Len(vector)
       /\ Len(rest) \in Nat /\ DOMAIN rest = 1 .. Len(rest) /\ DOMAIN u \subseteq Int
  BY <1>2, <1>8, <1>11 DEF IsList
\* Where a candidate is: among the vector side's, or behind them and not one of them.
<1>15. ASSUME NEW n \in DOMAIN u
       PROVE  /\ u[n] \in Range(vector) <=> n \in DOMAIN vector
              /\ n \in DOMAIN vector => u[n] = vector[n]
              /\ n \notin DOMAIN vector =>
                    /\ n > Len(vector) /\ n - Len(vector) \in DOMAIN rest
                    /\ u[n] = rest[n - Len(vector)] /\ u[n] \in Range(keyword)
  <2>1. CASE n \in DOMAIN vector
    <3>1. u[n] = vector[n] /\ vector[n] \in Range(vector)
      BY <1>11, <2>1 DEF Range
    <3> QED  BY <2>1, <3>1
  <2>2. CASE n \notin DOMAIN vector
    <3>1. /\ n - Len(vector) \in DOMAIN rest /\ n > Len(vector)
          /\ u[Len(vector) + (n - Len(vector))] = rest[n - Len(vector)]
          /\ n = Len(vector) + (n - Len(vector))
      BY <1>11, <2>2
    <3>2. rest[n - Len(vector)] \in only
      BY <1>8, <3>1 DEF Range
    <3>3. u[n] = rest[n - Len(vector)]
      BY <3>1
    <3> QED  BY <2>2, <3>1, <3>2, <3>3
  <2> QED  BY <2>1, <2>2
<1>16. ASSUME NEW x \in DOMAIN u, NEW y \in DOMAIN u, Dominates(u[x], u[y]), ~Tied(u[x], u[y])
       PROVE  Ahead(u, score, x, y)
  <2> DEFINE a == u[x]
             b == u[y]
  <2>1. /\ v(a) >= v(b) /\ k(a) >= k(b) /\ (v(a) > v(b) \/ k(a) > k(b))
        /\ v(a) = v(b) /\ v(b) >= 0 => SimilarityOf(a) # SimilarityOf(b)
    BY <1>4, <1>16
  <2>2. score[a] >= score[b] /\ score[a] = SimilarityOf(a) /\ score[b] = SimilarityOf(b)
    BY <1>4, <1>6, <1>13, <2>1
  <2>3. score[a] \in Int /\ score[b] \in Int /\ x \in Int /\ y \in Int
    BY <1>13, <1>14
  <2>4. score[a] > score[b] \/ x < y
    <3>1. CASE b \in Range(vector) /\ v(a) > v(b)
      <4>1. a \in Range(vector)
        BY <1>7, <3>1
      <4>2. /\ x \in DOMAIN vector /\ y \in DOMAIN vector
            /\ vector[x] = a /\ vector[y] = b /\ vs[a] > vs[b]
        BY <1>7, <1>15, <3>1, <4>1
      <4> QED  BY <1>2, <4>2 DEF Descends
    <3>2. CASE b \in Range(vector) /\ ~(v(a) > v(b))
      <4>1. v(b) \in Nat /\ a \in Range(vector)
        BY <1>7, <2>1, <3>2
      <4>2. v(a) \in Nat
        BY <1>7, <4>1
      <4>3. v(a) = v(b) /\ v(b) >= 0
        BY <2>1, <3>2, <4>1, <4>2
      <4> HIDE DEF a, b, score
      <4> QED  BY <2>1, <2>2, <2>3, <4>3
    <3>3. CASE b \notin Range(vector)
      <4>1. y \notin DOMAIN vector /\ y > Len(vector) /\ b \in Range(keyword)
        BY <1>15, <3>3
      <4>2. CASE x \in DOMAIN vector
        BY <1>14, <2>3, <4>1, <4>2
      <4>3. CASE x \notin DOMAIN vector
        <5> DEFINE i == x - Len(vector)
                   j == y - Len(vector)
        <5>1. i \in DOMAIN rest /\ j \in DOMAIN rest /\ a = rest[i] /\ b = rest[j]
          BY <1>15, <4>1, <4>3
        <5>2. keyword[p[i]] = a /\ keyword[p[j]] = b /\ p[i] \in DOMAIN keyword /\ p[j] \in DOMAIN keyword
          BY <1>9, <5>1
        <5>3. ks[a] > ks[b]
          <6>1. a \notin Range(vector) /\ a \in Range(keyword)
            BY <1>15, <4>3
          <6>2. v(a) = -1 /\ v(b) = -1
            BY <1>7, <3>3, <6>1
          <6>3. k(a) > k(b)
            BY <2>1, <6>2
          <6> QED  BY <1>7, <4>1, <6>1, <6>3
        <5>4. p[i] < p[j]
          BY <1>2, <5>2, <5>3 DEF Descends
        <5>5. p[i] \in Int /\ p[j] \in Int /\ i \in Int /\ j \in Int
          BY <1>2, <1>14, <2>3, <5>2 DEF IsList
        <5>6. i < j
          <6>1. CASE j < i
            <7>1. p[j] < p[i]
              BY <1>9, <5>1, <6>1
            <7> QED  BY <5>4, <5>5, <7>1
          <6>2. CASE i = j
            BY <5>4, <5>5, <6>2
          <6> HIDE DEF i, j
          <6> QED  BY <5>5, <6>1, <6>2
        <5> QED  BY <1>14, <2>3, <5>6
      <4> QED  BY <4>2, <4>3
    <3> QED  BY <3>1, <3>2, <3>3
  <2> HIDE DEF score
  <2> QED  BY <2>2, <2>3, <2>4 DEF Ahead
<1>17. r = Cut(Ranked(u, score), RetrieveK)
  BY <1>3, <1>10
<1> HIDE DEF score, union
<1>18. /\ IsList(r)
       /\ \A n \in DOMAIN r : \E i \in DOMAIN u : r[n] = u[i]
       /\ \A m, n \in DOMAIN r : m < n => score[r[m]] >= score[r[n]]
       /\ \A n \in DOMAIN r, x \in DOMAIN u :
             (\A y \in DOMAIN u : u[y] = r[n] => Ahead(u, score, x, y))
                => \E m \in 1 .. n - 1 : r[m] = u[x]
  <2>1. IsList(u)
    BY <1>11
  <2>2. \A i \in DOMAIN u : score[u[i]] \in Int
    BY <1>13
  <2>3. RetrieveK \in Nat
    BY <1>3
  <2>4. Leads(u, score, r)
    BY <1>17, <2>1, <2>2, <2>3, AheadIsBefore
  <2> QED  BY <2>4 DEF Leads
<1>19. ASSUME NEW n \in DOMAIN r, NEW id \in Range(u), Dominates(id, r[n]), ~Tied(id, r[n])
       PROVE  \E m \in 1 .. n - 1 : r[m] = id
  <2>1. PICK x \in DOMAIN u : u[x] = id
    BY DEF Range
  <2>2. \A y \in DOMAIN u : u[y] = r[n] => Ahead(u, score, x, y)
    BY <1>16, <1>19, <2>1
  <2> QED  BY <1>18, <2>1, <2>2
<1>20. \A n \in DOMAIN r : r[n] \in Range(u)
  BY <1>18 DEF Range
<1>21. \A m, n \in DOMAIN r : m < n => SimilarityOf(r[m]) >= SimilarityOf(r[n])
  <2>1. \A n \in DOMAIN r : score[r[n]] = SimilarityOf(r[n])
    BY <1>4, <1>13, <1>18
  <2> QED  BY <1>18, <2>1
<1> QED  BY <1>12, <1>18, <1>19, <1>20, <1>21 DEF vector, keyword

\* One side's list on its own puts every candidate before those it beats.
LEMMA SideOrders ==
  ASSUME RowsType, Sided(search.vector, search.keyword), NEW r,
         \/ search.method = "vector" /\ r = search.vector /\ search.keyword = <<>>
         \/ search.method = "keyword" /\ r = search.keyword /\ search.vector = <<>>,
         NEW n \in DOMAIN r, NEW id \in Range(search.vector) \cup Range(search.keyword),
         Dominates(id, r[n])
  PROVE  \E m \in 1 .. n - 1 : r[m] = id
<1> DEFINE vs == Cosine(Range(search.vector))
           ks == Rank(Range(search.keyword))
           v(a) == SideScore(vs, a)
           k(a) == SideScore(ks, a)
<1>1. /\ IsList(search.vector) /\ Descends(search.vector, vs)
      /\ IsList(search.keyword) /\ Descends(search.keyword, ks)
  BY DEF Sided
<1>2. v(id) > v(r[n]) \/ k(id) > k(r[n])
  BY DEF Dominates, VectorScore, KeywordScore
<1>3. DOMAIN vs = Range(search.vector) /\ DOMAIN ks = Range(search.keyword)
  BY DEF Cosine, Rank
<1> HIDE DEF vs, ks
<1>4. Range(<<>>) = {}
  BY EmptyIsList DEF Range
<1>5. /\ \A a : a \in Range(search.vector) => v(a) = vs[a]
      /\ \A a : a \notin Range(search.vector) => v(a) = -1
      /\ \A a : a \in Range(search.keyword) => k(a) = ks[a]
      /\ \A a : a \notin Range(search.keyword) => k(a) = -1
  BY <1>3 DEF SideScore
<1> HIDE DEF v, k
<1>6. ASSUME NEW m \in DOMAIN r, m < n, r[m] = id, IsList(r) PROVE \E i \in 1 .. n - 1 : r[i] = id
  <2>1. m \in 1 .. n - 1
    BY <1>6 DEF IsList
  <2> QED  BY <1>6, <2>1
<1>7. CASE r = search.vector /\ search.keyword = <<>>
  <2>1. k(id) = -1 /\ k(r[n]) = -1
    BY <1>4, <1>5, <1>7
  <2>2. v(id) > v(r[n])
    BY <1>2, <2>1
  <2>3. PICK m \in DOMAIN r : r[m] = id
    BY <1>4, <1>7 DEF Range
  <2>4. r[n] \in Range(search.vector) /\ id \in Range(search.vector)
    BY <1>4, <1>7 DEF Range
  <2>5. vs[r[m]] > vs[r[n]]
    BY <1>5, <2>2, <2>3, <2>4
  <2>6. m < n
    BY <1>1, <1>7, <2>5 DEF Descends
  <2> QED  BY <1>1, <1>6, <1>7, <2>3, <2>6
<1>8. CASE r = search.keyword /\ search.vector = <<>>
  <2>1. v(id) = -1 /\ v(r[n]) = -1
    BY <1>4, <1>5, <1>8
  <2>2. k(id) > k(r[n])
    BY <1>2, <2>1
  <2>3. PICK m \in DOMAIN r : r[m] = id
    BY <1>4, <1>8 DEF Range
  <2>4. r[n] \in Range(search.keyword) /\ id \in Range(search.keyword)
    BY <1>4, <1>8 DEF Range
  <2>5. ks[r[m]] > ks[r[n]]
    BY <1>5, <2>2, <2>3, <2>4
  <2>6. m < n
    BY <1>1, <1>8, <2>5 DEF Descends
  <2> QED  BY <1>1, <1>6, <1>8, <2>3, <2>6
<1> QED  BY <1>7, <1>8

\* The similarity a side tells of its own descends with it, the rounding included.
LEMMA SideIsSorted ==
  ASSUME RowsType, Sided(search.vector, search.keyword), NEW r,
         \/ search.method = "vector" /\ r = search.vector
         \/ search.method = "keyword" /\ r = search.keyword,
         NEW m \in DOMAIN r, NEW n \in DOMAIN r, m < n
  PROVE  SimilarityOf(r[m]) >= SimilarityOf(r[n])
<1> DEFINE vs == Cosine(Range(search.vector))
           ks == Rank(Range(search.keyword))
<1>1. search.query \in Queries /\ (\A id \in Range(search.vector) : id \in DOMAIN documents)
      /\ (\A id \in Range(search.keyword) : id \in DOMAIN documents)
  BY DEF Sided, Range
<1>2. /\ \A id \in Range(search.vector) : vs[id] \in Nat
      /\ \A id \in Range(search.keyword) : ks[id] \in Nat
  BY <1>1, SideScores
<1>3. Finer \in Nat /\ Finer >= 1
  BY RagConstants
<1>4. r[m] \in Range(r) /\ r[n] \in Range(r)
  BY DEF Range
<1>5. CASE search.method = "vector" /\ r = search.vector
  <2>1. \A id \in Range(r) : SimilarityOf(id) = Rounded(vs[id], Finer)
    BY <1>5 DEF SimilarityOf, Shown, Cosine
  <2>2. vs[r[m]] \in Nat /\ vs[r[n]] \in Nat
    BY <1>2, <1>4, <1>5
  <2>3. vs[r[m]] >= vs[r[n]]
    <3>1. m \in Int /\ n \in Int /\ (vs[r[n]] > vs[r[m]] => n < m)
      BY <1>5 DEF Sided, Descends, IsList
    <3> HIDE DEF vs
    <3> QED  BY <2>2, <3>1
  <2> QED  BY <1>3, <1>4, <2>1, <2>2, <2>3, RoundedGrows
<1>6. CASE search.method = "keyword" /\ r = search.keyword
  <2>1. \A id \in Range(r) : SimilarityOf(id) = Rounded(ks[id], Finer)
    BY <1>6 DEF SimilarityOf, Shown, Rank
  <2>2. ks[r[m]] \in Nat /\ ks[r[n]] \in Nat
    BY <1>2, <1>4, <1>6
  <2>3. ks[r[m]] >= ks[r[n]]
    <3>1. m \in Int /\ n \in Int /\ (ks[r[n]] > ks[r[m]] => n < m)
      BY <1>6 DEF Sided, Descends, IsList
    <3> HIDE DEF ks
    <3> QED  BY <2>2, <3>1
  <2> QED  BY <1>3, <1>4, <2>1, <2>2, <2>3, RoundedGrows
<1> QED  BY <1>5, <1>6

-----------------------------------------------------------------------------
(* The reranker's cache.                                                    *)

\* What is remembered is the model's score of a row for a query, under both their names.
Remembered(e) ==
    \E q \in Queries, id \in DOMAIN documents :
        e.key = CacheKeyOf(q, id) /\ e.score = Judgement[q][documents[id].text]
CacheInv == IsList(scores) /\ \A i \in DOMAIN scores : Remembered(scores[i])

\* A remembered score is the one the model would give.
LEMMA StampIsJudged ==
  ASSUME CacheInv, NEW id PROVE StampOf(id) = Judged(id)
<1>1. \A q, i : CacheKeyOf(q, i) = CacheKeyOf(search.query, id) => q = search.query /\ i = id
  BY DEF CacheKeyOf
<1> DEFINE key == CacheKeyOf(search.query, id)
           at == CHOOSE i \in DOMAIN scores : scores[i].key = key
<1>2. CASE Cached(key)
  <2>1. at \in DOMAIN scores /\ scores[at].key = key
    BY <1>2 DEF Cached
  <2>2. StampOf(id) = scores[at].score
    BY <1>2 DEF StampOf, ScoreOf
  <2> HIDE DEF at
  <2>3. PICK q \in Queries, i \in DOMAIN documents :
           key = CacheKeyOf(q, i) /\ scores[at].score = Judgement[q][documents[i].text]
    BY <2>1 DEF CacheInv, Remembered
  <2>4. q = search.query /\ i = id
    BY <1>1, <2>3
  <2> QED  BY <2>2, <2>3, <2>4 DEF Judged
<1>3. CASE ~Cached(key)
  BY <1>3 DEF StampOf
<1> QED  BY <1>2, <1>3

\* What is put beside what was there is the model's too.
LEMMA RecachedIsRemembered ==
  ASSUME CacheInv, search.query \in Queries, NEW ids, IsList(ids),
         \A n \in DOMAIN ids : ids[n] \in DOMAIN documents
  PROVE  IsList(Recached(ids)) /\ \A i \in DOMAIN Recached(ids) : Remembered(Recached(ids)[i])
<1> DEFINE KeyOf(id) == CacheKeyOf(search.query, id)
           Entries(list) == [n \in DOMAIN list |-> [key |-> KeyOf(list[n]), score |-> StampOf(list[n])]]
           hits == {id \in Range(ids) : Cached(KeyOf(id))}
           rest == {e \in Range(scores) : \A id \in hits : e.key # KeyOf(id)}
           kept == Among(scores, rest)
           again == Entries(Among(ids, hits))
           new == Entries(Among(ids, Range(ids) \ hits))
           full == kept \o again \o new
           from == Max({1, Len(full) - CacheSize + 1})
<1>1. Recached(ids) = SubSeq(full, from, Len(full))
  BY DEF Recached
<1>2. ASSUME NEW some
      PROVE  /\ IsList(Entries(Among(ids, some)))
             /\ \A e \in Range(Entries(Among(ids, some))) : Remembered(e)
  <2> DEFINE list == Among(ids, some)
  <2>1. IsList(list) /\ Range(list) \subseteq Range(ids)
    BY ListIsFiltered DEF Filtered
  <2> HIDE DEF list
  <2>2. IsList(Entries(list))
    BY <2>1 DEF IsList
  <2>3. ASSUME NEW n \in DOMAIN list PROVE Remembered(Entries(list)[n])
    <3>1. list[n] \in DOMAIN documents
      BY <2>1 DEF Range
    <3>2. StampOf(list[n]) = Judgement[search.query][documents[list[n]].text]
      BY StampIsJudged DEF Judged
    <3>3. Entries(list)[n].key = CacheKeyOf(search.query, list[n]) /\ Entries(list)[n].score = StampOf(list[n])
      OBVIOUS
    <3> QED  BY <3>1, <3>2, <3>3 DEF Remembered
  <2>4. DOMAIN Entries(list) = DOMAIN list
    OBVIOUS
  <2> HIDE DEF Entries
  <2>5. \A e \in Range(Entries(list)) : Remembered(e)
    BY <2>3, <2>4 DEF Range
  <2> QED  BY <2>2, <2>5 DEF list
<1>3. IsList(kept) /\ \A e \in Range(kept) : Remembered(e)
  <2> HIDE DEF rest
  <2>1. IsList(kept) /\ Range(kept) \subseteq Range(scores)
    BY ListIsFiltered DEF Filtered, CacheInv
  <2>2. \A e \in Range(scores) : Remembered(e)
    BY DEF CacheInv, Range
  <2> QED  BY <2>1, <2>2
<1>4. IsList(again) /\ IsList(new) /\ (\A e \in Range(again) \cup Range(new) : Remembered(e))
  <2> HIDE DEF hits, Entries
  <2>1. IsList(again) /\ \A e \in Range(again) : Remembered(e)
    BY <1>2
  <2>2. IsList(new) /\ \A e \in Range(new) : Remembered(e)
    BY <1>2
  <2> QED  BY <2>1, <2>2
<1> HIDE DEF kept, again, new
<1>5. IsList(full) /\ \A e \in Range(full) : Remembered(e)
  <2> DEFINE two == kept \o again
  <2>1. IsList(two) /\ Range(two) = Range(kept) \cup Range(again)
    BY <1>3, <1>4, ListsJoin DEF Joined
  <2> HIDE DEF two
  <2>2. PICK all : all = two \o new
    OBVIOUS
  <2>3. IsList(all) /\ Range(all) = Range(two) \cup Range(new)
    BY <1>4, <2>1, <2>2, ListsJoin DEF Joined
  <2>4. full = all
    BY <2>2 DEF two
  <2> QED  BY <1>3, <1>4, <2>1, <2>3, <2>4
<1> HIDE DEF full
<1>6. Len(full) \in Nat /\ DOMAIN full = 1 .. Len(full)
  BY <1>5 DEF IsList
<1>7. from \in Int /\ from >= 1
  <2>1. PICK k \in Int : k = Len(full) - CacheSize + 1
    BY <1>6, RagConstants
  <2>2. \E x \in {1, k} : \A y \in {1, k} : x >= y
    <3>1. CASE k <= 1
      BY <3>1
    <3>2. CASE ~(k <= 1)
      BY <3>2
    <3> QED  BY <3>1, <3>2
  <2>3. Max({1, k}) \in {1, k} /\ \A y \in {1, k} : Max({1, k}) >= y
    BY <2>2 DEF Max
  <2> QED  BY <2>1, <2>3
<1> HIDE DEF from
<1>8. \A i \in from .. Len(full) : full[i] \in Range(full)
  BY <1>6, <1>7 DEF Range
<1>9. PICK r : r = SubSeq(full, from, Len(full))
  OBVIOUS
<1>10. r \in Seq(Range(full))
  BY <1>6, <1>7, <1>8, <1>9, SubSeqProperties
<1>11. IsList(r)
  BY <1>10, SeqIsList
<1>12. \A i \in DOMAIN r : r[i] \in Range(full)
  BY <1>10, <1>11, ElementOfSeq DEF IsList
<1> QED  BY <1>1, <1>5, <1>9, <1>11, <1>12

-----------------------------------------------------------------------------
(* A search: its lists, and its answer.                                     *)

SearchInv ==
    /\ DOMAIN search = DOMAIN IdleSearch
    /\ search.pc # "idle" => Sided(search.vector, search.keyword)
    /\ search.method = "vector" => search.keyword = <<>>
    /\ search.method = "keyword" => search.vector = <<>>
    /\ search.pc = "vector" => search.method # "keyword"
    /\ search.pc = "keyword" => search.method # "vector"
    /\ search.pc = "answered" =>
          /\ \A n \in DOMAIN search.results : search.results[n].id \in DOMAIN documents
          /\ RankedByOwnScores

FindInv == CacheInv /\ SearchInv

\* Rows are added, never changed.
RowsAreKept == \A id \in DOMAIN documents : id \in DOMAIN documents' /\ documents'[id] = documents[id]

LEMMA DocumentsGrow == RagInv /\ [RagNext]_ragVars => RowsAreKept
<1> SUFFICES ASSUME RagInv, [RagNext]_ragVars PROVE RowsAreKept
  OBVIOUS
<1>1. CASE documents' = documents
  BY <1>1 DEF RowsAreKept
<1>2. ASSUME NEW j \in Ingests, NEW o, InsertDocument(j, o) PROVE RowsAreKept
  <2> SUFFICES ASSUME documents' # documents PROVE RowsAreKept
    BY <1>1
  <2>1. PICK row : documents' = Append(documents, row)
    BY <1>2 DEF InsertDocument
  <2>2. IsList(documents)
    BY DEF RagInv, RowsType
  <2>3. Longer(documents, row, documents')
    BY <2>1, <2>2, ListGrows, Zenon
  <2> QED  BY <2>2, <2>3 DEF Longer, IsList, RowsAreKept
<1>3. CASE UNCHANGED documents
  BY <1>1, <1>3
<1> QED
  BY <1>2, <1>3 DEF RagNext, ragVars, BeginIngest, KillIngest, CheckDuplicate, MirrorDocument,
                    BeginListing, ListPage, BeginSearch, VectorSearch, KeywordSearch, Retrieve, ingesting

\* What was remembered of a row still is.
LEMMA StillRemembered == ASSUME RowsAreKept, NEW e, Remembered(e) PROVE Remembered(e)'
BY DEF RowsAreKept, Remembered, CacheKeyOf

\* The lists of a search score what they did, whatever rows are added.
LEMMA SidesStand ==
  ASSUME RowsAreKept, Sided(search.vector, search.keyword), search'.method = search.method,
         search'.query = search.query, search'.vector = search.vector, search'.keyword = search.keyword
  PROVE  /\ Sided(search.vector, search.keyword)'
         /\ \A a, b : Dominates(a, b)' <=> Dominates(a, b)
         /\ \A id \in DOMAIN documents : Judged(id)' = Judged(id) /\ SimilarityOf(id)' = SimilarityOf(id)
         /\ \A a, b \in DOMAIN documents : Tied(a, b)' <=> Tied(a, b)
<1> DEFINE vs == Cosine(Range(search.vector))
           ks == Rank(Range(search.keyword))
<1>1. /\ \A id \in Range(search.vector) : id \in DOMAIN documents
      /\ \A id \in Range(search.keyword) : id \in DOMAIN documents
  BY DEF Sided, Range
<1>2. vs' = vs /\ ks' = ks
  BY <1>1 DEF RowsAreKept, Cosine, Rank
<1>3. \A id \in DOMAIN documents : Cosine({id})' = Cosine({id}) /\ Rank({id})' = Rank({id})
  BY DEF RowsAreKept, Cosine, Rank
<1> HIDE DEF vs, ks
<1>4. \A a : VectorScore(a)' = VectorScore(a) /\ KeywordScore(a)' = KeywordScore(a)
  BY <1>2 DEF VectorScore, KeywordScore, SideScore, vs, ks
<1>5. \A a, b : Dominates(a, b)' <=> Dominates(a, b)
  BY <1>4 DEF Dominates
<1>6. Sided(search.vector, search.keyword)'
  BY <1>2 DEF Sided, Descends, RowsAreKept, vs, ks
<1>7. \A id \in DOMAIN documents : Judged(id)' = Judged(id)
  BY DEF RowsAreKept, Judged
<1>8. \A id : Blended(search.vector, search.keyword, id)' = Blended(search.vector, search.keyword, id)
  BY <1>2 DEF Blended, vs, ks
<1>9. \A id \in DOMAIN documents : SimilarityOf(id)' = SimilarityOf(id)
  BY <1>3, <1>8 DEF SimilarityOf, Shown
<1>10. \A a, b \in DOMAIN documents : Tied(a, b)' <=> Tied(a, b)
  BY <1>4, <1>9 DEF Tied
<1> QED  BY <1>5, <1>6, <1>7, <1>9, <1>10

\* Ingestion and listing leave a search and what is remembered as they are.
LEMMA SearchStands ==
  ASSUME FindInv, RowsAreKept, search' = search, scores' = scores PROVE FindInv'
<1>1. CacheInv'
  <2>1. IsList(scores) /\ \A i \in DOMAIN scores : Remembered(scores[i])
    BY DEF FindInv, CacheInv
  <2>2. \A e : Remembered(e) => Remembered(e)'
    BY StillRemembered
  <2> QED  BY <2>1, <2>2 DEF CacheInv
<1>2. SearchInv'
  <2>1. SearchInv
    BY DEF FindInv
  <2>2. CASE search.pc = "idle"
    BY <2>1, <2>2 DEF SearchInv
  <2>3. CASE search.pc # "idle"
    <3>1. Sided(search.vector, search.keyword)
      BY <2>1, <2>3 DEF SearchInv
    <3>2. /\ Sided(search.vector, search.keyword)'
          /\ \A a, b : Dominates(a, b)' <=> Dominates(a, b)
          /\ \A id \in DOMAIN documents : Judged(id)' = Judged(id)
          /\ \A a, b \in DOMAIN documents : Tied(a, b)' <=> Tied(a, b)
      BY <3>1, SidesStand
    <3>3. ASSUME search.pc = "answered"
          PROVE  /\ \A n \in DOMAIN search'.results : search'.results[n].id \in DOMAIN documents'
                 /\ RankedByOwnScores'
      <4>1. (\A n \in DOMAIN search.results : search.results[n].id \in DOMAIN documents)
            /\ RankedByOwnScores
        BY <2>1, <3>3 DEF SearchInv
      <4>2. \A n \in DOMAIN search'.results : search'.results[n].id \in DOMAIN documents'
        BY <4>1 DEF RowsAreKept
      <4>3. RankedByOwnScores'
        <5>1. CASE search.rerank
          BY <3>2, <3>3, <4>1, <5>1 DEF RankedByOwnScores
        <5>2. CASE ~search.rerank
          <6>1. \A id \in Range(search.vector) \cup Range(search.keyword) : id \in DOMAIN documents
            BY <3>1 DEF Sided, Range
          <6>2. PICK r : r = search.results
            OBVIOUS
          <6>3. /\ \A m, n \in DOMAIN r : m < n => r[m].similarity >= r[n].similarity
                /\ \A n \in DOMAIN r : \A id \in Range(search.vector) \cup Range(search.keyword) :
                      Dominates(id, r[n].id) => \/ \E m \in 1 .. n - 1 : r[m].id = id
                                                \/ Tied(id, r[n].id)
            BY <3>3, <4>1, <5>2, <6>2 DEF RankedByOwnScores
          <6>4. \A n \in DOMAIN r : r[n].id \in DOMAIN documents
            BY <4>1, <6>2
          <6>5. \A n \in DOMAIN r : \A id \in Range(search.vector) \cup Range(search.keyword) :
                   Dominates(id, r[n].id)' => \/ \E m \in 1 .. n - 1 : r[m].id = id
                                              \/ Tied(id, r[n].id)'
            BY <3>2, <6>1, <6>3, <6>4
          <6> QED  BY <5>2, <6>2, <6>3, <6>5 DEF RankedByOwnScores
        <5> QED  BY <5>1, <5>2
      <4> QED  BY <4>2, <4>3
    <3> QED  BY <2>1, <3>2, <3>3 DEF SearchInv
  <2> QED  BY <2>2, <2>3
<1> QED  BY <1>1, <1>2 DEF FindInv

LEMMA CacheStands == ASSUME FindInv, RowsAreKept, scores' = scores PROVE CacheInv'
<1>1. IsList(scores) /\ \A i \in DOMAIN scores : Remembered(scores[i])
  BY DEF FindInv, CacheInv
<1>2. \A e : Remembered(e) => Remembered(e)'
  BY StillRemembered
<1> QED  BY <1>1, <1>2 DEF CacheInv

LEMMA BeginsSearch ==
  ASSUME FindInv, NEW query \in Queries, NEW method \in Methods, NEW rerank \in BOOLEAN,
         BeginSearch(query, method, rerank)
  PROVE  FindInv'
<1>1. /\ search' = [IdleSearch EXCEPT !.pc = IF method = "keyword" THEN "keyword" ELSE "vector",
                        !.query = query, !.method = method, !.rerank = rerank]
      /\ documents' = documents /\ scores' = scores
  BY DEF BeginSearch, ingesting
<1>2. /\ DOMAIN search' = DOMAIN IdleSearch
      /\ search'.pc = IF method = "keyword" THEN "keyword" ELSE "vector"
      /\ search'.query = query /\ search'.method = method
      /\ search'.vector = <<>> /\ search'.keyword = <<>>
  BY <1>1 DEF IdleSearch
<1>3. CacheInv'
  BY <1>1, CacheStands DEF RowsAreKept
<1>4. Sided(search.vector, search.keyword)'
  BY <1>2, EmptyIsList DEF Sided, Descends
<1>5. SearchInv'
  BY <1>2, <1>4 DEF SearchInv
<1> QED  BY <1>3, <1>5 DEF FindInv

\* Scores that are the same on a list order it the same.
LEMMA DescendsBy ==
  ASSUME NEW r, NEW score, NEW other, Descends(r, score), \A x \in Range(r) : other[x] = score[x]
  PROVE  Descends(r, other)
<1>1. \A i \in DOMAIN r : other[r[i]] = score[r[i]]
  BY DEF Range
<1> QED  BY <1>1 DEF Descends

LEMMA SearchesVectors ==
  ASSUME RagInv, FindInv, VectorSearch PROVE FindInv'
<1> DEFINE r == Best(Cosine(Chunked))
           pc == IF search.method = "hybrid" THEN "keyword" ELSE "ranked"
<1>1. /\ search.pc = "vector" /\ search' = [search EXCEPT !.pc = pc, !.vector = r]
      /\ documents' = documents /\ scores' = scores
  BY DEF VectorSearch, ingesting
<1>2. /\ DOMAIN search = DOMAIN IdleSearch /\ Sided(search.vector, search.keyword)
      /\ search.method = "vector" => search.keyword = <<>>
      /\ search.method # "keyword"
  BY <1>1 DEF FindInv, SearchInv
<1>3. RowsType /\ search.query \in Queries /\ \A id \in Chunked : id \in DOMAIN documents
  BY <1>2 DEF RagInv, Sided, Chunked
<1>4. /\ IsList(r) /\ \A n \in DOMAIN r : r[n] \in Chunked
      /\ Descends(r, Cosine(Chunked))
  <2>1. DOMAIN Cosine(Chunked) = Chunked /\ \A id \in Chunked : Cosine(Chunked)[id] \in Nat
    BY <1>3, SideScores
  <2> QED  BY <1>3, <2>1, BestDescends
<1> HIDE DEF r, pc
<1>5. /\ DOMAIN search' = DOMAIN search /\ search'.pc = pc /\ search'.query = search.query
      /\ search'.method = search.method /\ search'.vector = r /\ search'.keyword = search.keyword
  BY <1>1, <1>2 DEF IdleSearch
<1>6. Rank(Range(search.keyword))' = Rank(Range(search.keyword))
  BY <1>1, <1>5 DEF Rank
<1>7. \A x \in Range(r) : x \in Chunked /\ Cosine(Range(r))[x] = Cosine(Chunked)[x]
  BY <1>4 DEF Range, Cosine
<1>8. Descends(r, Cosine(Range(r)))
  BY <1>4, <1>7, DescendsBy
<1>9. Sided(search.vector, search.keyword)'
  <2>1. Descends(search'.vector, Cosine(Range(search.vector))')
    BY <1>1, <1>5, <1>8 DEF Cosine
  <2>2. Descends(search'.keyword, Rank(Range(search.keyword))')
    BY <1>2, <1>5, <1>6 DEF Sided
  <2> QED  BY <1>1, <1>2, <1>3, <1>4, <1>5, <2>1, <2>2 DEF Sided, Descends
<1>10. SearchInv'
  BY <1>2, <1>5, <1>9 DEF SearchInv, pc
<1>11. CacheInv'
  BY <1>1, CacheStands DEF RowsAreKept
<1> QED  BY <1>10, <1>11 DEF FindInv

LEMMA SearchesKeywords ==
  ASSUME RagInv, FindInv, KeywordSearch PROVE FindInv'
<1> DEFINE r == Best(Rank(Matching))
<1>1. /\ search.pc = "keyword" /\ search' = [search EXCEPT !.pc = "ranked", !.keyword = r]
      /\ documents' = documents /\ scores' = scores
  BY DEF KeywordSearch, ingesting
<1>2. /\ DOMAIN search = DOMAIN IdleSearch /\ Sided(search.vector, search.keyword)
      /\ search.method = "keyword" => search.vector = <<>>
      /\ search.method # "vector"
  BY <1>1 DEF FindInv, SearchInv
<1>3. RowsType /\ search.query \in Queries /\ \A id \in Matching : id \in DOMAIN documents
  BY <1>2 DEF RagInv, Sided, Chunked, Matching
<1>4. /\ IsList(r) /\ \A n \in DOMAIN r : r[n] \in Matching
      /\ Descends(r, Rank(Matching))
  <2>1. DOMAIN Rank(Matching) = Matching /\ \A id \in Matching : Rank(Matching)[id] \in Nat
    BY <1>3, SideScores
  <2> QED  BY <1>3, <2>1, BestDescends
<1> HIDE DEF r
<1>5. /\ DOMAIN search' = DOMAIN search /\ search'.pc = "ranked" /\ search'.query = search.query
      /\ search'.method = search.method /\ search'.vector = search.vector /\ search'.keyword = r
  BY <1>1, <1>2 DEF IdleSearch
<1>6. Cosine(Range(search.vector))' = Cosine(Range(search.vector))
  BY <1>1, <1>5 DEF Cosine
<1>7. \A x \in Range(r) : x \in Matching /\ Rank(Range(r))[x] = Rank(Matching)[x]
  BY <1>4 DEF Range, Rank
<1>8. Descends(r, Rank(Range(r)))
  BY <1>4, <1>7, DescendsBy
<1>9. Sided(search.vector, search.keyword)'
  <2>1. Descends(search'.keyword, Rank(Range(search.keyword))')
    BY <1>1, <1>5, <1>8 DEF Rank
  <2>2. Descends(search'.vector, Cosine(Range(search.vector))')
    BY <1>2, <1>5, <1>6 DEF Sided
  <2> QED  BY <1>1, <1>2, <1>3, <1>4, <1>5, <2>1, <2>2 DEF Sided, Descends
<1>10. SearchInv'
  BY <1>2, <1>5, <1>9 DEF SearchInv
<1>11. CacheInv'
  BY <1>1, CacheStands DEF RowsAreKept
<1> QED  BY <1>10, <1>11 DEF FindInv

\* The answer: what the method found, as it ranks it or as the model does.
LEMMA Retrieves ==
  ASSUME RagInv, FindInv, Retrieve PROVE FindInv'
<1> DEFINE found == CASE search.method = "vector" -> search.vector
                      [] search.method = "keyword" -> search.keyword
                      [] OTHER -> Blend(search.vector, search.keyword)
           stamps == [id \in Range(found) |-> StampOf(id)]
           ids == IF ~search.rerank THEN found ELSE Cut(Ranked(found, stamps), TopK)
           results == [n \in DOMAIN ids |->
                          [id |-> ids[n], similarity |-> SimilarityOf(ids[n]),
                           stamp |-> IF search.rerank THEN StampOf(ids[n]) ELSE 0]]
           candidates == Range(search.vector) \cup Range(search.keyword)
<1>1. /\ search.pc = "ranked"
      /\ search' = [search EXCEPT !.pc = "answered", !.results = results]
      /\ scores' = IF search.rerank THEN Recached(found) ELSE scores
      /\ documents' = documents
  BY DEF Retrieve, ingesting
<1>2. /\ DOMAIN search = DOMAIN IdleSearch /\ Sided(search.vector, search.keyword)
      /\ search.method = "vector" => search.keyword = <<>>
      /\ search.method = "keyword" => search.vector = <<>>
      /\ RowsType /\ CacheInv
  BY <1>1 DEF FindInv, SearchInv, RagInv
<1>3. \A id \in candidates : id \in DOMAIN documents
  BY <1>2 DEF Sided, Range
<1>4. /\ IsList(found) /\ \A n \in DOMAIN found : found[n] \in candidates
      /\ \A m, n \in DOMAIN found : m < n => SimilarityOf(found[m]) >= SimilarityOf(found[n])
      /\ \A n \in DOMAIN found : \A id \in candidates :
            Dominates(id, found[n]) => Tied(id, found[n]) \/ \E m \in 1 .. n - 1 : found[m] = id
  <2>1. CASE search.method \in {"vector", "keyword"}
    <3>1. \/ search.method = "vector" /\ found = search.vector /\ search.keyword = <<>>
          \/ search.method = "keyword" /\ found = search.keyword /\ search.vector = <<>>
      BY <1>2, <2>1
    <3> HIDE DEF found
    <3>2. IsList(found) /\ \A n \in DOMAIN found : found[n] \in candidates
      BY <1>2, <3>1 DEF Sided, Range
    <3>3. \A n \in DOMAIN found : \A id \in candidates :
             Dominates(id, found[n]) => \E m \in 1 .. n - 1 : found[m] = id
      BY <1>2, <3>1, SideOrders
    <3>4. \A m, n \in DOMAIN found : m < n => SimilarityOf(found[m]) >= SimilarityOf(found[n])
      BY <1>2, <3>1, SideIsSorted
    <3> QED  BY <3>2, <3>3, <3>4
  <2>2. CASE search.method \notin {"vector", "keyword"}
    <3>1. found = Blend(search.vector, search.keyword)
      BY <2>2
    <3> HIDE DEF found
    <3>2. IsList(found) /\ \A n \in DOMAIN found : found[n] \in candidates
      BY <1>2, <2>2, <3>1, BlendOrders
    <3>3. \A m, n \in DOMAIN found : m < n => SimilarityOf(found[m]) >= SimilarityOf(found[n])
      BY <1>2, <2>2, <3>1, BlendOrders
    <3>4. \A n \in DOMAIN found : \A id \in candidates :
             Dominates(id, found[n]) => Tied(id, found[n]) \/ \E m \in 1 .. n - 1 : found[m] = id
      BY <1>2, <2>2, <3>1, BlendOrders
    <3> QED  BY <3>2, <3>3, <3>4
  <2> QED  BY <2>1, <2>2
<1> HIDE DEF found
<1>5. \A n \in DOMAIN found : found[n] \in DOMAIN documents
  BY <1>3, <1>4
<1>6. \A id : StampOf(id) = Judged(id)
  BY <1>2, StampIsJudged
<1>7. search.query \in Queries
  BY <1>2 DEF Sided
<1>8. CacheInv'
  <2>1. CASE ~search.rerank
    BY <1>1, <2>1, CacheStands DEF RowsAreKept
  <2>2. CASE search.rerank
    <3>1. scores' = Recached(found)
      BY <1>1, <2>2
    <3>2. IsList(scores') /\ \A i \in DOMAIN scores' : Remembered(scores'[i])
      BY <1>2, <1>4, <1>5, <1>7, <3>1, RecachedIsRemembered
    <3>3. \A e : Remembered(e) => Remembered(e)'
      BY <1>1, StillRemembered DEF RowsAreKept
    <3> QED  BY <3>2, <3>3 DEF CacheInv
  <2> QED  BY <2>1, <2>2
<1>9. ASSUME search.rerank
      PROVE  /\ IsList(ids) /\ \A n \in DOMAIN ids : ids[n] \in DOMAIN documents
             /\ \A m, n \in DOMAIN ids : m < n => Judged(ids[m]) >= Judged(ids[n])
  <2>1. ids = Cut(Ranked(found, stamps), TopK) /\ TopK \in Nat
    BY <1>9, RagConstants
  <2>2. \A i \in DOMAIN found : found[i] \in Range(found) /\ stamps[found[i]] = Judged(found[i])
    BY <1>6 DEF Range
  <2>3. \A i \in DOMAIN found : stamps[found[i]] \in Int
    <3>1. \A id \in DOMAIN documents : Judged(id) \in Int
      BY <1>2, <1>7, SideScores
    <3> QED  BY <1>5, <2>2, <3>1
  <2> HIDE DEF stamps, ids
  <2>4. Leads(found, stamps, ids)
    BY <1>4, <2>1, <2>3, AheadIsBefore
  <2>5. /\ IsList(ids) /\ \A n \in DOMAIN ids : \E i \in DOMAIN found : ids[n] = found[i]
        /\ \A m, n \in DOMAIN ids : m < n => stamps[ids[m]] >= stamps[ids[n]]
    BY <2>4 DEF Leads
  <2>6. \A n \in DOMAIN ids : ids[n] \in DOMAIN documents /\ stamps[ids[n]] = Judged(ids[n])
    BY <1>5, <2>2, <2>5
  <2> QED  BY <2>5, <2>6
<1>10. ~search.rerank => ids = found
  OBVIOUS
<1>11. /\ DOMAIN results = DOMAIN ids
       /\ \A n \in DOMAIN ids : /\ results[n].id = ids[n]
                                /\ results[n].similarity = SimilarityOf(ids[n])
                                /\ search.rerank => results[n].stamp = Judged(ids[n])
  BY <1>6
<1> HIDE DEF results, ids, stamps
<1>12. /\ DOMAIN search' = DOMAIN search /\ search'.pc = "answered" /\ search'.query = search.query
       /\ search'.method = search.method /\ search'.rerank = search.rerank
       /\ search'.vector = search.vector /\ search'.keyword = search.keyword
       /\ search'.results = results
  BY <1>1, <1>2 DEF IdleSearch
<1>13. /\ Sided(search.vector, search.keyword)'
       /\ \A a, b : Dominates(a, b)' <=> Dominates(a, b)
       /\ \A id \in DOMAIN documents : Judged(id)' = Judged(id)
       /\ \A a, b \in DOMAIN documents : Tied(a, b)' <=> Tied(a, b)
  <2>1. RowsAreKept
    BY <1>1 DEF RowsAreKept
  <2> QED  BY <1>2, <1>12, <2>1, SidesStand
<1>14. \A n \in DOMAIN results : results[n].id \in DOMAIN documents
  BY <1>5, <1>9, <1>10, <1>11
<1>15. RankedByOwnScores'
  <2>0. PICK res : res = results
    OBVIOUS
  <2>1. CASE search.rerank
    <3>1. \A n \in DOMAIN res : res[n].stamp = Judged(res[n].id)'
      BY <1>11, <1>13, <1>14, <2>0, <2>1
    <3>2. \A m, n \in DOMAIN res : m < n => res[m].stamp >= res[n].stamp
      BY <1>9, <1>11, <2>0, <2>1
    <3> QED  BY <1>12, <2>0, <2>1, <3>1, <3>2 DEF RankedByOwnScores
  <2>2. CASE ~search.rerank
    <3>1. \A n \in DOMAIN res : \A id \in candidates :
             Dominates(id, res[n].id)' => \/ \E m \in 1 .. n - 1 : res[m].id = id
                                          \/ Tied(id, res[n].id)'
      <4> SUFFICES ASSUME NEW n \in DOMAIN res, NEW id \in candidates, Dominates(id, res[n].id)',
                          ~Tied(id, res[n].id)'
                   PROVE  \E m \in 1 .. n - 1 : res[m].id = id
        OBVIOUS
      <4>0. ~Tied(id, found[n])
        BY <1>3, <1>10, <1>11, <1>13, <1>14, <2>0, <2>2
      <4>1. n \in DOMAIN found /\ res[n].id = found[n] /\ Dominates(id, found[n])
        BY <1>10, <1>11, <1>13, <2>0, <2>2
      <4>2. PICK m \in 1 .. n - 1 : found[m] = id
        BY <1>4, <4>0, <4>1
      <4>3. m \in DOMAIN found
        BY <1>4, <4>1, <4>2 DEF IsList
      <4> QED  BY <1>10, <1>11, <2>0, <2>2, <4>2, <4>3
    <3>2. \A m, n \in DOMAIN res : m < n => res[m].similarity >= res[n].similarity
      BY <1>4, <1>10, <1>11, <2>0, <2>2
    <3> QED  BY <1>12, <2>0, <2>2, <3>1, <3>2 DEF RankedByOwnScores
  <2> QED  BY <2>1, <2>2
<1>16. SearchInv'
  BY <1>1, <1>2, <1>12, <1>13, <1>14, <1>15 DEF SearchInv
<1> QED  BY <1>8, <1>16 DEF FindInv

LEMMA FindSteps == RagInv /\ FindInv /\ [RagNext]_ragVars => FindInv'
<1> SUFFICES ASSUME RagInv, FindInv, [RagNext]_ragVars PROVE FindInv'
  OBVIOUS
<1>1. RowsAreKept
  BY DocumentsGrow
<1>2. CASE UNCHANGED <<search, scores>>
  BY <1>1, <1>2, SearchStands
<1>3. ASSUME NEW query \in Queries, NEW method \in Methods, NEW rerank \in BOOLEAN,
             BeginSearch(query, method, rerank)
      PROVE  FindInv'
  BY <1>3, BeginsSearch
<1>4. CASE VectorSearch \/ KeywordSearch \/ Retrieve
  BY <1>4, SearchesVectors, SearchesKeywords, Retrieves
<1> QED
  BY <1>2, <1>3, <1>4 DEF RagNext, ragVars, BeginIngest, KillIngest, CheckDuplicate, InsertDocument,
                          MirrorDocument, BeginListing, ListPage, reading

\* What a search returns is ranked by scores of its own, with whatever weight its sides are
\* blended, however they and the blend are rounded, and whatever rows are added meanwhile: a
\* reranked answer carries the model's scores for its query and is sorted by them, cached or
\* not; another is sorted by the similarity it shows, and a chunk that beats one of it on both
\* sides is there before it, but for two the vector side cannot tell apart that rounding or the
\* weight leaves even (rag/retrieval.py:retrieve, rag/rerank.py:Reranker.rerank).
THEOREM RankedAlways == RagSpec => []RankedByOwnScores
<1>1. RagInit => FindInv
  <2> SUFFICES ASSUME RagInit PROVE FindInv
    OBVIOUS
  <2>1. search = IdleSearch /\ scores = <<>>
    BY DEF RagInit
  <2>2. CacheInv
    BY <2>1, EmptyIsList DEF CacheInv
  <2>3. SearchInv
    BY <2>1 DEF SearchInv, IdleSearch
  <2> QED  BY <2>2, <2>3 DEF FindInv
<1>2. FindInv => RankedByOwnScores
  <2>1. SearchInv => (search.pc = "answered" => RankedByOwnScores)
    BY DEF SearchInv
  <2>2. search.pc # "answered" => RankedByOwnScores
    BY DEF RankedByOwnScores
  <2> QED  BY <2>1, <2>2 DEF FindInv
<1> QED  BY <1>1, <1>2, RagStarts, RagSteps, FindSteps, PTL DEF RagSpec
===============================================================================
