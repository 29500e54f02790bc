---------------------------- MODULE EvaluatorProofs ----------------------------
(***************************************************************************)
(* Proofs about Policy and Evaluator, for any categories, profiles,        *)
(* targets, accounts and clocks.                                           *)
(*                                                                         *)
(* Decisions compose by ladder maximum, so neither the order in which they *)
(* arrive nor the order in which the stages of one were applied matters    *)
(* (AnyOrder, a least number of stages for which it would).                *)
(* A verdict is therefore a function of what the evaluator is told: who is *)
(* blocked, denied or missed, and how many report or mute. That function   *)
(* is monotone, through thresholds, ladders, override and ceiling; what    *)
(* the steps may do to a verdict follows from what they do to the facts.   *)
(***************************************************************************)
EXTENDS Evaluator, FiniteSetTheorems, FunctionTheorems, WellFoundedInduction,
        TLAPS

(* An effect stands on its ladder where its severity says.                 *)
LEMMA SeverityType ==
  ASSUME NEW d \in Dimension, NEW e \in EffectsOf(d)
  PROVE  Severity(d, e) \in Nat /\ Ladder[d][Severity(d, e)] = e
<1>1. PICK i \in DOMAIN Ladder[d] : Ladder[d][i] = e
  BY DEF EffectsOf
<1>2. Severity(d, e) \in DOMAIN Ladder[d] /\ Ladder[d][Severity(d, e)] = e
  BY <1>1 DEF Severity, Rank
<1>3. DOMAIN Ladder[d] \subseteq Nat
  BY DEF Ladder, Dimension
<1> QED
  BY <1>2, <1>3

(* effectSeverity tells two effects of a dimension apart.                  *)
LEMMA SeverityInjective ==
  ASSUME NEW d \in Dimension, NEW e \in EffectsOf(d), NEW f \in EffectsOf(d),
         Severity(d, e) = Severity(d, f)
  PROVE  e = f
BY SeverityType

(* maxEffect answers one of its arguments, no more lenient than either.    *)
LEMMA MaxEffectUpper ==
  ASSUME NEW d \in Dimension, NEW e \in EffectsOf(d), NEW f \in EffectsOf(d)
  PROVE  /\ MaxEffect(d, e, f) \in EffectsOf(d)
         /\ Severity(d, e) <= Severity(d, MaxEffect(d, e, f))
         /\ Severity(d, f) <= Severity(d, MaxEffect(d, e, f))
BY SeverityType DEF MaxEffect

LEMMA MaxEffectCommutes ==
  ASSUME NEW d \in Dimension, NEW e \in EffectsOf(d), NEW f \in EffectsOf(d)
  PROVE  MaxEffect(d, e, f) = MaxEffect(d, f, e)
BY SeverityType, SeverityInjective DEF MaxEffect

LEMMA MaxEffectAssociates ==
  ASSUME NEW d \in Dimension,
         NEW e \in EffectsOf(d), NEW f \in EffectsOf(d), NEW g \in EffectsOf(d)
  PROVE  MaxEffect(d, MaxEffect(d, e, f), g) = MaxEffect(d, e, MaxEffect(d, f, g))
BY SeverityType DEF MaxEffect

LEMMA EffectsType ==
  ASSUME NEW e \in Effects, NEW d \in Dimension
  PROVE  e[d] \in EffectsOf(d)
BY DEF Effects, Dimension

(* composeDecisions gives the same whichever of two decisions comes first. *)
THEOREM ComposeCommutes ==
  ASSUME NEW a \in Decision, NEW b \in Decision
  PROVE  ComposeDecisions(a, b) = ComposeDecisions(b, a)
<1>1. Merged(a.effects, b.effects) = Merged(b.effects, a.effects)
  BY EffectsType, MaxEffectCommutes DEF Merged, Decision
<1>2. a.weight + b.weight = b.weight + a.weight
  BY DEF Decision
<1>3. (a.overridable /\ b.overridable) = (b.overridable /\ a.overridable)
  OBVIOUS
<1> QED
  BY <1>1, <1>2, <1>3 DEF ComposeDecisions

(* Nor does it matter which two of three decisions are composed first.     *)
THEOREM ComposeAssociates ==
  ASSUME NEW a \in Decision, NEW b \in Decision, NEW c \in Decision
  PROVE  ComposeDecisions(ComposeDecisions(a, b), c)
           = ComposeDecisions(a, ComposeDecisions(b, c))
<1>1. /\ a.effects \in Effects /\ b.effects \in Effects /\ c.effects \in Effects
      /\ a.weight \in Nat /\ b.weight \in Nat /\ c.weight \in Nat
  BY DEF Decision
<1>2. Merged(Merged(a.effects, b.effects), c.effects)
        = Merged(a.effects, Merged(b.effects, c.effects))
  <2>1. ASSUME NEW d \in Dimension
        PROVE  MaxEffect(d, Merged(a.effects, b.effects)[d], c.effects[d])
                 = MaxEffect(d, a.effects[d], Merged(b.effects, c.effects)[d])
    <3>1. /\ a.effects[d] \in EffectsOf(d) /\ b.effects[d] \in EffectsOf(d)
          /\ c.effects[d] \in EffectsOf(d)
      BY <1>1, EffectsType
    <3>2. /\ Merged(a.effects, b.effects)[d] = MaxEffect(d, a.effects[d], b.effects[d])
          /\ Merged(b.effects, c.effects)[d] = MaxEffect(d, b.effects[d], c.effects[d])
      BY DEF Merged
    <3> QED
      BY <3>1, <3>2, MaxEffectAssociates
  <2> QED
    BY <2>1 DEF Merged
<1>3. (a.weight + b.weight) + c.weight = a.weight + (b.weight + c.weight)
  BY <1>1
<1>4. ((a.overridable /\ b.overridable) /\ c.overridable)
        = (a.overridable /\ (b.overridable /\ c.overridable))
  OBVIOUS
<1> QED
  BY <1>2, <1>3, <1>4 DEF ComposeDecisions

-----------------------------------------------------------------------------
(* The strongest of a finite set of effects is one of them and no more     *)
(* lenient than any.                                                       *)
LEMMA StrongestExists ==
  ASSUME NEW d \in Dimension, NEW S \in SUBSET EffectsOf(d), S # {}
  PROVE  /\ Strongest(d, S) \in S
         /\ \A f \in S : Severity(d, f) <= Severity(d, Strongest(d, S))
<1>1. \A e \in EffectsOf(d) : Severity(d, e) \in 1..5
  <2>1. ASSUME NEW e \in EffectsOf(d) PROVE Severity(d, e) \in 1..5
    <3>1. PICK i \in DOMAIN Ladder[d] : Ladder[d][i] = e
      BY DEF EffectsOf
    <3>2. Severity(d, e) \in DOMAIN Ladder[d]
      BY <3>1 DEF Severity, Rank
    <3>3. DOMAIN Ladder[d] \subseteq 1..5
      BY DEF Ladder, Dimension
    <3> QED
      BY <3>2, <3>3
  <2> QED
    BY <2>1
<1> DEFINE Has(n) == \E e \in S : Severity(d, e) = n
<1>2. \E n \in 1..5 : Has(n) /\ \A m \in 1..5 : m > n => ~Has(m)
  <2>1. Has(1) \/ Has(2) \/ Has(3) \/ Has(4) \/ Has(5)
    BY <1>1
  <2> HIDE DEF Has
  <2> QED
    BY <2>1
<1>3. PICK e \in S : \A f \in S : Severity(d, f) <= Severity(d, e)
  BY <1>1, <1>2
<1> QED
  BY <1>3 DEF Strongest
(* Nothing was applied: createNeutralDecision.                             *)
THEOREM NothingAccumulated == Accumulated[{}] = NeutralDecision
<1>1. ASSUME NEW d \in Dimension PROVE Strongest(d, {NoEffects[d]}) = NoEffects[d]
  BY <1>1, StrongestExists DEF NoEffects, EffectsOf, Ladder, Dimension
<1>2. \A d \in Dimension : {NoEffects[d]} \cup {s[2][d] : s \in {}} = {NoEffects[d]}
  OBVIOUS
<1>3. {s \in {} : s[2].ranking = "downrank"} = {}
  OBVIOUS
<1>4. Cardinality({}) = 0
  BY FS_EmptySet
<1>5. [d \in Dimension |-> Strongest(d, {NoEffects[d]} \cup {s[2][d] : s \in {}})] = NoEffects
  BY <1>1, <1>2 DEF NoEffects
<1> QED
  BY <1>3, <1>4, <1>5 DEF Accumulated, NeutralDecision

(* What a set of stages amounts to is what applyEffects makes of the       *)
(* others' decision, whichever of them it applies last: a verdict can be   *)
(* the accumulation of its stages' set.                                    *)
THEOREM StageOrder ==
  ASSUME NEW stages \in SUBSET (Stage \X Effects), IsFiniteSet(stages),
         NEW s \in Stage \X Effects, s \notin stages
  PROVE  Accumulated[stages \cup {s}] = ApplyEffects(Accumulated[stages], s[2])
<1> DEFINE Seen(d, T) == {NoEffects[d]} \cup {t[2][d] : t \in T}
           Down(T) == {t \in T : t[2].ranking = "downrank"}
<1>1. \A d \in Dimension, T \in SUBSET (Stage \X Effects) : Seen(d, T) \subseteq EffectsOf(d)
  <2>1. ASSUME NEW d \in Dimension, NEW T \in SUBSET (Stage \X Effects), NEW t \in T
        PROVE  t[2][d] \in EffectsOf(d)
    <3>1. t[2] \in Effects
      OBVIOUS
    <3> QED
      BY <3>1, EffectsType
  <2>2. \A d \in Dimension : NoEffects[d] \in EffectsOf(d)
    BY DEF NoEffects, EffectsOf, Ladder, Dimension
  <2> QED
    BY <2>1, <2>2
<1>2. ASSUME NEW d \in Dimension
      PROVE  Strongest(d, Seen(d, stages \cup {s}))
               = MaxEffect(d, Strongest(d, Seen(d, stages)), s[2][d])
  <2> DEFINE All == Seen(d, stages \cup {s})
             Old == Seen(d, stages)
  <2>1. All = Old \cup {s[2][d]}
    OBVIOUS
  <2>2. All \subseteq EffectsOf(d) /\ Old \subseteq EffectsOf(d) /\ Old # {} /\ All # {}
    BY <1>1
  <2> HIDE DEF All, Old
  <2>3. /\ Strongest(d, All) \in All
        /\ \A f \in All : Severity(d, f) <= Severity(d, Strongest(d, All))
    BY <2>2, StrongestExists
  <2>4. /\ Strongest(d, Old) \in Old
        /\ \A f \in Old : Severity(d, f) <= Severity(d, Strongest(d, Old))
    BY <2>2, StrongestExists
  <2> DEFINE m == MaxEffect(d, Strongest(d, Old), s[2][d])
  <2>5. m \in All
    BY <2>1, <2>4 DEF MaxEffect
  <2>6. /\ Severity(d, Strongest(d, Old)) <= Severity(d, m)
        /\ Severity(d, s[2][d]) <= Severity(d, m)
    BY <2>1, <2>2, <2>4, MaxEffectUpper
  <2> HIDE DEF m
  <2>7. \A f \in All : Severity(d, f) \in Nat
    BY <2>2, SeverityType
  <2>8. \A f \in All : Severity(d, f) <= Severity(d, m)
    BY <2>1, <2>4, <2>5, <2>6, <2>7
  <2>9. Severity(d, m) = Severity(d, Strongest(d, All))
    BY <2>3, <2>5, <2>7, <2>8
  <2>10. Strongest(d, All) = m
    BY <2>2, <2>3, <2>5, <2>9, SeverityInjective
  <2> QED
    BY <2>10 DEF m, All, Old
<1>3. Cardinality(Down(stages \cup {s}))
        = IF s[2].ranking = "downrank" THEN Cardinality(Down(stages)) + 1
                                       ELSE Cardinality(Down(stages))
  <2>1. IsFiniteSet(Down(stages)) /\ s \notin Down(stages)
    BY FS_Subset
  <2>2. CASE s[2].ranking = "downrank"
    <3>1. Down(stages \cup {s}) = Down(stages) \cup {s}
      BY <2>2
    <3> HIDE DEF Down
    <3> QED
      BY <2>1, <2>2, <3>1, FS_AddElement
  <2>3. CASE s[2].ranking # "downrank"
    <3>1. Down(stages \cup {s}) = Down(stages)
      BY <2>3
    <3> QED
      BY <2>3, <3>1
  <2> QED
    BY <2>2, <2>3
<1>4. \A T \in SUBSET (Stage \X Effects) :
        Accumulated[T] = [ effects |-> [d \in Dimension |-> Strongest(d, Seen(d, T))],
                           weight |-> Cardinality(Down(T)), overridable |-> TRUE ]
  BY DEF Accumulated
<1>5. stages \cup {s} \in SUBSET (Stage \X Effects)
  OBVIOUS
<1>6. [d \in Dimension |-> Strongest(d, Seen(d, stages \cup {s}))]
        = Merged([d \in Dimension |-> Strongest(d, Seen(d, stages))], s[2])
  BY <1>2 DEF Merged
<1> HIDE DEF Seen, Down
<1>7. ApplyEffects(Accumulated[stages], s[2])
        = [ effects |-> Merged([d \in Dimension |-> Strongest(d, Seen(d, stages))], s[2]),
            weight |-> IF s[2].ranking = "downrank" THEN Cardinality(Down(stages)) + 1
                                                    ELSE Cardinality(Down(stages)),
            overridable |-> TRUE ]
  <2>1. /\ Accumulated[stages].effects = [d \in Dimension |-> Strongest(d, Seen(d, stages))]
        /\ Accumulated[stages].weight = Cardinality(Down(stages))
        /\ Accumulated[stages].overridable = TRUE
    <3> DEFINE e == [d \in Dimension |-> Strongest(d, Seen(d, stages))]
               w == Cardinality(Down(stages))
    <3>1. Accumulated[stages] = [effects |-> e, weight |-> w, overridable |-> TRUE]
      BY <1>4
    <3>2. \A x, y : /\ [effects |-> x, weight |-> y, overridable |-> TRUE].effects = x
                    /\ [effects |-> x, weight |-> y, overridable |-> TRUE].weight = y
                    /\ [effects |-> x, weight |-> y, overridable |-> TRUE].overridable = TRUE
      OBVIOUS
    <3> HIDE DEF e, w
    <3>3. /\ Accumulated[stages].effects = e /\ Accumulated[stages].weight = w
          /\ Accumulated[stages].overridable = TRUE
      BY <3>1, <3>2
    <3> QED
      BY <3>3 DEF e, w
  <2> QED
    BY <2>1 DEF ApplyEffects
<1>8. Accumulated[stages \cup {s}]
        = [ effects |-> [d \in Dimension |-> Strongest(d, Seen(d, stages \cup {s}))],
            weight |-> Cardinality(Down(stages \cup {s})), overridable |-> TRUE ]
  BY <1>4, <1>5
<1> QED
  BY <1>3, <1>6, <1>7, <1>8

(* Where a property of the numbers to n begins to fail, if it does.        *)
LEMMA FirstFailure ==
  ASSUME NEW n \in Nat, NEW Bad \in SUBSET (0..n), Bad # {}
  PROVE  \E m \in Bad : \A k \in 0..(m - 1) : k \notin Bad
<1> DEFINE F == {0..m : m \in Bad}
<1>1. F \subseteq FiniteSubsetsOf(0..n) /\ F # {}
  <2>1. ASSUME NEW m \in Bad PROVE 0..m \subseteq 0..n /\ IsFiniteSet(0..m)
    BY FS_Interval
  <2> QED
    BY <2>1 DEF FiniteSubsetsOf
<1>2. PICK U \in F : \A V \in F : << V, U >> \notin StrictSubsetOrdering(0..n)
  <2> HIDE DEF F
  <2> QED
    BY <1>1, FS_Interval, FS_StrictSubsetOrderingWellFounded, WFMin
<1>3. PICK m \in Bad : U = 0..m
  OBVIOUS
<1>4. ASSUME NEW k \in 0..(m - 1), k \in Bad PROVE FALSE
  <2>1. 0..k \in F
    BY <1>4
  <2>2. 0..k \subseteq 0..m /\ 0..m \subseteq 0..n /\ m \in 0..m /\ m \notin 0..k
    BY <1>4
  <2>3. << 0..k, U >> \in StrictSubsetOrdering(0..n)
    BY <1>3, <2>2 DEF StrictSubsetOrdering
  <2> QED
    BY <1>2, <2>1, <2>3
<1> QED
  BY <1>4

(* Whatever the order in which finitely many stages are applied to the     *)
(* neutral decision, they come to what their set accumulates. The code has *)
(* an order, block to reports and categories as they are found, and the    *)
(* model has none (evaluator.js:310-450).                                  *)
THEOREM AnyOrder ==
  ASSUME NEW n \in Nat, NEW order \in [1..n -> Stage \X Effects],
         \A i, j \in 1..n : order[i] = order[j] => i = j,
         NEW decision, decision[0] = NeutralDecision,
         \A i \in 1..n : decision[i] = ApplyEffects(decision[i - 1], order[i][2])
  PROVE  decision[n] = Accumulated[{order[i] : i \in 1..n}]
<1> DEFINE Applied(m) == {order[i] : i \in 1..m}
           Right(m) == decision[m] = Accumulated[Applied(m)]
<1>1. Right(0)
  <2>1. 1..0 = {}
    OBVIOUS
  <2>2. Applied(0) = {}
    BY <2>1
  <2> QED
    BY <2>2, NothingAccumulated
<1>2. ASSUME NEW m \in 1..n, Right(m - 1) PROVE Right(m)
  <2>1. 1..m = (1..(m - 1)) \cup {m} /\ m \notin 1..(m - 1) /\ 1..m \subseteq 1..n
    OBVIOUS
  <2>2. \A i \in 1..m : order[i] \in Stage \X Effects
    BY <2>1
  <2>3. \A i \in 1..(m - 1) : order[i] # order[m]
    BY <2>1
  <2>4. Applied(m - 1) \in SUBSET (Stage \X Effects) /\ order[m] \notin Applied(m - 1)
    BY <2>1, <2>2, <2>3
  <2>5. Applied(m) = Applied(m - 1) \cup {order[m]}
    BY <2>1
  <2>6. IsFiniteSet(Applied(m - 1))
    <3> DEFINE f == [i \in 1..(m - 1) |-> order[i]]
    <3>1. f \in Surjection(1..(m - 1), Applied(m - 1))
      BY DEF Surjection
    <3> HIDE DEF f, Applied
    <3> QED
      BY <3>1, FS_Interval, FS_Surjection
  <2> HIDE DEF Applied
  <2>7. order[m] \in Stage \X Effects
    BY <2>1, <2>2
  <2>8. Accumulated[Applied(m)] = ApplyEffects(Accumulated[Applied(m - 1)], order[m][2])
    <3> DEFINE T == Applied(m - 1)
               s == order[m]
    <3>1. /\ T \in SUBSET (Stage \X Effects) /\ IsFiniteSet(T)
          /\ s \in Stage \X Effects /\ s \notin T
      BY <2>4, <2>6, <2>7
    <3> HIDE DEF T, s
    <3>2. Accumulated[T \cup {s}] = ApplyEffects(Accumulated[T], s[2])
      BY <3>1, StageOrder
    <3> QED
      BY <2>5, <3>2 DEF T, s
  <2>9. decision[m] = ApplyEffects(decision[m - 1], order[m][2])
    OBVIOUS
  <2> QED
    BY <1>2, <2>8, <2>9
<1> HIDE DEF Right
<1>3. ASSUME NEW m \in 0..n, ~Right(m) PROVE FALSE
  <2> DEFINE Bad == {k \in 0..n : ~Right(k)}
  <2>1. Bad \in SUBSET (0..n) /\ Bad # {}
    BY <1>3
  <2>2. PICK k \in Bad : \A i \in 0..(k - 1) : i \notin Bad
    BY <2>1, FirstFailure
  <2>3. k \in 1..n /\ k - 1 \in 0..(k - 1) /\ k - 1 \in 0..n
    BY <1>1
  <2>4. Right(k - 1) /\ ~Right(k)
    BY <2>2, <2>3
  <2> QED
    BY <1>2, <2>3, <2>4
<1>4. Right(n)
  BY <1>3
<1> QED
  BY <1>4 DEF Right

-----------------------------------------------------------------------------
(* An effect in each dimension. *)
LEMMA EffectsMade ==
  ASSUME NEW e, e = [d \in Dimension |-> e[d]], \A d \in Dimension : e[d] \in EffectsOf(d)
  PROVE  e \in Effects
<1>1. e = [ ranking |-> e["ranking"], visibility |-> e["visibility"],
            interaction |-> e["interaction"], transaction |-> e["transaction"] ]
  BY DEF Dimension
<1> QED
  BY <1>1 DEF Effects, Dimension

LEMMA NoEffectsType == NoEffects \in Effects /\ HideAndDeny \in Effects
<1>1. NoEffects \in Effects
  <2>1. \A d \in Dimension : NoEffects[d] \in EffectsOf(d)
    BY DEF NoEffects, EffectsOf, Ladder, Dimension
  <2>2. NoEffects = [d \in Dimension |-> NoEffects[d]]
    BY DEF NoEffects
  <2> QED
    BY <2>1, <2>2, EffectsMade
<1>2. "hide" \in EffectsOf("visibility") /\ "deny" \in EffectsOf("interaction")
  BY DEF EffectsOf, Ladder
<1> QED
  BY <1>1, <1>2 DEF HideAndDeny, Effects

(* What fires in a dimension is of that dimension's ladder. *)
LEMMA ReachedType ==
  ASSUME NEW d \in Dimension, NEW n \in Nat, NEW t \in CategoryThresholds
  PROVE  /\ {NoEffects[d]} \cup Reached(d, n, t) \subseteq EffectsOf(d)
         /\ {NoEffects[d]} \cup Reached(d, n, t) # {}
<1>1. ASSUME NEW g \in Gate, GateEffect[g][1] = d
      PROVE  GateEffect[g][2] \in EffectsOf(d)
  BY <1>1 DEF Gate, GateEffect, EffectsOf, Ladder, Dimension
<1>2. NoEffects[d] \in EffectsOf(d)
  BY NoEffectsType, EffectsType
<1> QED
  BY <1>1, <1>2 DEF Reached, FiredGates

LEMMA ThresholdsType ==
  ASSUME NEW n \in Nat, NEW t \in CategoryThresholds
  PROVE  ApplyThresholds[t][n] \in Effects
<1> DEFINE Fired(d) == {NoEffects[d]} \cup Reached(d, n, t)
<1>1. ApplyThresholds[t][n] = [d \in Dimension |-> Strongest(d, Fired(d))]
  BY DEF ApplyThresholds
<1>2. \A d \in Dimension : Fired(d) \subseteq EffectsOf(d) /\ Fired(d) # {}
  BY ReachedType
<1>3. \A d \in Dimension : Strongest(d, Fired(d)) \in EffectsOf(d)
  BY <1>2, StrongestExists
<1> HIDE DEF Fired
<1> QED
  BY <1>1, <1>3, EffectsMade

(* A larger count fires no fewer gates. *)
LEMMA ThresholdsMonotone ==
  ASSUME NEW m \in Nat, NEW n \in Nat, m <= n, NEW t \in CategoryThresholds
  PROVE  AtMost(ApplyThresholds[t][m], ApplyThresholds[t][n])
<1> DEFINE Fired(d, i) == {NoEffects[d]} \cup Reached(d, i, t)
<1>1. \A i \in Nat : ApplyThresholds[t][i] = [d \in Dimension |-> Strongest(d, Fired(d, i))]
  BY DEF ApplyThresholds
<1>2. \A d \in Dimension, i \in Nat : Fired(d, i) \subseteq EffectsOf(d) /\ Fired(d, i) # {}
  BY ReachedType
<1>3. FiredGates(m, t) \subseteq FiredGates(n, t)
  BY DEF FiredGates, CategoryThresholds
<1>4. \A d \in Dimension : Fired(d, m) \subseteq Fired(d, n)
  BY <1>3 DEF Reached
<1> HIDE DEF Fired
<1>5. \A d \in Dimension : Severity(d, Strongest(d, Fired(d, m)))
                            <= Severity(d, Strongest(d, Fired(d, n)))
  BY <1>2, <1>4, StrongestExists
<1> QED
  BY <1>1, <1>5 DEF AtMost

(* Finitely many stages make a decision. *)
LEMMA AccumulatedType ==
  ASSUME NEW S \in SUBSET (Stage \X Effects), IsFiniteSet(S)
  PROVE  /\ Accumulated[S] \in Decision
         /\ Accumulated[S].overridable = TRUE
<1> DEFINE Seen(d) == {NoEffects[d]} \cup {s[2][d] : s \in S}
           Down == {s \in S : s[2].ranking = "downrank"}
           Eff == [d \in Dimension |-> Strongest(d, Seen(d))]
<1>1. Accumulated[S] = [effects |-> Eff, weight |-> Cardinality(Down), overridable |-> TRUE]
  BY DEF Accumulated
<1>2. Cardinality(Down) \in Nat
  BY FS_Subset, FS_CardinalityType
<1>3. ASSUME NEW d \in Dimension
      PROVE  Seen(d) \subseteq EffectsOf(d) /\ Seen(d) # {}
  <2>1. \A s \in S : s[2][d] \in EffectsOf(d)
    BY EffectsType
  <2> QED
    BY <2>1, NoEffectsType, EffectsType
<1>4. Eff \in Effects
  <2>1. \A d \in Dimension : Strongest(d, Seen(d)) \in EffectsOf(d)
    BY <1>3, StrongestExists
  <2> HIDE DEF Seen
  <2> QED
    BY <2>1, EffectsMade
<1> HIDE DEF Eff, Down
<1> QED
  BY <1>1, <1>2, <1>4 DEF Decision

(* Where each stage has its like that is no weaker, the whole is no softer:*)
(* neither its effects nor its weight, which counts the downranking ones.  *)
LEMMA AccumulatedMonotone ==
  ASSUME NEW S \in SUBSET (Stage \X Effects), IsFiniteSet(S),
         NEW T \in SUBSET (Stage \X Effects), IsFiniteSet(T),
         \A x, y \in S : x[1] = y[1] => x = y,
         \A x \in S : \E y \in T : x[1] = y[1] /\ AtMost(x[2], y[2])
  PROVE  << Accumulated[S], Accumulated[T] >> \in NoSofter(Dimension)
<1> DEFINE Seen(U, d) == {NoEffects[d]} \cup {s[2][d] : s \in U}
           Down(U) == {s \in U : s[2].ranking = "downrank"}
<1>1. \A U \in SUBSET (Stage \X Effects) :
        Accumulated[U] = [ effects |-> [d \in Dimension |-> Strongest(d, Seen(U, d))],
                           weight |-> Cardinality(Down(U)), overridable |-> TRUE ]
  BY DEF Accumulated
<1>2. ASSUME NEW d \in Dimension, NEW U \in SUBSET (Stage \X Effects)
      PROVE  Seen(U, d) \subseteq EffectsOf(d) /\ Seen(U, d) # {}
  <2>1. \A s \in U : s[2][d] \in EffectsOf(d)
    BY EffectsType
  <2> QED
    BY <2>1, NoEffectsType, EffectsType
<1>3. ASSUME NEW d \in Dimension
      PROVE  Severity(d, Strongest(d, Seen(S, d))) <= Severity(d, Strongest(d, Seen(T, d)))
  <2>1. \A e \in Seen(S, d) : \E f \in Seen(T, d) : Severity(d, e) <= Severity(d, f)
    <3>1. ASSUME NEW x \in S
          PROVE  \E f \in Seen(T, d) : Severity(d, x[2][d]) <= Severity(d, f)
      <4>1. PICK y \in T : x[1] = y[1] /\ AtMost(x[2], y[2])
        OBVIOUS
      <4> QED
        BY <4>1 DEF AtMost
    <3>2. Severity(d, NoEffects[d]) <= Severity(d, NoEffects[d])
      BY NoEffectsType, EffectsType, SeverityType
    <3> QED
      BY <3>1, <3>2
  <2>2. \A e \in EffectsOf(d) : Severity(d, e) \in Nat
    BY SeverityType
  <2>3. /\ Strongest(d, Seen(S, d)) \in Seen(S, d)
        /\ Strongest(d, Seen(T, d)) \in Seen(T, d)
        /\ \A f \in Seen(T, d) : Severity(d, f) <= Severity(d, Strongest(d, Seen(T, d)))
    BY <1>2, StrongestExists
  <2>4. Seen(S, d) \subseteq EffectsOf(d) /\ Seen(T, d) \subseteq EffectsOf(d)
    BY <1>2
  <2> HIDE DEF Seen
  <2> QED
    BY <2>1, <2>2, <2>3, <2>4
<1>4. Cardinality(Down(S)) <= Cardinality(Down(T))
  <2> DEFINE mate == [x \in Down(S) |-> CHOOSE y \in T : x[1] = y[1] /\ AtMost(x[2], y[2])]
  <2>1. ASSUME NEW x \in Down(S)
        PROVE  mate[x] \in Down(T) /\ mate[x][1] = x[1]
    <3>1. mate[x] \in T /\ x[1] = mate[x][1] /\ AtMost(x[2], mate[x][2])
      OBVIOUS
    <3>2. /\ x[2]["ranking"] = "downrank" /\ mate[x][2]["ranking"] \in EffectsOf("ranking")
          /\ Severity("ranking", x[2]["ranking"]) <= Severity("ranking", mate[x][2]["ranking"])
      BY <3>1, EffectsType DEF AtMost, Dimension
    <3>3. Severity("ranking", "downrank") = 2 /\ Severity("ranking", "normal") = 1
      BY DEF Severity, Rank, EffectsOf, Ladder, Dimension
    <3>4. mate[x][2]["ranking"] = "downrank"
      BY <3>2, <3>3 DEF EffectsOf, Ladder
    <3> QED
      BY <3>1, <3>4
  <2>2. mate \in Injection(Down(S), Down(T))
    <3>1. mate \in [Down(S) -> Down(T)]
      BY <2>1
    <3>2. ASSUME NEW x \in Down(S), NEW y \in Down(S), mate[x] = mate[y]
          PROVE  x = y
      <4>1. x[1] = y[1]
        BY <2>1, <3>2
      <4> QED
        BY <4>1
    <3> HIDE DEF mate, Down
    <3> QED
      BY <3>1, <3>2 DEF Injection, IsInjective
  <2>3. IsFiniteSet(Down(T))
    BY FS_Subset
  <2> HIDE DEF mate, Down
  <2> QED
    BY <2>2, <2>3, FS_Injection
<1>5. Accumulated[S] \in Decision /\ Accumulated[T] \in Decision
  BY AccumulatedType
<1> DEFINE ES == [d \in Dimension |-> Strongest(d, Seen(S, d))]
           ET == [d \in Dimension |-> Strongest(d, Seen(T, d))]
<1>6. \A d \in Dimension : Severity(d, ES[d]) <= Severity(d, ET[d])
  BY <1>3
<1>7. /\ Accumulated[S].effects = ES /\ Accumulated[S].weight = Cardinality(Down(S))
      /\ Accumulated[T].effects = ET /\ Accumulated[T].weight = Cardinality(Down(T))
  <2>1. /\ Accumulated[S] = [effects |-> ES, weight |-> Cardinality(Down(S)), overridable |-> TRUE]
        /\ Accumulated[T] = [effects |-> ET, weight |-> Cardinality(Down(T)), overridable |-> TRUE]
    BY <1>1
  <2> HIDE DEF ES, ET, Down
  <2> QED
    BY <2>1
<1> HIDE DEF ES, ET, Down
<1> QED
  BY <1>4, <1>5, <1>6, <1>7 DEF NoSofter

-----------------------------------------------------------------------------
(* The verdict as a function of what a profile is told: who is blocked,    *)
(* denied or missed, and the counts.                                       *)
Normal == {NormalizePolicyProfile(p) : p \in Profiles}

Told ==
  [ block : BOOLEAN, denial : BOOLEAN, allowlist : BOOLEAN, all : Nat,
    mutes : [Category -> Nat], reports : [Category -> Nat] ]

If(condition, effects) == IF condition THEN Given(effects) ELSE NoEffects

StagesOf(p, t) ==
  { << << "block", "all" >>, If(t.block, p.viewerBlock) >>,
    << << "denial", "all" >>, If(t.denial, p.administrativeDeny) >>,
    << << "allowlist", "all" >>, If(t.allowlist, p.allowlistMiss) >>,
    << << "mutes", "all" >>, ApplyThresholds[ResolveThresholds(p.mutes, "default")][t.all] >> }
  \cup
  { << << "mutes", c >>, ApplyThresholds[p.mutes[c]][t.mutes[c]] >> :
      c \in Category \cap DOMAIN p.mutes }
  \cup
  { << << "reports", c >>, ApplyThresholds[ResolveThresholds(p.reports, c)][t.reports[c]] >> :
      c \in Category }

(* One is told no less than the other. *)
NoLess(t, u) ==
  /\ (t.block => u.block) /\ (t.denial => u.denial) /\ (t.allowlist => u.allowlist)
  /\ t.all <= u.all
  /\ \A c \in Category : t.mutes[c] <= u.mutes[c] /\ t.reports[c] <= u.reports[c]

(* A normalised profile. *)
LEMMA NormalType ==
  ASSUME NEW p \in Normal
  PROVE  /\ p.administrativeDeny \in Effects /\ p.viewerBlock \in Effects
         /\ p.allowlistMiss \in Effects
         /\ p.requireAllowlist \in BOOLEAN /\ p.allowViewerOverride \in BOOLEAN
         /\ p.bypassHide \in BOOLEAN /\ p.disabled \in BOOLEAN
         /\ p.bypassHideCeiling \in Ceiling
         /\ IsTable(p.reports) /\ IsTable(p.mutes) /\ p.muteWindowSeconds \in Nat
<1>1. PICK q \in Profiles : p = NormalizePolicyProfile(q)
  BY DEF Normal
<1>2. IsProfile(q)
  BY ProfileAssumption
<1>3. \A e \in Effects \cup {NotGiven} : NormalizedEffects(e) \in Effects
  BY NoEffectsType DEF NormalizedEffects
<1>4. /\ p.administrativeDeny = NormalizedEffects(q.administrativeDeny)
      /\ p.viewerBlock = NormalizedEffects(q.viewerBlock)
      /\ p.allowlistMiss = NormalizedEffects(q.allowlistMiss)
      /\ p.bypassHideCeiling \in {q.bypassHideCeiling, "restrict"}
      /\ p.requireAllowlist = q.requireAllowlist
      /\ p.allowViewerOverride = q.allowViewerOverride
      /\ p.bypassHide = q.bypassHide /\ p.disabled = q.disabled
      /\ p.reports = q.reports /\ p.mutes = q.mutes
      /\ p.muteWindowSeconds = q.muteWindowSeconds
  BY <1>1, <1>2 DEF NormalizePolicyProfile, IsProfile
<1>5. "restrict" \in Ceiling
  BY DEF Ceiling, EffectsOf, Ladder
<1> QED
  BY <1>2, <1>3, <1>4, <1>5 DEF IsProfile

(* resolveThresholds finds thresholds, or none. *)
LEMMA ResolvedType ==
  ASSUME NEW t, IsTable(t), NEW c
  PROVE  ResolveThresholds(t, c) \in CategoryThresholds
BY DEF ResolveThresholds, IsTable, NoThresholds, CategoryThresholds

LEMMA IfType ==
  ASSUME NEW b \in BOOLEAN, NEW e \in Effects
  PROVE  If(b, e) \in Effects
BY NoEffectsType DEF If, Given

(* Finitely many stages, each with effects of its own. *)
LEMMA StagesType ==
  ASSUME NEW p \in Normal, NEW t \in Told
  PROVE  /\ StagesOf(p, t) \in SUBSET (Stage \X Effects)
         /\ IsFiniteSet(StagesOf(p, t))
         /\ \A x, y \in StagesOf(p, t) : x[1] = y[1] => x = y
<1> DEFINE Mute(c) == ApplyThresholds[p.mutes[c]][t.mutes[c]]
           Reports(c) == ApplyThresholds[ResolveThresholds(p.reports, c)][t.reports[c]]
           All == ApplyThresholds[ResolveThresholds(p.mutes, "default")][t.all]
           Muting1 == Category \cap DOMAIN p.mutes
           A == { << << "block", "all" >>, If(t.block, p.viewerBlock) >>,
                  << << "denial", "all" >>, If(t.denial, p.administrativeDeny) >>,
                  << << "allowlist", "all" >>, If(t.allowlist, p.allowlistMiss) >>,
                  << << "mutes", "all" >>, All >> }
           B == {<< << "mutes", c >>, Mute(c) >> : c \in Muting1}
           C == {<< << "reports", c >>, Reports(c) >> : c \in Category}
<1>1. StagesOf(p, t) = A \cup B \cup C
  BY DEF StagesOf
<1>2. All \in Effects
  BY NormalType, ResolvedType, ThresholdsType DEF Told
<1>3. \A c \in Muting1 : Mute(c) \in Effects
  <2>1. ASSUME NEW c \in Muting1 PROVE Mute(c) \in Effects
    <3>1. p.mutes[c] \in CategoryThresholds
      BY NormalType DEF IsTable
    <3>2. t.mutes[c] \in Nat
      BY DEF Told
    <3> QED
      BY <3>1, <3>2, ThresholdsType
  <2> QED
    BY <2>1
<1>4. \A c \in Category : Reports(c) \in Effects
  <2>1. ASSUME NEW c \in Category PROVE Reports(c) \in Effects
    <3>1. ResolveThresholds(p.reports, c) \in CategoryThresholds
      BY NormalType, ResolvedType
    <3>2. t.reports[c] \in Nat
      BY DEF Told
    <3> QED
      BY <3>1, <3>2, ThresholdsType
  <2> QED
    BY <2>1
<1>5. /\ If(t.block, p.viewerBlock) \in Effects /\ If(t.denial, p.administrativeDeny) \in Effects
      /\ If(t.allowlist, p.allowlistMiss) \in Effects
  BY NormalType, IfType DEF Told
<1>6. IsFiniteSet(Muting1) /\ IsFiniteSet(Category)
  BY CategoryAssumption, FS_Subset
<1> HIDE DEF Mute, Reports, All
<1>7. IsFiniteSet(A)
  <2>1. \A v, w, x, y : IsFiniteSet({v, w, x, y})
    <3>1. ASSUME NEW v, NEW w, NEW x, NEW y PROVE IsFiniteSet({v, w, x, y})
      <4>1. IsFiniteSet((({v} \cup {w}) \cup {x}) \cup {y})
        <5>1. IsFiniteSet({v})
          BY FS_Singleton
        <5>2. IsFiniteSet({v} \cup {w})
          BY <5>1, FS_AddElement
        <5>3. IsFiniteSet(({v} \cup {w}) \cup {x})
          BY <5>2, FS_AddElement
        <5> QED
          BY <5>3, FS_AddElement
      <4>2. {v, w, x, y} = (({v} \cup {w}) \cup {x}) \cup {y}
        OBVIOUS
      <4> QED
        BY <4>1, <4>2
    <3> QED
      BY <3>1
  <2> QED
    BY <2>1
<1> HIDE DEF Muting1
<1>8. IsFiniteSet(B) /\ IsFiniteSet(C)
  <2>1. ASSUME NEW f, NEW D, IsFiniteSet(D), NEW k
        PROVE  IsFiniteSet({<< << k, c >>, f[c] >> : c \in D})
    <3> DEFINE image == {<< << k, c >>, f[c] >> : c \in D}
               g == [c \in D |-> << << k, c >>, f[c] >>]
    <3>1. g \in Surjection(D, image)
      <4>1. g \in [D -> image]
        OBVIOUS
      <4>2. \A i \in image : \E c \in D : g[c] = i
        OBVIOUS
      <4> HIDE DEF g, image
      <4> QED
        BY <4>1, <4>2 DEF Surjection
    <3> HIDE DEF g, image
    <3>2. IsFiniteSet(image)
      BY <2>1, <3>1, FS_Surjection
    <3> QED
      BY <3>2 DEF image
  <2>2. /\ B = {<< << "mutes", c >>, [e \in Muting1 |-> Mute(e)][c] >> : c \in Muting1}
        /\ C = {<< << "reports", c >>, [e \in Category |-> Reports(e)][c] >> : c \in Category}
    OBVIOUS
  <2>3. IsFiniteSet({<< << "mutes", c >>, [e \in Muting1 |-> Mute(e)][c] >> : c \in Muting1})
    BY <1>6, <2>1
  <2>4. IsFiniteSet({<< << "reports", c >>, [e \in Category |-> Reports(e)][c] >> : c \in Category})
    BY <1>6, <2>1
  <2> QED
    BY <2>2, <2>3, <2>4
<1>9. A \subseteq Stage \X Effects /\ B \subseteq Stage \X Effects /\ C \subseteq Stage \X Effects
  BY <1>2, <1>3, <1>4, <1>5 DEF Stage, Muting1
<1>10. \A x, y \in A \cup B \cup C : x[1] = y[1] => x = y
  <2>1. ASSUME NEW x \in A, NEW y \in A, x[1] = y[1] PROVE x = y
    BY <2>1
  <2>2. ASSUME NEW x \in A, NEW y \in B PROVE x[1] # y[1]
    BY CategoryAssumption DEF Muting1
  <2>3. ASSUME NEW x \in A, NEW y \in C PROVE x[1] # y[1]
    BY CategoryAssumption
  <2>4. ASSUME NEW x \in B, NEW y \in C PROVE x[1] # y[1]
    OBVIOUS
  <2>5. ASSUME NEW x \in B, NEW y \in B, x[1] = y[1] PROVE x = y
    BY <2>5
  <2>6. ASSUME NEW x \in C, NEW y \in C, x[1] = y[1] PROVE x = y
    BY <2>6
  <2> HIDE DEF A, B, C
  <2> QED
    BY <2>1, <2>2, <2>3, <2>4, <2>5, <2>6
<1> HIDE DEF A, B, C
<1>11. IsFiniteSet((A \cup B) \cup C)
  BY <1>7, <1>8, FS_Union
<1> QED
  BY <1>1, <1>9, <1>10, <1>11

(* More that counts, or more of it, makes every stage no weaker. *)
LEMMA StagesMonotone ==
  ASSUME NEW p \in Normal, NEW t \in Told, NEW u \in Told, NoLess(t, u),
         NEW x \in StagesOf(p, t)
  PROVE  \E y \in StagesOf(p, u) : x[1] = y[1] /\ AtMost(x[2], y[2])
<1>1. ASSUME NEW a \in BOOLEAN, NEW b \in BOOLEAN, a => b, NEW e \in Effects
      PROVE  AtMost(If(a, e), If(b, e))
  <2>1. If(a, e) \in Effects /\ If(b, e) \in Effects
    BY IfType
  <2>2. ASSUME NEW d \in Dimension
        PROVE  Severity(d, If(a, e)[d]) <= Severity(d, If(b, e)[d])
    <3>1. /\ Severity(d, If(a, e)[d]) \in Nat /\ Severity(d, If(b, e)[d]) \in Nat
          /\ If(b, e)[d] \in EffectsOf(d)
      BY <2>1, EffectsType, SeverityType
    <3>2. CASE a = b
      BY <3>1, <3>2
    <3>3. CASE ~a /\ b
      <4>1. If(a, e)[d] = Ladder[d][1]
        BY <3>3 DEF If, NoEffects
      <4>2. Severity(d, Ladder[d][1]) = 1 /\ Severity(d, If(b, e)[d]) >= 1
        <5>1. \A f \in EffectsOf(d) : Severity(d, f) \in DOMAIN Ladder[d]
          BY DEF EffectsOf, Severity, Rank
        <5>2. \A i \in DOMAIN Ladder[d] : i \in Nat /\ i >= 1
          BY DEF Ladder, Dimension
        <5>3. Severity(d, Ladder[d][1]) = 1
          BY DEF Severity, Rank, EffectsOf, Ladder, Dimension
        <5> QED
          BY <3>1, <5>1, <5>2, <5>3
      <4> QED
        BY <4>1, <4>2
    <3> QED
      BY <1>1, <3>2, <3>3
  <2> QED
    BY <2>2 DEF AtMost
<1>2. /\ t.block \in BOOLEAN /\ t.denial \in BOOLEAN /\ t.allowlist \in BOOLEAN /\ t.all \in Nat
      /\ u.block \in BOOLEAN /\ u.denial \in BOOLEAN /\ u.allowlist \in BOOLEAN /\ u.all \in Nat
      /\ \A c \in Category : /\ t.mutes[c] \in Nat /\ t.reports[c] \in Nat
                             /\ u.mutes[c] \in Nat /\ u.reports[c] \in Nat
  BY DEF Told
<1>3. CASE x = << << "block", "all" >>, If(t.block, p.viewerBlock) >>
  <2> DEFINE y == << << "block", "all" >>, If(u.block, p.viewerBlock) >>
  <2>1. AtMost(x[2], y[2])
    BY <1>1, <1>2, <1>3, NormalType DEF NoLess
  <2>2. y \in StagesOf(p, u)
    BY DEF StagesOf
  <2> QED
    BY <1>3, <2>1, <2>2
<1>4. CASE x = << << "denial", "all" >>, If(t.denial, p.administrativeDeny) >>
  <2> DEFINE y == << << "denial", "all" >>, If(u.denial, p.administrativeDeny) >>
  <2>1. AtMost(x[2], y[2])
    BY <1>1, <1>2, <1>4, NormalType DEF NoLess
  <2>2. y \in StagesOf(p, u)
    BY DEF StagesOf
  <2> QED
    BY <1>4, <2>1, <2>2
<1>5. CASE x = << << "allowlist", "all" >>, If(t.allowlist, p.allowlistMiss) >>
  <2> DEFINE y == << << "allowlist", "all" >>, If(u.allowlist, p.allowlistMiss) >>
  <2>1. AtMost(x[2], y[2])
    BY <1>1, <1>2, <1>5, NormalType DEF NoLess
  <2>2. y \in StagesOf(p, u)
    BY DEF StagesOf
  <2> QED
    BY <1>5, <2>1, <2>2
<1>6. CASE x = << << "mutes", "all" >>,
                  ApplyThresholds[ResolveThresholds(p.mutes, "default")][t.all] >>
  <2> DEFINE y == << << "mutes", "all" >>,
                     ApplyThresholds[ResolveThresholds(p.mutes, "default")][u.all] >>
  <2>1. t.all <= u.all
    BY DEF NoLess
  <2>2. ResolveThresholds(p.mutes, "default") \in CategoryThresholds
    BY NormalType, ResolvedType
  <2>3. AtMost(x[2], y[2])
    BY <1>2, <1>6, <2>1, <2>2, ThresholdsMonotone
  <2>4. y \in StagesOf(p, u)
    BY DEF StagesOf
  <2> QED
    BY <1>6, <2>3, <2>4
<1>7. ASSUME NEW c \in Category \cap DOMAIN p.mutes,
             x = << << "mutes", c >>, ApplyThresholds[p.mutes[c]][t.mutes[c]] >>
      PROVE  \E y \in StagesOf(p, u) : x[1] = y[1] /\ AtMost(x[2], y[2])
  <2> DEFINE y == << << "mutes", c >>, ApplyThresholds[p.mutes[c]][u.mutes[c]] >>
  <2>1. t.mutes[c] <= u.mutes[c]
    BY DEF NoLess
  <2>2. p.mutes[c] \in CategoryThresholds
    BY NormalType DEF IsTable
  <2>3. AtMost(x[2], y[2])
    BY <1>2, <1>7, <2>1, <2>2, ThresholdsMonotone
  <2>4. y \in StagesOf(p, u)
    BY DEF StagesOf
  <2> QED
    BY <1>7, <2>3, <2>4
<1>8. ASSUME NEW c \in Category,
             x = << << "reports", c >>,
                    ApplyThresholds[ResolveThresholds(p.reports, c)][t.reports[c]] >>
      PROVE  \E y \in StagesOf(p, u) : x[1] = y[1] /\ AtMost(x[2], y[2])
  <2> DEFINE y == << << "reports", c >>,
                     ApplyThresholds[ResolveThresholds(p.reports, c)][u.reports[c]] >>
  <2>1. t.reports[c] <= u.reports[c]
    BY DEF NoLess
  <2>2. ResolveThresholds(p.reports, c) \in CategoryThresholds
    BY NormalType, ResolvedType
  <2>3. AtMost(x[2], y[2])
    BY <1>2, <1>8, <2>1, <2>2, ThresholdsMonotone
  <2>4. y \in StagesOf(p, u)
    BY DEF StagesOf
  <2> QED
    BY <1>8, <2>3, <2>4
<1> QED
  BY <1>3, <1>4, <1>5, <1>6, <1>7, <1>8 DEF StagesOf

-----------------------------------------------------------------------------
(* What the viewer's override and the surface's ceiling make of a decision *)
(* under a profile, and evaluateTarget of what it is told.                 *)
Softens(o, decision) ==
  o # NotGiven /\ Severity("visibility", o) < Severity("visibility", decision.effects.visibility)

OverriddenBy(p, o, decision) ==
  IF p.allowViewerOverride /\ decision.overridable /\ Softens(o, decision)
    THEN [decision EXCEPT !.effects.visibility = o,
                          !.effects.interaction = "require-explicit-action"]
    ELSE decision

Cap(p) == IF p.bypassHideCeiling = NotGiven THEN "restrict" ELSE p.bypassHideCeiling

CappedBy(p, decision) ==
  IF /\ p.bypassHide
     /\ Severity("visibility", decision.effects.visibility) >= Severity("visibility", "hide")
    THEN [decision EXCEPT !.effects.visibility = Cap(p)]
    ELSE decision

Verdict(p, o, t) ==
  IF p.disabled THEN NeutralDecision
  ELSE CappedBy(p, OverriddenBy(p, o, Accumulated[StagesOf(p, t)]))

Overriding == EffectsOf("visibility") \cup {NotGiven}

(* A decision with some effects exchanged. *)
LEMMA Exchanged ==
  ASSUME NEW a \in Decision, NEW v \in EffectsOf("visibility")
  PROVE  LET b == [a EXCEPT !.effects.visibility = v]
             c == [a EXCEPT !.effects.visibility = v,
                            !.effects.interaction = "require-explicit-action"]
         IN  /\ b \in Decision /\ c \in Decision
             /\ b.weight = a.weight /\ c.weight = a.weight
             /\ b.overridable = a.overridable /\ c.overridable = a.overridable
             /\ b.effects.visibility = v /\ c.effects.visibility = v
             /\ \A d \in Dimension \ {"visibility"} : b.effects[d] = a.effects[d]
             /\ \A d \in Dimension \ {"visibility", "interaction"} : c.effects[d] = a.effects[d]
<1>1. a.effects \in Effects /\ a.weight \in Nat /\ a.overridable \in BOOLEAN
  BY DEF Decision
<1>2. "require-explicit-action" \in EffectsOf("interaction")
  BY DEF EffectsOf, Ladder
<1>3. /\ [a.effects EXCEPT !.visibility = v] \in Effects
      /\ [a.effects EXCEPT !.visibility = v, !.interaction = "require-explicit-action"] \in Effects
  BY <1>1, <1>2 DEF Effects
<1> QED
  BY <1>1, <1>3 DEF Decision, Effects, Dimension

LEMMA CapType ==
  ASSUME NEW p \in Normal
  PROVE  Cap(p) \in EffectsOf("visibility")
<1>1. "restrict" \in EffectsOf("visibility")
  BY DEF EffectsOf, Ladder
<1> QED
  BY <1>1, NormalType DEF Cap, Ceiling

LEMMA OverriddenType ==
  ASSUME NEW p \in Normal, NEW o \in Overriding, NEW a \in Decision
  PROVE  OverriddenBy(p, o, a) \in Decision /\ OverriddenBy(p, o, a).overridable = a.overridable
BY Exchanged DEF OverriddenBy, Softens, Overriding

LEMMA CappedType ==
  ASSUME NEW p \in Normal, NEW a \in Decision
  PROVE  CappedBy(p, a) \in Decision /\ CappedBy(p, a).overridable = a.overridable
BY Exchanged, CapType DEF CappedBy

LEMMA VerdictType ==
  ASSUME NEW p \in Normal, NEW o \in Overriding, NEW t \in Told
  PROVE  Verdict(p, o, t) \in Decision /\ Verdict(p, o, t).overridable = TRUE
<1>1. NeutralDecision \in Decision /\ NeutralDecision.overridable = TRUE
  BY NoEffectsType DEF NeutralDecision, Decision
<1>2. /\ Accumulated[StagesOf(p, t)] \in Decision
      /\ Accumulated[StagesOf(p, t)].overridable = TRUE
  BY StagesType, AccumulatedType
<1> QED
  BY <1>1, <1>2, OverriddenType, CappedType DEF Verdict

(* What an override and the ceiling leave of a decision. *)
LEMMA OverriddenFields ==
  ASSUME NEW p \in Normal, NEW o \in Overriding, NEW a \in Decision
  PROVE  /\ OverriddenBy(p, o, a).weight = a.weight
         /\ \A d \in Dimension \ {"visibility", "interaction"} :
              OverriddenBy(p, o, a).effects[d] = a.effects[d]
         /\ OverriddenBy(p, o, a).effects.visibility
              = IF p.allowViewerOverride /\ a.overridable /\ Softens(o, a) THEN o
                ELSE a.effects.visibility
<1>1. CASE p.allowViewerOverride /\ a.overridable /\ Softens(o, a)
  <2>1. o \in EffectsOf("visibility")
    BY <1>1 DEF Softens, Overriding
  <2> DEFINE c == [a EXCEPT !.effects.visibility = o,
                            !.effects.interaction = "require-explicit-action"]
  <2>2. /\ c.weight = a.weight /\ c.effects.visibility = o
        /\ \A d \in Dimension \ {"visibility", "interaction"} : c.effects[d] = a.effects[d]
    BY <2>1, Exchanged
  <2>3. OverriddenBy(p, o, a) = c
    BY <1>1 DEF OverriddenBy
  <2> HIDE DEF c
  <2> QED
    BY <1>1, <2>2, <2>3
<1>2. CASE ~(p.allowViewerOverride /\ a.overridable /\ Softens(o, a))
  BY <1>2 DEF OverriddenBy
<1> QED
  BY <1>1, <1>2

LEMMA CappedFields ==
  ASSUME NEW p \in Normal, NEW a \in Decision
  PROVE  /\ CappedBy(p, a).weight = a.weight
         /\ \A d \in Dimension \ {"visibility"} : CappedBy(p, a).effects[d] = a.effects[d]
         /\ CappedBy(p, a).effects.visibility
              = IF p.bypassHide /\ Severity("visibility", a.effects.visibility)
                                     >= Severity("visibility", "hide")
                  THEN Cap(p) ELSE a.effects.visibility
<1> DEFINE Caps == p.bypassHide /\ Severity("visibility", a.effects.visibility)
                                     >= Severity("visibility", "hide")
           c == [a EXCEPT !.effects.visibility = Cap(p)]
<1>1. /\ c.weight = a.weight /\ c.effects.visibility = Cap(p)
      /\ \A d \in Dimension \ {"visibility"} : c.effects[d] = a.effects[d]
  BY CapType, Exchanged
<1>2. CappedBy(p, a) = IF Caps THEN c ELSE a
  BY DEF CappedBy
<1> HIDE DEF c
<1> QED
  BY <1>1, <1>2

(* The severities the ceiling is about. *)
LEMMA Severities ==
  /\ Severity("visibility", "hide") = 4 /\ Severity("visibility", "restrict") = 3
  /\ \A e \in EffectsOf("visibility") : Severity("visibility", e) \in 1..5
<1>1. \A e \in EffectsOf("visibility") : Severity("visibility", e) \in DOMAIN Ladder["visibility"]
  BY DEF EffectsOf, Severity, Rank, Dimension
<1>2. DOMAIN Ladder["visibility"] = 1..5
  BY DEF Ladder
<1>3. /\ Severity("visibility", "hide") = 4 /\ Severity("visibility", "restrict") = 3
  BY DEF Severity, Rank, EffectsOf, Ladder, Dimension
<1> QED
  BY <1>1, <1>2, <1>3

(* An override only reaches decisions more severe than itself, so a        *)
(* stricter decision stays no softer, but for the interaction it sets.     *)
LEMMA OverriddenMonotone ==
  ASSUME NEW p \in Normal, NEW o \in Overriding,
         NEW a \in Decision, NEW b \in Decision, a.overridable = b.overridable,
         << a, b >> \in NoSofter(Dimension)
  PROVE  << OverriddenBy(p, o, a), OverriddenBy(p, o, b) >>
           \in NoSofter(Dimension \ (IF o = NotGiven THEN {} ELSE {"interaction"}))
<1> DEFINE x == OverriddenBy(p, o, a)
           y == OverriddenBy(p, o, b)
<1>1. /\ a.weight <= b.weight
      /\ \A d \in Dimension : Severity(d, a.effects[d]) <= Severity(d, b.effects[d])
  BY DEF NoSofter
<1>2. x \in Decision /\ y \in Decision
  BY OverriddenType
<1>3. CASE o = NotGiven
  <2>1. x = a /\ y = b
    BY <1>3 DEF OverriddenBy, Softens
  <2> QED
    BY <1>3, <2>1
<1>4. CASE o # NotGiven
  <2>1. o \in EffectsOf("visibility")
    BY <1>4 DEF Overriding
  <2>2. \A d \in Dimension : /\ Severity(d, a.effects[d]) \in Nat
                             /\ Severity(d, b.effects[d]) \in Nat
    BY EffectsType, SeverityType DEF Decision
  <2>3. Severity("visibility", o) \in Nat
    BY <2>1, Severities
  <2>4. /\ a.effects["visibility"] = a.effects.visibility
        /\ b.effects["visibility"] = b.effects.visibility
        /\ x.effects["visibility"] = x.effects.visibility
        /\ y.effects["visibility"] = y.effects.visibility
        /\ "visibility" \in Dimension
    BY DEF Dimension
  <2>5. /\ x.weight = a.weight /\ y.weight = b.weight
        /\ \A d \in Dimension \ {"visibility", "interaction"} :
             x.effects[d] = a.effects[d] /\ y.effects[d] = b.effects[d]
    BY OverriddenFields
  <2>6. /\ x.effects.visibility
             = IF p.allowViewerOverride /\ a.overridable /\ Softens(o, a) THEN o
               ELSE a.effects.visibility
        /\ y.effects.visibility
             = IF p.allowViewerOverride /\ b.overridable /\ Softens(o, b) THEN o
               ELSE b.effects.visibility
    BY OverriddenFields
  <2> HIDE DEF x, y
  <2>7. Severity("visibility", x.effects.visibility) <= Severity("visibility", y.effects.visibility)
    BY <1>1, <2>2, <2>3, <2>4, <2>6 DEF Softens
  <2>8. \A d \in Dimension \ {"interaction"} :
          Severity(d, x.effects[d]) <= Severity(d, y.effects[d])
    BY <1>1, <2>4, <2>5, <2>7
  <2>9. << x, y >> \in NoSofter(Dimension \ {"interaction"})
    BY <1>1, <1>2, <2>5, <2>8 DEF NoSofter
  <2> QED
    BY <1>4, <2>9 DEF x, y
<1> QED
  BY <1>3, <1>4

(* A ceiling that does not come below what it leaves alone keeps the order. *)
LEMMA CappedMonotone ==
  ASSUME NEW p \in Normal, Severity("visibility", Cap(p)) >= Severity("visibility", "restrict"),
         NEW a \in Decision, NEW b \in Decision,
         NEW D \in SUBSET Dimension, "visibility" \in D, << a, b >> \in NoSofter(D)
  PROVE  << CappedBy(p, a), CappedBy(p, b) >> \in NoSofter(D)
<1> DEFINE x == CappedBy(p, a)
           y == CappedBy(p, b)
<1>1. /\ a.weight <= b.weight
      /\ \A d \in D : Severity(d, a.effects[d]) <= Severity(d, b.effects[d])
  BY DEF NoSofter
<1>2. x \in Decision /\ y \in Decision
  BY CappedType
<1>3. Cap(p) \in EffectsOf("visibility")
  BY CapType
<1>4. /\ a.effects.visibility \in EffectsOf("visibility")
      /\ b.effects.visibility \in EffectsOf("visibility")
  BY DEF Decision, Effects
<1>5. /\ x.weight = a.weight /\ y.weight = b.weight
      /\ \A d \in Dimension \ {"visibility"} :
           x.effects[d] = a.effects[d] /\ y.effects[d] = b.effects[d]
  BY CappedFields
<1>6. /\ x.effects.visibility
           = IF p.bypassHide /\ Severity("visibility", a.effects.visibility)
                                  >= Severity("visibility", "hide")
               THEN Cap(p) ELSE a.effects.visibility
      /\ y.effects.visibility
           = IF p.bypassHide /\ Severity("visibility", b.effects.visibility)
                                  >= Severity("visibility", "hide")
               THEN Cap(p) ELSE b.effects.visibility
  BY CappedFields
<1>7. Severity("visibility", a.effects.visibility) <= Severity("visibility", b.effects.visibility)
  BY <1>1
<1> HIDE DEF x, y
<1>8. Severity("visibility", x.effects.visibility) <= Severity("visibility", y.effects.visibility)
  BY <1>3, <1>4, <1>6, <1>7, Severities
<1>9. \A d \in D : Severity(d, x.effects[d]) <= Severity(d, y.effects[d])
  <2>1. /\ x.effects["visibility"] = x.effects.visibility
        /\ y.effects["visibility"] = y.effects.visibility
    OBVIOUS
  <2> QED
    BY <1>1, <1>5, <1>8, <2>1
<1>10. << x, y >> \in NoSofter(D)
  BY <1>1, <1>2, <1>5, <1>9 DEF NoSofter
<1> QED
  BY <1>10 DEF x, y

(* evaluateTarget is no more lenient when it is told no less. *)
LEMMA VerdictMonotone ==
  ASSUME NEW p \in Normal, Severity("visibility", Cap(p)) >= Severity("visibility", "restrict"),
         NEW o \in Overriding, NEW t \in Told, NEW u \in Told, NoLess(t, u)
  PROVE  << Verdict(p, o, t), Verdict(p, o, u) >>
           \in NoSofter(Dimension \ (IF o = NotGiven THEN {} ELSE {"interaction"}))
<1> DEFINE D == Dimension \ (IF o = NotGiven THEN {} ELSE {"interaction"})
           a == Accumulated[StagesOf(p, t)]
           b == Accumulated[StagesOf(p, u)]
<1>1. D \in SUBSET Dimension /\ "visibility" \in D
  BY DEF Dimension
<1>2. /\ a \in Decision /\ a.overridable = TRUE
      /\ b \in Decision /\ b.overridable = TRUE
  BY StagesType, AccumulatedType
<1>3. << a, b >> \in NoSofter(Dimension)
  <2>1. \A x \in StagesOf(p, t) :
          \E y \in StagesOf(p, u) : x[1] = y[1] /\ AtMost(x[2], y[2])
    BY StagesMonotone
  <2>2. /\ StagesOf(p, t) \in SUBSET (Stage \X Effects) /\ IsFiniteSet(StagesOf(p, t))
        /\ StagesOf(p, u) \in SUBSET (Stage \X Effects) /\ IsFiniteSet(StagesOf(p, u))
        /\ \A x, y \in StagesOf(p, t) : x[1] = y[1] => x = y
    BY StagesType
  <2> QED
    BY <2>1, <2>2, AccumulatedMonotone
<1> HIDE DEF a, b
<1>4. << OverriddenBy(p, o, a), OverriddenBy(p, o, b) >> \in NoSofter(D)
  BY <1>2, <1>3, OverriddenMonotone
<1>5. OverriddenBy(p, o, a) \in Decision /\ OverriddenBy(p, o, b) \in Decision
  BY <1>2, OverriddenType
<1>6. CASE ~p.disabled
  <2> HIDE DEF D
  <2>1. << CappedBy(p, OverriddenBy(p, o, a)), CappedBy(p, OverriddenBy(p, o, b)) >>
          \in NoSofter(D)
    BY <1>1, <1>4, <1>5, CappedMonotone
  <2> QED
    BY <1>6, <2>1 DEF Verdict, D, a, b
<1>7. CASE p.disabled
  <2>1. NeutralDecision \in Decision
    BY NoEffectsType DEF NeutralDecision, Decision
  <2>2. \A d \in Dimension : Severity(d, NeutralDecision.effects[d]) \in Nat
    BY <2>1, EffectsType, SeverityType DEF Decision
  <2>3. NeutralDecision.weight \in Nat
    BY <2>1 DEF Decision
  <2>4. << NeutralDecision, NeutralDecision >> \in NoSofter(D)
    BY <1>1, <2>1, <2>2, <2>3 DEF NoSofter
  <2> QED
    BY <1>7, <2>4 DEF Verdict
<1> QED
  BY <1>6, <1>7

-----------------------------------------------------------------------------
(* What the evaluator is told in a state, and that its verdict is of that. *)
Facts ==
  [ block |-> Blocked, denial |-> Denied, allowlist |-> AllowlistMissed,
    all |-> Count(Muters(Category \cup {NotGiven})),
    mutes |-> [c \in Category |-> Count(Muters({c}))],
    reports |-> [c \in Category |-> Count(Reporters(c))] ]

(* Signals are finitely many: they come one by one. *)
Inputs ==
  /\ subject \in Subjects /\ profile \in Normal
  /\ admin \in [ userAllow : SUBSET Actor, userDeny : SUBSET Actor,
                 eventDeny : SUBSET Event, addressDeny : SUBSET Address ]
  /\ protectedActors \subseteq Actor
  /\ contacts \in Follows \cup {{}} /\ blocks \subseteq Blockable
  /\ override \in Requests \cup {NotGiven}
  /\ reports \subseteq [reporter : Signers, category : Category] /\ IsFiniteSet(reports)
  /\ DOMAIN lists \subseteq Signers /\ IsFiniteSet(DOMAIN lists)
  /\ \A a \in DOMAIN lists : lists[a] \in [updatedAt : Times, mention : Mentions]
  /\ now \in Times

IInv == Inputs /\ verdict = EvaluateTarget

(* Counts are of finite sets of signers. *)
LEMMA CountType ==
  ASSUME NEW S, IsFiniteSet(S)
  PROVE  Count(S) \in Nat
BY FS_Subset, FS_CardinalityType DEF Count

LEMMA SignersFinite ==
  Inputs => /\ \A c : IsFiniteSet(Reporters(c)) /\ Reporters(c) \subseteq Signers
            /\ \A C : IsFiniteSet(Muters(C)) /\ Muters(C) \subseteq Signers
<1> SUFFICES ASSUME Inputs
             PROVE  /\ \A c : IsFiniteSet(Reporters(c)) /\ Reporters(c) \subseteq Signers
                    /\ \A C : IsFiniteSet(Muters(C)) /\ Muters(C) \subseteq Signers
  OBVIOUS
<1>1. ASSUME NEW C PROVE IsFiniteSet(Muters(C)) /\ Muters(C) \subseteq Signers
  BY FS_Subset DEF Inputs, Muters
<1>2. ASSUME NEW c PROVE IsFiniteSet(Reporters(c)) /\ Reporters(c) \subseteq Signers
  <2> DEFINE D == {s \in reports : s.category = c}
             f == [r \in D |-> r.reporter]
  <2>1. IsFiniteSet(D)
    BY FS_Subset DEF Inputs
  <2>2. f \in Surjection(D, Reporters(c))
    <3>1. f \in [D -> Reporters(c)]
      BY DEF Reporters
    <3>2. \A a \in Reporters(c) : \E r \in D : f[r] = a
      BY DEF Reporters
    <3> HIDE DEF f, D
    <3> QED
      BY <3>1, <3>2 DEF Surjection
  <2>3. Reporters(c) \subseteq Signers
    BY DEF Reporters, Inputs
  <2> HIDE DEF f, D
  <2> QED
    BY <2>1, <2>2, <2>3, FS_Surjection
<1> QED
  BY <1>1, <1>2

LEMMA NextSignersFinite ==
  Inputs' => /\ \A c : IsFiniteSet(Reporters(c)') /\ Reporters(c)' \subseteq Signers
             /\ \A C : IsFiniteSet(Muters(C)') /\ Muters(C)' \subseteq Signers
<1>1. ( Inputs => /\ \A c : IsFiniteSet(Reporters(c)) /\ Reporters(c) \subseteq Signers
                  /\ \A C : IsFiniteSet(Muters(C)) /\ Muters(C) \subseteq Signers )'
  BY SignersFinite, PTL
<1> QED
  BY <1>1

(* evaluateTarget uses nothing but the profile, the override and the facts. *)
LEMMA VerdictIsOfFacts ==
  Inputs => /\ Facts \in Told
            /\ override \in Overriding
            /\ EvaluateTarget = Verdict(profile, override, Facts)
<1> SUFFICES ASSUME Inputs
             PROVE  /\ Facts \in Told
                    /\ override \in Overriding
                    /\ EvaluateTarget = Verdict(profile, override, Facts)
  OBVIOUS
<1>1. Facts \in Told
  <2>1. /\ Count(Muters(Category \cup {NotGiven})) \in Nat
        /\ \A c \in Category : Count(Muters({c})) \in Nat /\ Count(Reporters(c)) \in Nat
    BY SignersFinite, CountType
  <2>2. Blocked \in BOOLEAN /\ Denied \in BOOLEAN
    BY DEF Blocked, Denied
  <2>3. AllowlistMissed \in BOOLEAN
    BY NormalType DEF AllowlistMissed, Inputs
  <2> QED
    BY <2>1, <2>2, <2>3 DEF Facts, Told
<1>2. override \in Overriding
  BY SubjectAssumption DEF Inputs, Overriding
<1>3. Stages = StagesOf(profile, Facts)
  <2>1. /\ Facts.block = Blocked /\ Facts.denial = Denied /\ Facts.allowlist = AllowlistMissed
        /\ Facts.all = Count(Muters(Category \cup {NotGiven}))
        /\ \A c \in Category : /\ Facts.mutes[c] = Count(Muters({c}))
                               /\ Facts.reports[c] = Count(Reporters(c))
    BY DEF Facts
  <2>2. { << << "mutes", c >>, ApplyThresholds[profile.mutes[c]][Count(Muters({c}))] >> :
            c \in Category \cap DOMAIN profile.mutes }
         = { << << "mutes", c >>, ApplyThresholds[profile.mutes[c]][Facts.mutes[c]] >> :
               c \in Category \cap DOMAIN profile.mutes }
    BY <2>1
  <2>3. { << << "reports", c >>,
             ApplyThresholds[ResolveThresholds(profile.reports, c)][Count(Reporters(c))] >> :
            c \in Category }
         = { << << "reports", c >>,
                ApplyThresholds[ResolveThresholds(profile.reports, c)][Facts.reports[c]] >> :
               c \in Category }
    BY <2>1
  <2> QED
    BY <2>1, <2>2, <2>3 DEF Stages, StagesOf, If
<1> DEFINE a == Accumulated[Stages]
<1>4. a \in Decision
  BY <1>1, <1>3, StagesType, AccumulatedType DEF Inputs
<1>5. \A d \in Decision : Overridden[d] = OverriddenBy(profile, override, d)
  BY DEF Overridden, OverriddenBy, Softening, Softens
<1>6. \A d \in Decision : Capped[d] = CappedBy(profile, d)
  BY DEF Capped, CappedBy, CapAt, Cap
<1> HIDE DEF a
<1>7. Overridden[a] = OverriddenBy(profile, override, a)
  BY <1>4, <1>5
<1>8. OverriddenBy(profile, override, a) \in Decision
  BY <1>2, <1>4, OverriddenType DEF Inputs
<1>9. Capped[Overridden[a]] = CappedBy(profile, OverriddenBy(profile, override, a))
  BY <1>6, <1>7, <1>8
<1> QED
  BY <1>1, <1>2, <1>3, <1>9 DEF EvaluateTarget, Verdict, a

LEMMA VerdictIsOfNextFacts ==
  Inputs' => /\ Facts' \in Told
             /\ override' \in Overriding
             /\ EvaluateTarget' = Verdict(profile', override', Facts')
<1>1. ( Inputs => /\ Facts \in Told
                  /\ override \in Overriding
                  /\ EvaluateTarget = Verdict(profile, override, Facts) )'
  BY VerdictIsOfFacts, PTL
<1> QED
  BY <1>1

-----------------------------------------------------------------------------
(* Each store's change keeps what is put in the evaluator's hands typed.   *)
LEMMA InitialInputs == Init => IInv
<1> SUFFICES ASSUME Init PROVE Inputs
  BY DEF Init, IInv
<1>1. DOMAIN lists = {}
  BY DEF Init
<1>2. 0 \in Nat /\ IsFiniteSet({})
  BY FS_EmptySet
<1> QED
  BY <1>1, <1>2 DEF Init, Inputs, Normal

LEMMA InputsKept == Inputs /\ [Next]_vars => Inputs'
<1> SUFFICES ASSUME Inputs, [Next]_vars
             PROVE  Inputs'
  OBVIOUS
<1> USE DEF given, administration, viewer, signals
<1>1. CASE Report
  <2>1. PICK r \in [reporter : Signers, category : Category] : reports' = reports \cup {r}
    BY <1>1 DEF Report
  <2>2. IsFiniteSet(reports')
    BY <2>1, FS_AddElement DEF Inputs
  <2> QED
    BY <1>1, <2>1, <2>2 DEF Report, Inputs
<1>2. CASE ClearTarget
  BY <1>2, FS_EmptySet DEF ClearTarget, Inputs
<1>3. CASE ReplaceList
  <2>1. PICK a \in Signers, mention \in Mentions, date \in Times :
          lists' = ReplacedList(a, [updatedAt |-> date, mention |-> mention])
    BY <1>3 DEF ReplaceList
  <2>2. /\ DOMAIN lists' = DOMAIN lists \cup {a}
        /\ \A b \in DOMAIN lists' :
             lists'[b] = IF b = a THEN [updatedAt |-> date, mention |-> mention] ELSE lists[b]
    BY <2>1 DEF ReplacedList
  <2>3. IsFiniteSet(DOMAIN lists')
    BY <2>2, FS_AddElement DEF Inputs
  <2>4. \A b \in DOMAIN lists' : lists'[b] \in [updatedAt : Times, mention : Mentions]
    BY <2>2 DEF Inputs
  <2> QED
    BY <1>3, <2>2, <2>3, <2>4 DEF ReplaceList, Inputs
<1>4. CASE ChangeDenial
  <2>1. PICK t \in Deniable :
          admin' = [ admin EXCEPT !.userDeny    = IF t \in Actor THEN Toggle(@, t) ELSE @,
                                  !.eventDeny   = IF t \in Event THEN Toggle(@, t) ELSE @,
                                  !.addressDeny = IF t \in Address THEN Toggle(@, t) ELSE @ ]
    BY <1>4 DEF ChangeDenial
  <2>2. \A S, T : \A x \in T : S \subseteq T => Toggle(S, x) \subseteq T
    BY DEF Toggle
  <2>3. admin' \in [ userAllow : SUBSET Actor, userDeny : SUBSET Actor,
                     eventDeny : SUBSET Event, addressDeny : SUBSET Address ]
    BY <2>1, <2>2 DEF Inputs
  <2> QED
    BY <1>4, <2>3 DEF ChangeDenial, Inputs
<1>5. CASE ChangePermission
  <2>1. Authors \subseteq Actor
    BY SubjectAssumption DEF Authors, Subject, Inputs
  <2> QED
    BY <1>5, <2>1 DEF ChangePermission, Toggle, Inputs
<1>6. CASE ChangeProtection
  <2>1. Authors \subseteq Actor
    BY SubjectAssumption DEF Authors, Subject, Inputs
  <2> QED
    BY <1>6, <2>1 DEF ChangeProtection, Toggle, Inputs
<1>7. CASE SetContacts
  BY <1>7 DEF SetContacts, Inputs
<1>8. CASE SetBlocks
  BY <1>8 DEF SetBlocks, Toggle, Inputs
<1>9. CASE SetOverride
  BY <1>9 DEF SetOverride, Inputs
<1>10. CASE RemoveOverride
  BY <1>10 DEF RemoveOverride, Inputs
<1>11. CASE ClearViewerState
  BY <1>11 DEF ClearViewerState, Inputs
<1>12. CASE Tick
  BY <1>12 DEF Tick, Inputs
<1>13. CASE UNCHANGED vars
  BY <1>13 DEF vars, Inputs
<1> QED
  BY <1>1, <1>2, <1>3, <1>4, <1>5, <1>6, <1>7, <1>8, <1>9, <1>10, <1>11, <1>12, <1>13
  DEF Next

(* Whatever changes, evaluateTarget is asked again. *)
LEMMA Answered ==
  [Next]_vars /\ verdict = EvaluateTarget => verdict' = EvaluateTarget' \/ UNCHANGED vars
BY DEF Next, Evaluated, Report, ClearTarget, ReplaceList, ChangeDenial, ChangePermission,
       ChangeProtection, SetContacts, SetBlocks, SetOverride, RemoveOverride,
       ClearViewerState, Tick

(* The verdict on record is of the state of the moment, in which finitely  *)
(* many signals are held, each of its type.                                *)
THEOREM Invariant == Spec => []IInv
<1>1. IInv /\ [Next]_vars => IInv'
  <2> SUFFICES ASSUME IInv, [Next]_vars PROVE IInv'
    OBVIOUS
  <2>1. Inputs'
    BY InputsKept DEF IInv
  <2>2. CASE verdict' = EvaluateTarget'
    BY <2>1, <2>2 DEF IInv
  <2>3. CASE UNCHANGED vars
    <3>1. EvaluateTarget' = EvaluateTarget
      BY <2>3 DEF vars, given, administration, viewer, signals, EvaluateTarget, Capped, CapAt,
                  Overridden, Softening, Stages, Blocked, Denied, AllowlistMissed, IsProtected,
                  Authors, Count, Countable, TrustSet, Muters, Live, Reporters
    <3> QED
      BY <2>1, <2>3, <3>1 DEF IInv, vars
  <2> QED
    BY <2>2, <2>3, Answered DEF IInv
<1> QED
  BY <1>1, InitialInputs, PTL DEF Spec

(* evaluateTarget answers a decision in every state, whatever it is given. *)
THEOREM TypeCorrect == Spec => []TypeOK
<1>1. IInv => TypeOK
  <2> SUFFICES ASSUME IInv PROVE verdict \in Decision
    BY DEF IInv, Inputs, TypeOK, Normal
  <2>1. /\ Facts \in Told /\ override \in Overriding /\ profile \in Normal
        /\ verdict = Verdict(profile, override, Facts)
    BY VerdictIsOfFacts DEF IInv, Inputs
  <2> QED
    BY <2>1, VerdictType
<1> QED
  BY <1>1, Invariant, PTL

LEMMA FirmCap ==
  FirmCeiling => Severity("visibility", Cap(profile)) >= Severity("visibility", "restrict")
BY DEF FirmCeiling, CapAt, Cap

(* The facts grow with the signals; nothing else changes. *)
LEMMA SignalsStep ==
  ASSUME IInv, IInv', FirmCeiling, UNCHANGED << given, administration, viewer, now >>,
         reports \subseteq reports', Muting \subseteq Muting'
  PROVE  << verdict, verdict' >> \in
           NoSofter(Dimension \ (IF override = NotGiven THEN {} ELSE {"interaction"}))
<1> USE DEF given, administration, viewer
<1>1. /\ Blocked' = Blocked /\ Denied' = Denied /\ AllowlistMissed' = AllowlistMissed
      /\ profile' = profile /\ override' = override
  BY DEF Blocked, Denied, AllowlistMissed, IsProtected, Authors
<1>2. \A a : Countable(a)' = Countable(a)
  BY DEF Countable, TrustSet
<1>3. ASSUME NEW C \in SUBSET (Category \cup {NotGiven}) PROVE Muters(C) \subseteq Muters(C)'
  <2>1. SUFFICES ASSUME NEW a \in Muters(C) PROVE a \in Muters(C)'
    OBVIOUS
  <2>2. PICK m \in C : m \in lists[a].mention
    BY DEF Muters
  <2>3. a \in Signers /\ a \in Muters({m})
    BY <2>2 DEF Muters, IInv, Inputs
  <2>4. << a, m >> \in Muting
    BY <2>3 DEF Muting
  <2>5. << a, m >> \in Muting'
    BY <2>4
  <2>6. a \in Muters({m})'
    BY <2>5 DEF Muting
  <2> QED
    BY <2>6 DEF Muters
<1>4. \A c : Reporters(c) \subseteq Reporters(c)'
  BY DEF Reporters
<1>5. ASSUME NEW S, NEW T, IsFiniteSet(T), S \subseteq T
      PROVE  Cardinality({a \in S : Countable(a)}) <= Cardinality({a \in T : Countable(a)'})
  <2>1. IsFiniteSet({a \in T : Countable(a)'})
    BY <1>5, FS_Subset
  <2>2. {a \in S : Countable(a)} \subseteq {a \in T : Countable(a)'}
    BY <1>2, <1>5
  <2> QED
    BY <2>1, <2>2, FS_Subset
<1>6. /\ \A c : IsFiniteSet(Reporters(c)')
      /\ \A C : IsFiniteSet(Muters(C)')
  BY NextSignersFinite DEF IInv
<1>7. /\ Facts \in Told /\ Facts' \in Told /\ override \in Overriding /\ profile \in Normal
      /\ verdict = Verdict(profile, override, Facts)
      /\ verdict' = Verdict(profile, override, Facts')
  BY <1>1, VerdictIsOfFacts, VerdictIsOfNextFacts DEF IInv, Inputs
<1>8. NoLess(Facts, Facts')
  <2>1. /\ Facts.block = Blocked /\ Facts'.block = Blocked'
        /\ Facts.denial = Denied /\ Facts'.denial = Denied'
        /\ Facts.allowlist = AllowlistMissed /\ Facts'.allowlist = AllowlistMissed'
    BY DEF Facts
  <2>2. Facts.all <= Facts'.all
    BY <1>3, <1>5, <1>6 DEF Facts, Count
  <2>3. ASSUME NEW c \in Category
        PROVE  Facts.mutes[c] <= Facts'.mutes[c] /\ Facts.reports[c] <= Facts'.reports[c]
    <3>1. Facts.mutes[c] <= Facts'.mutes[c]
      BY <1>3, <1>5, <1>6 DEF Facts, Count
    <3>2. Facts.reports[c] <= Facts'.reports[c]
      BY <1>4, <1>5, <1>6 DEF Facts, Count
    <3> QED
      BY <3>1, <3>2
  <2> QED
    BY <1>1, <2>1, <2>2, <2>3 DEF NoLess
<1> QED
  BY <1>7, <1>8, FirmCap, VerdictMonotone

(* More reports and mutes never make a verdict more lenient. *)
THEOREM SignalsHarden == Spec => SignalsNeverSoften
<1>1. IInv /\ IInv' /\ [Next]_vars
        => [ /\ FirmCeiling
             /\ UNCHANGED << given, administration, viewer, now >>
             /\ reports \subseteq reports' /\ Muting \subseteq Muting'
             => << verdict, verdict' >> \in
                  NoSofter(Dimension \ (IF override = NotGiven THEN {} ELSE {"interaction"})) ]_vars
  BY SignalsStep
<1> QED
  BY <1>1, Invariant, PTL DEF SignalsNeverSoften, Spec

(* Fewer who count, or the same: the other way round. *)
LEMMA SilencingStep ==
  ASSUME IInv, IInv', FirmCeiling, override = NotGiven,
         UNCHANGED << given, protectedActors, contacts, override, signals >>,
         blocks \subseteq blocks', admin.userDeny \subseteq admin'.userDeny,
         admin' = [admin EXCEPT !.userDeny = admin'.userDeny], now <= now',
         Authors \cap (blocks' \ blocks) = {},
         Authors \cap (admin'.userDeny \ admin.userDeny) = {}
  PROVE  << verdict', verdict >> \in NoSofter(Dimension)
<1> USE DEF given, signals
<1>1. /\ Authors' = Authors /\ profile' = profile /\ subject' = subject
      /\ admin'.userAllow = admin.userAllow /\ admin'.eventDeny = admin.eventDeny
      /\ admin'.addressDeny = admin.addressDeny
  BY DEF Authors, IInv, Inputs
<1>2. Blocked' = Blocked
  BY <1>1 DEF Blocked
<1>3. AllowlistMissed' = AllowlistMissed
  BY <1>1 DEF AllowlistMissed, IsProtected
<1>4. Denied' = Denied
  <2>1. subject.key \in admin'.userDeny => subject.key \in admin.userDeny
    <3>1. SUFFICES ASSUME subject.key \in admin'.userDeny PROVE subject.key \in admin.userDeny
      OBVIOUS
    <3>2. subject.key \in Actor
      BY <3>1 DEF IInv, Inputs
    <3>3. subject.author = subject.key /\ subject.key # NoActor
      BY <3>2, SubjectAssumption, NoActorAssumption DEF IInv, Inputs
    <3>4. subject.key \in Authors
      BY <3>3 DEF Authors
    <3> QED
      BY <3>1, <3>4
  <2>2. IsDenied(subject.key, admin') <=> IsDenied(subject.key, admin)
    BY <1>1, <2>1 DEF IsDenied
  <2> QED
    BY <1>1, <2>2 DEF Denied, IsProtected
<1>5. \A a : Countable(a)' => Countable(a)
  BY DEF Countable, TrustSet
<1>6. \A C : Muters(C)' \subseteq Muters(C)
  <2>1. ASSUME NEW a \in DOMAIN lists, Live(lists[a])' PROVE Live(lists[a])
    <3>1. /\ lists[a].updatedAt \in Nat /\ now \in Nat /\ now' \in Nat
          /\ profile.muteWindowSeconds \in Nat
      BY SubjectAssumption, NormalType DEF IInv, Inputs
    <3> QED
      BY <1>1, <2>1, <3>1 DEF Live
  <2> QED
    BY <2>1 DEF Muters
<1>7. \A c : Reporters(c)' \subseteq Reporters(c)
  BY DEF Reporters
<1>8. ASSUME NEW S, NEW T, IsFiniteSet(T), S \subseteq T
      PROVE  Cardinality({a \in S : Countable(a)'}) <= Cardinality({a \in T : Countable(a)})
  <2>1. IsFiniteSet({a \in T : Countable(a)})
    BY <1>8, FS_Subset
  <2>2. {a \in S : Countable(a)'} \subseteq {a \in T : Countable(a)}
    BY <1>5, <1>8
  <2> QED
    BY <2>1, <2>2, FS_Subset
<1>9. /\ \A c : IsFiniteSet(Reporters(c))
      /\ \A C : IsFiniteSet(Muters(C))
  BY SignersFinite DEF IInv
<1>10. /\ Facts \in Told /\ Facts' \in Told /\ override \in Overriding /\ profile \in Normal
       /\ verdict = Verdict(profile, override, Facts)
       /\ verdict' = Verdict(profile, override, Facts')
  BY <1>1, VerdictIsOfFacts, VerdictIsOfNextFacts DEF IInv, Inputs
<1>11. NoLess(Facts', Facts)
  <2>1. /\ Facts.block = Blocked /\ Facts'.block = Blocked'
        /\ Facts.denial = Denied /\ Facts'.denial = Denied'
        /\ Facts.allowlist = AllowlistMissed /\ Facts'.allowlist = AllowlistMissed'
    BY DEF Facts
  <2>2. Facts'.all <= Facts.all
    BY <1>6, <1>8, <1>9 DEF Facts, Count
  <2>3. ASSUME NEW c \in Category
        PROVE  Facts'.mutes[c] <= Facts.mutes[c] /\ Facts'.reports[c] <= Facts.reports[c]
    <3>1. Facts'.mutes[c] <= Facts.mutes[c]
      BY <1>6, <1>8, <1>9 DEF Facts, Count
    <3>2. Facts'.reports[c] <= Facts.reports[c]
      BY <1>7, <1>8, <1>9 DEF Facts, Count
    <3> QED
      BY <3>1, <3>2
  <2> QED
    BY <1>2, <1>3, <1>4, <2>1, <2>2, <2>3 DEF NoLess
<1> QED
  BY <1>10, <1>11, FirmCap, VerdictMonotone

(* Silencing others never makes a verdict stricter: the trust set does not *)
(* fall back to the seeds because its last member was blocked.             *)
THEOREM SilencingSoftens == Spec => SilencingNeverHardens
<1>1. IInv /\ IInv' /\ [Next]_vars
        => [ /\ FirmCeiling /\ override = NotGiven
             /\ UNCHANGED << given, protectedActors, contacts, override, signals >>
             /\ blocks \subseteq blocks' /\ admin.userDeny \subseteq admin'.userDeny
             /\ admin' = [admin EXCEPT !.userDeny = admin'.userDeny] /\ now <= now'
             /\ Authors \cap (blocks' \ blocks) = {}
             /\ Authors \cap (admin'.userDeny \ admin.userDeny) = {}
             => << verdict', verdict >> \in NoSofter(Dimension) ]_vars
  BY SilencingStep
<1> QED
  BY <1>1, Invariant, PTL DEF SilencingNeverHardens, Spec

(* The facts about a protected author are the same under other denials. *)
LEMMA ProtectedStep ==
  ASSUME IInv, IInv', IsProtected,
         Signers \cap (admin'.userDeny \ admin.userDeny) = {},
         Signers \cap (admin.userDeny \ admin'.userDeny) = {},
         UNCHANGED << given, protectedActors, viewer, signals, now >>
  PROVE  verdict' = verdict
<1> USE DEF given, viewer, signals
<1>1. /\ Blocked' = Blocked /\ profile' = profile /\ override' = override
      /\ IsProtected' = IsProtected
  BY DEF Blocked, Authors, IsProtected
<1>2. Denied' = Denied /\ AllowlistMissed' = AllowlistMissed
  BY <1>1 DEF Denied, AllowlistMissed
<1>3. \A a \in Signers : Countable(a)' = Countable(a)
  BY DEF Countable, TrustSet
<1>4. /\ \A C : Muters(C)' = Muters(C) /\ Muters(C) \subseteq Signers
      /\ \A c : Reporters(c)' = Reporters(c) /\ Reporters(c) \subseteq Signers
  <2>1. /\ \A C : Muters(C)' = Muters(C)
        /\ \A c : Reporters(c)' = Reporters(c)
    BY DEF Muters, Live, Reporters
  <2> QED
    BY <2>1, SignersFinite DEF IInv
<1>5. ASSUME NEW S \in SUBSET Signers
      PROVE  {a \in S : Countable(a)'} = {a \in S : Countable(a)}
  BY <1>3
<1>6. /\ \A C : Count(Muters(C))' = Count(Muters(C))
      /\ \A c : Count(Reporters(c))' = Count(Reporters(c))
  BY <1>4, <1>5 DEF Count
<1>7. Facts' = Facts
  BY <1>1, <1>2, <1>6 DEF Facts
<1> QED
  BY <1>1, <1>7, VerdictIsOfFacts, VerdictIsOfNextFacts DEF IInv

(* What a protected account wrote is judged as if no administrator had     *)
(* named it.                                                               *)
THEOREM ProtectionHolds == Spec => ProtectedStands
<1>1. IInv /\ IInv' /\ [Next]_vars
        => [ /\ IsProtected
             /\ Signers \cap (admin'.userDeny \ admin.userDeny) = {}
             /\ Signers \cap (admin.userDeny \ admin'.userDeny) = {}
             /\ UNCHANGED << given, protectedActors, viewer, signals, now >>
             => verdict' = verdict ]_vars
  BY ProtectedStep
<1> QED
  BY <1>1, Invariant, PTL DEF ProtectedStands, Spec

(* An override leaves a decision no stricter, but for the interaction. *)
LEMMA OverriddenSofter ==
  ASSUME NEW p \in Normal, NEW o \in Overriding, NEW a \in Decision
  PROVE  << OverriddenBy(p, o, a), a >> \in NoSofter(Dimension \ {"interaction"})
<1> DEFINE x == OverriddenBy(p, o, a)
<1>1. x \in Decision /\ x.weight = a.weight /\ a.weight \in Nat
  BY OverriddenType, OverriddenFields DEF Decision
<1>2. \A d \in Dimension : Severity(d, a.effects[d]) \in Nat
  BY EffectsType, SeverityType DEF Decision
<1>3. Severity("visibility", x.effects.visibility) <= Severity("visibility", a.effects.visibility)
  <2>1. CASE p.allowViewerOverride /\ a.overridable /\ Softens(o, a)
    <3>1. x.effects.visibility = o /\ o \in EffectsOf("visibility")
      BY <2>1, OverriddenFields DEF Softens, Overriding
    <3>2. /\ Severity("visibility", o) < Severity("visibility", a.effects.visibility)
          /\ Severity("visibility", o) \in Nat
          /\ Severity("visibility", a.effects.visibility) \in Nat
      BY <1>2, <2>1, <3>1, Severities DEF Softens, Dimension
    <3> QED
      BY <3>1, <3>2
  <2>2. CASE ~(p.allowViewerOverride /\ a.overridable /\ Softens(o, a))
    BY <1>2, <2>2, OverriddenFields DEF Dimension
  <2> QED
    BY <2>1, <2>2
<1>4. ASSUME NEW d \in Dimension \ {"interaction"}
      PROVE  Severity(d, x.effects[d]) <= Severity(d, a.effects[d])
  <2>1. CASE d = "visibility"
    BY <1>3, <2>1
  <2>2. CASE d # "visibility"
    BY <1>2, <2>2, OverriddenFields
  <2> QED
    BY <2>1, <2>2
<1> HIDE DEF x
<1>5. << x, a >> \in NoSofter(Dimension \ {"interaction"})
  BY <1>1, <1>4 DEF NoSofter
<1> QED
  BY <1>5 DEF x

(* The facts do not depend on the override. *)
LEMMA OverrideStep ==
  ASSUME IInv, IInv', FirmCeiling, override = NotGiven,
         UNCHANGED << given, administration, contacts, blocks, signals, now >>
  PROVE  /\ << verdict', verdict >> \in NoSofter(Dimension \ {"interaction"})
         /\ ~verdict.overridable => verdict' = verdict
<1> USE DEF given, administration, signals
<1>1. profile' = profile /\ Facts' = Facts
  BY DEF Facts, Blocked, Denied, AllowlistMissed, IsProtected, Authors, Count, Countable,
         TrustSet, Muters, Live, Reporters
<1>2. /\ Facts \in Told /\ override' \in Overriding /\ override \in Overriding
      /\ profile \in Normal
      /\ verdict = Verdict(profile, override, Facts)
      /\ verdict' = Verdict(profile, override', Facts)
  BY <1>1, VerdictIsOfFacts, VerdictIsOfNextFacts DEF IInv, Inputs
<1>3. verdict.overridable = TRUE
  BY <1>2, VerdictType
<1> DEFINE a == Accumulated[StagesOf(profile, Facts)]
           D == Dimension \ {"interaction"}
<1>4. a \in Decision
  BY <1>2, StagesType, AccumulatedType
<1>5. << OverriddenBy(profile, override', a), a >> \in NoSofter(D)
  BY <1>2, <1>4, OverriddenSofter
<1>6. OverriddenBy(profile, override', a) \in Decision
  BY <1>2, <1>4, OverriddenType
<1>7. OverriddenBy(profile, override, a) = a
  BY DEF OverriddenBy, Softens
<1>8. "visibility" \in D /\ D \in SUBSET Dimension
  BY DEF Dimension
<1>9. CASE ~profile.disabled
  <2>1. << CappedBy(profile, OverriddenBy(profile, override', a)), CappedBy(profile, a) >>
          \in NoSofter(D)
    BY <1>2, <1>4, <1>5, <1>6, <1>8, FirmCap, CappedMonotone
  <2>2. /\ verdict = CappedBy(profile, a)
        /\ verdict' = CappedBy(profile, OverriddenBy(profile, override', a))
    BY <1>2, <1>7, <1>9 DEF Verdict
  <2> QED
    BY <1>3, <2>1, <2>2
<1>10. CASE profile.disabled
  <2>1. verdict' = verdict /\ verdict \in Decision
    BY <1>2, <1>10, VerdictType DEF Verdict
  <2>2. \A d \in Dimension : Severity(d, verdict.effects[d]) \in Nat
    BY <2>1, EffectsType, SeverityType DEF Decision
  <2>3. verdict.weight \in Nat
    BY <2>1 DEF Decision
  <2> QED
    BY <2>1, <2>2, <2>3 DEF NoSofter
<1> QED
  BY <1>9, <1>10

(* An override only softens what is decided without it, and leaves alone   *)
(* what may not be overridden.                                             *)
THEOREM OverridesSoften == Spec => OverrideOnlySoftens
<1>1. IInv /\ IInv' /\ [Next]_vars
        => [ /\ FirmCeiling
             /\ UNCHANGED << given, administration, contacts, blocks, signals, now >>
             /\ override = NotGiven
             => /\ << verdict', verdict >> \in NoSofter(Dimension \ {"interaction"})
                /\ ~verdict.overridable => verdict' = verdict ]_vars
  BY OverrideStep
<1> QED
  BY <1>1, Invariant, PTL DEF OverrideOnlySoftens, Spec
=============================================================================
