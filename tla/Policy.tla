------------------------------- MODULE Policy --------------------------------
(***************************************************************************)
(* The policy engine (packages/core/src/policy.js): four severity ladders, *)
(* thresholds that map counts onto them, and decisions that keep the most  *)
(* severe effect seen in each dimension.                                   *)
(*                                                                         *)
(* An effect that a profile leaves out is its ladder's lowest, which never *)
(* changes a decision; that a decision without a transaction gate carries  *)
(* no transaction block is left out. Reasons and evidence are left out.    *)
(***************************************************************************)
EXTENDS Integers, Sequences, FiniteSets

CONSTANTS
  Category,       \* Report and mute categories.
  NotGiven        \* A field of a profile that its author left out.

(* A profile and the reports' own list name finitely many; "all" is none.  *)
ASSUME CategoryAssumption == IsFiniteSet(Category) /\ "all" \notin Category

Dimension == {"ranking", "visibility", "interaction", "transaction"}

Ladder ==
  [ ranking     |-> << "normal", "downrank" >>,
    visibility  |-> << "allow", "warn", "restrict", "hide", "deny" >>,
    interaction |-> << "allow", "require-explicit-action", "deny" >>,
    transaction |-> << "allow", "require-review", "deny" >> ]

EffectsOf(d) == {Ladder[d][i] : i \in DOMAIN Ladder[d]}

(* effectSeverity, counted from one.                                       *)
Rank ==
  [d \in Dimension |-> [e \in EffectsOf(d) |-> CHOOSE i \in DOMAIN Ladder[d] : Ladder[d][i] = e]]

Severity(d, effect) == Rank[d][effect]

MaxEffect(d, a, b) == IF Severity(d, a) >= Severity(d, b) THEN a ELSE b

(* DimensionEffects. *)
Effects ==
  [ ranking : EffectsOf("ranking"), visibility : EffectsOf("visibility"),
    interaction : EffectsOf("interaction"), transaction : EffectsOf("transaction") ]

NoEffects == [d \in Dimension |-> Ladder[d][1]]

HideAndDeny == [NoEffects EXCEPT !.visibility = "hide", !.interaction = "deny"]

AtMost(e, f) == \A d \in Dimension : Severity(d, e[d]) <= Severity(d, f[d])

-----------------------------------------------------------------------------
(* CategoryThresholds: a count for each gate, zero where there is none.    *)
Gate ==
  { "downrank", "warn", "restrict", "hide", "deny", "requireExplicitAction",
    "interactionDeny", "transactionReview", "transactionDeny" }

GateEffect ==
  [ downrank              |-> << "ranking", "downrank" >>,
    warn                  |-> << "visibility", "warn" >>,
    restrict              |-> << "visibility", "restrict" >>,
    hide                  |-> << "visibility", "hide" >>,
    deny                  |-> << "visibility", "deny" >>,
    requireExplicitAction |-> << "interaction", "require-explicit-action" >>,
    interactionDeny       |-> << "interaction", "deny" >>,
    transactionReview     |-> << "transaction", "require-review" >>,
    transactionDeny       |-> << "transaction", "deny" >> ]

CategoryThresholds == [Gate -> Nat]

NoThresholds == [g \in Gate |-> 0]

(* Fault: a gate only fires when its threshold is reached, not beyond it.  *)
GatesJustReached(count, thresholds) ==
  {g \in Gate : thresholds[g] > 0 /\ count = thresholds[g]}

(* A gate whose threshold is zero never fires.                             *)
FiredGates(count, thresholds) ==
  {g \in Gate : thresholds[g] > 0 /\ count >= thresholds[g]}

(* The most severe of a dimension's effects.                               *)
Strongest(d, effects) ==
  CHOOSE e \in effects : \A f \in effects : Severity(d, f) <= Severity(d, e)

(* applyThresholds: what a count amounts to under given thresholds.        *)
Reached(d, count, thresholds) ==
  {GateEffect[g][2] : g \in {h \in FiredGates(count, thresholds) : GateEffect[h][1] = d}}

ApplyThresholds[thresholds \in CategoryThresholds] ==
  [ count \in Nat |->
      [d \in Dimension |-> Strongest(d, {NoEffects[d]} \cup Reached(d, count, thresholds))] ]

(* resolveThresholds: a table is a function from the categories it lists.  *)
ResolveThresholds(table, category) ==
  IF category \in DOMAIN table THEN table[category]
  ELSE IF "default" \in DOMAIN table THEN table["default"]
  ELSE NoThresholds

-----------------------------------------------------------------------------
Ceiling == EffectsOf("visibility") \cup {NotGiven}

(* normalizePolicyProfile: effects that were not given become no effects,  *)
(* and a profile that bypasses hides has a ceiling.                        *)
NormalizedEffects(effects) == IF effects = NotGiven THEN NoEffects ELSE effects

NormalizePolicyProfile(p) ==
  [ p EXCEPT !.administrativeDeny = NormalizedEffects(@),
             !.viewerBlock = NormalizedEffects(@),
             !.allowlistMiss = NormalizedEffects(@),
             !.bypassHideCeiling = IF @ = NotGiven /\ p.bypassHide THEN "restrict" ELSE @ ]

-----------------------------------------------------------------------------
(* A decision: the effect in each dimension, the weight of the ranking, and*)
(* whether a viewer may override it.                                       *)
Decision == [effects : Effects, weight : Nat, overridable : BOOLEAN]

(* The pairs of a decision and one that is no more lenient in some         *)
(* dimensions.                                                             *)
NoSofter(dimensions) ==
  { p \in Decision \X Decision :
      /\ p[1].weight <= p[2].weight
      /\ \A d \in dimensions : Severity(d, p[1].effects[d]) <= Severity(d, p[2].effects[d]) }

(* createNeutralDecision. *)
NeutralDecision == [effects |-> NoEffects, weight |-> 0, overridable |-> TRUE]

Merged(e, f) == [d \in Dimension |-> MaxEffect(d, e[d], f[d])]

(* applyEffects. *)
ApplyEffects(decision, effects) ==
  [ effects     |-> Merged(decision.effects, effects),
    weight      |-> IF effects.ranking = "downrank" THEN decision.weight + 1
                                                    ELSE decision.weight,
    overridable |-> decision.overridable ]

(* The stages of an evaluation, of all signals or those of a category.     *)
Stage ==
  ({"block", "denial", "allowlist", "mutes"} \X {"all"}) \cup ({"mutes", "reports"} \X Category)

(* What is left when the effects of several stages were applied to the     *)
(* neutral decision one after the other: the order is without consequence. *)
Accumulated[stages \in SUBSET (Stage \X Effects)] ==
  [ effects     |-> [d \in Dimension |->
                       Strongest(d, {NoEffects[d]} \cup {s[2][d] : s \in stages})],
    weight      |-> Cardinality({s \in stages : s[2].ranking = "downrank"}),
    overridable |-> TRUE ]

(* composeDecisions, of two decisions.                                     *)
ComposeDecisions(a, b) ==
  [ effects     |-> Merged(a.effects, b.effects),
    weight      |-> a.weight + b.weight,
    overridable |-> a.overridable /\ b.overridable ]
=============================================================================
