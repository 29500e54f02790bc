----------------------------- MODULE Evaluator -------------------------------
(***************************************************************************)
(* evaluateTarget (packages/core/src/evaluator.js): the verdict on one     *)
(* target under one profile, as the snapshot and the viewer's state change *)
(* around it. The verdict is a function of the state, so what a change of  *)
(* evidence may do to it is a property of steps.                           *)
(*                                                                         *)
(* The evaluator reads what the stores hold; the actions are the changes   *)
(* the stores make. It is given administrative state and protected actors  *)
(* apart, and does not rely on the reducer to have kept them consistent.   *)
(***************************************************************************)
EXTENDS Policy, AdminState, TLC

CONSTANTS
  Profiles,     \* Profiles as their authors wrote them.
  Subjects,     \* Targets to evaluate, with their authors.
  Signers,      \* Accounts that report and mute.
  Seeds,        \* Trust seeds.
  Follows,      \* Sets of contacts the viewer may have.
  Mentions,     \* How a mute list may name the subject: at most once, with a
                \* category or without, {NotGiven}.
  Deniable,     \* Targets that administrators deny.
  Blockable,    \* Accounts that the viewer blocks.
  Requests,     \* What a viewer may override the visibility to.
  Times,        \* Values of the injected clock, and of the lists' dates.
  MaxSignals    \* Bound: reports and mute lists held at once.

(* A user is its own author, an event may not say who wrote it.            *)
Subject == [key : Target, author : Actor \cup {NoActor}]

IsTable(t) ==
  DOMAIN t \subseteq Category \cup {"default"} /\ \A c \in DOMAIN t : t[c] \in CategoryThresholds

IsProfile(p) ==
  /\ DOMAIN p =
       { "administrativeDeny", "viewerBlock", "allowlistMiss", "requireAllowlist",
         "allowViewerOverride", "bypassHide", "bypassHideCeiling", "disabled",
         "reports", "mutes", "muteWindowSeconds" }
  /\ {p.administrativeDeny, p.viewerBlock, p.allowlistMiss} \subseteq Effects \cup {NotGiven}
  /\ {p.requireAllowlist, p.allowViewerOverride, p.bypassHide, p.disabled} \subseteq BOOLEAN
  /\ p.bypassHideCeiling \in Ceiling
  /\ IsTable(p.reports) /\ IsTable(p.mutes) /\ p.muteWindowSeconds \in Nat

ASSUME ProfileAssumption == \A p \in Profiles : IsProfile(p)

ASSUME SubjectAssumption ==
  /\ Subjects \subseteq Subject
  /\ \A s \in Subjects : s.key \in Actor => s.author = s.key
  /\ Signers \subseteq Actor /\ Seeds \subseteq Actor /\ Follows \subseteq SUBSET Actor
  /\ \A m \in Mentions : m \subseteq Category \cup {NotGiven} /\ Cardinality(m) <= 1
  /\ Deniable \subseteq Target /\ Blockable \subseteq Actor
  /\ Requests \subseteq EffectsOf("visibility") /\ Times \subseteq Nat /\ MaxSignals \in Nat
  /\ NotGiven \notin Effects \cup Requests \cup Category

VARIABLES
  subject, profile,   \* What is evaluated; the profile is normalised.
  protectedActors,    \* Of the authority.
  admin,              \* The reduced administrative state.
  contacts,           \* Of the viewer.
  blocks,             \* Of the viewer.
  override,           \* The viewer's for this target, or NotGiven.
  reports,            \* Of this target: reporters and categories.
  lists,              \* Mute lists by owner: their dates and what they say of it.
  now,
  verdict             \* What evaluateTarget answers.

given == << subject, profile >>
administration == << admin, protectedActors >>
viewer == << contacts, blocks, override >>
signals == << reports, lists >>
vars == << given, administration, viewer, signals, now, verdict >>

-----------------------------------------------------------------------------
(* authorChain. *)
Authors == {subject.author} \ {NoActor}

IsProtected == \E a \in Authors : IsProtectedActor(a, [protectedActors |-> protectedActors])

Blocked == Authors \cap blocks # {}

(* A target is denied by itself or with its author.                        *)
Denied ==
  ~IsProtected /\ (IsDenied(subject.key, admin) \/ Authors \cap admin.userDeny # {})

(* Faults: the allowlist holds for protected actors too; ...               *)
MissedByAnyone == profile.requireAllowlist /\ Authors \cap admin.userAllow = {}

AllowlistMissed ==
  profile.requireAllowlist /\ ~IsProtected /\ Authors \cap admin.userAllow = {}

(* ... contacts that are blocked are as good as none.                      *)
TrustSetUnblocked == IF contacts \ blocks # {} THEN contacts ELSE Seeds

(* resolveTrustSet: the seeds only stand in for a viewer without contacts. *)
TrustSet == IF contacts # {} THEN contacts ELSE Seeds

(* isCountableSignal. *)
Countable(a) == a \in TrustSet /\ a \notin blocks /\ a \notin admin.userDeny

(* aggregateReports and aggregateMutes: accounts, of one category or all.  *)
Reporters(category) == {r.reporter : r \in {s \in reports : s.category = category}}

Live(list) ==
  profile.muteWindowSeconds > 0 => list.updatedAt >= now - profile.muteWindowSeconds

Muters(categories) ==
  {a \in DOMAIN lists : Live(lists[a]) /\ lists[a].mention \cap categories # {}}

Count(signers) == Cardinality({a \in signers : Countable(a)})

(* The stages of an evaluation. Mutes count in all, under the default      *)
(* thresholds, and again in the categories that the profile lists; reports *)
(* count by category, under the default thresholds where it lists none.    *)
Given(effects) == IF effects = NotGiven THEN HideAndDeny ELSE effects

Stages ==
  { << << "block", "all" >>, IF Blocked THEN Given(profile.viewerBlock) ELSE NoEffects >>,
    << << "denial", "all" >>, IF Denied THEN Given(profile.administrativeDeny) ELSE NoEffects >>,
    << << "allowlist", "all" >>,
       IF AllowlistMissed THEN Given(profile.allowlistMiss) ELSE NoEffects >>,
    << << "mutes", "all" >>,
       ApplyThresholds[ResolveThresholds(profile.mutes, "default")]
         [Count(Muters(Category \cup {NotGiven}))] >> }
  \cup
  { << << "mutes", c >>, ApplyThresholds[profile.mutes[c]][Count(Muters({c}))] >> :
      c \in Category \cap DOMAIN profile.mutes }
  \cup
  { << << "reports", c >>,
       ApplyThresholds[ResolveThresholds(profile.reports, c)][Count(Reporters(c))] >> :
      c \in Category }

(* A fault: an override counts however strict it is.                       *)
AnyOverride(decision) == override # NotGiven

Softening(decision) ==
  /\ override # NotGiven
  /\ Severity("visibility", override)
       < Severity("visibility", decision.effects.visibility)

(* A viewer's override softens the visibility, and leaves the interaction  *)
(* to an explicit action; the profile's permission stands for the          *)
(* context's switch as well.                                               *)
Overridden[decision \in Decision] ==
  IF profile.allowViewerOverride /\ decision.overridable /\ Softening(decision)
    THEN [decision EXCEPT !.effects.visibility = override,
                          !.effects.interaction = "require-explicit-action"]
    ELSE decision

(* The surface's ceiling, over whatever the stages and the viewer made.    *)
CapAt == IF profile.bypassHideCeiling = NotGiven THEN "restrict" ELSE profile.bypassHideCeiling

Capped[decision \in Decision] ==
  IF /\ profile.bypassHide
     /\ Severity("visibility", decision.effects.visibility) >= Severity("visibility", "hide")
    THEN [decision EXCEPT !.effects.visibility = CapAt]
    ELSE decision

(* evaluateTarget: nothing is decided where governance is disabled.        *)
EvaluateTarget ==
  IF profile.disabled THEN NeutralDecision
  ELSE Capped[Overridden[Accumulated[Stages]]]

-----------------------------------------------------------------------------
Init ==
  /\ subject \in Subjects
  /\ \E p \in Profiles : profile = NormalizePolicyProfile(p)
  /\ protectedActors = {}
  /\ contacts = {} /\ blocks = {}
  /\ admin = [userAllow |-> {}, userDeny |-> {}, eventDeny |-> {}, addressDeny |-> {}]
  /\ override = NotGiven
  /\ reports = {} /\ lists = << >>
  /\ now \in Times
  /\ verdict = EvaluateTarget

(* The verdict follows every change.                                       *)
Evaluated == verdict' = EvaluateTarget'

-----------------------------------------------------------------------------
Room == Cardinality(reports') + Cardinality(DOMAIN lists') <= MaxSignals

(* ReportStore: a report counts once for its reporter and category, and    *)
(* is ingested again without consequence.                                  *)
Report ==
  /\ \E r \in [reporter : Signers, category : Category] \ reports : reports' = reports \cup {r}
  /\ UNCHANGED << given, administration, viewer, lists, now >>
  /\ Room
  /\ Evaluated

ClearTarget ==
  /\ reports # {} /\ reports' = {}
  /\ UNCHANGED << given, administration, viewer, lists, now >>
  /\ Evaluated

(* replaceList, unless the list held is newer; lists name accounts only,   *)
(* and come no earlier than they are dated.                                *)
(* Fault: entries of the older list stay.                                  *)
MergeList(a, list) ==
  [ b \in DOMAIN lists \cup {a} |->
      IF b # a THEN lists[b]
      ELSE [list EXCEPT !.mention = @ \cup (IF a \in DOMAIN lists THEN lists[a].mention ELSE {})] ]

ReplacedList(a, list) == [b \in DOMAIN lists \cup {a} |-> IF b = a THEN list ELSE lists[b]]

ReplaceList ==
  /\ subject.key \in Actor
  /\ \E a \in Signers, mention \in Mentions, date \in {t \in Times : t <= now} :
       /\ a \in DOMAIN lists => lists[a].updatedAt <= date
       /\ lists' = ReplacedList(a, [updatedAt |-> date, mention |-> mention])
  /\ UNCHANGED << given, administration, viewer, reports, now >>
  /\ Room
  /\ Evaluated

(* The administrative state is replaced whole by the reducer; here one     *)
(* denial or permission comes or goes.                                     *)
Toggle(set, x) == IF x \in set THEN set \ {x} ELSE set \cup {x}

ChangeDenial ==
  /\ \E t \in Deniable \cap ({subject.key} \cup Authors \cup Signers) :
       admin' = [ admin EXCEPT !.userDeny    = IF t \in Actor THEN Toggle(@, t) ELSE @,
                               !.eventDeny   = IF t \in Event THEN Toggle(@, t) ELSE @,
                               !.addressDeny = IF t \in Address THEN Toggle(@, t) ELSE @ ]
  /\ UNCHANGED << given, protectedActors, viewer, signals, now >>
  /\ Evaluated

ChangePermission ==
  /\ \E a \in Authors : admin' = [admin EXCEPT !.userAllow = Toggle(@, a)]
  /\ UNCHANGED << given, protectedActors, viewer, signals, now >>
  /\ Evaluated

(* setRoles changes who is protected.                                      *)
ChangeProtection ==
  /\ \E a \in Authors : protectedActors' = Toggle(protectedActors, a)
  /\ UNCHANGED << given, admin, viewer, signals, now >>
  /\ Evaluated

(* TrustGraphStore: setContacts and setBlocks, the latter one at a time.   *)
SetContacts ==
  /\ contacts' \in Follows \ {contacts}
  /\ UNCHANGED << given, administration, blocks, override, signals, now >>
  /\ Evaluated

SetBlocks ==
  /\ \E a \in Blockable : blocks' = Toggle(blocks, a)
  /\ UNCHANGED << given, administration, contacts, override, signals, now >>
  /\ Evaluated

(* OverrideStore. *)
SetOverride ==
  /\ override' \in Requests \ {override}
  /\ UNCHANGED << given, administration, contacts, blocks, signals, now >>
  /\ Evaluated

RemoveOverride ==
  /\ override # NotGiven
  /\ override' = NotGiven
  /\ UNCHANGED << given, administration, contacts, blocks, signals, now >>
  /\ Evaluated

(* clearViewerState and clearOverrides, when the viewer changes.           *)
ClearViewerState ==
  /\ << contacts, blocks, override >> # << {}, {}, NotGiven >>
  /\ contacts' = {} /\ blocks' = {} /\ override' = NotGiven
  /\ UNCHANGED << given, administration, signals, now >>
  /\ Evaluated

Tick ==
  /\ now' \in {t \in Times : t > now}
  /\ UNCHANGED << given, administration, viewer, signals >>
  /\ Evaluated

Next ==
  \/ Report \/ ClearTarget \/ ReplaceList
  \/ ChangeDenial \/ ChangePermission \/ ChangeProtection
  \/ SetContacts \/ SetBlocks \/ SetOverride \/ RemoveOverride \/ ClearViewerState
  \/ Tick

Spec == Init /\ [][Next]_vars
-----------------------------------------------------------------------------
(* The state has its type, and a list names an account once: what an older *)
(* list said of it is gone when a newer one takes its place.               *)
TypeOK ==
  /\ subject \in Subjects /\ profile \in {NormalizePolicyProfile(p) : p \in Profiles}
  /\ admin \in [ userAllow : SUBSET Actor, userDeny : SUBSET Actor,
                 eventDeny : SUBSET Event, addressDeny : SUBSET Address ]
  /\ protectedActors \subseteq Actor
  /\ contacts \in Follows \cup {{}} /\ blocks \subseteq Blockable
  /\ override \in Requests \cup {NotGiven}
  /\ reports \subseteq [reporter : Signers, category : Category]
  /\ DOMAIN lists \subseteq Signers
  /\ \A a \in DOMAIN lists : lists[a] \in [updatedAt : Times, mention : Mentions]
  /\ now \in Times /\ verdict \in Decision

(* A ceiling that does not come below what it leaves alone.                *)
FirmCeiling == Severity("visibility", CapAt) >= Severity("visibility", "restrict")

Muting == {p \in Signers \X (Category \cup {NotGiven}) : p[1] \in Muters({p[2]})}

(* More reports and mutes never make a verdict more lenient, whatever was  *)
(* overridden, denied or blocked before, and however the counts of a       *)
(* category and of all categories meet their thresholds; under an override *)
(* the interaction is the override's.                                      *)
SignalsNeverSoften ==
  [][ /\ FirmCeiling
      /\ UNCHANGED << given, administration, viewer, now >>
      /\ reports \subseteq reports' /\ Muting \subseteq Muting'
      => << verdict, verdict' >> \in
           NoSofter(Dimension \ (IF override = NotGiven THEN {} ELSE {"interaction"})) ]_vars

(* Silencing accounts other than the author, whether the viewer blocks     *)
(* them, administrators deny them or their lists grow old, never makes a   *)
(* verdict stricter: blocking the last contact does not bring the seeds    *)
(* back.                                                                   *)
SilencingNeverHardens ==
  [][ /\ FirmCeiling /\ override = NotGiven
      /\ UNCHANGED << given, protectedActors, contacts, override, signals >>
      /\ blocks \subseteq blocks' /\ admin.userDeny \subseteq admin'.userDeny
      /\ admin' = [admin EXCEPT !.userDeny = admin'.userDeny] /\ now <= now'
      /\ Authors \cap (blocks' \ blocks) = {}
      /\ Authors \cap (admin'.userDeny \ admin.userDeny) = {}
      => << verdict', verdict >> \in NoSofter(Dimension) ]_vars

(* No denial and no permission reaches what a protected account wrote,     *)
(* though the administrative state should name it: the denial of others    *)
(* only counts as their silence.                                           *)
ProtectedStands ==
  [][ /\ IsProtected
      /\ Signers \cap (admin'.userDeny \ admin.userDeny) = {}
      /\ Signers \cap (admin.userDeny \ admin'.userDeny) = {}
      /\ UNCHANGED << given, protectedActors, viewer, signals, now >>
      => verdict' = verdict ]_vars

(* "Overrides may only soften, never escalate, and never reach a           *)
(* non-overridable decision" (evaluator.js:458-459): none makes content    *)
(* less visible, whatever else is decided of it, except that it leaves the *)
(* interaction to an explicit action.                                      *)
OverrideOnlySoftens ==
  [][ /\ FirmCeiling /\ UNCHANGED << given, administration, contacts, blocks, signals, now >>
      /\ override = NotGiven
      => /\ << verdict', verdict >> \in NoSofter(Dimension \ {"interaction"})
         /\ ~verdict.overridable => verdict' = verdict ]_vars

(* presets.js, 206-207: "this surface caps visibility at a warning no      *)
(* matter how strong the evidence."                                        *)
CeilingHolds ==
  profile.bypassHide
    => Severity("visibility", verdict.effects.visibility) <= Severity("visibility", CapAt)
=============================================================================
