------------------------------- MODULE Widgets -------------------------------
(***************************************************************************)
(* One element of a page that <bitgate-provider> serves (packages/widget/  *)
(* src/base.js, viewer.js, admin.js): it looks for the provider's runtime  *)
(* when it enters the document, or waits for one, follows its changes, and *)
(* draws what the runtime answers about the element's target or about the  *)
(* viewer's permissions. Host scripts assign runtimes, commands and        *)
(* targets at any time, markup changes, viewers click, and the provider    *)
(* throws the runtime away and builds another.                             *)
(*                                                                         *)
(* A runtime's answer is drawn from the answers there are whenever the     *)
(* question or the runtime's state changes; evaluating it is Evaluator's   *)
(* concern. A drawing is what the viewer can see of it and whether there is*)
(* a button to press. "allow" stands for a warning too, "deny" also for a  *)
(* hide that viewers may not override.                                     *)
(***************************************************************************)
EXTENDS Provider

CONSTANTS
  Target,          \* What the element may be about.
  NoTarget,
  MaxSubmissions   \* Bound on the submissions under way at once.

ASSUME WidgetsAssumption == NoTarget \notin Target /\ MaxSubmissions \in Nat

Class == {"veil", "report", "status", "capabilities", "action", "panel"}
Aiming == {"veil", "report", "status"}          \* Those that have a target.
Commanding == {"report", "action", "panel"}     \* Those with a commands property.

(* What a runtime may answer an element of each class; a report asks it    *)
(* nothing.                                                                *)
Answers ==
  [c \in Class |->
     CASE c \in {"veil", "status"} -> {"allow", "restrict", "hide", "deny"}
       [] c \in {"capabilities", "action", "panel"} -> {"permitted", "refused"}
       [] c = "report" -> {"none"}]

VARIABLES
  class,
  place,        \* "away", "inside" the provider, or "outside" it.
  held,         \* _runtime: the generation that built it, or None.
  subscribed,   \* Whose changes _unsubscribe ends, or None.
  waiting,      \* For bitgate:ready: "never" asked, "armed" or "spent".
  commands,     \* Whose commands it has, or None.
  assigned,     \* _target.
  markup,       \* The target that the attributes name.
  revealed,     \* _revealed.
  answer,       \* What the runtime would answer now, or "none".
  status,       \* _status.
  pending,      \* The promise on show: "null", "flying" or "settled".
  flights,      \* Submissions under way.
  view,         \* What was drawn last.
  hosted,       \* History: a host script assigned a runtime or commands.
  silent,       \* History: nothing told the element of a change since then.
  disclosed     \* History: the target a click revealed since the last was assigned.

base == << class, place, held, subscribed, waiting, commands >>
subject == << assigned, markup, revealed >>
form == << status, pending, flights >>
drawing == << answer, view, silent >>
history == << hosted, disclosed >>
widget == << base, subject, form, drawing, history >>
vars == << elementVars, widget >>

Init ==
  /\ ElementInit
  /\ class \in Class /\ place = "away"
  /\ held = None /\ subscribed = None /\ waiting = "never" /\ commands = None
  /\ assigned = NoTarget /\ markup = NoTarget /\ revealed = FALSE
  /\ status = "" /\ pending = "null" /\ flights = 0
  /\ answer = "none" /\ view = [content |-> "blank", button |-> FALSE] /\ silent = TRUE
  /\ hosted = FALSE /\ disclosed = NoTarget

Attached == place = "outside" \/ (place = "inside" /\ isConnected)

(* A target that was assigned goes before one in markup.                   *)
Aim == IF assigned # NoTarget THEN assigned ELSE markup

-----------------------------------------------------------------------------
(* The six drawings.                                                       *)
Veil(a, r) ==
  CASE a \in {"hide", "deny"} /\ ~r -> [content |-> "covered", button |-> a = "hide"]
    [] a = "restrict" /\ ~r         -> [content |-> "blurred", button |-> TRUE]
    [] r \/ a \in {"none", "allow"}  -> [content |-> "open", button |-> FALSE]

Report(c) == [content |-> status, button |-> Aim # NoTarget /\ c # None]

Status(a) == [content |-> a, button |-> FALSE]

Capabilities(a) == [content |-> a, button |-> FALSE]

Action(a) == [content |-> status, button |-> a = "permitted"]

AdminPanel(a) ==
  IF a = "none" THEN [content |-> "none", button |-> FALSE]
                ELSE [content |-> status, button |-> a = "permitted"]

(* render(), with the commands that the element has when it runs.          *)
Render(c) ==
  CASE class = "veil"         -> Veil(answer, revealed)
    [] class = "report"       -> Report(c)
    [] class = "status"       -> Status(answer)
    [] class = "capabilities" -> Capabilities(answer)
    [] class = "action"       -> Action(answer)
    [] class = "panel"        -> AdminPanel(answer)

Redraw == view' = Render(commands)' /\ silent' = FALSE

(* A report form is not drawn again when it is given commands afterwards.  *)
RedrawThenCommand ==
  /\ \E c \in {commands} : view' = Render(c)'
  /\ silent' = (class = "report")

Unasked == held = None \/ (class \in Aiming /\ Aim = NoTarget)

Possible == IF Unasked THEN {"none"} ELSE Answers[class]

(* The same question of the same runtime has the same answer.              *)
Ask == answer' \in Possible' /\ (<< held, Aim >>' = << held, Aim >> => answer' = answer)

-----------------------------------------------------------------------------
(* The element finds a provider.                                           *)

Near(p) == IF p = "inside" THEN runtime' ELSE None

(* start() dispatches bitgate:ready in every start that makes a runtime.   *)
Ready == generation' # generation /\ runtime' # None

Heard == IF waiting = "armed" /\ Ready THEN "spent" ELSE waiting

(* A fault: an element that no provider answers does not wait for one.     *)
NeverWaiting == waiting

WaitingUnanswered == IF Heard = "never" THEN "armed" ELSE Heard

(* Faults: only an element that just found its runtime follows it; an      *)
(* element that is away follows the one it is given.                       *)
FollowedIfAdopted == IF held = None THEN held' ELSE None

FollowedAnywhere == held'

FollowedOnEntry == held'

FollowedOnAssignment == IF Attached THEN held' ELSE None

(* A fault: elements that give no commands are given some.                 *)
AdoptedByAll == runtime'

Adopted == IF class \in Commanding THEN runtime' ELSE None

(* connectedCallback, with the provider's answer to the context request.   *)
ConnectedCallback(p) ==
  /\ place' = p
  /\ held' = IF held = None THEN Near(p) ELSE held
  /\ commands' = IF held = None /\ Near(p) # None THEN Adopted ELSE commands
  /\ waiting' = IF held' = None THEN WaitingUnanswered ELSE Heard
  /\ subscribed' = FollowedOnEntry
  /\ UNCHANGED << class, subject, form, history >>
  /\ Ask /\ Redraw

DisconnectedCallback ==
  /\ subscribed' = None
  /\ UNCHANGED << class, held, waiting, commands, subject, form, drawing, history >>

(* The listener that adoptContext left at the document.                    *)
HearReady ==
  /\ UNCHANGED << class, place, subject, form, history >>
  /\ waiting' = Heard
  /\ IF waiting = "armed" /\ Ready /\ held = None
       THEN /\ held' = runtime' /\ commands' = Adopted
            /\ subscribed' = FollowedOnAssignment
            /\ Ask /\ RedrawThenCommand
       ELSE UNCHANGED << held, commands, subscribed, drawing >>

Enter ==
  /\ UNCHANGED elementVars
  /\ place = "away"
  /\ \E p \in {"inside", "outside"} :
       IF p = "inside" /\ ~isConnected
         THEN /\ place' = p
              /\ UNCHANGED << class, held, subscribed, waiting, commands, subject, form,
                              drawing, history >>
         ELSE ConnectedCallback(p)

Leave ==
  /\ place # "away" /\ place' = "away"
  /\ DisconnectedCallback
  /\ UNCHANGED elementVars

-----------------------------------------------------------------------------
(* The provider's steps, in which it takes the elements inside it along.   *)

ProviderConnects ==
  /\ Connect
  /\ IF place = "inside" THEN ConnectedCallback("inside") ELSE HearReady

ProviderDisconnects ==
  /\ Disconnect /\ UNCHANGED place
  /\ IF place = "inside"
       THEN DisconnectedCallback
       ELSE UNCHANGED << class, held, subscribed, waiting, commands, subject, form,
                         drawing, history >>

ProviderChanges == AttributeChanged /\ HearReady

ProviderContinues == Continue /\ UNCHANGED widget

-----------------------------------------------------------------------------
(* Host scripts and markup.                                                *)

SetRuntime ==
  /\ held' \in {None, runtime} \ {held}
  /\ subscribed' = IF held' = None THEN None ELSE FollowedOnAssignment
  /\ UNCHANGED << elementVars, class, place, waiting, commands, subject, form, disclosed >>
  /\ Ask /\ Redraw
  /\ hosted' = TRUE

(* A plain property: nothing is drawn.                                     *)
SetCommands ==
  /\ class \in Commanding
  /\ commands' \in {None, runtime} \ {commands}
  /\ hosted' = TRUE /\ silent' = TRUE
  /\ UNCHANGED << elementVars, class, place, held, subscribed, waiting, subject, form,
                  answer, view, disclosed >>

(* A fault: what was revealed stays revealed.                              *)
RevealedStill == revealed

RevealedAfterAssignment == FALSE

SetTarget ==
  /\ class \in Aiming
  /\ assigned' \in Target \cup {NoTarget}
  /\ revealed' = RevealedAfterAssignment
  /\ status' = IF class = "report" THEN "" ELSE status
  /\ disclosed' = NoTarget
  /\ UNCHANGED << elementVars, base, markup, pending, flights, hosted >>
  /\ Ask /\ Redraw

(* attributeChangedCallback, of a target or of what else the question is   *)
(* made of: a profile, a capability.                                       *)
SetAttribute ==
  /\ class \in Aiming \cup {"action"}
  /\ markup' \in IF class \in Aiming THEN Target \cup {NoTarget} ELSE {NoTarget}
  /\ UNCHANGED << elementVars, base, assigned, revealed, form, history >>
  /\ answer' \in Possible' /\ Redraw

-----------------------------------------------------------------------------
(* The runtime's state changes and its "change" event says so; a runtime   *)
(* that was destroyed has no such event.                                   *)
Change ==
  /\ held \in live /\ answer' \in Possible
  /\ UNCHANGED << elementVars, base, subject, form, history >>
  /\ IF subscribed = held
       THEN Redraw
       ELSE view' = view /\ silent' = (silent \/ ~Attached)

(* The answer changes without one: the viewer is switched, an override     *)
(* expires, a mute list outgrows its window.                               *)
Drift ==
  /\ answer' \in Possible \ {answer} /\ silent' = TRUE
  /\ UNCHANGED << elementVars, base, subject, form, view, history >>

-----------------------------------------------------------------------------
(* The viewer's clicks, on what was drawn.                                 *)

Pressed == Attached /\ view.button

Reveal ==
  /\ class = "veil" /\ Pressed
  /\ revealed' = TRUE /\ disclosed' = Aim
  /\ UNCHANGED << elementVars, base, assigned, markup, form, answer, hosted >>
  /\ Redraw

Lacking ==
  \/ class = "report" /\ Aim = NoTarget
  \/ class \in {"report", "panel"} /\ commands = None

(* _submit, _run and _deny, up to their await.                             *)
Submit ==
  /\ class \in Commanding /\ Pressed /\ ~Lacking
  /\ flights < MaxSubmissions
  /\ flights' = flights + 1 /\ pending' = "flying" /\ status' = "busy"
  /\ UNCHANGED << elementVars, base, subject, answer, history >>
  /\ Redraw

(* An early return: something is lacking, no action was set, no key typed. *)
SubmitNothing ==
  /\ class \in Commanding /\ Pressed
  /\ class = "report" => Lacking
  /\ pending' = "settled"
  /\ UNCHANGED << elementVars, base, subject, status, flights, drawing, history >>

(* A fault: a submission that was refused says nothing.                    *)
StatusUnlessRefused == {status, "done"}

StatusAfter == {"done"}

(* Whichever submission ends, ends them all for the host.                  *)
Finish ==
  /\ flights > 0 /\ flights' = flights - 1
  /\ pending' = "null" /\ status' \in StatusAfter
  /\ UNCHANGED << elementVars, base, subject, answer, history >>
  /\ Redraw

Next ==
  \/ Enter \/ Leave
  \/ ProviderConnects \/ ProviderDisconnects \/ ProviderChanges \/ ProviderContinues
  \/ SetRuntime \/ SetCommands \/ SetTarget \/ SetAttribute
  \/ Change \/ Drift
  \/ Reveal \/ Submit \/ SubmitNothing \/ Finish

Spec == Init /\ [][Next]_vars

-----------------------------------------------------------------------------
(* The variables have their types, and only elements that give commands    *)
(* have some.                                                              *)
TypeOK ==
  /\ ElementTypeOK
  /\ class \in Class /\ place \in {"away", "inside", "outside"}
  /\ {held, subscribed, commands} \subseteq 0..generation
  /\ class \in Commanding \/ commands = None
  /\ waiting \in {"never", "armed", "spent"}
  /\ {assigned, markup, disclosed} \subseteq Target \cup {NoTarget}
  /\ answer \in Possible
  /\ status \in {"", "busy", "done"} /\ pending \in {"null", "flying", "settled"}
  /\ flights \in 0..MaxSubmissions
  /\ {revealed, hosted, silent} \subseteq BOOLEAN

(* An element follows the runtime it holds while it is in the document and *)
(* nobody once it left: "leaving a subscription behind would keep a        *)
(* detached element re-rendering forever" (base.js:264-269), and assigning *)
(* it a runtime meanwhile must not start one.                              *)
FollowsWhileAttached == subscribed = IF Attached THEN held ELSE None

(* What is drawn is what the runtime would answer now, whatever moved: the *)
(* element, its runtime, its target, its markup or the runtime's stores,   *)
(* unless the answer changed with nothing said of it, or out of sight      *)
(* (base.js:200-224, 271-275).                                             *)
DrawnAsAnswered == ~silent => view = Render(commands)

(* An element inside a provider that runs has a runtime, also if the       *)
(* provider started after it or had failed before, and the commands it     *)
(* gives are of the runtime whose permissions it draws, unless a host      *)
(* script chose otherwise (base.js:234-262).                               *)
FindsProvider ==
  ~hosted =>
    /\ place = "inside" /\ Attached /\ runtime # None => held # None
    /\ class \in Commanding => commands = held

(* Content that the runtime would restrict or hide is open only if the     *)
(* viewer asked to see that of this very target since a host script last   *)
(* assigned one (viewer.js:89-93). Targets in markup are another matter:   *)
(* what was revealed of one is revealed of the next.                       *)
DisclosedOnRequest ==
  /\ class = "veil" /\ assigned # NoTarget
  /\ ~silent /\ view.content = "open" /\ answer \in {"restrict", "hide", "deny"}
  => disclosed = assigned

(* An element that says it is publishing or working has something under    *)
(* way, however submissions overlap (viewer.js:279-288, admin.js:150-165). *)
BusyWhileFlying == view.content = "busy" => flights > 0
=============================================================================
