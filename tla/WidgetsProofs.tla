--------------------------- MODULE WidgetsProofs ----------------------------
(***************************************************************************)
(* What a widget of the page promises, for any targets, accounts and any   *)
(* number of starts and submissions. It follows the runtime it holds:      *)
(* inductive as it stands. It finds its provider: inductive once an        *)
(* element without a runtime is known to wait for one (Waits). It keeps    *)
(* its types, the provider's included. It draws what its runtime answers,  *)
(* which needs the first two. What it reveals was asked for: what is       *)
(* revealed is of the assigned target (RevealedAsked). And it says it is   *)
(* busy only while it is: its status does, and its drawing (Busy).         *)
(***************************************************************************)
EXTENDS Widgets, TLAPS

Counted == generation \in Nat

(* Whoever is in the document without a runtime waits for one, and has one *)
(* once the wait is over.                                                  *)
Waits ==
  /\ waiting \in {"never", "armed", "spent"}
  /\ ~hosted /\ held = None => /\ waiting # "spent"
                               /\ Attached => waiting = "armed"

-----------------------------------------------------------------------------
(* What the element sees of its provider's steps.                          *)
LEMMA ProviderSteps ==
  ASSUME Counted
  PROVE  /\ Connect => isConnected' /\ (runtime' = None \/ Ready)
         /\ Disconnect => ~isConnected' /\ runtime' = None /\ generation' = generation
         /\ AttributeChanged => /\ isConnected' = isConnected
                                /\ runtime' \in {runtime, None} \/ Ready
         /\ Continue => UNCHANGED << isConnected, runtime, generation >>
         /\ Connect \/ AttributeChanged => generation' \in {generation, generation + 1}
<1>1. ASSUME NEW p, NEW t, NEW r, Start(p, t, r)
      PROVE  generation' = generation + 1 /\ (runtime' = None \/ Ready)
  BY <1>1 DEF Start, Ready, Counted
<1>2. Connect => isConnected' /\ (runtime' = None \/ Ready) /\ generation' = generation + 1
  BY <1>1 DEF Connect
<1>3. AttributeChanged => /\ isConnected' = isConnected
                          /\ runtime' \in {runtime, None} \/ Ready
                          /\ generation' \in {generation, generation + 1}
  BY <1>1 DEF AttributeChanged
<1>4. Disconnect => ~isConnected' /\ runtime' = None /\ generation' = generation
  BY DEF Disconnect
<1>5. Continue => UNCHANGED << isConnected, runtime, generation >>
  BY DEF Continue
<1> QED
  BY <1>2, <1>3, <1>4, <1>5

LEMMA NextCounted == Counted /\ [Next]_vars => Counted'
<1> SUFFICES ASSUME Counted, [Next]_vars PROVE Counted'
  OBVIOUS
<1>1. ASSUME UNCHANGED elementVars PROVE Counted'
  BY <1>1 DEF elementVars, lifecycle, Counted
<1>2. CASE ProviderConnects \/ ProviderDisconnects \/ ProviderChanges \/ ProviderContinues
  BY <1>2, ProviderSteps
  DEF ProviderConnects, ProviderDisconnects, ProviderChanges, ProviderContinues, Counted
<1>3. CASE Enter \/ Leave \/ SetRuntime \/ SetCommands \/ SetTarget \/ SetAttribute
  BY <1>1, <1>3 DEF Enter, Leave, SetRuntime, SetCommands, SetTarget, SetAttribute
<1>4. CASE Change \/ Drift \/ Reveal \/ Submit \/ SubmitNothing \/ Finish
  BY <1>1, <1>4 DEF Change, Drift, Reveal, Submit, SubmitNothing, Finish
<1>5. CASE UNCHANGED vars
  BY <1>1, <1>5 DEF vars
<1> QED
  BY <1>2, <1>3, <1>4, <1>5 DEF Next

(* Steps that neither move the element nor give it anything.               *)
Elsewhere ==
  /\ UNCHANGED << isConnected, runtime, place, held, subscribed, waiting, class >>
  /\ commands' = commands \/ hosted'
  /\ hosted => hosted'

LEMMA StepsElsewhere ==
  ASSUME Counted, [Next]_vars
  PROVE  \/ Enter \/ Leave \/ ProviderConnects \/ ProviderDisconnects \/ ProviderChanges
         \/ SetRuntime \/ Elsewhere
<1>1. CASE SetCommands \/ SetTarget \/ SetAttribute
  BY <1>1 DEF SetCommands, SetTarget, SetAttribute, Elsewhere, elementVars, lifecycle, base,
              history
<1>2. CASE Change \/ Drift
  BY <1>2 DEF Change, Drift, Elsewhere, elementVars, lifecycle, base, history
<1>3. CASE Reveal \/ Submit \/ SubmitNothing \/ Finish
  BY <1>3 DEF Reveal, Submit, SubmitNothing, Finish, Elsewhere, elementVars, lifecycle, base,
              history
<1>4. CASE ProviderContinues
  BY <1>4, ProviderSteps DEF ProviderContinues, Elsewhere, widget, base, history
<1>5. CASE UNCHANGED vars
  BY <1>5 DEF vars, Elsewhere, elementVars, lifecycle, widget, base, history
<1> QED
  BY <1>1, <1>2, <1>3, <1>4, <1>5 DEF Next

-----------------------------------------------------------------------------
LEMMA NextFollows == Counted /\ FollowsWhileAttached /\ [Next]_vars => FollowsWhileAttached'
<1> SUFFICES ASSUME Counted, FollowsWhileAttached, [Next]_vars PROVE FollowsWhileAttached'
  OBVIOUS
<1>1. CASE Enter
  BY <1>1 DEF Enter, ConnectedCallback, FollowedOnEntry, FollowsWhileAttached, Attached,
              elementVars, lifecycle, None
<1>2. CASE Leave
  BY <1>2 DEF Leave, DisconnectedCallback, FollowsWhileAttached, Attached
<1>3. ASSUME HearReady, place # "inside" \/ isConnected' = isConnected
      PROVE  FollowsWhileAttached'
  BY <1>3 DEF HearReady, FollowedOnAssignment, FollowsWhileAttached, Attached
<1>4. CASE ProviderConnects
  <2>1. CASE place = "inside"
    BY <1>4, <2>1, ProviderSteps
    DEF ProviderConnects, ConnectedCallback, FollowedOnEntry, FollowsWhileAttached, Attached
  <2>2. CASE place # "inside"
    BY <1>3, <1>4, <2>2 DEF ProviderConnects
  <2> QED
    BY <2>1, <2>2
<1>5. CASE ProviderDisconnects
  BY <1>5, ProviderSteps
  DEF ProviderDisconnects, DisconnectedCallback, FollowsWhileAttached, Attached
<1>6. CASE ProviderChanges
  BY <1>3, <1>6, ProviderSteps DEF ProviderChanges
<1>7. CASE SetRuntime
  BY <1>7 DEF SetRuntime, FollowedOnAssignment, FollowsWhileAttached, Attached, elementVars,
              lifecycle
<1>8. CASE Elsewhere
  BY <1>8 DEF Elsewhere, FollowsWhileAttached, Attached
<1> QED
  BY <1>1, <1>2, <1>4, <1>5, <1>6, <1>7, <1>8, StepsElsewhere

LEMMA CountedInvariant == Spec => []Counted
<1>1. Init => generation = 0
  BY DEF Init, ElementInit
<1>2. Init => Counted
  BY <1>1 DEF Counted
<1> QED
  BY <1>2, NextCounted, PTL DEF Spec

(* An element follows the runtime it holds while it is in the document and *)
(* nobody else, however it, its provider and host scripts act.             *)
THEOREM Follows == Spec => []FollowsWhileAttached
<1>1. Init => FollowsWhileAttached
  BY DEF Init, ElementInit, FollowsWhileAttached, Attached
<1> QED
  BY <1>1, CountedInvariant, NextFollows, PTL DEF Spec

-----------------------------------------------------------------------------
LEMMA NextFinds ==
  Counted /\ Waits /\ FindsProvider /\ [Next]_vars => Waits' /\ FindsProvider'
<1> SUFFICES ASSUME Counted, Waits, FindsProvider, [Next]_vars
             PROVE  Waits' /\ FindsProvider'
  OBVIOUS
<1>1. CASE Enter
  <2>1. UNCHANGED << isConnected, runtime, generation, hosted, class >>
    BY <1>1 DEF Enter, ConnectedCallback, elementVars, lifecycle, history
  <2>2. Heard = waiting
    BY <2>1 DEF Heard, Ready
  <2> QED
    BY <1>1, <2>1, <2>2
    DEF Enter, ConnectedCallback, Near, Adopted, WaitingUnanswered, Waits, FindsProvider,
        Attached
<1>2. CASE Leave
  BY <1>2 DEF Leave, DisconnectedCallback, Waits, FindsProvider, Attached, elementVars,
              lifecycle, history
<1>3. ASSUME HearReady, place # "inside" \/ isConnected' = isConnected,
             runtime' \in {runtime, None} \/ Ready
      PROVE  Waits' /\ FindsProvider'
  <2>1. UNCHANGED << class, place, hosted >> /\ waiting' = Heard
    BY <1>3 DEF HearReady, history
  <2>2. CASE waiting = "armed" /\ Ready /\ held = None
    BY <1>3, <2>1, <2>2
    DEF HearReady, Heard, Ready, Adopted, Waits, FindsProvider, Attached
  <2>3. CASE ~(waiting = "armed" /\ Ready /\ held = None)
    BY <1>3, <2>1, <2>3
    DEF HearReady, Heard, Ready, Waits, FindsProvider, Attached
  <2> QED
    BY <2>2, <2>3
<1>4. CASE ProviderConnects
  <2>1. isConnected' /\ (runtime' = None \/ Ready)
    BY <1>4, ProviderSteps DEF ProviderConnects
  <2>2. CASE place = "inside"
    BY <1>4, <2>1, <2>2
    DEF ProviderConnects, ConnectedCallback, Near, Adopted, Heard, Ready, WaitingUnanswered,
        Waits, FindsProvider, Attached, history
  <2>3. CASE place # "inside"
    BY <1>3, <1>4, <2>1, <2>3 DEF ProviderConnects
  <2> QED
    BY <2>2, <2>3
<1>5. CASE ProviderDisconnects
  BY <1>5, ProviderSteps
  DEF ProviderDisconnects, DisconnectedCallback, Waits, FindsProvider, Attached, history
<1>6. CASE ProviderChanges
  BY <1>3, <1>6, ProviderSteps DEF ProviderChanges
<1>7. CASE SetRuntime
  BY <1>7 DEF SetRuntime, Waits, FindsProvider
<1>8. CASE Elsewhere
  BY <1>8 DEF Elsewhere, Waits, FindsProvider, Attached
<1> QED
  BY <1>1, <1>2, <1>4, <1>5, <1>6, <1>7, <1>8, StepsElsewhere

(* An element inside a provider that runs has a runtime, and commands of   *)
(* that runtime, in whatever order they came, unless a host chose others.  *)
THEOREM ProviderFound == Spec => []FindsProvider
<1>1. Init => Waits /\ FindsProvider
  BY DEF Init, ElementInit, Waits, FindsProvider, Attached
<1> QED
  BY <1>1, CountedInvariant, NextFinds, PTL DEF Spec

-----------------------------------------------------------------------------
(* The provider's types, in the steps that the element sees.               *)
LEMMA Counts ==
  ASSUME ElementTypeOK
  PROVE  /\ generation \in Nat
         /\ runtime \in 0..generation /\ error \in 0..generation /\ 0 \in 0..generation
<1>1. MaxGeneration \in Nat
  BY ConfigurationAssumption
<1> QED
  BY <1>1 DEF ElementTypeOK

LEMMA NextCounts ==
  ASSUME ElementTypeOK', generation' \in Nat
  PROVE  runtime' \in 0..generation' /\ 0 \in 0..generation'
BY DEF ElementTypeOK

LEMMA StartTyped ==
  ASSUME ElementTypeOK, NEW p \in {Pending, Rejected} \cup 1..generation,
         NEW transports \in SUBSET Generation, NEW runtimes \in SUBSET Generation,
         Start(p, transports, runtimes),
         isReady' \in BOOLEAN, isConnected' \in BOOLEAN, attributes' \in Configuration
  PROVE  ElementTypeOK'
<1> DEFINE g == generation + 1
<1>1. /\ g \in Generation /\ generation' = g
      /\ UNCHANGED << signer, asking >>
  BY DEF Start
<1>2. generation \in Nat /\ MaxGeneration \in Nat
  BY ConfigurationAssumption DEF ElementTypeOK
<1>3. CASE attributes' \in Valid
  <2>1. /\ runtime' = g /\ error' = None
        /\ promise' = Settled(p, g)
        /\ open' = transports \cup {g} /\ live' = runtimes \cup {g}
        /\ starts' = starts \cup {[generation |-> g, await |-> "load"]}
        /\ builtFrom' = [builtFrom EXCEPT ![g] = attributes']
        /\ viewer' = [viewer EXCEPT ![g] = ViewerOf[attributes']]
    BY <1>3 DEF Start
  <2>2. /\ starts' \subseteq [generation : 1..generation', await : Await]
        /\ \A s, t \in starts' : s.generation = t.generation => s = t
    BY <1>1, <1>2, <2>1 DEF ElementTypeOK, Await
  <2>3. /\ builtFrom' \in [Generation -> Configuration]
        /\ viewer' \in [Generation -> Account \cup {NoAccount}]
    BY <1>1, <2>1, ConfigurationAssumption DEF ElementTypeOK
  <2>4. promise' \in {Pending, Rejected} \cup 1..generation'
    BY <1>1, <1>2, <2>1 DEF Settled
  <2> QED
    BY <1>1, <1>2, <2>1, <2>2, <2>3, <2>4 DEF ElementTypeOK, None, Generation
<1>4. CASE attributes' \notin Valid
  <2>1. /\ runtime' = None /\ error' = g
        /\ promise' = Settled(p, Rejected)
        /\ open' = transports /\ live' = runtimes
        /\ UNCHANGED << starts, builtFrom, viewer >>
    BY <1>4 DEF Start
  <2>2. starts' \subseteq [generation : 1..generation', await : Await]
    BY <1>1, <1>2, <2>1 DEF ElementTypeOK
  <2>3. promise' \in {Pending, Rejected} \cup 1..generation'
    BY <1>1, <1>2, <2>1 DEF Settled
  <2> QED
    BY <1>1, <1>2, <2>1, <2>2, <2>3 DEF ElementTypeOK, None, Generation
<1> QED
  BY <1>3, <1>4

LEMMA ContinueTyped ==
  ASSUME ElementTypeOK, Continue
  PROVE  ElementTypeOK'
<1>1. PICK s \in starts :
        /\ IF runtime = None /\ s.await # "mutes"
             THEN Fail(s)
             ELSE Resume(s, NextAwait(s)) /\ UNCHANGED << error, promise, open >>
        /\ UNCHANGED << isConnected, attributes, isReady, generation, runtime, live,
                        builtFrom, identity >>
  BY DEF Continue
<1>2. NextAwait(s) \in SUBSET Await /\ \A a, b \in NextAwait(s) : a = b
  <2>1. s.await \in Await
    BY DEF ElementTypeOK
  <2>2. CASE s.await = "load"
    BY <2>2 DEF NextAwait, Await
  <2>3. CASE s.await = "contacts"
    BY <2>3 DEF NextAwait, Await
  <2>4. CASE s.await = "mutes"
    BY <2>4 DEF NextAwait, Await
  <2> QED
    BY <2>1, <2>2, <2>3, <2>4 DEF Await
<1>3. PICK awaits \in SUBSET Await : (\A a, b \in awaits : a = b) /\ Resume(s, awaits)
  BY <1>1, <1>2 DEF Fail
<1>4. /\ starts' \subseteq [generation : 1..generation, await : Await]
      /\ \A t, u \in starts' : t.generation = u.generation => t = u
  <2>1. \A a \in awaits : /\ [s EXCEPT !.await = a] \in [generation : 1..generation, await : Await]
                          /\ [s EXCEPT !.await = a].generation = s.generation
    BY DEF ElementTypeOK
  <2>2. starts' = (starts \ {s}) \cup {[s EXCEPT !.await = a] : a \in awaits}
    BY <1>3 DEF Resume
  <2>3. ASSUME NEW t \in starts', NEW u \in starts', t.generation = u.generation
        PROVE  t = u
    BY <1>3, <2>1, <2>2, <2>3 DEF ElementTypeOK
  <2> QED
    BY <2>1, <2>2, <2>3 DEF ElementTypeOK
<1>5. /\ open' \subseteq Generation /\ error' \in 0..generation
      /\ promise' \in {Pending, Rejected} \cup 1..generation
  BY <1>1 DEF Fail, Reported, Settled, ElementTypeOK
<1> QED
  BY <1>1, <1>4, <1>5 DEF ElementTypeOK, identity

LEMMA ElementTyped ==
  ASSUME ElementTypeOK, Connect \/ Disconnect \/ AttributeChanged \/ Continue
  PROVE  ElementTypeOK' /\ generation' \in Nat /\ generation <= generation'
<1>1. generation \in Nat
  BY DEF ElementTypeOK
<1>2. CASE Connect
  BY <1>1, <1>2, StartTyped DEF Connect, ElementTypeOK, Start
<1>3. CASE Disconnect
  <2>1. /\ isConnected' = FALSE /\ isReady' = FALSE /\ promise' = Pending /\ runtime' = 0
        /\ open' \subseteq open /\ live' \subseteq live
        /\ UNCHANGED << attributes, generation, error, starts, builtFrom, viewer, signer,
                        asking >>
    BY <1>3 DEF Disconnect, OpenAfterStop, LiveAfterStop, identity, None
  <2>2. {runtime', error'} \subseteq 0..generation' /\ {isConnected', isReady'} \subseteq BOOLEAN
    BY <2>1, Counts
  <2>3. ElementTypeOK'
    BY <2>1, <2>2 DEF ElementTypeOK
  <2> QED
    BY <1>1, <2>1, <2>3
<1>4. CASE AttributeChanged
  <2>1. CASE isReady /\ isConnected
    <3>1. Start(Pending, open \ {runtime}, live \ {runtime})
      BY <1>4, <2>1 DEF AttributeChanged, OpenAfterStop, LiveAfterStop
    <3>2. /\ isReady' \in BOOLEAN /\ isConnected' \in BOOLEAN /\ attributes' \in Configuration
      BY <1>4, <2>1 DEF AttributeChanged, ReadyAfterRestart, ElementTypeOK
    <3>3. generation' = generation + 1
      BY <3>1 DEF Start
    <3>4. /\ open \ {runtime} \in SUBSET Generation /\ live \ {runtime} \in SUBSET Generation
          /\ Pending \in {Pending, Rejected} \cup 1..generation
      BY DEF ElementTypeOK
    <3>5. ElementTypeOK'
      BY <3>1, <3>2, <3>4, StartTyped
    <3> QED
      BY <1>1, <3>3, <3>5
  <2>2. CASE ~(isReady /\ isConnected)
    BY <1>1, <1>4, <2>2 DEF AttributeChanged, ElementTypeOK, identity
  <2> QED
    BY <2>1, <2>2
<1>5. CASE Continue
  <2>1. generation' = generation
    BY <1>5 DEF Continue
  <2> QED
    BY <1>1, <1>5, <2>1, ContinueTyped
<1> QED
  BY <1>2, <1>3, <1>4, <1>5

-----------------------------------------------------------------------------
LEMMA ElementKept ==
  ASSUME ElementTypeOK, UNCHANGED elementVars
  PROVE  ElementTypeOK' /\ generation' = generation /\ generation \in Nat
<1>1. ElementTypeOK' /\ generation' = generation
  BY DEF ElementTypeOK, elementVars, lifecycle, identity
<1> QED
  BY <1>1, Counts

(* The answer is one of those there are to the question of the moment. *)
LEMMA AskTyped ==
  ASSUME answer \in Possible, class' = class,
         Ask \/ UNCHANGED << held, assigned, markup, answer >>
  PROVE  answer' \in Possible'
BY DEF Ask, Possible, Unasked, Aim

(* Numbers of starts only grow. *)
LEMMA Upwards ==
  ASSUME NEW m \in Nat, NEW n \in Nat, m <= n, NEW g \in 0..m
  PROVE  g \in 0..n
OBVIOUS

LEMMA ConnectedTyped ==
  ASSUME TypeOK, ElementTypeOK', generation' \in Nat, generation <= generation',
         NEW p \in {"inside", "outside"}, ConnectedCallback(p)
  PROVE  TypeOK'
<1>1. generation \in Nat /\ runtime' \in 0..generation' /\ None \in 0..generation'
  BY Counts, NextCounts DEF TypeOK, None
<1>2. held \in 0..generation' /\ commands \in 0..generation'
  BY <1>1, Upwards DEF TypeOK
<1>3. /\ place' = p /\ class' = class
      /\ held' = IF held = None THEN Near(p) ELSE held
      /\ commands' = IF held = None /\ Near(p) # None THEN Adopted ELSE commands
      /\ waiting' \in {WaitingUnanswered, Heard}
      /\ subscribed' = held'
      /\ UNCHANGED << assigned, markup, revealed, status, pending, flights, hosted, disclosed >>
      /\ Ask /\ silent' = FALSE
  BY DEF ConnectedCallback, FollowedOnEntry, subject, form, history, Redraw
<1>4. held' \in 0..generation' /\ commands' \in 0..generation'
  BY <1>1, <1>2, <1>3 DEF Near, Adopted
<1>5. class' \in Commanding \/ commands' = None
  BY <1>3 DEF Adopted, TypeOK
<1>6. waiting' \in {"never", "armed", "spent"}
  BY <1>3 DEF WaitingUnanswered, Heard, TypeOK
<1>7. answer' \in Possible'
  BY <1>3, AskTyped DEF TypeOK
<1> QED
  BY <1>3, <1>4, <1>5, <1>6, <1>7 DEF TypeOK

LEMMA HearTyped ==
  ASSUME TypeOK, ElementTypeOK', generation' \in Nat, generation <= generation', HearReady
  PROVE  TypeOK'
<1>1. generation \in Nat /\ runtime' \in 0..generation' /\ None \in 0..generation'
  BY Counts, NextCounts DEF TypeOK, None
<1>2. held \in 0..generation' /\ commands \in 0..generation' /\ subscribed \in 0..generation'
  BY <1>1, Upwards DEF TypeOK
<1>3. /\ UNCHANGED << class, place, assigned, markup, revealed, status, pending, flights,
                      hosted, disclosed >>
      /\ waiting' = Heard
      /\ \/ /\ held' = runtime' /\ commands' = Adopted /\ subscribed' = FollowedOnAssignment
            /\ Ask /\ silent' \in BOOLEAN
         \/ UNCHANGED << held, commands, subscribed, answer, silent >>
  BY DEF HearReady, subject, form, history, drawing, RedrawThenCommand
<1>4. /\ held' \in 0..generation' /\ commands' \in 0..generation'
      /\ subscribed' \in 0..generation'
  BY <1>1, <1>2, <1>3 DEF Adopted, FollowedOnAssignment
<1>5. class' \in Commanding \/ commands' = None
  BY <1>3 DEF Adopted, TypeOK
<1>6. waiting' \in {"never", "armed", "spent"}
  BY <1>3 DEF Heard, TypeOK
<1>7. answer' \in Possible'
  BY <1>3, AskTyped DEF TypeOK
<1>8. silent' \in BOOLEAN
  BY <1>3 DEF TypeOK
<1> QED
  BY <1>3, <1>4, <1>5, <1>6, <1>7, <1>8 DEF TypeOK

LEMMA DisconnectedTyped ==
  ASSUME TypeOK, ElementTypeOK', generation' \in Nat, generation <= generation',
         place' \in {"away", "inside", "outside"},
         \/ DisconnectedCallback
         \/ UNCHANGED << class, held, subscribed, waiting, commands, subject, form, drawing,
                         history >>
  PROVE  TypeOK'
<1>1. generation \in Nat /\ None \in 0..generation'
  BY Counts, NextCounts DEF TypeOK, None
<1>2. held \in 0..generation' /\ commands \in 0..generation' /\ subscribed \in 0..generation'
  BY <1>1, Upwards DEF TypeOK
<1>3. /\ UNCHANGED << class, held, commands, waiting, assigned, markup, revealed, status,
                      pending, flights, hosted, disclosed, answer, silent >>
      /\ subscribed' \in {subscribed, None}
  BY DEF DisconnectedCallback, subject, form, history, drawing
<1>4. answer' \in Possible'
  BY <1>3, AskTyped DEF TypeOK
<1> QED
  BY <1>1, <1>2, <1>3, <1>4 DEF TypeOK

LEMMA ScriptTyped ==
  ASSUME TypeOK, SetRuntime \/ SetCommands \/ SetTarget \/ SetAttribute
  PROVE  TypeOK'
<1>1. UNCHANGED elementVars
  BY DEF SetRuntime, SetCommands, SetTarget, SetAttribute
<1>2. /\ ElementTypeOK' /\ generation' = generation /\ generation \in Nat
      /\ runtime \in 0..generation /\ None \in 0..generation
  BY <1>1, Counts, ElementKept DEF TypeOK, None
<1>3. CASE SetRuntime
  <2>1. answer' \in Possible'
    BY <1>3, AskTyped DEF SetRuntime, TypeOK
  <2> QED
    BY <1>2, <1>3, <2>1
    DEF SetRuntime, FollowedOnAssignment, Redraw, subject, form, TypeOK
<1>4. CASE SetCommands
  <2>1. answer' \in Possible'
    BY <1>4, AskTyped DEF SetCommands, subject, TypeOK
  <2> QED
    BY <1>2, <1>4, <2>1 DEF SetCommands, subject, form, TypeOK
<1>5. CASE SetTarget
  <2>1. answer' \in Possible'
    BY <1>5, AskTyped DEF SetTarget, base, TypeOK
  <2> QED
    BY <1>2, <1>5, <2>1 DEF SetTarget, RevealedAfterAssignment, base, Redraw, TypeOK
<1>6. CASE SetAttribute
  BY <1>2, <1>6 DEF SetAttribute, base, form, history, Redraw, TypeOK
<1> QED
  BY <1>3, <1>4, <1>5, <1>6

LEMMA ViewerTyped ==
  ASSUME TypeOK, Change \/ Drift \/ Reveal \/ Submit \/ SubmitNothing \/ Finish
  PROVE  TypeOK'
<1>1. UNCHANGED elementVars
  BY DEF Change, Drift, Reveal, Submit, SubmitNothing, Finish
<1>2. /\ ElementTypeOK' /\ generation' = generation /\ generation \in Nat
      /\ MaxSubmissions \in Nat
  BY <1>1, ElementKept, WidgetsAssumption DEF TypeOK
<1>3. UNCHANGED base /\ UNCHANGED << assigned, markup, hosted >>
  BY DEF Change, Drift, Reveal, Submit, SubmitNothing, Finish, subject, history, widget
<1>4. Possible' = Possible
  BY <1>3 DEF Possible, Unasked, Aim, base
<1>5. answer' \in Possible'
  BY <1>4 DEF Change, Drift, Reveal, Submit, SubmitNothing, Finish, drawing, TypeOK
<1>6. /\ status' \in {"", "busy", "done"} /\ pending' \in {"null", "flying", "settled"}
      /\ flights' \in 0..MaxSubmissions
  <2>1. CASE Change \/ Drift \/ Reveal
    BY <2>1 DEF Change, Drift, Reveal, form, TypeOK
  <2>2. CASE Submit
    <3>1. flights \in 0..MaxSubmissions /\ flights < MaxSubmissions /\ flights' = flights + 1
      BY <2>2 DEF Submit, TypeOK
    <3>2. flights' \in 0..MaxSubmissions
      BY <1>2, <3>1
    <3> QED
      BY <2>2, <3>2 DEF Submit
  <2>3. CASE SubmitNothing
    BY <2>3 DEF SubmitNothing, TypeOK
  <2>4. CASE Finish
    <3>1. flights \in 0..MaxSubmissions /\ flights > 0 /\ flights' = flights - 1
      BY <2>4 DEF Finish, TypeOK
    <3>2. flights' \in 0..MaxSubmissions
      BY <1>2, <3>1
    <3> QED
      BY <2>4, <3>2 DEF Finish, StatusAfter
  <2> QED
    BY <2>1, <2>2, <2>3, <2>4
<1>7. /\ revealed' \in BOOLEAN /\ silent' \in BOOLEAN
      /\ disclosed' \in Target \cup {NoTarget}
  BY DEF Change, Drift, Reveal, Submit, SubmitNothing, Finish, Redraw, drawing, subject,
         history, Aim, TypeOK
<1> QED
  BY <1>2, <1>3, <1>5, <1>6, <1>7 DEF base, TypeOK

LEMMA NextTyped == TypeOK /\ [Next]_vars => TypeOK'
<1> SUFFICES ASSUME TypeOK, [Next]_vars PROVE TypeOK'
  OBVIOUS
<1>1. ElementTypeOK /\ generation \in Nat
  BY Counts DEF TypeOK
<1>2. ASSUME UNCHANGED elementVars
      PROVE  ElementTypeOK' /\ generation' \in Nat /\ generation <= generation'
  BY <1>1, <1>2, ElementKept
<1>3. CASE Enter
  <2>1. PICK p \in {"inside", "outside"} :
          \/ ConnectedCallback(p)
          \/ /\ place' = p
             /\ UNCHANGED << class, held, subscribed, waiting, commands, subject, form,
                             drawing, history >>
    BY <1>3 DEF Enter
  <2>2. ElementTypeOK' /\ generation' \in Nat /\ generation <= generation'
    BY <1>2, <1>3 DEF Enter
  <2>3. CASE ConnectedCallback(p)
    BY <2>2, <2>3, ConnectedTyped
  <2>4. CASE ~ConnectedCallback(p)
    BY <2>1, <2>2, <2>4, DisconnectedTyped
  <2> QED
    BY <2>3, <2>4
<1>4. CASE Leave
  BY <1>2, <1>4, DisconnectedTyped DEF Leave
<1>5. CASE ProviderConnects
  <2>1. ElementTypeOK' /\ generation' \in Nat /\ generation <= generation'
    BY <1>1, <1>5, ElementTyped DEF ProviderConnects
  <2>2. ConnectedCallback("inside") \/ HearReady
    BY <1>5 DEF ProviderConnects
  <2> QED
    BY <2>1, <2>2, ConnectedTyped, HearTyped
<1>6. CASE ProviderDisconnects
  <2>1. ElementTypeOK' /\ generation' \in Nat /\ generation <= generation'
    BY <1>1, <1>6, ElementTyped DEF ProviderDisconnects
  <2>2. /\ place' \in {"away", "inside", "outside"}
        /\ \/ DisconnectedCallback
           \/ UNCHANGED << class, held, subscribed, waiting, commands, subject, form, drawing,
                           history >>
    BY <1>6 DEF ProviderDisconnects, TypeOK
  <2> QED
    BY <2>1, <2>2, DisconnectedTyped
<1>7. CASE ProviderChanges
  <2>1. ElementTypeOK' /\ generation' \in Nat /\ generation <= generation'
    BY <1>1, <1>7, ElementTyped DEF ProviderChanges
  <2> QED
    BY <1>7, <2>1, HearTyped DEF ProviderChanges
<1>8. CASE ProviderContinues
  <2>1. ElementTypeOK' /\ generation' \in Nat /\ generation <= generation'
    BY <1>1, <1>8, ElementTyped DEF ProviderContinues
  <2>2. /\ place' \in {"away", "inside", "outside"}
        /\ UNCHANGED << class, held, subscribed, waiting, commands, subject, form, drawing,
                        history >>
    BY <1>8 DEF ProviderContinues, widget, base, TypeOK
  <2> QED
    BY <2>1, <2>2, DisconnectedTyped
<1>9. CASE UNCHANGED vars
  <2>1. /\ place' \in {"away", "inside", "outside"} /\ UNCHANGED elementVars
        /\ UNCHANGED << class, held, subscribed, waiting, commands, subject, form, drawing,
                        history >>
    BY <1>9 DEF vars, widget, base, TypeOK
  <2> QED
    BY <1>2, <2>1, DisconnectedTyped
<1> QED
  BY <1>3, <1>4, <1>5, <1>6, <1>7, <1>8, <1>9, ScriptTyped, ViewerTyped DEF Next

(* The element's and the provider's variables keep their types, and only   *)
(* elements that give commands have some, whatever scripts and viewers do. *)
THEOREM TypeCorrect == Spec => []TypeOK
<1>1. Init => TypeOK
  <2> SUFFICES ASSUME Init PROVE TypeOK
    OBVIOUS
  <2>1. ElementTypeOK
    <3>1. /\ isConnected \in BOOLEAN /\ isReady \in BOOLEAN /\ attributes \in Configuration
          /\ generation = 0 /\ runtime = 0 /\ error = 0 /\ promise = Pending
          /\ starts = {} /\ open = {} /\ live = {} /\ asking = {}
      BY DEF Init, ElementInit, None
    <3>2. /\ builtFrom \in [Generation -> Configuration]
          /\ viewer \in [Generation -> Account \cup {NoAccount}]
          /\ signer \in [Generation -> Account \cup {NoAccount}]
      BY DEF Init, ElementInit
    <3>3. 0 \in 0..MaxGeneration
      BY ConfigurationAssumption
    <3> QED
      BY <3>1, <3>2, <3>3 DEF ElementTypeOK
  <2>2. /\ generation = 0 /\ held = 0 /\ subscribed = 0 /\ commands = 0
        /\ answer = "none" /\ flights = 0
    BY DEF Init, ElementInit, None
  <2>3. /\ class \in Class /\ place = "away" /\ waiting = "never"
        /\ assigned = NoTarget /\ markup = NoTarget /\ disclosed = NoTarget
        /\ status = "" /\ pending = "null"
        /\ revealed = FALSE /\ hosted = FALSE /\ silent = TRUE
    BY DEF Init
  <2>4. {held, subscribed, commands} \subseteq 0..generation /\ flights \in 0..MaxSubmissions
    BY <2>2, WidgetsAssumption
  <2>5. Possible = {"none"}
    BY <2>2 DEF Possible, Unasked, None
  <2> QED
    BY <2>1, <2>2, <2>3, <2>4, <2>5 DEF TypeOK, None
<1> QED
  BY <1>1, NextTyped, PTL DEF Spec

-----------------------------------------------------------------------------
(* What a step does to the drawing: it draws anew, or for the commands of  *)
(* before, or the answer changed with nothing said of it, or nothing that  *)
(* is drawn did.                                                           *)
DrawingKept ==
  UNCHANGED << class, commands, answer, revealed, assigned, markup, status, view, silent >>

LEMMA DrawingSteps ==
  ASSUME FollowsWhileAttached, TypeOK, [Next]_vars
  PROVE  \/ Redraw
         \/ class' = class /\ RedrawThenCommand
         \/ silent' = TRUE
         \/ DrawingKept
<1>1. ASSUME HearReady PROVE (class' = class /\ RedrawThenCommand) \/ DrawingKept
  BY <1>1 DEF HearReady, DrawingKept, subject, form, drawing
<1>2. ASSUME \/ DisconnectedCallback
             \/ UNCHANGED << class, held, subscribed, waiting, commands, subject, form,
                             drawing, history >>
      PROVE  DrawingKept
  BY <1>2 DEF DisconnectedCallback, DrawingKept, subject, form, drawing
<1>3. CASE Enter
  BY <1>2, <1>3 DEF Enter, ConnectedCallback
<1>4. CASE Leave
  BY <1>2, <1>4 DEF Leave
<1>5. CASE ProviderConnects
  BY <1>1, <1>5 DEF ProviderConnects, ConnectedCallback
<1>6. CASE ProviderDisconnects
  BY <1>2, <1>6 DEF ProviderDisconnects
<1>7. CASE ProviderChanges
  BY <1>1, <1>7 DEF ProviderChanges
<1>8. CASE ProviderContinues \/ UNCHANGED vars
  BY <1>8 DEF ProviderContinues, vars, widget, base, subject, form, drawing, DrawingKept
<1>9. CASE SetRuntime \/ SetTarget \/ SetAttribute \/ Reveal \/ Submit \/ Finish
  BY <1>9 DEF SetRuntime, SetTarget, SetAttribute, Reveal, Submit, Finish
<1>10. CASE SetCommands \/ Drift
  BY <1>10 DEF SetCommands, Drift
<1>11. CASE SubmitNothing
  BY <1>11 DEF SubmitNothing, DrawingKept, base, subject, drawing
<1>12. CASE Change
  <2>1. CASE subscribed = held
    BY <1>12, <2>1 DEF Change
  <2>2. CASE subscribed # held
    <3>1. ~Attached
      BY <2>2 DEF FollowsWhileAttached
    <3>2. silent' = (silent \/ ~Attached)
      BY <1>12, <2>2 DEF Change
    <3> QED
      BY <3>1, <3>2
  <2> QED
    BY <2>1, <2>2
<1> QED
  BY <1>3, <1>4, <1>5, <1>6, <1>7, <1>8, <1>9, <1>10, <1>11, <1>12 DEF Next

LEMMA NextDrawn ==
  FollowsWhileAttached /\ TypeOK /\ DrawnAsAnswered /\ [Next]_vars => DrawnAsAnswered'
<1> SUFFICES ASSUME FollowsWhileAttached, TypeOK, DrawnAsAnswered, [Next]_vars
             PROVE  DrawnAsAnswered'
  OBVIOUS
<1>1. CASE Redraw
  BY <1>1 DEF Redraw, DrawnAsAnswered
<1>2. CASE class' = class /\ RedrawThenCommand
  <2>1. CASE class = "report"
    BY <1>2, <2>1 DEF RedrawThenCommand, DrawnAsAnswered
  <2>2. CASE class # "report"
    <3>1. view' = Render(commands)'
      BY <1>2, <2>2 DEF RedrawThenCommand, Render, TypeOK, Class
    <3> QED
      BY <3>1 DEF DrawnAsAnswered
  <2> QED
    BY <2>1, <2>2
<1>3. CASE silent' = TRUE
  BY <1>3 DEF DrawnAsAnswered
<1>4. CASE DrawingKept
  <2>1. Render(commands)' = Render(commands)
    BY <1>4 DEF DrawingKept, Render, Veil, Report, Status, Capabilities, Action, AdminPanel, Aim
  <2> QED
    BY <1>4, <2>1 DEF DrawingKept, DrawnAsAnswered
<1> QED
  BY <1>1, <1>2, <1>3, <1>4, DrawingSteps

(* What an element shows is what its runtime answers now, or answered when *)
(* somebody last told it of a change.                                      *)
THEOREM Drawn == Spec => []DrawnAsAnswered
<1>1. Init => DrawnAsAnswered
  BY DEF Init, DrawnAsAnswered
<1> QED
  BY <1>1, TypeCorrect, Follows, NextDrawn, PTL DEF Spec

-----------------------------------------------------------------------------
(* What is revealed of an assigned target is what the viewer asked for.    *)
RevealedAsked == class = "veil" /\ assigned # NoTarget /\ revealed => disclosed = assigned

LEMMA NextAsked == RevealedAsked /\ [Next]_vars => RevealedAsked'
<1> SUFFICES ASSUME RevealedAsked, [Next]_vars PROVE RevealedAsked'
  OBVIOUS
<1>1. CASE SetTarget
  BY <1>1 DEF SetTarget, RevealedAfterAssignment, RevealedAsked
<1>2. CASE Reveal
  BY <1>2 DEF Reveal, Aim, RevealedAsked
<1>3. CASE SetAttribute
  BY <1>3 DEF SetAttribute, base, history, RevealedAsked
<1>4. CASE ~(SetTarget \/ Reveal \/ SetAttribute)
  <2>1. UNCHANGED << class, assigned, revealed, disclosed >>
    <3>1. CASE Enter \/ Leave \/ ProviderConnects \/ ProviderDisconnects \/ ProviderChanges
      BY <3>1 DEF Enter, Leave, ProviderConnects, ProviderDisconnects, ProviderChanges,
                  ConnectedCallback, DisconnectedCallback, HearReady, subject, history
    <3>2. CASE ProviderContinues \/ UNCHANGED vars
      BY <3>2 DEF ProviderContinues, vars, widget, base, subject, history
    <3>3. CASE SetRuntime \/ SetCommands
      BY <3>3 DEF SetRuntime, SetCommands, subject, history
    <3>4. CASE Change \/ Drift \/ Submit \/ SubmitNothing \/ Finish
      BY <3>4 DEF Change, Drift, Submit, SubmitNothing, Finish, base, subject, history
    <3> QED
      BY <1>4, <3>1, <3>2, <3>3, <3>4 DEF Next
  <2> QED
    BY <2>1 DEF RevealedAsked
<1> QED
  BY <1>1, <1>2, <1>3, <1>4

(* What a runtime restricts or hides of a target that a host assigned is   *)
(* open only to a viewer who asked to see that target.                     *)
THEOREM Disclosed == Spec => []DisclosedOnRequest
<1>1. Init => RevealedAsked
  BY DEF Init, RevealedAsked
<1>2. RevealedAsked /\ DrawnAsAnswered => DisclosedOnRequest
  <2> SUFFICES ASSUME RevealedAsked, DrawnAsAnswered, class = "veil", assigned # NoTarget,
                      ~silent, view.content = "open", answer \in {"restrict", "hide", "deny"}
               PROVE  revealed
    BY DEF DisclosedOnRequest, RevealedAsked
  <2>1. view = Veil(answer, revealed)
    BY DEF DrawnAsAnswered, Render
  <2>2. ~revealed => view.content \in {"covered", "blurred"}
    BY <2>1 DEF Veil
  <2> QED
    BY <2>2
<1> QED
  BY <1>1, <1>2, NextAsked, Drawn, PTL DEF Spec

-----------------------------------------------------------------------------
(* A submission that is under way is the one the element speaks of.        *)
Busy == /\ status = "busy" => flights > 0
        /\ view.content = "busy" => flights > 0

LEMMA RenderedBusy == TypeOK => \A c : Render(c).content = "busy" => status = "busy"
<1> SUFFICES ASSUME TypeOK, NEW c, Render(c).content = "busy"
             PROVE  status = "busy"
  OBVIOUS
<1>1. class \in Class /\ answer \in {"none"} \cup Answers[class]
  BY DEF TypeOK, Possible
<1>2. CASE class = "veil"
  <2>1. answer \in {"none", "allow", "restrict", "hide", "deny"}
    BY <1>1, <1>2 DEF Answers, Class
  <2>2. Render(c) = Veil(answer, revealed)
    BY <1>2 DEF Render
  <2>3. Veil(answer, revealed).content \in {"covered", "blurred", "open"}
    BY <2>1 DEF Veil
  <2> QED
    BY <2>2, <2>3
<1>3. CASE class = "status"
  <2>1. answer \in {"none", "allow", "restrict", "hide", "deny"}
    BY <1>1, <1>3 DEF Answers, Class
  <2>2. Render(c).content = answer
    BY <1>3 DEF Render, Status
  <2> QED
    BY <2>1, <2>2
<1>4. CASE class = "capabilities"
  <2>1. answer \in {"none", "permitted", "refused"}
    BY <1>1, <1>4 DEF Answers, Class
  <2>2. Render(c).content = answer
    BY <1>4 DEF Render, Capabilities
  <2> QED
    BY <2>1, <2>2
<1>5. CASE class = "report"
  <2>1. Render(c) = Report(c)
    BY <1>5 DEF Render
  <2> QED
    BY <2>1 DEF Report
<1>6. CASE class = "action"
  <2>1. Render(c) = Action(answer)
    BY <1>6 DEF Render
  <2> QED
    BY <2>1 DEF Action
<1>7. CASE class = "panel"
  <2>1. Render(c) = AdminPanel(answer)
    BY <1>7 DEF Render
  <2>2. AdminPanel(answer).content \in {"none", status}
    BY DEF AdminPanel
  <2> QED
    BY <2>1, <2>2
<1> QED
  BY <1>1, <1>2, <1>3, <1>4, <1>5, <1>6, <1>7 DEF Class

(* A step shows again what was shown, or what the element is now.          *)
LEMMA ShowingSteps ==
  ASSUME TypeOK', [Next]_vars
  PROVE  view' = view \/ (view'.content = "busy" => status' = "busy")
<1>1. ( \A c : Render(c).content = "busy" => status = "busy" )'
  BY RenderedBusy, PTL
<1>2. Redraw \/ RedrawThenCommand => (view'.content = "busy" => status' = "busy")
  BY <1>1 DEF Redraw, RedrawThenCommand
<1>3. CASE Enter \/ Leave \/ ProviderConnects \/ ProviderDisconnects \/ ProviderChanges
  BY <1>2, <1>3 DEF Enter, Leave, ProviderConnects, ProviderDisconnects, ProviderChanges,
                    ConnectedCallback, DisconnectedCallback, HearReady, drawing
<1>4. CASE ProviderContinues \/ UNCHANGED vars
  BY <1>4 DEF ProviderContinues, vars, widget, drawing
<1>5. CASE SetRuntime \/ SetCommands \/ SetTarget \/ SetAttribute
  BY <1>2, <1>5 DEF SetRuntime, SetCommands, SetTarget, SetAttribute
<1>6. CASE Change \/ Drift \/ Reveal \/ Submit \/ SubmitNothing \/ Finish
  BY <1>2, <1>6 DEF Change, Drift, Reveal, Submit, SubmitNothing, Finish, drawing
<1> QED
  BY <1>3, <1>4, <1>5, <1>6 DEF Next

LEMMA NextBusy == TypeOK /\ TypeOK' /\ Busy /\ [Next]_vars => Busy'
<1> SUFFICES ASSUME TypeOK, TypeOK', Busy, [Next]_vars PROVE Busy'
  OBVIOUS
<1>1. view' = view \/ (view'.content = "busy" => status' = "busy")
  BY ShowingSteps
<1>2. CASE Submit
  <2>1. flights \in 0..MaxSubmissions /\ flights' = flights + 1
    BY <1>2 DEF Submit, TypeOK
  <2>2. flights' > 0
    BY <2>1, WidgetsAssumption
  <2> QED
    BY <2>2 DEF Busy
<1>3. CASE Finish
  <2>1. status' = "done" /\ Redraw
    BY <1>3 DEF Finish, StatusAfter
  <2>2. ( \A c : Render(c).content = "busy" => status = "busy" )'
    BY RenderedBusy, PTL
  <2>3. view'.content = "busy" => status' = "busy"
    BY <2>1, <2>2 DEF Redraw
  <2> QED
    BY <2>1, <2>3 DEF Busy
<1>4. CASE ~(Submit \/ Finish)
  <2>1. flights' = flights /\ status' \in {status, ""}
    <3>1. CASE Enter \/ Leave \/ ProviderConnects \/ ProviderDisconnects \/ ProviderChanges
      BY <3>1 DEF Enter, Leave, ProviderConnects, ProviderDisconnects, ProviderChanges,
                  ConnectedCallback, DisconnectedCallback, HearReady, form
    <3>2. CASE ProviderContinues \/ UNCHANGED vars
      BY <3>2 DEF ProviderContinues, vars, widget, form
    <3>3. CASE SetRuntime \/ SetCommands \/ SetTarget \/ SetAttribute
      BY <3>3 DEF SetRuntime, SetCommands, SetTarget, SetAttribute, form
    <3>4. CASE Change \/ Drift \/ Reveal \/ SubmitNothing
      BY <3>4 DEF Change, Drift, Reveal, SubmitNothing, form
    <3> QED
      BY <1>4, <3>1, <3>2, <3>3, <3>4 DEF Next
  <2> QED
    BY <1>1, <2>1 DEF Busy
<1> QED
  BY <1>2, <1>3, <1>4

(* An element says that it is at work only while a submission of its own   *)
(* is under way, however submissions, targets and redrawings interleave.   *)
THEOREM BusyTruthful == Spec => []BusyWhileFlying
<1>1. Init => Busy
  <2> SUFFICES ASSUME Init PROVE Busy
    OBVIOUS
  <2>1. status = "" /\ view.content = "blank"
    BY DEF Init
  <2> QED
    BY <2>1 DEF Busy
<1>2. Busy => BusyWhileFlying
  BY DEF Busy, BusyWhileFlying
<1> QED
  BY <1>1, <1>2, TypeCorrect, NextBusy, PTL DEF Spec
=============================================================================
