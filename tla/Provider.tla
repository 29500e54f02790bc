------------------------------ MODULE Provider -------------------------------
(***************************************************************************)
(* The <bitgate-provider> element (packages/widget/src/provider.js): a     *)
(* runtime is built from the element's attributes whenever it enters the   *)
(* document or they change, and thrown away when it leaves or they change  *)
(* again, while earlier starts may still be loading.                       *)
(*                                                                         *)
(* A runtime is named by the generation of the start that built it, and    *)
(* its transport with it. What the runtime loads is not modelled, only     *)
(* when: the relay transport ends every call, so a load takes its time but *)
(* does not fail by itself. Listeners of the element's events are taken to *)
(* change nothing before the dispatch returns.                             *)
(***************************************************************************)
EXTENDS Naturals, FiniteSets

CONSTANTS
  Account,        \* Accounts, which name the signers that hold their keys.
  NoAccount,      \* No viewer, or no signer.
  Pending,        \* A promise that is not settled.
  Rejected,       \* A promise that is, other than by a runtime.
  Configuration,  \* What the attributes may say.
  Valid,          \* Configurations with relays and a known policy.
  Automatic,      \* Those that do not say trust="manual".
  ViewerOf,       \* The viewer that each names, or NoAccount.
  MaxGeneration   \* Bound on the starts.

ASSUME ConfigurationAssumption ==
  /\ Valid \subseteq Configuration /\ Automatic \subseteq Configuration
  /\ NoAccount \notin Account /\ ViewerOf \in [Configuration -> Account \cup {NoAccount}]
  /\ MaxGeneration \in Nat \ {0}

Generation == 1..MaxGeneration
None == 0

ASSUME PromiseAssumption == Pending # Rejected /\ {Pending, Rejected} \cap Generation = {}

(* Where a start may wait: for its own runtime's load, then for a follow   *)
(* list and for mute lists of whatever runtime the element has by then.    *)
Await == {"load", "contacts", "mutes"}

VARIABLES
  isConnected,   \* The element is in the document.
  attributes,
  isReady,       \* _ready.
  generation,    \* _generation: starts so far.
  runtime,       \* The current runtime, or None.
  error,         \* The generation whose failure the element shows, or None.
  promise,       \* `ready': Pending, Rejected, or the runtime it resolved to.
  starts,        \* Starts that wait.
  open,          \* Transports that were not closed.
  live,          \* Runtimes that were not destroyed.
  builtFrom,     \* History: the attributes each runtime was built from.
  viewer,        \* Of each runtime.
  signer,        \* Of each runtime, or NoAccount.
  asking         \* Signers that useSigner() asked for their key.

lifecycle == << isConnected, attributes, isReady, generation, runtime, error, promise,
                starts, open, live, builtFrom >>
identity == << viewer, signer, asking >>
elementVars == << lifecycle, identity >>

ElementInit ==
  /\ isConnected = FALSE /\ isReady = FALSE
  /\ attributes \in Configuration
  /\ generation = 0 /\ runtime = None /\ error = None
  /\ promise = Pending
  /\ starts = {} /\ open = {} /\ live = {}
  /\ builtFrom = [g \in Generation |-> attributes]
  /\ viewer = [g \in Generation |-> NoAccount]
  /\ signer = [g \in Generation |-> NoAccount]
  /\ asking = {}

-----------------------------------------------------------------------------
(* What stop() leaves of a promise, of runtimes and of transports: a fresh *)
(* promise, and nothing of the current runtime.                            *)
(* A fault: the transport is not closed.                                   *)
OpenAfterStopLeaky == open

OpenAfterStop == open \ {runtime}
LiveAfterStop == live \ {runtime}

Settled(p, outcome) == IF p = Pending THEN outcome ELSE p

(* start(), up to its first await, on top of the promise, the transports   *)
(* and the runtimes that it finds: with attributes that it cannot use it   *)
(* fails and leaves no runtime.                                            *)
Start(p, transports, runtimes) ==
  LET g == generation + 1
  IN  /\ g \in Generation
      /\ generation' = g
      /\ IF attributes' \in Valid
           THEN /\ runtime' = g /\ error' = None
                /\ promise' = Settled(p, g)
                /\ open' = transports \cup {g} /\ live' = runtimes \cup {g}
                /\ starts' = starts \cup {[generation |-> g, await |-> "load"]}
                /\ builtFrom' = [builtFrom EXCEPT ![g] = attributes']
                /\ viewer' = [viewer EXCEPT ![g] = ViewerOf[attributes']]
           ELSE /\ runtime' = None /\ error' = g
                /\ promise' = Settled(p, Rejected)
                /\ open' = transports /\ live' = runtimes
                /\ UNCHANGED << starts, builtFrom, viewer >>
      /\ UNCHANGED << signer, asking >>

Connect ==
  /\ ~isConnected /\ isConnected' = TRUE
  /\ ~isReady /\ isReady' = TRUE
  /\ UNCHANGED attributes
  /\ Start(promise, open, live)

Disconnect ==
  /\ isConnected /\ isConnected' = FALSE
  /\ isReady' = FALSE
  /\ promise' = Pending /\ runtime' = None
  /\ open' = OpenAfterStop /\ live' = LiveAfterStop
  /\ UNCHANGED << attributes, generation, error, starts, builtFrom, identity >>

(* A fault: the flag that stop() clears is not set again.                  *)
ReadyAfterStop == FALSE

ReadyAfterRestart == TRUE

AttributeChanged ==
  /\ attributes' \in Configuration \ {attributes}
  /\ UNCHANGED isConnected
  /\ IF isReady /\ isConnected
       THEN /\ isReady' = ReadyAfterRestart
            /\ Start(Pending, OpenAfterStop, LiveAfterStop)
       ELSE UNCHANGED << isReady, generation, runtime, error, promise, starts, open, live,
                         builtFrom, identity >>

-----------------------------------------------------------------------------
(* Faults: a start that was resumed waits on as before; a start that fails *)
(* says so though a later one has taken its place.                         *)
ResumeAgain(s, awaits) ==
  starts' = starts \cup {[s EXCEPT !.await = a] : a \in awaits}

ReportedByAny(g) == TRUE

Resume(s, awaits) ==
  starts' = (starts \ {s}) \cup {[s EXCEPT !.await = a] : a \in awaits}

Reported(g) == g = generation

(* A start that needs a runtime when it resumes and finds none has failed; *)
(* its own transport is closed again.                                      *)
Fail(s) ==
  /\ Resume(s, {})
  /\ open' = open \ {s.generation}
  /\ IF Reported(s.generation)
       THEN error' = s.generation /\ promise' = Settled(promise, Rejected)
       ELSE UNCHANGED << error, promise >>

(* A start goes on with the runtime that the element has now: with a viewer*)
(* to the trust graph, unless that is the application's own affair.        *)
NextAwait(s) ==
  CASE s.await = "load"     -> IF viewer[runtime] # NoAccount /\ attributes \in Automatic
                                 THEN {"contacts"} ELSE {}
    [] s.await = "contacts" -> {"mutes"}
    [] s.await = "mutes"    -> {}

Continue ==
  \E s \in starts :
    /\ IF runtime = None /\ s.await # "mutes"
         THEN Fail(s)
         ELSE Resume(s, NextAwait(s)) /\ UNCHANGED << error, promise, open >>
    /\ UNCHANGED << isConnected, attributes, isReady, generation, runtime, live,
                    builtFrom, identity >>

-----------------------------------------------------------------------------
(* useSigner: the signer is attached at once, and becomes the viewer of the*)
(* runtime that the element has when it answers.                           *)
UseSigner(a) ==
  /\ runtime # None
  /\ signer' = [signer EXCEPT ![runtime] = a]
  /\ asking' = asking \cup {a}
  /\ UNCHANGED << lifecycle, viewer >>

SignerAnswers ==
  \E a \in asking :
    /\ asking' = asking \ {a}
    /\ viewer' = IF runtime = None THEN viewer ELSE [viewer EXCEPT ![runtime] = a]
    /\ UNCHANGED << lifecycle, signer >>

SignerRefuses ==
  \E a \in asking :
    /\ asking' = asking \ {a}
    /\ UNCHANGED << lifecycle, viewer, signer >>

-----------------------------------------------------------------------------
(* The variables have their types, and a start waits for one thing.        *)
ElementTypeOK ==
  /\ {isConnected, isReady} \subseteq BOOLEAN /\ attributes \in Configuration
  /\ generation \in 0..MaxGeneration
  /\ {runtime, error} \subseteq 0..generation
  /\ promise \in {Pending, Rejected} \cup 1..generation
  /\ starts \subseteq [generation : 1..generation, await : Await]
  /\ \A s, t \in starts : s.generation = t.generation => s = t
  /\ open \subseteq Generation /\ live \subseteq Generation
  /\ builtFrom \in [Generation -> Configuration]
  /\ {viewer, signer} \subseteq [Generation -> Account \cup {NoAccount}]
  /\ asking \subseteq Account

(* Whatever starts are still under way, at most the current runtime lives  *)
(* and at most its sockets are open: none is leaked by a restart, a removal*)
(* or a start that lost the race (provider.js:69-72, 246-264).             *)
OneRuns == open \cup live \subseteq {runtime}

(* While the element is in the document, it runs what its attributes say   *)
(* now, or shows that it cannot: no change is "silently ignored"           *)
(* (provider.js:115-125).                                                  *)
RunsAsConfigured ==
  isConnected =>
    IF attributes \in Valid
      THEN runtime # None /\ builtFrom[runtime] = attributes
      ELSE runtime = None /\ error = generation

(* The error shown is the latest start's, and none is shown beside a       *)
(* runtime: a start that lost the race keeps its failure to itself         *)
(* (provider.js:232-245).                                                  *)
ErrorIsLatest == error # None => error = generation /\ runtime = None

(* "Awaiting `ready` always works" (provider.js:74-79): whoever awaits it  *)
(* while the element has a runtime is given that runtime. In the code a    *)
(* start that was removed while loading rejects the promise that stop()    *)
(* made, and the start that follows finds it settled.                      *)
ReadyWorks == runtime # None => promise = runtime
=============================================================================
