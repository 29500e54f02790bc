--------------------------- MODULE ProviderProofs ---------------------------
(***************************************************************************)
(* One runtime, of the attributes of now, with the latest error, and       *)
(* signatures of the entitled only: the properties of Provider and of      *)
(* Commands for any configurations, any number of starts that overlap and  *)
(* any number of commands at once.                                         *)
(*                                                                         *)
(* OneRuns and RunsAsConfigured become inductive with the fact that an     *)
(* element runs something only while it is in the document (Idling),       *)
(* EntitledSign with the fact that a runtime's signer changes under no     *)
(* command that waits for its key without being remembered (SignerHeld).   *)
(***************************************************************************)
EXTENDS Commands, FiniteSetTheorems, TLAPS

Idling == isReady = isConnected /\ (~isReady => runtime = None)

Lifecycle == ElementTypeOK /\ Idling /\ OneRuns /\ RunsAsConfigured /\ ErrorIsLatest

ProviderStep ==
  \/ Connect \/ Disconnect \/ AttributeChanged \/ Continue
  \/ \E a \in Account : UseSigner(a)
  \/ SignerAnswers \/ SignerRefuses

-----------------------------------------------------------------------------
LEMMA InitLifecycle == ElementInit => Lifecycle
<1> SUFFICES ASSUME ElementInit PROVE Lifecycle
  OBVIOUS
<1>1. ElementTypeOK
  <2>1. /\ isConnected \in BOOLEAN /\ isReady \in BOOLEAN /\ attributes \in Configuration
        /\ generation = 0 /\ runtime = 0 /\ error = 0 /\ promise = Pending
        /\ starts = {} /\ open = {} /\ live = {} /\ asking = {}
    BY DEF ElementInit, None
  <2>2. /\ builtFrom \in [Generation -> Configuration]
        /\ viewer \in [Generation -> Account \cup {NoAccount}]
        /\ signer \in [Generation -> Account \cup {NoAccount}]
    BY DEF ElementInit
  <2>3. 0 \in 0..MaxGeneration
    BY ConfigurationAssumption
  <2> QED
    BY <2>1, <2>2, <2>3 DEF ElementTypeOK
<1> QED
  BY <1>1 DEF ElementInit, Lifecycle, Idling, OneRuns, RunsAsConfigured, ErrorIsLatest, None

(* A start, made when nothing else runs: its runtime is the only one, and  *)
(* of the attributes it was made for.                                      *)
LEMMA StartStep ==
  ASSUME ElementTypeOK, NEW p \in {Pending, Rejected} \cup 1..generation,
         Start(p, {}, {}),
         isReady' = TRUE, isConnected' = TRUE, attributes' \in Configuration
  PROVE  Lifecycle'
<1> DEFINE g == generation + 1
<1>1. /\ g \in Generation /\ generation' = g
      /\ UNCHANGED << signer, asking >>
  BY DEF Start
<1>2. generation \in Nat /\ g # 0 /\ MaxGeneration \in Nat
  BY ConfigurationAssumption DEF ElementTypeOK
<1>3. CASE attributes' \in Valid
  <2>1. /\ runtime' = g /\ error' = None
        /\ promise' = Settled(p, g)
        /\ open' = {g} /\ live' = {g}
        /\ starts' = starts \cup {[generation |-> g, await |-> "load"]}
        /\ builtFrom' = [builtFrom EXCEPT ![g] = attributes']
        /\ viewer' = [viewer EXCEPT ![g] = ViewerOf[attributes']]
    BY <1>3 DEF Start
  <2>2. builtFrom'[g] = attributes' /\ builtFrom' \in [Generation -> Configuration]
    BY <1>1, <2>1 DEF ElementTypeOK
  <2>3. /\ starts' \subseteq [generation : 1..generation', await : Await]
        /\ \A s, t \in starts' : s.generation = t.generation => s = t
    BY <1>1, <1>2, <2>1 DEF ElementTypeOK, Await
  <2>4. viewer' \in [Generation -> Account \cup {NoAccount}]
    BY <1>1, <2>1, ConfigurationAssumption DEF ElementTypeOK
  <2>5. promise' \in {Pending, Rejected} \cup 1..generation'
    BY <1>1, <1>2, <2>1 DEF Settled
  <2>6. ElementTypeOK'
    BY <1>1, <1>2, <2>1, <2>2, <2>3, <2>4, <2>5 DEF ElementTypeOK, None, Generation
  <2> QED
    BY <1>1, <1>2, <1>3, <2>1, <2>2, <2>6
    DEF Lifecycle, Idling, OneRuns, RunsAsConfigured, ErrorIsLatest, None
<1>4. CASE attributes' \notin Valid
  <2>1. /\ runtime' = None /\ error' = g
        /\ promise' = Settled(p, Rejected)
        /\ open' = {} /\ live' = {}
        /\ UNCHANGED << starts, builtFrom, viewer >>
    BY <1>4 DEF Start
  <2>2. starts' \subseteq [generation : 1..generation', await : Await]
    BY <1>1, <1>2, <2>1 DEF ElementTypeOK
  <2>3. promise' \in {Pending, Rejected} \cup 1..generation'
    BY <1>1, <1>2, <2>1 DEF Settled
  <2>4. ElementTypeOK'
    BY <1>1, <1>2, <2>1, <2>2, <2>3 DEF ElementTypeOK, None, Generation
  <2> QED
    BY <1>1, <1>2, <1>4, <2>1, <2>4
    DEF Lifecycle, Idling, OneRuns, RunsAsConfigured, ErrorIsLatest, None
<1> QED
  BY <1>3, <1>4

(* While nothing runs nothing is open.                                     *)
LEMMA NothingOpen ==
  ASSUME Lifecycle
  PROVE  /\ open \ {runtime} = {} /\ live \ {runtime} = {}
         /\ runtime = None => open = {} /\ live = {}
<1>1. 0 \notin Generation
  BY ConfigurationAssumption DEF Generation
<1> QED
  BY <1>1 DEF Lifecycle, OneRuns, ElementTypeOK, None

LEMMA ConnectStep ==
  ASSUME Lifecycle, Connect
  PROVE  Lifecycle'
<1>1. runtime = None /\ open = {} /\ live = {}
  BY NothingOpen DEF Connect, Lifecycle, Idling
<1>2. Start(promise, {}, {})
  BY <1>1 DEF Connect
<1> QED
  BY <1>2, StartStep DEF Connect, Lifecycle, ElementTypeOK

LEMMA DisconnectStep ==
  ASSUME Lifecycle, Disconnect
  PROVE  Lifecycle'
<1>1. open' = {} /\ live' = {}
  BY NothingOpen DEF Disconnect, OpenAfterStop, LiveAfterStop
<1>2. ElementTypeOK'
  <2>1. generation \in Nat
    BY DEF Lifecycle, ElementTypeOK
  <2>2. /\ isConnected' = FALSE /\ isReady' = FALSE /\ promise' = Pending /\ runtime' = 0
        /\ UNCHANGED << attributes, generation, error, starts, builtFrom, viewer, signer,
                        asking >>
    BY DEF Disconnect, identity, None
  <2> QED
    <3>1. {runtime', error'} \subseteq 0..generation'
      BY <2>1, <2>2 DEF Lifecycle, ElementTypeOK
    <3>2. {isConnected', isReady'} \subseteq BOOLEAN /\ open' = {} /\ live' = {}
      BY <1>1, <2>2
    <3> QED
      BY <2>2, <3>1, <3>2 DEF Lifecycle, ElementTypeOK
<1> QED
  BY <1>1, <1>2
  DEF Disconnect, Lifecycle, Idling, OneRuns, RunsAsConfigured, ErrorIsLatest

LEMMA AttributeStep ==
  ASSUME Lifecycle, AttributeChanged
  PROVE  Lifecycle'
<1>1. CASE isReady /\ isConnected
  <2>1. Start(Pending, {}, {}) /\ isReady' = TRUE
    BY <1>1, NothingOpen
    DEF AttributeChanged, OpenAfterStop, LiveAfterStop, ReadyAfterRestart
  <2> QED
    BY <1>1, <2>1, StartStep DEF AttributeChanged, Lifecycle
<1>2. CASE ~(isReady /\ isConnected)
  <2>1. /\ attributes' \in Configuration
        /\ UNCHANGED << isConnected, isReady, generation, runtime, error, promise, starts,
                        open, live, builtFrom, identity >>
    BY <1>2 DEF AttributeChanged
  <2>2. ElementTypeOK'
    BY <2>1 DEF Lifecycle, ElementTypeOK, identity
  <2> QED
    BY <1>2, <2>1, <2>2
    DEF Lifecycle, Idling, OneRuns, RunsAsConfigured, ErrorIsLatest
<1> QED
  BY <1>1, <1>2

(* A start that resumes waits for one thing more, or for nothing.          *)
LEMMA ResumeStep ==
  ASSUME ElementTypeOK, NEW s \in starts, NEW awaits \in SUBSET Await,
         \A a, b \in awaits : a = b, Resume(s, awaits), generation' = generation
  PROVE  /\ starts' \subseteq [generation : 1..generation, await : Await]
         /\ \A t, u \in starts' : t.generation = u.generation => t = u
<1>1. \A a \in awaits : /\ [s EXCEPT !.await = a] \in [generation : 1..generation, await : Await]
                        /\ [s EXCEPT !.await = a].generation = s.generation
  BY DEF ElementTypeOK
<1>2. starts' = (starts \ {s}) \cup {[s EXCEPT !.await = a] : a \in awaits}
  BY DEF Resume
<1>3. starts' \subseteq [generation : 1..generation, await : Await]
  BY <1>1, <1>2 DEF ElementTypeOK
<1>4. ASSUME NEW t \in starts', NEW u \in starts', t.generation = u.generation
      PROVE  t = u
  BY <1>1, <1>2, <1>4 DEF ElementTypeOK
<1> QED
  BY <1>3, <1>4

LEMMA NextAwaitType ==
  ASSUME NEW s, s.await \in Await
  PROVE  NextAwait(s) \in SUBSET Await /\ \A a, b \in NextAwait(s) : a = b
<1>1. CASE s.await = "load"
  BY <1>1 DEF NextAwait, Await
<1>2. CASE s.await = "contacts"
  BY <1>2 DEF NextAwait, Await
<1>3. CASE s.await = "mutes"
  BY <1>3 DEF NextAwait, Await
<1> QED
  BY <1>1, <1>2, <1>3 DEF Await

LEMMA ContinueStep ==
  ASSUME Lifecycle, Continue
  PROVE  Lifecycle'
<1>1. PICK s \in starts :
        /\ IF runtime = None /\ s.await # "mutes"
             THEN Fail(s)
             ELSE Resume(s, NextAwait(s)) /\ UNCHANGED << error, promise, open >>
        /\ UNCHANGED << isConnected, attributes, isReady, generation, runtime, live,
                        builtFrom, identity >>
  BY DEF Continue
<1>2. /\ starts' \subseteq [generation : 1..generation, await : Await]
      /\ \A t, u \in starts' : t.generation = u.generation => t = u
  <2>1. Resume(s, {}) \/ Resume(s, NextAwait(s))
    BY <1>1 DEF Fail
  <2> QED
    BY <1>1, <2>1, ResumeStep, NextAwaitType DEF Lifecycle, ElementTypeOK
<1>3. CASE runtime = None /\ s.await # "mutes"
  <2>1. /\ open' = open \ {s.generation}
        /\ \/ /\ s.generation = generation /\ error' = s.generation
              /\ promise' = Settled(promise, Rejected)
           \/ UNCHANGED << error, promise >>
    BY <1>1, <1>3 DEF Fail, Reported
  <2>2. generation \in Nat
    BY DEF Lifecycle, ElementTypeOK
  <2>3. ElementTypeOK'
    BY <1>1, <1>2, <2>1, <2>2 DEF Lifecycle, ElementTypeOK, identity, Settled
  <2> QED
    BY <1>1, <1>3, <2>1, <2>3
    DEF Lifecycle, Idling, OneRuns, RunsAsConfigured, ErrorIsLatest
<1>4. CASE ~(runtime = None /\ s.await # "mutes")
  <2>1. UNCHANGED << error, promise, open >>
    BY <1>1, <1>4
  <2>2. ElementTypeOK'
    BY <1>1, <1>2, <2>1 DEF Lifecycle, ElementTypeOK, identity
  <2> QED
    BY <1>1, <2>1, <2>2
    DEF Lifecycle, Idling, OneRuns, RunsAsConfigured, ErrorIsLatest
<1> QED
  BY <1>3, <1>4

LEMMA SignerStep ==
  ASSUME Lifecycle,
         (\E a \in Account : UseSigner(a)) \/ SignerAnswers \/ SignerRefuses
  PROVE  Lifecycle'
<1>1. UNCHANGED lifecycle
  BY DEF UseSigner, SignerAnswers, SignerRefuses
<1>2. /\ {viewer', signer'} \subseteq [Generation -> Account \cup {NoAccount}]
      /\ asking' \subseteq Account
  BY DEF UseSigner, SignerAnswers, SignerRefuses, Lifecycle, ElementTypeOK
<1>3. ElementTypeOK'
  BY <1>1, <1>2 DEF Lifecycle, ElementTypeOK, lifecycle
<1> QED
  BY <1>1, <1>3
  DEF lifecycle, Lifecycle, Idling, OneRuns, RunsAsConfigured, ErrorIsLatest

LEMMA LifecycleKept == Lifecycle /\ [ProviderStep]_elementVars => Lifecycle'
<1> SUFFICES ASSUME Lifecycle, [ProviderStep]_elementVars PROVE Lifecycle'
  OBVIOUS
<1>1. CASE UNCHANGED elementVars
  BY <1>1 DEF elementVars, lifecycle, identity, Lifecycle, ElementTypeOK, Idling, OneRuns,
              RunsAsConfigured, ErrorIsLatest
<1> QED
  BY <1>1, ConnectStep, DisconnectStep, AttributeStep, ContinueStep, SignerStep
  DEF ProviderStep

-----------------------------------------------------------------------------
(* The commands. *)

LEMMA NextProvides == [Next]_vars => [ProviderStep]_elementVars
BY DEF Next, vars, ElementStep, Attach, ProviderStep, Governed, Command, Report, KeyTold,
       Answered

LEMMA LifecycleInvariant == Spec => []Lifecycle
<1>1. Init => Lifecycle
  BY InitLifecycle DEF Init
<1>2. Lifecycle /\ [Next]_vars => Lifecycle'
  BY LifecycleKept, NextProvides
<1> QED
  BY <1>1, <1>2, PTL DEF Spec

(* At most the current runtime lives and at most its sockets are open, for *)
(* any number of starts that overlap, removals and restarts.               *)
THEOREM OneRuntime == Spec => []OneRuns
<1>1. Lifecycle => OneRuns
  BY DEF Lifecycle
<1> QED
  BY <1>1, LifecycleInvariant, PTL

(* An element in the document runs what its attributes say now, or shows   *)
(* that it cannot, whatever they are changed to and whenever.              *)
THEOREM AttributesHeeded == Spec => []RunsAsConfigured
<1>1. Lifecycle => RunsAsConfigured
  BY DEF Lifecycle
<1> QED
  BY <1>1, LifecycleInvariant, PTL

(* The error on show is the latest start's, whichever of the earlier ones  *)
(* fails after it.                                                         *)
THEOREM LatestError == Spec => []ErrorIsLatest
<1>1. Lifecycle => ErrorIsLatest
  BY DEF Lifecycle
<1> QED
  BY <1>1, LifecycleInvariant, PTL

(* Commands are given to runtimes that have a signer.                      *)
CallsTyped ==
  /\ entitled \in [Generation -> SUBSET Account]
  /\ calls \subseteq Call /\ IsFiniteSet(calls) /\ Cardinality(calls) <= MaxCalls
  /\ \A c \in calls : signer[c.runtime] # NoAccount

(* A command that waits for a key waits for its runtime's signer, unless   *)
(* that was replaced since.                                                *)
SignerHeld ==
  \A c \in calls : c.await = "key" /\ ~c.replaced => c.signer = signer[c.runtime]

LEMMA GivenType ==
  ASSUME ElementTypeOK, NEW g \in Generation, signer[g] # NoAccount,
         NEW await \in {"key", "signature"}, NEW free \in BOOLEAN
  PROVE  LET c == Given(g, await, free)
         IN  /\ c \in Call
             /\ c.runtime = g /\ c.signer = signer[g]
             /\ c.await = await /\ c.free = free
BY DEF ElementTypeOK, Given, Asked, Call

(* A call whose key was told goes on as one of the same runtime.           *)
LEMMA ToldType ==
  ASSUME ElementTypeOK, NEW c \in Call, signer[c.runtime] # NoAccount
  PROVE  LET d == Asked(c.runtime, "signature", FALSE, c.signer, c.replaced)
         IN  /\ d \in Call
             /\ d.runtime = c.runtime /\ d.signer = signer[c.runtime]
             /\ d.await = "signature"
             /\ d.actor = c.signer /\ d.replaced = c.replaced
BY DEF ElementTypeOK, Asked, Call

(* The calls that an attached signer outdates remain what they were.       *)
LEMMA OutdatedType ==
  ASSUME NEW c \in Call, NEW a \in Account
  PROVE  LET d == Outdated(c, a)
         IN  /\ d \in Call
             /\ d.runtime = c.runtime /\ d.signer = c.signer /\ d.await = c.await
             /\ d.replaced \/ d = c
             /\ c.runtime = runtime /\ c.await = "key" => d.replaced \/ c.signer = a
BY DEF Outdated, Call

(* Room for one more, and one fewer.                                       *)
LEMMA AddedOne ==
  ASSUME NEW S, IsFiniteSet(S), NEW x, NEW n \in Nat, Cardinality(S) < n
  PROVE  IsFiniteSet(S \cup {x}) /\ Cardinality(S \cup {x}) <= n
<1>1. Cardinality(S) \in Nat
  BY FS_CardinalityType
<1>2. /\ IsFiniteSet(S \cup {x})
      /\ Cardinality(S \cup {x}) = IF x \in S THEN Cardinality(S) ELSE Cardinality(S) + 1
  BY FS_AddElement
<1> QED
  BY <1>1, <1>2

LEMMA RemovedOne ==
  ASSUME NEW S, IsFiniteSet(S), NEW x \in S, NEW n \in Nat, Cardinality(S) <= n
  PROVE  IsFiniteSet(S \ {x}) /\ Cardinality(S \ {x}) < n
<1>1. Cardinality(S) \in Nat
  BY FS_CardinalityType
<1>2. IsFiniteSet(S \ {x}) /\ Cardinality(S \ {x}) = Cardinality(S) - 1
  BY FS_RemoveElement
<1> QED
  BY <1>1, <1>2

(* Steps of the element leave the signers alone that runtimes have.        *)
LEMMA ElementStepSigns ==
  ASSUME ElementStep
  PROVE  signer' = signer /\ UNCHANGED << entitled, calls >>
BY DEF ElementStep, Connect, Disconnect, AttributeChanged, Continue, SignerAnswers,
       SignerRefuses, Start, identity, lifecycle

LEMMA AttachSigns ==
  ASSUME ElementTypeOK, Attach
  PROVE  \E a \in Account :
           /\ runtime \in Generation /\ signer' = [signer EXCEPT ![runtime] = a]
           /\ calls' = {Outdated(c, a) : c \in calls}
           /\ UNCHANGED entitled
<1>1. PICK a \in Account : UseSigner(a) /\ calls' = {Outdated(c, a) : c \in calls}
  BY DEF Attach
<1>2. runtime \in Generation
  BY <1>1, ConfigurationAssumption DEF UseSigner, ElementTypeOK, Generation, None
<1> QED
  BY <1>1, <1>2 DEF UseSigner, Attach

(* However many an attached signer outdates, there are not more calls.     *)
LEMMA OutdatedFewer ==
  ASSUME IsFiniteSet(calls), NEW a \in Account
  PROVE  LET next == {Outdated(c, a) : c \in calls}
         IN  IsFiniteSet(next) /\ Cardinality(next) <= Cardinality(calls)
<1> DEFINE next == {Outdated(c, a) : c \in calls}
           f == [c \in calls |-> Outdated(c, a)]
<1>1. f \in Surjection(calls, next)
  BY DEF Surjection
<1> QED
  BY <1>1, FS_Surjection

(* A command that is given now.                                            *)
LEMMA GivenStep ==
  ASSUME ElementTypeOK, Command \/ Report
  PROVE  \E g \in Generation, await \in {"key", "signature"}, free \in BOOLEAN :
           /\ signer[g] # NoAccount
           /\ await = "key" \/ free
           /\ Cardinality(calls) < MaxCalls
           /\ calls' = calls \cup {Given(g, await, free)}
           /\ UNCHANGED << signer, entitled >>
<1>1. 1..generation \subseteq Generation
  BY ConfigurationAssumption DEF ElementTypeOK, Generation
<1>2. CASE Command
  BY <1>1, <1>2 DEF Command, elementVars, identity
<1>3. CASE Report
  BY <1>1, <1>3 DEF Report, elementVars, identity
<1> QED
  BY <1>2, <1>3

LEMMA NextCallsTyped == ElementTypeOK /\ CallsTyped /\ [Next]_vars => CallsTyped'
<1> SUFFICES ASSUME ElementTypeOK, CallsTyped, [Next]_vars PROVE CallsTyped'
  OBVIOUS
<1>1. CASE ElementStep
  BY <1>1, ElementStepSigns DEF CallsTyped
<1>2. CASE Attach
  <2>1. PICK a \in Account : /\ runtime \in Generation
                             /\ signer' = [signer EXCEPT ![runtime] = a]
                             /\ calls' = {Outdated(c, a) : c \in calls}
                             /\ UNCHANGED entitled
    BY <1>2, AttachSigns
  <2>2. \A c \in calls : signer'[c.runtime] # NoAccount
    BY <2>1, ConfigurationAssumption DEF ElementTypeOK, CallsTyped, Call
  <2>3. calls' \subseteq Call /\ \A c \in calls' : signer'[c.runtime] # NoAccount
    BY <2>1, <2>2, OutdatedType DEF CallsTyped
  <2>4. IsFiniteSet(calls') /\ Cardinality(calls') <= Cardinality(calls)
    BY <2>1, OutdatedFewer DEF CallsTyped
  <2>5. Cardinality(calls') <= MaxCalls
    BY <2>4, FS_CardinalityType, CommandsAssumption DEF CallsTyped
  <2> QED
    BY <2>1, <2>3, <2>4, <2>5 DEF CallsTyped
<1>3. CASE Governed
  <2>1. entitled' \in [Generation -> SUBSET Account]
    BY <1>3, CommandsAssumption DEF Governed, CallsTyped
  <2> QED
    BY <1>3, <2>1 DEF Governed, CallsTyped, elementVars, identity
<1>4. CASE Command \/ Report
  <2>1. PICK g \in Generation, await \in {"key", "signature"}, free \in BOOLEAN :
           /\ signer[g] # NoAccount
           /\ Cardinality(calls) < MaxCalls
           /\ calls' = calls \cup {Given(g, await, free)}
           /\ UNCHANGED << signer, entitled >>
    BY <1>4, GivenStep
  <2>2. /\ Given(g, await, free) \in Call
        /\ Given(g, await, free).runtime = g
    BY <2>1, GivenType
  <2>3. IsFiniteSet(calls') /\ Cardinality(calls') <= MaxCalls
    BY <2>1, AddedOne, CommandsAssumption DEF CallsTyped
  <2> QED
    BY <2>1, <2>2, <2>3 DEF CallsTyped
<1>5. CASE KeyTold
  <2>1. PICK c \in calls :
          /\ calls' = (calls \ {c}) \cup
                        (IF Allowed(c)
                           THEN {Asked(c.runtime, "signature", FALSE, c.signer, c.replaced)}
                           ELSE {})
          /\ UNCHANGED << elementVars, entitled >>
    BY <1>5 DEF KeyTold
  <2> DEFINE next == Asked(c.runtime, "signature", FALSE, c.signer, c.replaced)
  <2>2. c \in Call /\ signer[c.runtime] # NoAccount
    BY DEF CallsTyped
  <2>3. next \in Call /\ next.runtime = c.runtime
    BY <2>2, ToldType
  <2>4. IsFiniteSet(calls \ {c}) /\ Cardinality(calls \ {c}) < MaxCalls
    BY RemovedOne, CommandsAssumption DEF CallsTyped
  <2>5. calls' = calls \ {c} \/ calls' = (calls \ {c}) \cup {next}
    BY <2>1
  <2> HIDE DEF next
  <2>6. IsFiniteSet(calls') /\ Cardinality(calls') <= MaxCalls
    <3>1. CASE calls' = calls \ {c}
      BY <3>1, RemovedOne, CommandsAssumption, FS_CardinalityType DEF CallsTyped
    <3>2. CASE calls' = (calls \ {c}) \cup {next}
      BY <2>4, <3>2, AddedOne, CommandsAssumption
    <3> QED
      BY <2>5, <3>1, <3>2
  <2> QED
    BY <2>1, <2>2, <2>3, <2>5, <2>6 DEF CallsTyped, elementVars, identity
<1>6. CASE Answered
  <2>1. PICK c \in calls : calls' = calls \ {c} /\ UNCHANGED << elementVars, entitled >>
    BY <1>6 DEF Answered
  <2>2. IsFiniteSet(calls') /\ Cardinality(calls') <= MaxCalls
    BY <2>1, RemovedOne, CommandsAssumption, FS_CardinalityType DEF CallsTyped
  <2> QED
    BY <2>1, <2>2 DEF CallsTyped, elementVars, identity
<1>7. CASE UNCHANGED vars
  BY <1>7 DEF vars, elementVars, identity, CallsTyped
<1> QED
  BY <1>1, <1>2, <1>3, <1>4, <1>5, <1>6, <1>7 DEF Next

LEMMA CallsInvariant == Spec => [](ElementTypeOK /\ CallsTyped)
<1>1. Init => CallsTyped
  BY FS_EmptySet, CommandsAssumption DEF Init, CallsTyped
<1>2. Lifecycle => ElementTypeOK
  BY DEF Lifecycle
<1> QED
  BY <1>1, <1>2, LifecycleInvariant, NextCallsTyped, PTL DEF Spec

(* The types of the element and of its commands.                           *)
THEOREM TypeCorrect == Spec => []TypeOK
<1>1. ElementTypeOK /\ CallsTyped => TypeOK
  BY DEF CallsTyped, TypeOK
<1> QED
  BY <1>1, CallsInvariant, PTL

LEMMA NextSignerHeld ==
  ASSUME ElementTypeOK, CallsTyped, SignerHeld, [Next]_vars
  PROVE  SignerHeld'
<1>1. ASSUME calls' \subseteq calls, signer' = signer PROVE SignerHeld'
  BY <1>1 DEF SignerHeld
<1>2. CASE ElementStep
  BY <1>1, <1>2, ElementStepSigns
<1>3. CASE Attach
  <2>1. PICK a \in Account :
          /\ runtime \in Generation /\ signer' = [signer EXCEPT ![runtime] = a]
          /\ calls' = {Outdated(c, a) : c \in calls}
    BY <1>3, AttachSigns
  <2>2. ASSUME NEW c \in calls, Outdated(c, a).await = "key", ~Outdated(c, a).replaced
        PROVE  Outdated(c, a).signer = signer'[Outdated(c, a).runtime]
    <3>1. c \in Call /\ c.runtime \in Generation
      BY DEF CallsTyped, Call
    <3>2. Outdated(c, a) = c
      BY <2>2, <3>1, OutdatedType
    <3>3. CASE c.runtime = runtime
      BY <2>1, <2>2, <3>1, <3>2, <3>3, OutdatedType DEF ElementTypeOK
    <3>4. CASE c.runtime # runtime
      BY <2>1, <2>2, <3>1, <3>2, <3>4 DEF SignerHeld, ElementTypeOK
    <3> QED
      BY <3>3, <3>4
  <2> QED
    BY <2>1, <2>2 DEF SignerHeld
<1>4. CASE Command \/ Report
  <2>1. PICK g \in Generation, await \in {"key", "signature"}, free \in BOOLEAN :
           /\ signer[g] # NoAccount
           /\ calls' = calls \cup {Given(g, await, free)}
           /\ UNCHANGED << signer, entitled >>
    BY <1>4, GivenStep
  <2>2. /\ Given(g, await, free).runtime = g
        /\ Given(g, await, free).signer = signer[g]
    BY <2>1, GivenType
  <2> QED
    BY <2>1, <2>2 DEF SignerHeld
<1>5. CASE KeyTold
  <2>1. PICK c \in calls :
          /\ calls' \subseteq calls \cup
                          {Asked(c.runtime, "signature", FALSE, c.signer, c.replaced)}
          /\ UNCHANGED << elementVars, entitled >>
    BY <1>5 DEF KeyTold
  <2>2. c \in Call /\ signer[c.runtime] # NoAccount
    BY DEF CallsTyped
  <2>3. Asked(c.runtime, "signature", FALSE, c.signer, c.replaced).await = "signature"
    BY <2>2, ToldType
  <2> QED
    BY <2>1, <2>3 DEF SignerHeld, elementVars, identity
<1>6. CASE Governed \/ Answered \/ UNCHANGED vars
  BY <1>1, <1>6 DEF Governed, Answered, vars, elementVars, identity
<1> QED
  BY <1>2, <1>3, <1>4, <1>5, <1>6 DEF Next

LEMMA SignersEntitled ==
  ASSUME ElementTypeOK, CallsTyped, SignerHeld, Next
  PROVE  \A c \in calls' \ calls :
           c.await = "signature" /\ ~c.free =>
             /\ c.actor \in entitled[c.runtime]
             /\ c.signer # c.actor => c.replaced
<1>1. CASE KeyTold
  <2>1. PICK c \in calls :
          /\ c.await = "key"
          /\ calls' = (calls \ {c}) \cup
                        (IF Allowed(c)
                           THEN {Asked(c.runtime, "signature", FALSE, c.signer, c.replaced)}
                           ELSE {})
    BY <1>1 DEF KeyTold
  <2> DEFINE next == Asked(c.runtime, "signature", FALSE, c.signer, c.replaced)
  <2>2. c \in Call /\ signer[c.runtime] # NoAccount /\ c.replaced \in BOOLEAN
    BY DEF CallsTyped, Call
  <2>3. c.replaced \/ c.signer = signer[c.runtime]
    BY <2>1 DEF SignerHeld
  <2>4. /\ next.runtime = c.runtime /\ next.actor = c.signer
        /\ next.signer # next.actor => next.replaced
    BY <2>2, <2>3, ToldType
  <2> HIDE DEF next
  <2>5. calls' \ calls \subseteq IF Allowed(c) THEN {next} ELSE {}
    BY <2>1 DEF next
  <2> QED
    BY <2>4, <2>5 DEF Allowed
<1>2. CASE Command \/ Report
  <2>1. PICK g \in Generation, await \in {"key", "signature"}, free \in BOOLEAN :
           /\ signer[g] # NoAccount
           /\ await = "key" \/ free
           /\ calls' = calls \cup {Given(g, await, free)}
    BY <1>2, GivenStep
  <2>2. /\ Given(g, await, free).await = await
        /\ Given(g, await, free).free = free
    BY <2>1, GivenType
  <2> QED
    BY <2>1, <2>2
<1>3. CASE Attach
  <2>1. PICK a \in Account : calls' = {Outdated(c, a) : c \in calls}
    BY <1>3, AttachSigns
  <2>2. \A c \in calls : Outdated(c, a) = c \/ Outdated(c, a).await = "key"
    BY DEF Outdated, CallsTyped, Call
  <2> QED
    BY <2>1, <2>2
<1>4. CASE ElementStep \/ Governed \/ Answered
  BY <1>4, ElementStepSigns DEF Governed, Answered
<1> QED
  BY <1>1, <1>2, <1>3, <1>4 DEF Next

(* Whoever gave a command is entitled to it by the roster of the moment a  *)
(* signature is asked for, and is the one who is asked unless a host       *)
(* attached another signer meanwhile, for any number of commands at once,  *)
(* any changes of the roster and of the signers in any order.              *)
THEOREM CheckedBeforeSigning == Spec => EntitledSign
<1>1. Init => SignerHeld
  BY DEF Init, SignerHeld
<1>2. ElementTypeOK /\ CallsTyped /\ SignerHeld /\ [Next]_vars => SignerHeld'
  BY NextSignerHeld
<1>3. ElementTypeOK /\ CallsTyped /\ SignerHeld /\ [Next]_vars =>
        [\A c \in calls' \ calls :
           c.await = "signature" /\ ~c.free =>
             /\ c.actor \in entitled[c.runtime]
             /\ c.signer # c.actor => c.replaced]_vars
  BY SignersEntitled
<1> QED
  BY <1>1, <1>2, <1>3, CallsInvariant, PTL DEF Spec, EntitledSign
=============================================================================
