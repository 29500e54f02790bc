# BitGate, specified

TLA+ specifications of BitGate (`packages/`), a governance layer for Nostr
applications: administrators publish denials, permissions and rosters; viewers
have contacts, mutes, blocks and overrides; a runtime gathers all of it from
relays and answers, for each piece of content, how an application should show
it. The modules are checked with TLC on small instances, and what matters most
is proved with TLAPS for every instance.

## 1. Inventory

| Component | Source | State | Operations | Talks to |
|---|---|---|---|---|
| Authority | `core/authority.js` | none of its own: a value | `createAuthorityState`, `hasCapability`, `isProtectedActor` | reducer, admin store, commands |
| Administrative reducer | `core/adminState.js` | none: a function | `reduceAdminState`, `isDenied`, `serializeAdminState` | admin store, evaluator |
| Admin store | `runtime/stores.js`, `runtime/runtime.js` | authority, contributions as published, reduced state, two fingerprints | `setRoles`, `upsertContribution`, `setContributions`; "change" events | runtime's ingest, cache, host |
| Evidence stores | `runtime/stores.js` | reports, mute lists, trust graph, policies, overrides | ingest, replace, prune, evict, clear; "change" events that name targets | runtime |
| Runtime: decisions | `runtime/runtime.js` | memoised snapshot, decision cache | `evaluate`, `snapshot`, `invalidateDecisions`, `setViewer` | stores, evaluator |
| Runtime: viewer session | `runtime/runtime.js` | viewer, what belongs to the viewer, pending operations | `setViewer`, `hydrate`, `persist`, `loadContacts`, `#absorbPrivateMutes` | storage, signer, transport |
| Runtime: loading | `runtime/runtime.js`, `nostr/replaceable.js` | stale flag, storage | `loadAdministrativeState`, `hydrate`, `persist`, `selectReplaceable`, `loadLabels`, `loadCommunitySources` | transport, verifier, storage, admin store |
| Trusted relay discovery | `runtime/runtime.js`, `nostr/relayList.js` | relay lists by author | `loadRelayLists`, `groupAuthorsByWriteRelay`, `loadTrustedMuteLists` | transport, verifier, evidence stores |
| Relay transport | `runtime/relayTransport.js` | sockets, queues, reconnect timers, subscriptions | `list`, `subscribe`, `publish`, `close` | relays |
| Evaluator, policy engine | `core/evaluator.js`, `core/policy.js`, `core/presets.js` | none: a function | `evaluateTarget`, `composeDecisions`, `applyThresholds`, `normalizePolicyProfile` | runtime |
| Commands | `runtime/commands.js` | none | check, sign, publish | signer, transport, admin store |
| Provider element | `widget/provider.js` | generation, runtime, transport | start, stop, restart, `useSigner` | runtime |
| Codecs | `nostr/*.js` | none | event ↔ contribution, roster, label, report, mute list | runtime, commands |
| Widget base element | `widget/base.js` | runtime, subscription, whether it waits for a provider | context request, `runtime` property, entering and leaving the document | provider, runtime |
| Viewer and admin widgets | `widget/viewer.js`, `widget/admin.js` | target, `_revealed`, `_status`, `pending` | draw, reveal, report, restrict, run an action | base element, runtime, commands |
| Adapter, verifier, presets, standalone, testing | `core/adapter.js`, `verify/`, … | none | | runtime |

The runtime is one JavaScript thread: code between two awaits is atomic, and
everything that goes wrong between operations goes wrong at an await or in the
order in which events, answers and timers arrive. What is hard:

* **Order.** Documents come from several relays, from a cache and from live
  subscriptions in any order; rosters arrive between the lists they govern.
* **Derived state.** The effective state, the fingerprints, the snapshot and
  the decisions are all derived and kept; each change of what they are derived
  from must reach them, and only them.
* **Awaits.** Storage, relays, the verifier and the signer are awaited while
  the application may switch accounts, close the page or start again.
* **Relays.** Sockets fail at any moment, before they open too; subscriptions,
  queued events and pending calls must survive them, and calls must end.
* **Policy.** Counts meet several thresholds on four ladders at once, under
  profiles that leave parts out, with ceilings, overrides and protected actors.
* **Elements.** A page moves elements about, assigns them runtimes and targets
  at any time, and loads them before, while and after their provider starts.

What makes each part correct:

* the admin store keeps the newest document of each author and kind, derives
  denials from the authority of the moment, announces every change, and never
  lets a document move a configured root;
* the decision cache never misses evidence that counts now, and an update of
  one target costs no other target its decision;
* one account's state never reaches another account's session or storage;
* the transport gives no relay up, requests each live subscription once per
  socket, loses no event, accounts for every relay of a publish, and ends every
  call;
* more evidence never softens a verdict, less never hardens one, protected
  actors are out of administrators' reach;
* the provider element runs one runtime, the one its attributes describe,
  leaks no sockets, shows the latest failure only, and no command has an account
  sign what that account may not do;
* a load keeps nothing forged and lets every genuine answer count, looks for
  contacts where they write, never makes the cache older, and ends;
* an element finds its provider whatever the order, follows the runtime it
  holds while it is on the page and no longer, draws what that runtime answers,
  and opens nothing that its viewer did not ask to see.

`PROJECT.json` lists the hazards at their lines, with the properties that watch
them, and says of the others why nothing does yet.

## 2. Modules

```
Authority ── AdminState ──┬── AdminStore ── MCAdminStore, AdminStoreProofs
                          ├── Governance, which AdminStore implements
                Policy ───┴── Evaluator ─── MCEvaluator, EvaluatorProofs
DecisionCache ── MCDecisionCache, DecisionCacheProofs
ViewerSession ── MCViewerSession, ViewerSessionProofs
RelayTransport ── MCRelayTransport, RelayTransportProofs
Provider ──┬── Commands ── MCCommands, ProviderProofs
           └── Widgets ─── MCWidgets, WidgetsProofs
Loading ── MCLoading, LoadingProofs
```

A module's source lines are in `PROJECT.json` under "map", definition by
definition. In every module a definition introduced by "a fault" is not part of
the specification: it is the code with a plausible bug, kept beside the
definition it would replace, to show that the properties notice it.

### Authority, AdminState

`CreateAuthorityState`, `HasCapability` and the reducer, as operators. A pubkey
is a member of `Actor` and is normalised already; what normalisation refuses is
`NoActor`. `AdminState` reduces a set of contributions under an authority: the
code reduces an array, and the order only decides the order of contributors and
markers. Malformed targets are what is in none of `Actor`, `Event`, `Address`.

### AdminStore

The store's fields are its variables, `fingerprint` and `authorityFingerprint`
being the values the code hashes. Two history variables are added: what the last
"change" event announced and which documents were offered since the
contributions were last replaced. Actions are the runtime's paths into the
store: a roles document (`ingestEvent`, root check and verification included),
a canonical or legacy list, a label event (one contribution per target, in one
slot), a community list (read without verification, marked with where it came
from), the cache (`hydrate`, which refuses another root and loses the role table
the cache does not hold), `importState` and `setRoles` as the host calls them.
Each ends in `Recompute`, as in the code. A verifier that rejects an event is
the action not taken.

### Governance

What the store is for, without saying how: a register per author and kind with
the newest document offered, a roster, and a ruling that is at every moment what
the roster makes of the registers. Its steps are `Offer` (documents, which leave
the roster alone), `Appoint` (a roster, which leaves the documents alone) and
`Restore` (a saved state as a whole). `AdminStore!Refinement` is the instance of
it under the mapping that files the store's contributions, takes its authority
as the roster and its `IsDenied` as the ruling. Fingerprints, events and
permissions have no counterpart.

### DecisionCache

All evidence stores, the memoised snapshot and the decision cache. A decision is
represented by the evidence `evaluateTarget` is shown for the target, so that a
stale decision is one whose evidence differs from a fresh one's. A JavaScript
`Map` is a function with the order of its keys, since eviction takes the oldest.
The change events and what they name are the `Invalidate` of each action.
`prune()` is an action because hosts may call it, though the runtime does not.
Report categories, targets' own expiry and the viewer's mutes are left out; a
viewer's mute list reaches the evaluator exactly where blocks do not, and
changes through the same event as blocks.

### ViewerSession

Four fields of viewer state, each holding only the set of accounts whose data is
in it, storage per account, and a *flight* per pending operation with what it
captured before its await. `hydrate` has two awaits, a load goes on to list and
to persist, and `persist` reads the viewer after its first write, as the code
does. What storage answers is what it held when the read was issued. `Reload`
loses everything but storage. Two equal flights are one, which loses no
behaviour that `Isolation` could tell apart: whatever the second does to the
sets of owners, the first has done.

### RelayTransport

Sockets per relay (`refused` for a malformed URL, `down` with a timer set),
queues of events, subscriptions, and `list`, `subscribe`, `publish` calls with
their own timers. `onopen` issues every subscription to every relay. A relay
answers a REQ with at most one EOSE and an EVENT with at most one OK; a frame
that is given to a socket which then breaks, or whose `send()` throws, is lost
like its answer, and `EventsKept` takes it as given. Payloads, and with them the
de-duplication of events, are left out; a queued CLOSE has no effect on a new
socket and is not kept.

### Policy, Evaluator

`Policy` has the ladders, thresholds, effects, the normalisation of profiles and
the composition of decisions; `Evaluator` the whole of `evaluateTarget` with the
evidence as variables and the stores' changes of it as actions. `verdict` is the
function's answer, taken again in every step, so that what a change may do to a
verdict is an action property. `Accumulated` takes the stages as a set;
`EvaluatorProofs` shows that the code's order does not matter. Reasons, evidence
records and diagnostics are left out, as is an override that is not a known
effect, which the code ignores. A transaction that no stage mentions is allowed.

### Provider, Commands

`Provider` is the `<bitgate-provider>` element. A runtime is named by the
generation of the start that built it. `Start` is `start()` up to its first
await; a start that goes on (`Continue`) reads the element's runtime of that
moment, which may be another's or none, as `this.runtime` does in the code:
with none, it fails, as it does when the attributes are unusable. What
`stop()` and `destroy()` leave is in `Disconnect` and `AttributeChanged`.
Listeners of the element's events are taken to change nothing before the
dispatch returns, and a load does not fail by itself, since every call of the
transport ends without an error.

`Commands` adds the commands that hold on to a runtime: one that needs a
capability asks the signer for its key, checks the roster of the moment, and
asks the signer of the moment to sign; a report only asks for a signature. One
capability stands for all. A host may attach a signer at any moment, also while
another is being asked for its key; a call remembers that (`replaced`), and whose
key it was told (`actor`), so that `EntitledSign` can tell who was checked from
who signs.

### Loading

A page performs some loads at once, over a world of documents that relays store,
each with an age, an author, the relays it is at and whether its signature is
genuine. A load is its requests to come, the request under way, the answer that
is being verified, and for the administrative load the read of the cache before
and the write after. `Answer` is any part of what the asked relays store,
`Reject` a `list()` that fails, `Feed` and `IngestFed` what a subscription or
the host brings meanwhile, `Reload` the loss of everything but the cache. Chunks
are asked about in any order, where the code keeps that of the author list.
A document has the identifier of its "d" tag, by which requests filter and
which is part of its coordinate, and a list or label the kind of contribution it
decodes to (`list`), by which the stores have slots: two lists of one author with
different identifiers may compete for a slot, a list of users and one of events
never do, and all labels of an author share one coordinate whatever their slots.
`Effective` is `selectReplaceable` over what was verified; `Ingest` puts the
rest into the stores, where lists and mute lists give way to newer ones and
rosters and relay lists to whichever comes. Two of one answer that compete for a
slot are ingested in either order. `found` remembers that a load of mute lists
ended without a failure since the page was loaded. A label's many targets, what
documents amount to and whose session it is are other modules' concern, and the
root and the schema of the cache are the page's own. Administrative loads hydrate
first and persist after, as they do unless they are told not to, and
`CacheNeverRegresses` is about those.

### Widgets

One element, of any of the six classes, in a page with one provider, whose
actions are `Provider`'s. `held` and `subscribed` are generations, as the
runtimes they stand for. The provider takes elements inside it along when it
enters or leaves the document; it enters first, and they ask it as they enter.
`Ready` is the announcement that `start()` dispatches, heard at the document by
whoever waits. A drawing is kept as what it shows and whether it has a live
button, so that it can be compared with what would be drawn now; `answer` stands
for what the runtime would say and changes with an event (`Change`) or without
(`Drift`: another viewer, the passing of time). Submissions end with some
status, whichever was first, and commands do not throw, so that nothing is left
busy by an error. Typed text, tables and texts are left out.

## 3. Runs

| Run | Question | Instance |
|---|---|---|
| `admin_store` | Are the newest documents kept, denials those of the current roster, changes announced, the root fixed? Is every step one of `Governance`? | a root, a moderator, a curator, one event; two published rosters and one of the host's; five documents that compete for slots with older, newer and equal ages; one label; a cache of this root and one of another |
| `admin_store_labels` | Does a label deny all it names? **No**: the last target only | the same |
| `decision_cache` | Is a cached decision stale only by remembering what was evicted, aged or expired? Is a report's cost its own target's? | two accounts, an event, one profile; room for one reported target, one list, two decisions; clock 0..2, window 1 |
| `evaluator` | Which way may each change of evidence, and an override, move a verdict? | author, post, two signers who are the seeds, contacts none or one of them, two categories; feed and allowlist profiles; clock {0, 2}, window 1; two signals at once |
| `evaluator_ceiling` | Does the seller dashboard's ceiling hold? **No**: a restriction passes it | the same, that profile |
| `viewer_session` | Is state isolated when the viewer may change during every await but two? | two accounts (symmetric), two operations waiting at once |
| `viewer_session_switch` | And during those two? **No** | the same |
| `provider` | One runtime, of the attributes of now, the latest error, signatures only for actors who may? | three configurations (with a viewer, without one and with a manual trust graph, without relays), two accounts, two starts, one command at a time |
| `provider_ready` | Does awaiting `ready` give the runtime? **No**: a removed start rejects the next one's promise | the same |
| `relay_transport` | Are relays kept, subscriptions requested once, events kept, publishes accounted for? Do calls end? | two configured relays, of which one's URL may be malformed, one that calls name; one call of each kind |
| `widgets` | Does an element find its provider, follow it only while it is on the page, and draw what it answers? | one element of any class, two targets (symmetric), two starts of one configuration that works or one that does not, two submissions at once |
| `loading` | Is nothing forged kept, does every document of an answer or its successor count, are contacts found, does the cache stay as new as it was, do loads end? | three authors, a relay that is configured and one that is not; four worlds of four to eight documents, each with the loads it concerns |

Why the instances are large enough:

* *AdminStore.* The properties relate an actor, a slot and the roster of the
  moment. Three actors allow one to deny another who is protected, dropped or
  the root; equal, older and newer ages of one slot cover `upsertContribution`;
  the three rosters give and take each capability concerned. The proofs lift
  the bound altogether.
* *DecisionCache.* Ceilings of one and two are the smallest that evict an entry
  while another stays. A clock of three values lets a list and an override be
  live, at their limit and past it. The property is about one cached pair at a
  time; a third account adds only another signer.
* *Evaluator.* The presets' thresholds are scaled down so that two signers pass
  every gate from below to above, and so that a category's gates and the
  default's are met at different counts. Two categories are the smallest number
  where a count in all differs from each. `MaxSignals` = 2 bounds reports and
  lists together. Lists are dated no later than they come.
* *ViewerSession.* A leak needs a source, a destination and one operation in
  flight between them; a second flight adds a load and a persist that overlap.
* *RelayTransport.* Two configured relays and one outbox relay are the smallest
  set where an answer of one can stand for another's; two relays never see each
  other's state otherwise.
* *Loading.* The worlds are a moderator's lists with a forged one and rosters of
  the root and of a pretender; relay lists that name a relay for reading, one
  for writing, none and a forged one, with mute lists where they lead and where
  they do not; labels about a user, an event and nothing, and lists of one age at
  one address and at two of one slot; a label load beside an administrative one,
  with lists of users and of events that compete with a label, and one that only
  another application asks for. Each has an older, a newer and where it matters a forged
  newest document per slot, which is all that ingestion compares. Two chunks let
  one fail and the other go on.
* *Widgets.* The properties relate one element to one runtime and one target,
  and the next; a third of either adds nothing they compare. `MaxSubmissions` =
  2: a submission ends its own status or another's.
* *Provider, Commands.* `MaxGeneration` = 2: a race has an older and a newer
  start, and which is older is all that is compared. `MaxCalls` = 1: commands
  share no state but the signer and the roster, which change around each.
  Entitlements are nobody's or one account's, so that the signer may be either.

The runs `relay_transport`, `provider*`, `widgets` and `loading` do not check for
deadlock: once the calls are done and the transport is closed, or the last start
is used up, nothing is left to do. All others do.

**Fairness.** In `RelayTransport` a pending call's own timer fires (weak fairness
of `ListTimeout` and `PublishTimeout`), which is what `setTimeout` promises.
Nothing is assumed of relays, sockets, reconnect timers or the application, so
`CallsEnd` is about the worst of them. It holds after `close()` too, which leaves
these timers running. In `Loading` a load under way takes its next step (weak
fairness of `Step`): its relay calls end, by `CallsEnd`, and storage and the
verifier answer. Whether calls end in an answer or a failure is open, and so are
reloads, of which there may be one before any step. `LoadsEnd` is then about the
loops over chunks and relays. Nothing else has fairness: an element, a store or
a viewer need never do anything.

### Where the code does not do what it says

* **Labels** (`nostr/labels.js:182`, `runtime.js:469`). A label that names several
  users becomes several contributions for one slot, and each displaces the last.
  `contributionToLabel`, its documented inverse, writes many targets.
* **Ceiling** (`evaluator.js:480`). Only `hide` and `deny` are lowered to the
  ceiling, so under a ceiling of `warn` three scam reports restrict and five warn.
* **Switching accounts** (`runtime.js:659`, `815`). The viewer's part of the cache
  and decrypted private mutes are applied after an await without asking whether
  the viewer is still the same.
* **Ready** (`provider.js:239`). A load that ends after its element was removed
  rejects the promise that `stop()` had made for the next start.

Each is a run that ends in a counterexample of a statement quoted from the
repository; `PROJECT.json` has the quotations. `SignalsNeverSoften` and
`SilencingNeverHardens` are about profiles whose ceiling is not below `restrict`
(`FirmCeiling`), since the second of these defects breaks them otherwise. Under an
override the former leaves the interaction out, and so does
`OverrideOnlySoftens`: an override sets it to `require-explicit-action` whatever
it was.

More were met while modelling and have no run of their own; the models have what
the code does. A capability that a roster grants directly (`cap` tags,
`canonical.js:185-186`) is decoded and then ignored (`runtime.js:428`). A
profile without `viewerBlock` is normalised to one with empty effects, so that
the fallback to hide (`evaluator.js:305-312`, "always enforced") is never taken.
If a host attaches another signer while one is asked for its key, the account
that signs is not the one that was checked (`commands.js:94`): this is the
exception that `EntitledSign` makes, and without it the run fails. A list
"resolves on EOSE from every relay" (`relayTransport.js:263-265`), but EOSEs are
counted without their relay, so one of a relay that the call did not name, or
that reconnected, ends it early. On relay failure "the previous state is left
intact" (`runtime.js:719-720`), but the cache has taken its place by then.
Labels are regular events, but `loadLabels` keeps one per labeller and chunk
(`runtime.js:886`): a label that denies a user is lost to a newer one about an
event, or about nothing the mapping knows. This is the exception that
`AnswersCount` makes, and without it that run fails. `denyUser` and its like
publish a list of their argument only, which replaces the list before it
(`commands.js:192`, `stores.js:79-81`). Elements keep the runtime they hold when
their provider builds another (`base.js:217`), `_revealed` survives a change of
the target in markup (`viewer.js:99`), and `pending` is not null when nothing is
under way (`viewer.js:206`).

## 4. Proofs

Of the properties the passing runs check, every invariant and every action
property is a theorem, for all values of the constants; the two about liveness
are not. Two have a hypothesis, which their run meets and which is said below
(`Isolation`, `TrustGraphFound`). Eight modules hold the proofs,
one per component.

**AdminStoreProofs** proves the type invariant, `NewestKept`,
`DenialsFollowAuthority`, `ListenersCurrent` and `GoalpostsFixed` for all sets of
actors, documents, rosters and snapshots. None of the properties is inductive
alone: the inductive invariant joins the type invariant (one contribution per
slot included, without which "newest of the slot" is not preserved when another
is displaced), that the state is the reduction of the contributions under the
authority, that fingerprints and announcement are those of the state, and that
stamps of kept documents were offered. Every action is one of three kinds of
step, a roster change, an upsert and a replacement, and preservation is proved
once for each. `GoalpostsFixed` needs only the type and the root check. The
assumptions are those named in the modules: inputs are well-typed, a snapshot
holds one document per slot (it was written from a store).

It ends with the proof that `AdminStore` implements `Governance` (`Refinement`):
the initial state starts a governance, and under the inductive invariant each of
the three kinds of step is an offer of documents, the appointment of a roster,
the restoration of a saved state, or nothing that `Governance` sees. What carries
it is that upserting leaves in each register its document or one that is not
older, and that the reduction denies what the ruling says.

**DecisionCacheProofs** proves the types, `SnapshotCurrent`, `CacheOnlyRemembers` and
`ReportsInvalidateNarrowly` for any targets, profiles, accounts and ceilings. The
inductive invariant is that the stores are typed, each `Map` and the order of its
keys agreeing (`Typed`), that a memoised snapshot is what the stores would give
(`Snapped`), and of each cached decision that it misses nothing which counts now
(`Remembers`, which is what `CacheOnlyRemembers` comes to when the snapshot it
compares with is spelt out). Of every action it is shown that it leaves a cached
decision alone, forgets it, or changes nothing that the decision depends on. The
lemmas on order (`Prune` and eviction keep a sequence without repetitions) carry
the ceilings.

**EvaluatorProofs** starts with decisions: composing them is commutative and
associative, nothing is neutral among them (`NothingAccumulated`), the effects
accumulated over a finite set of stages are what `applyEffects` makes of the
others' whichever stage comes last (`StageOrder`), and therefore any number of
stages applied in any order come to the accumulation of their set (`AnyOrder`):
it is that which justifies `Accumulated` in the model. Then a verdict is written
as a function of the profile, the override and of *facts* (who is blocked, denied,
missed by the allowlist, how many report and mute in each category), and shown to
be monotone in the facts through thresholds, ladders, override and ceiling.
`SignalsNeverSoften`, `SilencingNeverHardens`, `ProtectedStands` and
`OverrideOnlySoftens` follow from what each step does to the facts. The inductive
invariant is that the inputs have their types, that there are finitely many
signals, and that the verdict on record is that of the moment. Categories are
finitely many, since the thresholds of each are a stage and weights are counted;
`FirmCeiling` is in the properties, as section 3 says, and is no assumption of
the theorems.

**ViewerSessionProofs** proves the types whatever races what, and `Isolation` for
any accounts and any number of operations, assuming that `Raceable` holds neither
`"read-viewer"` nor `"decrypt"`: the two awaits whose violation the run
`viewer_session_switch` shows. The invariant adds that flights waiting there
belong to the viewer, and that data captured for an account is that account's own.

**RelayTransportProofs** proves the types, `NeverAbandoned`, `RequestedOnce`,
`EventsKept` and `PublishAccountsForAll` for all finite sets of relays and any
calls. Each needs something of its own: the types that only configured relays
are given events (`Confined`), `EventsKept` that configured relays are always
connected to (`Connected`), `RequestedOnce` that ids of calls to come were never
requested (`Unrequested`), the accounts that a relay has one answer and nobody
is reported late of a call under way (`Tallied`).

**LoadingProofs** proves all of `Loading` but that loads end, for any documents,
relays, pages, chunks and loads at once.

* `CacheNeverRegresses`: from reading the cache until it is written again, the
  stores and then what is about to be written have for each saved document one
  that is not older (`Covered`); that ingesting preserves this (`IngestStep`) is
  the rule of the stores' slots.
* `AnswersCount`: `selectReplaceable` keeps of each coordinate what nothing beats,
  and of finitely many documents there is one (`Unbeaten`), because a page's world
  is finite and ids tell its genuine documents apart (`WorldAssumption`: a world
  is what relays store, an id is the hash of its document, and relay and mute lists,
  of which an account has one, bear no "d" tag). What is kept counts
  slot by slot, since of the documents for a slot the store has a newest
  (`IngestCounts`). `Succeeds` is what may take a document's place: another of its
  kind, author and identifier that is not older. Labels have no identifier, so that
  of a labeller's labels the theorem says that the newest counts, and no more.
* `TrustGraphFound`: at each await of a load of mute lists that nothing failed so
  far, every author whose lists are not known yet is still being asked about
  (`SightedBy`): before its own relays are asked, its effective relay list is
  either in the stores or in a request to come, under way or being verified; after,
  its newest mute list is. The invariant adds where requests go (`Asked`), that
  relay lists come from loads only (`Fed`) and were offered by relays that were
  asked (`ListsOffered`). That is the theorem's hypothesis: hosts and subscriptions
  feed the runtime no relay lists (`"relays" \notin FedKinds`), which the
  runtime's own subscriptions do not ask for; without it an older list that
  arrives later leads elsewhere, since relay lists carry no age in their store.

**ProviderProofs** proves the types, `OneRuns`, `RunsAsConfigured`, `ErrorIsLatest` and
`EntitledSign` for any configurations, accounts, starts and commands at once, in
the composition of provider and commands. The first three hold together with the
fact that an element runs something only while it is in the document (`Idling`).
`EntitledSign` needs that a command which waits for a key waits for the signer
its runtime has, or remembers that this was replaced (`SignerHeld`). It assumes
nothing of hosts: when a signature is asked for, the actor whose key was told is
entitled by the roster of that moment, and the actor is who is asked, unless
another signer was attached during the wait.

**WidgetsProofs** proves the types and all five properties for any class, targets,
starts and submissions. `FollowsWhileAttached` is inductive as it stands.
`FindsProvider` needs that an element on the page without a runtime waits for one
and has not stopped waiting (`Waits`), and uses of the provider only what an
element sees of its steps (`ProviderSteps`). `DrawnAsAnswered` needs the types and
the first of these: an event is heard because the element follows what it holds.
`DisclosedOnRequest` needs that what is revealed is of the assigned target
(`RevealedAsked`), and `BusyWhileFlying` that status and drawing say "busy" only
while something is under way (`Busy`).

**What the proofs changed.** Two definitions turned out to say less, or other,
than they were meant to. `Home`, the relays where `TrustGraphFound` expects an
author's lists, took the newest relay lists by age alone and had nothing to say
of more than three relays; it now takes the effective list as
`selectReplaceable` does, and its first three relays. `Writes` is the tags that
name a relay, in their order, so that "the first three" can be reasoned about.

What stays with TLC: `CallsEnd` and `LoadsEnd`, which are about fairness, and the
runs that end in a counterexample. Where a proof needs an induction over finite
data (a newest document, a first tag, a first stage) it takes a least
counterexample, by the well-foundedness of finite sets under inclusion.

## 5. Not modelled

* *Listeners that act inside a dispatch*: an element's or a store's listeners are
  taken to change nothing before the dispatch returns. Where they could (an
  attribute changed from a `bitgate:ready` listener) `start()` would be re-entered.
* *Several runtimes over one storage*: two tabs share the cache; the code has no
  locking and the last one writes.
* *A change of the configured root* between two page loads, beyond the cache of
  another root that `hydrate` refuses (`AdminStore`, `ViewerSession`).
* *Pages of several elements or providers*: `Widgets` has one of each. Elements
  do not see each other, so that several are as many times one.
* *Subscriptions' choice of filters and live windows*: what they bring is `Feed`.
* *Codecs*: parsing and formatting. What they lose or add on the way to the
  stores (label targets, capabilities, the role table) is in `AdminStore`.
* *Signature verification*: a library call; an event that fails it is an action
  that is not taken, or a document that is not `genuine`.
* *Adapter, presets, fingerprints, reason texts, standalone bundle, bitvid
  compatibility, test support, examples, site*: data, formatting and
  demonstrations without state of their own.

## 6. Plan

Done so far, in order: AdminStore, DecisionCache, ViewerSession, RelayTransport,
Policy and Evaluator, Provider and Commands, Governance with its refinement,
Widgets, Loading with relay discovery, and the proofs of every safety property
above. What could follow:

1. **Session**: an abstract session, one account's state at a time, which
   `ViewerSession` implements with the two races it excludes.
2. **Trust graph**: what `TrustGraphFound` still promises when a host feeds relay
   lists, in terms of the last one fed.
3. **Evaluator**: that a chain of composed decisions is what one evaluation of all
   their stages gives, from `AnyOrder` and `ComposeAssociates`.
4. **Provider**: listeners that change attributes inside a dispatch, and what
   `bitgate:loaded` promises of the runtime it is announced for.
