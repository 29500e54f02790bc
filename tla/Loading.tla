------------------------------- MODULE Loading -------------------------------
(***************************************************************************)
(* How documents reach a runtime's stores (packages/runtime/src/runtime.js *)
(* with packages/nostr/src/replaceable.js and relayList.js): the load of   *)
(* administrative state between its cache and its relays, the discovery of *)
(* where the viewer's contacts write and the load of their mute lists from *)
(* there, labels, community lists, and events that arrive meanwhile. Each  *)
(* load is a sequence of requests with awaits between them; relays answer  *)
(* with any part of what they store, forgeries included, or fail; the page *)
(* may be reloaded at any moment, which leaves the cache only.             *)
(*                                                                         *)
(* What relays store is fixed when a behaviour starts; that a document was *)
(* published later is an answer that lacks it. A label names targets of    *)
(* one kind; that it may name many is AdminStore's concern, as is what     *)
(* lists amount to. The viewer's part of the cache is ViewerSession's, and *)
(* documents of policy are left out.                                       *)
(***************************************************************************)
EXTENDS Naturals, FiniteSets, Sequences

CONSTANTS
  Author,        \* Who publishes; Root among them.
  Root,          \* The configured root.
  Relay,
  Configured,    \* The transport's own relays.
  Trusted,       \* trust.trustSet: whose mute lists count.
  Identifier,    \* What "d" tags say.
  Governing,     \* The identifiers of GOVERNANCE_SCOPES, LEGACY_IDENTIFIERS.
  Sources,       \* Kinds, curators and identifiers of the community lists.
  Chunks,        \* The chunks that authors are asked about in.
  Pages,         \* What relays may store, and the loads a page performs.
  FedKinds       \* Kinds that subscriptions and hosts feed to the runtime.

(* Stores keep the newest of lists, labels and mute lists, and of rosters  *)
(* and relay lists the last.                                               *)
Administrative == {"roster", "canonical", "legacy", "label"}
Kind == Administrative \cup {"relays", "mutes"}

(* The kinds of contribution that a list, or a label, decodes to.          *)
ListKind == {"user-allow", "user-deny", "event-deny", "address-deny", "trust-seed"}

(* Of a document without a "d" tag.                                        *)
Unnamed == ""

Name == Identifier \cup {Unnamed}

Load == {"admin", "mutes", "labels", "community"}

(* An "r" tag names a relay, or something that is not a relay's URL, with  *)
(* a marker or none.                                                       *)
RelayTag == [url : Relay \cup {"malformed"}, marker : {"", "read", "write"}]

(* The list is what decodeContribution, decodeLegacyList or                *)
(* labelsToContributions makes of it: "none" if it has an unknown scope or *)
(* identifier, or a label is outside the mapping.                          *)
Document ==
  [ kind : Kind, author : Author, name : Name, list : ListKind \cup {"none"},
    age : Nat, id : Nat, genuine : BOOLEAN, at : SUBSET Relay, tags : Seq(RelayTag) ]

ASSUME LoadingAssumption ==
  /\ Root \in Author /\ Configured \subseteq Relay /\ Trusted \subseteq Author
  /\ Chunks \subseteq SUBSET Author /\ UNION Chunks = Author
  /\ Pages \subseteq [world : SUBSET Document, loads : SUBSET Load]
  /\ FedKinds \subseteq Kind /\ Governing \subseteq Identifier
  /\ Sources \subseteq {"canonical", "legacy"} \X Author \X Identifier

(* An event's id is a hash of all it says: only forgeries share one. Relay *)
(* and mute lists, of which an account has one, have no identifier.        *)
ASSUME WorldAssumption ==
  \A page \in Pages :
    /\ IsFiniteSet(page.world)
    /\ \A d \in page.world : d.kind \in {"relays", "mutes"} => d.name = Unnamed
    /\ \A d, e \in page.world : d.genuine /\ e.genuine /\ d.id = e.id => d = e

VARIABLES
  world,      \* What relays store.
  active,     \* The loads that this page performs.
  held,       \* The documents in the stores.
  saved,      \* The documents in the cache.
  cached,     \* Whether there is a cache.
  stale,
  load,       \* Load -> where it waits, and with what.
  incoming,   \* Fed events that are being verified.
  found       \* History: a load of mute lists that nothing failed has ended.

vars == << world, active, held, saved, cached, stale, load, incoming, found >>

(* What a load has at an await: the requests to come, the request that was *)
(* made, its answer, and whether every answer so far was whole.            *)
At(await, todo, request, batch, complete) ==
  [ await |-> await, todo |-> todo, request |-> request, batch |-> batch,
    complete |-> complete ]

Idle == At("idle", {}, {}, {}, TRUE)

Init ==
  /\ \E page \in Pages : world = page.world /\ active = page.loads
  /\ held = {} /\ saved = {} /\ cached = FALSE /\ stale = FALSE
  /\ load = [l \in active |-> Idle]
  /\ incoming = {} /\ found = FALSE

-----------------------------------------------------------------------------
(* Of the documents of a coordinate the newest is effective, of those of   *)
(* one age the one with the smallest id. All labels of an author have one. *)
CoordinateOf(d) == << d.kind, d.author, d.name >>

SelectReplaceable(events) ==
  {d \in events : \A e \in events \ {d} :
     CoordinateOf(e) = CoordinateOf(d) =>
       d.age > e.age \/ (d.age = e.age /\ d.id < e.id)}

Verified(events) == {d \in events : d.genuine}

(* Faults: the newest document is selected before forgeries are dropped;   *)
(* nothing is verified.                                                    *)
SelectedFirst(events) == Verified(SelectReplaceable(events))

Unverified(events) == SelectReplaceable(events)

Effective(events) == SelectReplaceable(Verified(events))

IsList(d) == d.kind \in {"canonical", "legacy", "label"}

(* Where the stores keep a document: lists and labels of an author share   *)
(* the slot of what they contribute, whatever their identifiers.           *)
Slot(d) ==
  IF IsList(d) THEN << "list", d.author, d.list >> ELSE << d.kind, d.author, "none" >>

OnePerSlot(docs) == \A d, e \in docs : Slot(d) = Slot(e) => d = e

LastWins(d) == d.kind \in {"roster", "relays"}

Supersedes(d, e) == Slot(d) = Slot(e) /\ (LastWins(d) \/ e.age <= d.age)

(* A fault: a slot keeps what it had beside what it gets.                  *)
IngestedBeside(docs, new) == docs \cup new

(* A roster counts only if the root wrote it, a list if it contributes.    *)
Recognised(docs) ==
  {d \in docs : (d.kind = "roster" => d.author = Root) /\ (IsList(d) => d.list # "none")}

(* What of the documents remains in the stores, whichever of one age is    *)
(* stored last.                                                            *)
Remaining(docs, new) ==
  LET counted == Recognised(new)
  IN  {d \in counted : \A e \in docs \cup counted : Slot(e) = Slot(d) => Supersedes(d, e)}

Ingested(docs, new) ==
  {d \in docs : \A e \in new : Slot(e) # Slot(d)} \cup new

(* ingestEvent, of some documents one after the other.                     *)
Ingest(events) ==
  LET remaining == Remaining(held, events)
  IN  \E new \in SUBSET remaining :
        /\ OnePerSlot(new) /\ \A d \in remaining : \E e \in new : Slot(e) = Slot(d)
        /\ held' = Ingested(held, new)

-----------------------------------------------------------------------------
(* Requests. *)

AskNamed(kinds, authors, names, relays) ==
  [kinds |-> kinds, authors |-> authors, names |-> names, relays |-> relays]

(* Without a filter for "d" tags.                                          *)
Ask(kinds, authors, relays) == AskNamed(kinds, authors, Name, relays)

Chunked(authors) == {c \cap authors : c \in Chunks} \ {{}}

(* decodeRelayList: the tags that name a relay where the author writes.    *)
Writes(list) ==
  {i \in DOMAIN list.tags : list.tags[i].url \in Relay /\ list.tags[i].marker # "read"}

(* The relays that they name, up to one of the tags.                       *)
Urls(list, last) == {list.tags[i].url : i \in {j \in Writes(list) : j <= last}}

FirstThree(list) ==
  UNION {Urls(list, i) : i \in {j \in Writes(list) : Cardinality(Urls(list, j)) <= 3}}

RelayLists(docs, author) == {d \in docs : d.kind = "relays" /\ d.author = author}

(* A fault: whoever published a relay list is looked for there only.       *)
WriteRelaysOnly(author, docs) ==
  IF RelayLists(docs, author) # {}
    THEN UNION {FirstThree(list) : list \in RelayLists(docs, author)}
    ELSE Configured

(* groupAuthorsByWriteRelay, for one author: the relays it writes to, or   *)
(* the configured ones if it names none.                                   *)
WriteRelays(author, docs) ==
  LET named == UNION {FirstThree(list) : list \in RelayLists(docs, author)}
  IN  IF named # {} THEN named ELSE Configured

Grouped(docs) ==
  UNION { {Ask({"mutes"}, chunk, {r}) :
             chunk \in Chunked({a \in Trusted : r \in WriteRelays(a, docs)})} : r \in Relay }

(* What each load asks first.                                              *)
Requests(l) ==
  CASE l = "admin"     ->
         {AskNamed({"roster", "canonical", "legacy"}, Author, Governing, Configured)}
    [] l = "mutes"     -> {Ask({"relays"}, chunk, Configured) : chunk \in Chunked(Trusted)}
    [] l = "labels"    -> {Ask({"label"}, chunk, Configured) : chunk \in Chunked(Author)}
    [] l = "community" ->
         {AskNamed({source[1]}, {source[2]}, {source[3]}, Configured) : source \in Sources}

Matching(request) ==
  {d \in world : /\ d.kind \in request.kinds /\ d.author \in request.authors
                 /\ d.name \in request.names /\ d.at \cap request.relays # {}}

-----------------------------------------------------------------------------
(* The awaits. *)

Becomes(l, state) == load' = [load EXCEPT ![l] = state]

Asking(l, todo, complete) ==
  \E request \in todo :
    Becomes(l, At("list", todo \ {request}, request, {}, complete))

(* A load has no request left: mute lists are asked for once it is known   *)
(* where, and then, as the other loads, it ends.                           *)
Discovered(l) == l = "mutes" /\ load[l].request.kinds = {"relays"}

(* A fault: the request that was answered is not taken off the list.       *)
AskAgain(l, complete) ==
  Asking(l, load[l].todo \cup {load[l].request}, complete) /\ UNCHANGED found

AskNext(l, complete) ==
  CASE load[l].todo # {} ->
         Asking(l, load[l].todo, complete) /\ UNCHANGED found
    [] load[l].todo = {} /\ Discovered(l) /\ Grouped(held') # {} ->
         Asking(l, Grouped(held'), complete) /\ UNCHANGED found
    [] OTHER ->
         Becomes(l, Idle) /\ found' = (found \/ (l = "mutes" /\ complete))

(* loadAdministrativeState starts with its cache, the others with requests.*)
Begin(l) ==
  /\ load[l].await = "idle" /\ Requests(l) # {}
  /\ IF l = "admin"
       THEN Becomes(l, At("read", Requests(l), {}, {}, TRUE))
       ELSE Asking(l, Requests(l), TRUE)
  /\ UNCHANGED << world, active, held, saved, cached, stale, incoming, found >>

Administered(docs) == {d \in docs : d.kind \in Administrative}

(* A fault: the cache is read for its own sake.                            *)
HydratedNot == held

(* hydrate: rosters and lists are those of the cache, if there is one.     *)
Hydrated == IF cached THEN (held \ Administered(held)) \cup saved ELSE held

Read(l) ==
  /\ load[l].await = "read"
  /\ held' = Hydrated
  /\ Asking(l, load[l].todo, TRUE)
  /\ UNCHANGED << world, active, saved, cached, stale, incoming, found >>

(* Relays answer with some of what they store: all, if they are well.      *)
Answer(l) ==
  /\ load[l].await = "list"
  /\ LET all == Matching(load[l].request)
     IN  \E batch \in SUBSET all :
           Becomes(l, At("verify", load[l].todo, load[l].request, batch,
                         load[l].complete /\ batch = all))
  /\ UNCHANGED << world, active, held, saved, cached, stale, incoming, found >>

(* list() rejects: the administrative load ends, the others go on.         *)
Reject(l) ==
  /\ load[l].await = "list"
  /\ UNCHANGED << world, active, held, saved, cached, incoming >>
  /\ IF l = "admin"
       THEN Becomes(l, Idle) /\ stale' = TRUE /\ UNCHANGED found
       ELSE AskNext(l, FALSE) /\ UNCHANGED stale

(* The answer is verified and ingested; persist() then writes what is held *)
(* by now.                                                                 *)
Verify(l) ==
  /\ load[l].await = "verify"
  /\ Ingest(Effective(load[l].batch))
  /\ IF l = "admin"
       THEN /\ stale' = FALSE
            /\ Becomes(l, At("write", {}, {}, Administered(held'), TRUE))
            /\ UNCHANGED found
       ELSE AskNext(l, load[l].complete) /\ UNCHANGED stale
  /\ UNCHANGED << world, active, saved, cached, incoming >>

Write(l) ==
  /\ load[l].await = "write"
  /\ saved' = load[l].batch /\ cached' = TRUE
  /\ Becomes(l, Idle)
  /\ UNCHANGED << world, active, held, stale, incoming, found >>

(* ingestVerified, and the subscriptions' #ingestFromSubscription.         *)
Feed ==
  /\ incoming = {}
  /\ \E d \in world : d.kind \in FedKinds /\ incoming' = {d}
  /\ UNCHANGED << world, active, held, saved, cached, stale, load, found >>

IngestFed ==
  /\ incoming # {} /\ incoming' = {}
  /\ Ingest(Effective(incoming))
  /\ UNCHANGED << world, active, saved, cached, stale, load, found >>

(* The page is reloaded: only the cache outlives it.                       *)
Reload ==
  /\ held' = {} /\ stale' = FALSE
  /\ load' = [l \in active |-> Idle]
  /\ incoming' = {} /\ found' = FALSE
  /\ UNCHANGED << world, active, saved, cached >>

Step(l) == Read(l) \/ Answer(l) \/ Reject(l) \/ Verify(l) \/ Write(l)

Next ==
  \/ \E l \in active : Begin(l) \/ Step(l)
  \/ Feed \/ IngestFed
  \/ Reload

(* Relay calls end by their timers (RelayTransport, CallsEnd); storage and *)
(* the verifier answer.                                                    *)
Fairness == \A l \in Load : WF_vars(l \in active /\ Step(l))

Spec == Init /\ [][Next]_vars /\ Fairness

-----------------------------------------------------------------------------
(* The variables have their types, and each slot of a store or the cache   *)
(* holds one document.                                                     *)
TypeOK ==
  /\ [world |-> world, loads |-> active] \in Pages
  /\ held \subseteq world /\ saved \subseteq Administered(world)
  /\ OnePerSlot(held) /\ OnePerSlot(saved)
  /\ {cached, stale, found} \subseteq BOOLEAN
  /\ DOMAIN load = active
  /\ \A l \in active :
       /\ load[l].await \in {"idle", "read", "list", "verify", "write"}
       /\ load[l].batch \subseteq world
       /\ load[l].await # "idle" /\ l # "admin" => load[l].request \notin load[l].todo
  /\ incoming \subseteq world /\ Cardinality(incoming) <= 1

(* No forgery gets into a store or the cache, whichever way it came: "an   *)
(* attacker only had to wait" for state fetched at load to arrive live     *)
(* (runtime.js:544-553, 681-710, 768).                                     *)
OnlyGenuine == \A d \in held \cup saved : d.genuine

(* A document of the same address, and not older.                          *)
Succeeds(e, d) ==
  e.kind = d.kind /\ e.author = d.author /\ e.name = d.name /\ d.age <= e.age

(* The stores that keep the newest hold it, or one for the same slot that  *)
(* is not older; or it is nothing that they keep so.                       *)
Counted(e, docs) ==
  \/ LastWins(e) \/ (IsList(e) /\ e.list = "none")
  \/ \E h \in docs : Slot(h) = Slot(e) /\ e.age <= h.age

(* Every genuine document of an answer counts after the batch, or another  *)
(* genuine one of the answer does that succeeds it: a forged newer one     *)
(* takes no place on the way (runtime.js:768, 848, 967), and a list for    *)
(* one kind of target is not lost to one for another. Labels are the       *)
(* exception: they have no identifiers and so succeed each other, whatever *)
(* they contribute. Only the newest of each labeller is sure to count,     *)
(* though labels are not replaceable (runtime.js:886).                     *)
AnswersCount ==
  [][\A l \in active :
       load[l].await = "verify" /\ load'[l].await # "verify" /\ ~Reload =>
         \A d \in Verified(load[l].batch) :
           \E e \in Verified(load[l].batch) : Succeeds(e, d) /\ Counted(e, held')]_vars

(* A load never makes the cache older, whatever of it relays answered and  *)
(* whenever the page was reloaded: it starts from the cache, and adds.     *)
(* Rosters, of which the last wins, are another matter.                    *)
CacheNeverRegresses ==
  [][\A d \in saved :
       LastWins(d) \/ \E s \in saved' : Slot(s) = Slot(d) /\ d.age <= s.age]_vars

(* The relays that a list names with fewer than three others before them.  *)
FirstNamed(list) ==
  {list.tags[i].url :
     i \in {j \in Writes(list) :
              Cardinality({list.tags[k].url : k \in {h \in Writes(list) : h < j}}) < 3}}

(* Where contacts write according to the effective relay list of those     *)
(* that configured relays store.                                           *)
Home(author) ==
  LET lists == SelectReplaceable(
                 {d \in RelayLists(world, author) : d.genuine /\ d.at \cap Configured # {}})
      named == UNION {FirstNamed(list) : list \in lists}
  IN  IF named = {} THEN Configured ELSE named

(* "The difference between a trust graph that works and one that silently  *)
(* reports low counts" (runtime.js:926-933): after a load of mute lists    *)
(* that no relay failed, each contact's list is as new as any that the     *)
(* first three relays it writes to store, or the configured ones if it     *)
(* names none, unless a host feeds the runtime older relay lists.          *)
TrustGraphFound ==
  found =>
    \A d \in Verified(world) :
      d.kind = "mutes" /\ d.author \in Trusted /\ d.at \cap Home(d.author) # {} =>
        \E h \in held : Slot(h) = Slot(d) /\ d.age <= h.age

(* Every load ends, whichever relays fail and however often.               *)
LoadsEnd ==
  \A l \in Load :
    (l \in active /\ load[l].await # "idle") ~> (l \in active /\ load[l].await = "idle")
=============================================================================
