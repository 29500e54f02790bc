--------------------------- MODULE LoadingProofs ----------------------------
(***************************************************************************)
(* What loads leave in the stores and in the cache, for any documents, any *)
(* relays and any number of loads at once.                                 *)
(*                                                                         *)
(* That the cache does not become older needs to know where the            *)
(* administrative load is: once it has read the cache, the stores have     *)
(* whatever the cache has, or newer (Covered), and so has what is written. *)
(*                                                                         *)
(* That an answer counts needs that of finitely many documents one is the  *)
(* newest: of finitely many things one is unbeaten (Unbeaten).             *)
(*                                                                         *)
(* That contacts are found needs, at every await of a load of mute lists   *)
(* that nothing failed so far, that what is not known yet is still being   *)
(* asked for (SightedBy): first whose relay list is the effective one,     *)
(* then whose mute list is in the stores. And it needs that nobody else    *)
(* brings relay lists (Asked, Fed).                                        *)
(***************************************************************************)
EXTENDS Loading, Integers, FiniteSetTheorems, FunctionTheorems,
        WellFoundedInduction, TLAPS

Covers(docs, old) ==
  \A d \in old : LastWins(d) \/ \E h \in docs : Slot(h) = Slot(d) /\ d.age <= h.age

Recorded(s) == s = At(s.await, s.todo, s.request, s.batch, s.complete)

Typed ==
  /\ TypeOK
  /\ load = [l \in active |-> load[l]] /\ \A l \in active : Recorded(load[l])

AdminOnly == \A l \in active : load[l].await \in {"read", "write"} => l = "admin"

(* What is about to be written.                                            *)
Prepared ==
  \A l \in active : load[l].await = "write" =>
    /\ load[l].batch \subseteq Administered(world)
    /\ OnePerSlot(load[l].batch)

Backed == cached \/ saved = {}

Covered ==
  \A l \in active :
    /\ l = "admin" /\ load[l].await \in {"list", "verify"} => Covers(held, saved)
    /\ load[l].await = "write" => Covers(load[l].batch, saved)

Genuine(docs) == \A d \in docs : d.genuine

PreparedGenuine ==
  \A l \in active : load[l].await = "write" => Genuine(load[l].batch)

IInv == Typed /\ AdminOnly /\ Prepared /\ Backed

-----------------------------------------------------------------------------
LEMMA WorldType ==
  ASSUME TypeOK
  PROVE  world \subseteq Document /\ active \subseteq Load
BY LoadingAssumption DEF TypeOK

(* Slots keep documents of which the last wins apart from the others, and  *)
(* administrative ones too.                                                *)
LEMMA SlotKinds ==
  ASSUME NEW d, NEW e, Slot(d) = Slot(e)
  PROVE  /\ LastWins(d) <=> LastWins(e)
         /\ d.kind \in Kind /\ e.kind \in Kind =>
              (d.kind \in Administrative <=> e.kind \in Administrative)
BY DEF Slot, IsList, LastWins, Kind, Administrative

(* Relay lists and mute lists have one coordinate each.                    *)
LEMMA Nameless ==
  ASSUME TypeOK, NEW d \in world, d.kind \in {"relays", "mutes"}
  PROVE  d.name = Unnamed /\ d.name \in Name
BY WorldAssumption DEF TypeOK, Name

LEMMA EffectiveSubset ==
  ASSUME NEW events
  PROVE  Effective(events) \subseteq events /\ Genuine(Effective(events))
BY DEF Effective, SelectReplaceable, Verified, Genuine

(* Ingesting keeps one document a slot, and no document gives way to an    *)
(* older one unless the last of its kind wins.                             *)
LEMMA IngestStep ==
  ASSUME NEW events, Ingest(events), OnePerSlot(held), \A d \in held : d.age \in Nat
  PROVE  /\ held' \subseteq held \cup events
         /\ OnePerSlot(held')
         /\ Covers(held', held)
<1>1. PICK new \in SUBSET Remaining(held, events) :
        OnePerSlot(new) /\ held' = Ingested(held, new)
  BY DEF Ingest
<1>2. new \subseteq events
  BY <1>1 DEF Remaining, Recognised
<1>3. held' \subseteq held \cup events
  BY <1>1, <1>2 DEF Ingested
<1>4. OnePerSlot(held')
  BY <1>1 DEF Ingested, OnePerSlot
<1>5. Covers(held', held)
  <2> SUFFICES ASSUME NEW d \in held, ~LastWins(d)
               PROVE  \E h \in held' : Slot(h) = Slot(d) /\ d.age <= h.age
    BY DEF Covers
  <2>1. CASE \A e \in new : Slot(e) # Slot(d)
    BY <1>1, <2>1 DEF Ingested
  <2>2. ASSUME NEW e \in new, Slot(e) = Slot(d)
        PROVE  \E h \in held' : Slot(h) = Slot(d) /\ d.age <= h.age
    <3>1. e \in held'
      BY <1>1 DEF Ingested
    <3>2. Supersedes(e, d)
      BY <1>1, <2>2 DEF Remaining
    <3>3. ~LastWins(e)
      BY <2>2, SlotKinds
    <3> QED
      BY <2>2, <3>1, <3>2, <3>3 DEF Supersedes
  <2> QED
    BY <2>1, <2>2
<1> QED
  BY <1>3, <1>4, <1>5

LEMMA CoversTransitive ==
  ASSUME NEW a, NEW b, NEW c, Covers(a, b), Covers(b, c),
         \A d \in a \cup b \cup c : d.age \in Nat
  PROVE  Covers(a, c)
<1> SUFFICES ASSUME NEW d \in c, ~LastWins(d)
             PROVE  \E h \in a : Slot(h) = Slot(d) /\ d.age <= h.age
  BY DEF Covers
<1>1. PICK h \in b : Slot(h) = Slot(d) /\ d.age <= h.age
  BY DEF Covers
<1>2. ~LastWins(h)
  BY <1>1, SlotKinds
<1>3. PICK g \in a : Slot(g) = Slot(h) /\ h.age <= g.age
  BY <1>2 DEF Covers
<1> QED
  BY <1>1, <1>3

LEMMA CoversItself ==
  ASSUME NEW docs, NEW old \in SUBSET docs, \A d \in docs : d.age \in Nat
  PROVE  Covers(docs, old)
BY DEF Covers

(* Of what is held only administrative documents can cover the saved ones. *)
LEMMA AdministeredCovers ==
  ASSUME NEW docs, NEW old, Covers(docs, old),
         \A d \in docs \cup old : d.kind \in Kind, \A d \in old : d.kind \in Administrative
  PROVE  Covers(Administered(docs), old)
BY SlotKinds DEF Covers, Administered

-----------------------------------------------------------------------------
(* Where a load may go when it asks.                                       *)
LEMMA AskingStep ==
  ASSUME NEW l, NEW todo, NEW complete, Asking(l, todo, complete)
  PROVE  \E s : /\ Becomes(l, s) /\ Recorded(s)
                /\ s.await = "list" /\ s.batch = {} /\ s.request \notin s.todo
<1>1. PICK request \in todo :
        Becomes(l, At("list", todo \ {request}, request, {}, complete))
  BY DEF Asking
<1> QED
  BY <1>1 DEF Recorded, At

LEMMA AskNextStep ==
  ASSUME NEW l, NEW complete, AskNext(l, complete)
  PROVE  /\ \E s : /\ Becomes(l, s) /\ Recorded(s)
                   /\ s.await \in {"list", "idle"} /\ s.batch = {}
                   /\ s.await = "list" => s.request \notin s.todo
         /\ found \in BOOLEAN => found' \in BOOLEAN
<1>1. CASE load[l].todo # {}
  <2>1. Asking(l, load[l].todo, complete) /\ UNCHANGED found
    BY <1>1 DEF AskNext
  <2> QED
    BY <2>1, AskingStep
<1>2. CASE load[l].todo = {} /\ Discovered(l) /\ Grouped(held') # {}
  <2>1. Asking(l, Grouped(held'), complete) /\ UNCHANGED found
    BY <1>2 DEF AskNext
  <2> QED
    BY <2>1, AskingStep
<1>3. CASE load[l].todo = {} /\ ~(Discovered(l) /\ Grouped(held') # {})
  <2>1. Becomes(l, Idle) /\ found' = (found \/ (l = "mutes" /\ complete))
    BY <1>3 DEF AskNext
  <2> QED
    BY <2>1 DEF Idle, Recorded, At
<1> QED
  BY <1>1, <1>2, <1>3

-----------------------------------------------------------------------------
LEMMA InitInv == Init => IInv /\ Covered
<1> SUFFICES ASSUME Init PROVE IInv /\ Covered
  OBVIOUS
<1>1. [world |-> world, loads |-> active] \in Pages
  BY LoadingAssumption DEF Init
<1>2. \A l \in active : load[l] = Idle
  BY DEF Init
<1>3. Cardinality(incoming) <= 1
  BY FS_EmptySet DEF Init
<1>4. TypeOK
  BY <1>1, <1>2, <1>3 DEF Init, TypeOK, OnePerSlot, Idle, At
<1> QED
  BY <1>2, <1>4 DEF Init, IInv, Typed, AdminOnly, Prepared, Backed, Covered, Covers, Idle,
                    Recorded, At

(* A load goes where no write is prepared, and all else is as it was.      *)
LoadTyped(l, s) ==
  /\ Recorded(s)
  /\ s.await \in {"idle", "read", "list", "verify", "write"}
  /\ s.batch \subseteq world
  /\ s.await # "idle" /\ l # "admin" => s.request \notin s.todo

LEMMA BecomesStep ==
  ASSUME Typed, NEW l \in active, NEW s, Becomes(l, s), active' = active
  PROVE  /\ load' = [k \in active' |-> load'[k]] /\ DOMAIN load' = active'
         /\ load'[l] = s /\ \A k \in active \ {l} : load'[k] = load[k]
BY DEF Typed, TypeOK, Becomes

(* Types after a step of one load, given those of what else it changed.    *)
LEMMA OneLoadTyped ==
  ASSUME IInv, NEW l \in active, NEW s, Becomes(l, s), LoadTyped(l, s),
         s.await \in {"read", "write"} => l = "admin",
         s.await = "write" => s.batch \subseteq Administered(world) /\ OnePerSlot(s.batch),
         UNCHANGED << world, active, incoming >>,
         held' \subseteq world, OnePerSlot(held'),
         saved' \subseteq Administered(world), OnePerSlot(saved'),
         {cached', stale', found'} \subseteq BOOLEAN,
         cached' \/ saved' = {}
  PROVE  IInv'
<1>1. /\ load' = [k \in active' |-> load'[k]] /\ DOMAIN load' = active'
      /\ load'[l] = s /\ \A k \in active \ {l} : load'[k] = load[k]
  BY BecomesStep DEF IInv
<1>2. \A k \in active' : LoadTyped(k, load'[k])
  BY <1>1 DEF IInv, Typed, TypeOK, LoadTyped
<1>3. TypeOK'
  <2>1. /\ [world |-> world, loads |-> active]' \in Pages
        /\ incoming' \subseteq world' /\ Cardinality(incoming') <= 1
    BY DEF IInv, Typed, TypeOK
  <2>2. saved' \subseteq Administered(world')
    BY DEF Administered
  <2>3. \A k \in active' :
          /\ load'[k].await \in {"idle", "read", "list", "verify", "write"}
          /\ load'[k].batch \subseteq world'
          /\ load'[k].await # "idle" /\ k # "admin" => load'[k].request \notin load'[k].todo
    BY <1>2 DEF LoadTyped
  <2> QED
    BY <1>1, <2>1, <2>2, <2>3 DEF TypeOK
<1>4. AdminOnly' /\ Prepared'
  BY <1>1 DEF IInv, AdminOnly, Prepared, Administered
<1> QED
  BY <1>1, <1>2, <1>3, <1>4 DEF IInv, Typed, Backed, LoadTyped

(* The administrative load may begin, read, ask or end without further ado *)
(* as long as it is covered when it asks.                                  *)
LEMMA OneLoadCovered ==
  ASSUME IInv, Covered, NEW l \in active, NEW s, Becomes(l, s),
         UNCHANGED << active, saved >>, l = "admin" \/ Covers(held', held),
         l = "admin" /\ s.await \in {"list", "verify"} => Covers(held', saved),
         s.await = "write" => Covers(s.batch, saved),
         \A d \in held \cup held' \cup saved : d.age \in Nat
  PROVE  Covered'
<1>1. load'[l] = s /\ \A k \in active \ {l} : load'[k] = load[k]
  BY BecomesStep DEF IInv
<1> SUFFICES ASSUME NEW k \in active
             PROVE  /\ k = "admin" /\ load'[k].await \in {"list", "verify"} =>
                         Covers(held', saved)
                    /\ load'[k].await = "write" => Covers(load'[k].batch, saved)
  BY DEF Covered, Covers
<1>2. CASE k = l
  BY <1>1, <1>2
<1>3. CASE k # l
  BY <1>1, <1>3, CoversTransitive DEF Covered, IInv, AdminOnly
<1> QED
  BY <1>2, <1>3

LEMMA Ages ==
  ASSUME TypeOK
  PROVE  /\ \A d \in held \cup saved : d.age \in Nat /\ d.kind \in Kind
         /\ \A d \in saved : d.kind \in Administrative
         /\ \A l \in active : \A d \in load[l].batch : d.age \in Nat /\ d.kind \in Kind
BY WorldType DEF TypeOK, Administered, Document

-----------------------------------------------------------------------------
(* The steps. *)

LEMMA BeginStep ==
  ASSUME IInv, Covered, NEW l \in active, Begin(l)
  PROVE  IInv' /\ Covered'
<1>1. UNCHANGED << world, active, held, saved, cached, stale, incoming, found >>
  BY DEF Begin
<1>2. PICK s : /\ Becomes(l, s) /\ LoadTyped(l, s)
               /\ s.await \in {"read", "list"}
               /\ s.await = "read" => l = "admin"
               /\ l = "admin" => s.await = "read"
  <2>1. CASE l = "admin"
    <3>1. Becomes(l, At("read", Requests(l), {}, {}, TRUE))
      BY <2>1 DEF Begin
    <3> QED
      BY <2>1, <3>1 DEF LoadTyped, Recorded, At
  <2>2. CASE l # "admin"
    <3>1. Asking(l, Requests(l), TRUE)
      BY <2>2 DEF Begin
    <3> QED
      BY <2>2, <3>1, AskingStep DEF LoadTyped
  <2> QED
    BY <2>1, <2>2
<1>3. Covers(held', held)
  BY <1>1, Ages, CoversItself DEF IInv, Typed
<1>4. IInv'
  BY <1>1, <1>2, OneLoadTyped DEF IInv, Typed, TypeOK, Backed
<1>5. Covered'
  BY <1>1, <1>2, <1>3, Ages, OneLoadCovered DEF IInv, Typed
<1> QED
  BY <1>4, <1>5

LEMMA ReadStep ==
  ASSUME IInv, Covered, NEW l \in active, Read(l)
  PROVE  IInv' /\ Covered'
<1>1. /\ l = "admin" /\ held' = Hydrated
      /\ UNCHANGED << world, active, saved, cached, stale, incoming, found >>
  BY DEF Read, IInv, AdminOnly
<1>2. PICK s : Becomes(l, s) /\ LoadTyped(l, s) /\ s.await = "list"
  BY AskingStep DEF Read, LoadTyped
<1>3. /\ held' \subseteq world /\ OnePerSlot(held')
      /\ saved \subseteq held'
  <2>1. CASE ~cached
    BY <1>1, <2>1 DEF Hydrated, IInv, Typed, TypeOK, Backed
  <2>2. CASE cached
    <3>1. held' = (held \ Administered(held)) \cup saved
      BY <1>1, <2>2 DEF Hydrated
    <3>2. \A d \in held \ Administered(held), e \in saved : Slot(d) # Slot(e)
      BY Ages, SlotKinds DEF IInv, Typed, Administered
    <3> QED
      BY <3>1, <3>2 DEF OnePerSlot, IInv, Typed, TypeOK, Administered
  <2> QED
    BY <2>1, <2>2
<1>4. IInv'
  BY <1>1, <1>2, <1>3, OneLoadTyped DEF IInv, Typed, TypeOK, Backed
<1>5. \A d \in held' : d.age \in Nat
  BY <1>1, <1>3, WorldType DEF IInv, Typed, Document
<1>6. Covers(held', saved)
  BY <1>3, <1>5, CoversItself
<1>7. Covered'
  BY <1>1, <1>2, <1>5, <1>6, Ages, OneLoadCovered DEF IInv, Typed
<1> QED
  BY <1>4, <1>7

LEMMA AnswerStep ==
  ASSUME IInv, Covered, NEW l \in active, Answer(l)
  PROVE  IInv' /\ Covered'
<1>1. /\ load[l].await = "list"
      /\ UNCHANGED << world, active, held, saved, cached, stale, incoming, found >>
  BY DEF Answer
<1>2. PICK batch \in SUBSET Matching(load[l].request) :
        Becomes(l, At("verify", load[l].todo, load[l].request, batch,
                      load[l].complete /\ batch = Matching(load[l].request)))
  BY DEF Answer
<1> DEFINE s == At("verify", load[l].todo, load[l].request, batch,
                   load[l].complete /\ batch = Matching(load[l].request))
<1>4. /\ s.await = "verify" /\ s.batch = batch
      /\ s.request = load[l].request /\ s.todo = load[l].todo /\ Recorded(s)
  BY DEF Recorded, At
<1>5. batch \subseteq world
  BY DEF Matching
<1>6. LoadTyped(l, s)
  BY <1>1, <1>4, <1>5 DEF LoadTyped, IInv, Typed, TypeOK
<1>7. Becomes(l, s)
  BY <1>2
<1> HIDE DEF s
<1>8. IInv'
  BY <1>1, <1>4, <1>6, <1>7, OneLoadTyped DEF IInv, Typed, TypeOK, Backed
<1>9. Covers(held', held)
  BY <1>1, Ages, CoversItself DEF IInv, Typed
<1>10. Covered'
  BY <1>1, <1>4, <1>7, <1>9, Ages, OneLoadCovered DEF IInv, Typed, Covered
<1> QED
  BY <1>8, <1>10

LEMMA RejectStep ==
  ASSUME IInv, Covered, NEW l \in active, Reject(l)
  PROVE  IInv' /\ Covered'
<1>1. /\ load[l].await = "list"
      /\ UNCHANGED << world, active, held, saved, cached, incoming >>
  BY DEF Reject
<1>2. /\ stale' \in BOOLEAN /\ found' \in BOOLEAN
      /\ \E s : /\ Becomes(l, s) /\ LoadTyped(l, s)
                /\ s.await \in {"idle", "list"}
                /\ l = "admin" => s.await = "idle"
  <2>1. CASE l = "admin"
    BY <2>1 DEF Reject, Idle, At, LoadTyped, Recorded, IInv, Typed, TypeOK
  <2>2. CASE l # "admin"
    <3>1. AskNext(l, FALSE) /\ UNCHANGED stale
      BY <2>2 DEF Reject
    <3> QED
      BY <2>2, <3>1, AskNextStep DEF LoadTyped, IInv, Typed, TypeOK
  <2> QED
    BY <2>1, <2>2
<1>3. PICK s : /\ Becomes(l, s) /\ LoadTyped(l, s)
               /\ s.await \in {"idle", "list"}
               /\ l = "admin" => s.await = "idle"
  BY <1>2
<1>4. IInv'
  BY <1>1, <1>2, <1>3, OneLoadTyped DEF IInv, Typed, TypeOK, Backed
<1>5. Covers(held', held)
  BY <1>1, Ages, CoversItself DEF IInv, Typed
<1>6. Covered'
  BY <1>1, <1>3, <1>5, Ages, OneLoadCovered DEF IInv, Typed
<1> QED
  BY <1>4, <1>6

(* Ingesting documents of the world keeps the stores' types and covers     *)
(* what they held.                                                         *)
LEMMA IngestTyped ==
  ASSUME TypeOK, NEW docs \in SUBSET world, Ingest(Effective(docs))
  PROVE  /\ held' \subseteq world /\ OnePerSlot(held') /\ Covers(held', held)
         /\ \A d \in held' : d.age \in Nat /\ d.kind \in Kind
<1>1. /\ held' \subseteq held \cup Effective(docs)
      /\ OnePerSlot(held') /\ Covers(held', held)
  BY Ages, IngestStep DEF TypeOK
<1>2. held' \subseteq world
  BY <1>1, EffectiveSubset DEF TypeOK
<1> QED
  BY <1>1, <1>2, WorldType DEF Document

LEMMA VerifyStep ==
  ASSUME IInv, Covered, NEW l \in active, Verify(l)
  PROVE  IInv' /\ Covered'
<1>1. /\ load[l].await = "verify" /\ Ingest(Effective(load[l].batch))
      /\ UNCHANGED << world, active, saved, cached, incoming >>
  BY DEF Verify
<1>2. load[l].batch \in SUBSET world
  BY DEF IInv, Typed, TypeOK
<1>3. /\ held' \subseteq world /\ OnePerSlot(held') /\ Covers(held', held)
      /\ \A d \in held' : d.age \in Nat /\ d.kind \in Kind
  BY <1>1, <1>2, IngestTyped DEF IInv, Typed
<1>4. CASE l = "admin"
  <2> DEFINE s == At("write", {}, {}, Administered(held'), TRUE)
  <2>1. Becomes(l, s) /\ stale' = FALSE /\ found' = found
    BY <1>4 DEF Verify
  <2>2. s.await = "write" /\ s.batch = Administered(held') /\ LoadTyped(l, s)
    BY <1>3, <1>4 DEF LoadTyped, Recorded, At, Administered
  <2>3. s.batch \subseteq Administered(world) /\ OnePerSlot(s.batch)
    BY <1>3, <2>2 DEF Administered, OnePerSlot
  <2> HIDE DEF s
  <2>4. IInv'
    BY <1>1, <1>3, <1>4, <2>1, <2>2, <2>3, OneLoadTyped DEF IInv, Typed, TypeOK, Backed
  <2>5. Covers(held', saved)
    BY <1>1, <1>3, <1>4, Ages, CoversTransitive DEF Covered, IInv, Typed
  <2>6. Covers(s.batch, saved)
    BY <1>3, <2>2, <2>5, Ages, AdministeredCovers DEF IInv, Typed
  <2>7. Covered'
    BY <1>1, <1>3, <2>1, <2>5, <2>6, Ages, OneLoadCovered DEF IInv, Typed
  <2> QED
    BY <2>4, <2>7
<1>5. CASE l # "admin"
  <2>1. AskNext(l, load[l].complete) /\ UNCHANGED stale
    BY <1>5 DEF Verify
  <2>2. PICK s : /\ Becomes(l, s) /\ LoadTyped(l, s) /\ s.await \in {"idle", "list"}
                 /\ found' \in BOOLEAN
    BY <1>5, <2>1, AskNextStep DEF LoadTyped, IInv, Typed, TypeOK
  <2>3. IInv'
    BY <1>1, <1>3, <2>1, <2>2, OneLoadTyped DEF IInv, Typed, TypeOK, Backed
  <2>4. Covered'
    BY <1>1, <1>3, <1>5, <2>2, Ages, OneLoadCovered DEF IInv, Typed
  <2> QED
    BY <2>3, <2>4
<1> QED
  BY <1>4, <1>5

LEMMA WriteStep ==
  ASSUME IInv, Covered, NEW l \in active, Write(l)
  PROVE  IInv' /\ Covered'
<1>1. /\ l = "admin" /\ load[l].await = "write"
      /\ saved' = load[l].batch /\ cached' = TRUE /\ Becomes(l, Idle)
      /\ UNCHANGED << world, active, held, stale, incoming, found >>
  BY DEF Write, IInv, AdminOnly
<1>2. saved' \subseteq Administered(world) /\ OnePerSlot(saved')
  BY <1>1 DEF IInv, Prepared
<1>3. LoadTyped(l, Idle) /\ Idle.await = "idle"
  BY DEF LoadTyped, Recorded, Idle, At
<1>4. IInv'
  BY <1>1, <1>2, <1>3, OneLoadTyped DEF IInv, Typed, TypeOK, Backed
<1>5. load'[l] = Idle
  BY <1>1, BecomesStep DEF IInv
<1>6. Covered'
  BY <1>1, <1>3, <1>4, <1>5 DEF Covered, IInv, AdminOnly
<1> QED
  BY <1>4, <1>6

LEMMA FeedStep ==
  ASSUME IInv, Covered, Feed \/ IngestFed
  PROVE  IInv' /\ Covered'
<1>1. UNCHANGED << world, active, saved, cached, stale, load, found >>
  BY DEF Feed, IngestFed
<1>2. /\ held' \subseteq world /\ OnePerSlot(held') /\ Covers(held', held)
      /\ \A d \in held' : d.age \in Nat
  <2>1. CASE Feed
    BY <2>1, Ages, CoversItself DEF Feed, IInv, Typed, TypeOK
  <2>2. CASE IngestFed
    BY <2>2, IngestTyped DEF IngestFed, IInv, Typed, TypeOK
  <2> QED
    BY <2>1, <2>2
<1>3. incoming' \subseteq world /\ Cardinality(incoming') <= 1
  BY FS_EmptySet, FS_Singleton DEF Feed, IngestFed
<1>4. IInv'
  BY <1>1, <1>2, <1>3 DEF IInv, Typed, TypeOK, AdminOnly, Prepared, Backed, Administered
<1>5. Covered'
  BY <1>1, <1>2, Ages, CoversTransitive DEF Covered, IInv, Typed
<1> QED
  BY <1>4, <1>5

LEMMA ReloadStep ==
  ASSUME IInv, Reload
  PROVE  IInv' /\ Covered'
<1>1. /\ load' = [l \in active' |-> Idle] /\ held' = {} /\ incoming' = {}
      /\ stale' = FALSE /\ found' = FALSE /\ UNCHANGED << world, active, saved, cached >>
  BY DEF Reload
<1>2. \A l \in active' : load'[l] = Idle
  BY <1>1
<1>3. Cardinality(incoming') <= 1
  BY <1>1, FS_EmptySet
<1>4. TypeOK'
  BY <1>1, <1>2, <1>3 DEF IInv, Typed, TypeOK, OnePerSlot, Idle, At, Administered
<1> QED
  BY <1>1, <1>2, <1>4
  DEF IInv, Typed, AdminOnly, Prepared, Backed, Covered, Covers, Idle, Recorded, At

LEMMA NextInv == IInv /\ Covered /\ [Next]_vars => IInv' /\ Covered'
<1> SUFFICES ASSUME IInv, Covered, [Next]_vars PROVE IInv' /\ Covered'
  OBVIOUS
<1>1. CASE UNCHANGED vars
  BY <1>1 DEF vars, IInv, Typed, TypeOK, AdminOnly, Prepared, Backed, Covered, Covers,
              Administered
<1> QED
  BY <1>1, BeginStep, ReadStep, AnswerStep, RejectStep, VerifyStep, WriteStep, FeedStep,
     ReloadStep DEF Next, Step

LEMMA Invariant == Spec => [](IInv /\ Covered)
BY InitInv, NextInv, PTL DEF Spec

(* The types of a store and of the cache, in particular one document per   *)
(* slot, whatever order documents come in.                                 *)
THEOREM TypeCorrect == Spec => []TypeOK
<1>1. IInv /\ Covered => TypeOK
  BY DEF IInv, Typed
<1> QED
  BY <1>1, Invariant, PTL

(* A load never makes the cache older than it was, for any documents, any  *)
(* answers, any loads beside it and whenever the page is reloaded.         *)
THEOREM CacheKept == Spec => CacheNeverRegresses
<1>1. IInv /\ Covered /\ [Next]_vars =>
        [\A d \in saved :
           LastWins(d) \/ \E s \in saved' : Slot(s) = Slot(d) /\ d.age <= s.age]_vars
  <2> SUFFICES ASSUME IInv, Covered, Next
               PROVE  Covers(saved', saved)
    BY DEF Covers
  <2>1. ASSUME saved' = saved PROVE Covers(saved', saved)
    BY <2>1, Ages, CoversItself DEF IInv, Typed
  <2>2. ASSUME NEW l \in active, Write(l) PROVE Covers(saved', saved)
    BY <2>2 DEF Write, Covered
  <2> QED
    BY <2>1, <2>2
    DEF Next, Step, Begin, Read, Answer, Reject, Verify, Feed, IngestFed, Reload
<1> QED
  BY <1>1, Invariant, PTL DEF Spec, CacheNeverRegresses

-----------------------------------------------------------------------------
(* Forgeries. *)

LEMMA IngestGenuine ==
  ASSUME NEW docs, Ingest(Effective(docs)), Genuine(held)
  PROVE  Genuine(held')
<1>1. held' \subseteq held \cup Effective(docs)
  BY DEF Ingest, Ingested, Remaining, Recognised
<1> QED
  BY <1>1, EffectiveSubset DEF Genuine

LEMMA OneLoadGenuine ==
  ASSUME Typed, PreparedGenuine, NEW l \in active, NEW s, Becomes(l, s), active' = active,
         s.await = "write" => Genuine(s.batch)
  PROVE  PreparedGenuine'
BY BecomesStep DEF PreparedGenuine, Genuine

LEMMA NextGenuine ==
  IInv /\ OnlyGenuine /\ PreparedGenuine /\ [Next]_vars => OnlyGenuine' /\ PreparedGenuine'
<1> SUFFICES ASSUME IInv, Genuine(held), Genuine(saved), PreparedGenuine, [Next]_vars
             PROVE  Genuine(held') /\ Genuine(saved') /\ PreparedGenuine'
  BY DEF OnlyGenuine, Genuine
<1> DEFINE Goal == Genuine(held') /\ Genuine(saved') /\ PreparedGenuine'
<1>1. ASSUME NEW l \in active, Begin(l) PROVE Goal
  <2>1. held' = held /\ saved' = saved /\ active' = active
    BY <1>1 DEF Begin
  <2>2. \E s : Becomes(l, s) /\ s.await # "write"
    <3>1. CASE l = "admin"
      <4>1. Becomes(l, At("read", Requests(l), {}, {}, TRUE))
        BY <1>1, <3>1 DEF Begin
      <4> QED
        BY <4>1 DEF At
    <3>2. CASE l # "admin"
      BY <1>1, <3>2, AskingStep DEF Begin
    <3> QED
      BY <3>1, <3>2
  <2> QED
    BY <2>1, <2>2, OneLoadGenuine DEF IInv
<1>2. ASSUME NEW l \in active, Read(l) PROVE Goal
  <2>1. held' = Hydrated /\ saved' = saved /\ active' = active
    BY <1>2 DEF Read
  <2>2. Genuine(held')
    BY <2>1 DEF Hydrated, Genuine
  <2>3. \E s : Becomes(l, s) /\ s.await = "list"
    BY <1>2, AskingStep DEF Read
  <2> QED
    BY <2>1, <2>2, <2>3, OneLoadGenuine DEF IInv
<1>3. ASSUME NEW l \in active, Answer(l) PROVE Goal
  <2>1. held' = held /\ saved' = saved /\ active' = active
    BY <1>3 DEF Answer
  <2>2. \E s : Becomes(l, s) /\ s.await = "verify"
    BY <1>3 DEF Answer, At
  <2> QED
    BY <2>1, <2>2, OneLoadGenuine DEF IInv
<1>4. ASSUME NEW l \in active, Reject(l) PROVE Goal
  <2>1. held' = held /\ saved' = saved /\ active' = active
    BY <1>4 DEF Reject
  <2>2. \E s : Becomes(l, s) /\ s.await # "write"
    <3>1. CASE l = "admin"
      BY <1>4, <3>1 DEF Reject, Idle, At
    <3>2. CASE l # "admin"
      BY <1>4, <3>2, AskNextStep DEF Reject
    <3> QED
      BY <3>1, <3>2
  <2> QED
    BY <2>1, <2>2, OneLoadGenuine DEF IInv
<1>5. ASSUME NEW l \in active, Verify(l) PROVE Goal
  <2>1. Ingest(Effective(load[l].batch)) /\ saved' = saved /\ active' = active
    BY <1>5 DEF Verify
  <2>2. Genuine(held')
    BY <2>1, IngestGenuine
  <2>3. \E s : Becomes(l, s) /\ (s.await = "write" => Genuine(s.batch))
    <3>1. CASE l = "admin"
      BY <1>5, <2>2, <3>1 DEF Verify, At, Administered, Genuine
    <3>2. CASE l # "admin"
      BY <1>5, <3>2, AskNextStep DEF Verify
    <3> QED
      BY <3>1, <3>2
  <2> QED
    BY <2>1, <2>2, <2>3, OneLoadGenuine DEF IInv
<1>6. ASSUME NEW l \in active, Write(l) PROVE Goal
  <2>1. /\ held' = held /\ saved' = load[l].batch /\ active' = active
        /\ load[l].await = "write" /\ Becomes(l, Idle)
    BY <1>6 DEF Write
  <2>2. Idle.await # "write"
    BY DEF Idle, At
  <2> QED
    BY <2>1, <2>2, OneLoadGenuine DEF IInv, PreparedGenuine
<1>7. CASE Feed
  BY <1>7 DEF Feed, PreparedGenuine, Genuine
<1>8. CASE IngestFed
  BY <1>8, IngestGenuine DEF IngestFed, PreparedGenuine, Genuine
<1>9. CASE Reload
  BY <1>9 DEF Reload, PreparedGenuine, Genuine, Idle, At
<1>10. CASE UNCHANGED vars
  BY <1>10 DEF vars, PreparedGenuine, Genuine
<1> QED
  BY <1>1, <1>2, <1>3, <1>4, <1>5, <1>6, <1>7, <1>8, <1>9, <1>10 DEF Next, Step

(* No forged document gets into a store or the cache, by whichever way.    *)
THEOREM NothingForged == Spec => []OnlyGenuine
<1>1. Init => OnlyGenuine /\ PreparedGenuine
  BY DEF Init, OnlyGenuine, PreparedGenuine, Idle, At
<1> QED
  BY <1>1, Invariant, NextGenuine, PTL DEF Spec

-----------------------------------------------------------------------------
(* Of finitely many things none is beaten by another for ever: those that  *)
(* are beaten by the fewest others have a least set of them.               *)
LEMMA Smallest ==
  ASSUME NEW S, NEW F \in SUBSET SUBSET S, F # {}, \A U \in F : IsFiniteSet(U)
  PROVE  \E U \in F : \A V \in F : V \subseteq U => V = U
<1>1. F \subseteq FiniteSubsetsOf(S)
  BY DEF FiniteSubsetsOf
<1>2. PICK U \in F : \A V \in F : << V, U >> \notin StrictSubsetOrdering(S)
  BY <1>1, FS_StrictSubsetOrderingWellFounded, WFMin
<1> QED
  BY <1>2 DEF StrictSubsetOrdering

LEMMA Unbeaten ==
  ASSUME NEW D, IsFiniteSet(D), D # {}, NEW R,
         \A x \in D : << x, x >> \notin R,
         \A x, y, z \in D : << x, y >> \in R /\ << y, z >> \in R => << x, z >> \in R
  PROVE  \E m \in D : \A x \in D : << x, m >> \notin R
<1> DEFINE Above(m) == {x \in D : << x, m >> \in R}
           F == {Above(m) : m \in D}
<1>1. F \in SUBSET SUBSET D /\ F # {}
  <2>1. \A m \in D : Above(m) \in SUBSET D /\ Above(m) \in F
    OBVIOUS
  <2> QED
    BY <2>1
<1>2. \A U \in F : IsFiniteSet(U)
  <2> SUFFICES ASSUME NEW U \in F PROVE IsFiniteSet(U)
    OBVIOUS
  <2>1. U \subseteq D
    OBVIOUS
  <2> QED
    BY <2>1, FS_Subset
<1>3. \E U \in F : \A V \in F : V \subseteq U => V = U
  <2> HIDE DEF F
  <2> QED
    BY <1>1, <1>2, Smallest
<1>4. PICK m \in D : \A V \in F : V \subseteq Above(m) => V = Above(m)
  BY <1>3
<1>5. ASSUME NEW x \in D, << x, m >> \in R PROVE FALSE
  <2>1. Above(x) \subseteq Above(m) /\ x \in Above(m) /\ x \notin Above(x)
    BY <1>5
  <2>2. Above(x) \in F
    OBVIOUS
  <2> QED
    BY <1>4, <2>1, <2>2
<1> QED
  BY <1>5

LEMMA Newest ==
  ASSUME NEW docs, IsFiniteSet(docs), docs # {}, \A d \in docs : d.age \in Nat
  PROVE  \E m \in docs : \A d \in docs : d.age <= m.age
<1> DEFINE R == {p \in docs \X docs : p[1].age > p[2].age}
<1>1. \A d, e \in docs : << d, e >> \in R <=> d.age > e.age
  OBVIOUS
<1>2. /\ \A x \in docs : << x, x >> \notin R
      /\ \A x, y, z \in docs : << x, y >> \in R /\ << y, z >> \in R => << x, z >> \in R
  BY <1>1
<1> HIDE DEF R
<1>3. PICK m \in docs : \A x \in docs : << x, m >> \notin R
  BY <1>2, Unbeaten
<1>4. ASSUME NEW d \in docs PROVE d.age <= m.age
  <2>1. ~(d.age > m.age) /\ d.age \in Nat /\ m.age \in Nat
    BY <1>1, <1>3
  <2> QED
    BY <2>1
<1> QED
  BY <1>4

-----------------------------------------------------------------------------
(* Selection leaves one document a coordinate, none older than those it    *)
(* drops, if ids tell documents apart.                                     *)
Distinct(docs) ==
  /\ IsFiniteSet(docs)
  /\ \A d \in docs : d.age \in Nat /\ d.id \in Nat
  /\ \A d, e \in docs : d.id = e.id => d = e

LEMMA SelectedOnce ==
  ASSUME NEW events, Distinct(events), NEW d \in SelectReplaceable(events),
         NEW e \in SelectReplaceable(events), CoordinateOf(d) = CoordinateOf(e)
  PROVE  d = e
BY DEF SelectReplaceable, Distinct

LEMMA SelectedNewest ==
  ASSUME NEW events, Distinct(events), NEW d \in events
  PROVE  \E e \in SelectReplaceable(events) :
           CoordinateOf(e) = CoordinateOf(d) /\ d.age <= e.age
<1> DEFINE D == {e \in events : CoordinateOf(e) = CoordinateOf(d)}
           R == {p \in D \X D : \/ p[1].age > p[2].age
                                \/ p[1].age = p[2].age /\ p[1].id < p[2].id}
<1>1. IsFiniteSet(D) /\ d \in D
  BY FS_Subset DEF Distinct
<1>2. \A x, y \in D : /\ x \in events /\ x.age \in Nat /\ x.id \in Nat
                      /\ << x, y >> \in R <=> \/ x.age > y.age
                                              \/ x.age = y.age /\ x.id < y.id
  BY DEF Distinct
<1>3. \A e \in events : CoordinateOf(e) = CoordinateOf(d) <=> e \in D
  OBVIOUS
<1> HIDE DEF D, R
<1>4. /\ \A x \in D : << x, x >> \notin R
      /\ \A x, y, z \in D : << x, y >> \in R /\ << y, z >> \in R => << x, z >> \in R
  <2>1. \A x \in D : << x, x >> \notin R
    BY <1>2
  <2>2. ASSUME NEW x \in D, NEW y \in D, NEW z \in D, << x, y >> \in R, << y, z >> \in R
        PROVE  << x, z >> \in R
    <3>1. /\ x.age > y.age \/ (x.age = y.age /\ x.id < y.id)
          /\ y.age > z.age \/ (y.age = z.age /\ y.id < z.id)
          /\ {x.age, y.age, z.age} \subseteq Nat /\ {x.id, y.id, z.id} \subseteq Nat
      BY <1>2, <2>2
    <3>2. x.age > z.age \/ (x.age = z.age /\ x.id < z.id)
      BY <3>1
    <3> QED
      BY <1>2, <3>2
  <2> QED
    BY <2>1, <2>2
<1>5. PICK m \in D : \A x \in D : << x, m >> \notin R
  BY <1>1, <1>4, Unbeaten
<1>6. m \in events /\ CoordinateOf(m) = CoordinateOf(d) /\ d.age <= m.age
  <2>1. /\ ~(d.age > m.age \/ (d.age = m.age /\ d.id < m.id))
        /\ d.age \in Nat /\ m.age \in Nat
    BY <1>1, <1>2, <1>5
  <2>2. d.age <= m.age
    BY <2>1
  <2> QED
    BY <1>2, <1>3, <2>2
<1>7. ASSUME NEW e \in events \ {m}, CoordinateOf(e) = CoordinateOf(m)
      PROVE  m.age > e.age \/ (m.age = e.age /\ m.id < e.id)
  <2>1. e \in D /\ m.id # e.id
    BY <1>3, <1>6, <1>7 DEF Distinct
  <2>2. /\ ~(e.age > m.age \/ (e.age = m.age /\ e.id < m.id))
        /\ {e.age, m.age} \subseteq Nat /\ {e.id, m.id} \subseteq Nat
    BY <1>2, <1>5, <2>1
  <2> QED
    BY <2>1, <2>2
<1>8. m \in SelectReplaceable(events)
  BY <1>6, <1>7 DEF SelectReplaceable
<1> QED
  BY <1>6, <1>8

(* What is ingested counts: its slot has it, or one that is not older.     *)
LEMMA IngestCounts ==
  ASSUME NEW events, Ingest(events), IsFiniteSet(held), IsFiniteSet(events),
         \A d \in held \cup events : d.age \in Nat,
         NEW e \in events, ~LastWins(e), IsList(e) => e.list # "none"
  PROVE  \E h \in held' : Slot(h) = Slot(e) /\ e.age <= h.age
<1>1. PICK new \in SUBSET Remaining(held, events) :
        /\ \A d \in Remaining(held, events) : \E n \in new : Slot(n) = Slot(d)
        /\ held' = Ingested(held, new)
  BY DEF Ingest
<1>2. e \in Recognised(events)
  BY DEF Recognised, LastWins
<1>3. ASSUME NEW n \in new, Slot(n) = Slot(e)
      PROVE  \E h \in held' : Slot(h) = Slot(e) /\ e.age <= h.age
  <2>1. n \in held'
    BY <1>1 DEF Ingested
  <2>2. Supersedes(n, e)
    BY <1>1, <1>2, <1>3 DEF Remaining
  <2> QED
    BY <1>3, <2>1, <2>2, SlotKinds DEF Supersedes
<1>4. CASE \A n \in new : Slot(n) # Slot(e)
  <2> DEFINE D == {x \in held \cup Recognised(events) : Slot(x) = Slot(e)}
  <2>1. /\ IsFiniteSet(D) /\ e \in D /\ \A x \in D : x.age \in Nat
    <3>1. IsFiniteSet(held \cup events) /\ D \subseteq held \cup events
      BY FS_Union DEF Recognised
    <3>2. IsFiniteSet(D)
      BY <3>1, FS_Subset
    <3> QED
      BY <1>2, <3>1, <3>2
  <2>2. PICK m \in D : \A x \in D : x.age <= m.age
    <3> HIDE DEF D
    <3> QED
      BY <2>1, Newest
  <2>3. CASE m \in Recognised(events)
    <3>1. m \in Remaining(held, events)
      BY <2>2, <2>3 DEF Remaining, Supersedes
    <3> QED
      BY <1>1, <1>4, <3>1
  <2>4. CASE m \in held
    <3>1. m \in held'
      BY <1>1, <1>4, <2>4 DEF Ingested
    <3> QED
      BY <2>1, <2>2, <3>1
  <2> QED
    BY <2>3, <2>4
<1> QED
  BY <1>3, <1>4

LEMMA WorldDistinct ==
  ASSUME TypeOK
  PROVE  IsFiniteSet(world) /\ \A docs \in SUBSET world : Distinct(Verified(docs))
<1>1. /\ IsFiniteSet(world)
      /\ \A d, e \in world : d.genuine /\ e.genuine /\ d.id = e.id => d = e
  BY WorldAssumption DEF TypeOK
<1>2. \A docs \in SUBSET world : IsFiniteSet(Verified(docs))
  <2> SUFFICES ASSUME NEW docs \in SUBSET world PROVE IsFiniteSet(Verified(docs))
    OBVIOUS
  <2>1. Verified(docs) \subseteq world
    BY DEF Verified
  <2> QED
    BY <1>1, <2>1, FS_Subset
<1> QED
  BY <1>1, <1>2, WorldType DEF Distinct, Verified, Document

(* Ingesting an answer: of what genuine it has, the newest of its address  *)
(* counts.                                                                 *)
LEMMA AnswerCounts ==
  ASSUME TypeOK, NEW docs \in SUBSET world, Ingest(Effective(docs)),
         NEW d \in Verified(docs)
  PROVE  \E e \in Verified(docs) : Succeeds(e, d) /\ Counted(e, held')
<1>1. Distinct(Verified(docs))
  BY WorldDistinct
<1>2. PICK e \in SelectReplaceable(Verified(docs)) :
        CoordinateOf(e) = CoordinateOf(d) /\ d.age <= e.age
  BY <1>1, SelectedNewest
<1>3. e \in Effective(docs) /\ e \in Verified(docs) /\ Succeeds(e, d)
  BY <1>2 DEF Effective, SelectReplaceable, CoordinateOf, Succeeds
<1>4. /\ held \subseteq world /\ Effective(docs) \subseteq world
      /\ \A x \in world : x.age \in Nat
  BY EffectiveSubset, WorldType DEF TypeOK, Document
<1>5. IsFiniteSet(held) /\ IsFiniteSet(Effective(docs))
  BY <1>4, WorldDistinct, FS_Subset
<1>6. ASSUME ~LastWins(e), IsList(e) => e.list # "none"
      PROVE  \E h \in held' : Slot(h) = Slot(e) /\ e.age <= h.age
  BY <1>3, <1>4, <1>5, <1>6, IngestCounts
<1> QED
  BY <1>3, <1>6 DEF Counted

(* No genuine document of an answer is lost but to a genuine newer one of  *)
(* its address (as which all labels of a labeller count), or of the slot   *)
(* that it contributes to: not to a forged one, not to a list for another  *)
(* kind of target, nor to the order in which they are stored. For any      *)
(* documents, identifiers, kinds of lists, relays and loads at once.       *)
THEOREM NoneDropped == Spec => AnswersCount
<1> DEFINE Kept(l) ==
             \A d \in Verified(load[l].batch) :
               \E e \in Verified(load[l].batch) : Succeeds(e, d) /\ Counted(e, held')
           Ends(l) == load[l].await = "verify" /\ load'[l].await # "verify"
<1>1. IInv /\ [Next]_vars =>
        [\A l \in active : Ends(l) /\ ~Reload => Kept(l)]_vars
  <2> SUFFICES ASSUME IInv, Next, ~Reload, NEW l \in active, Ends(l) PROVE Kept(l)
    OBVIOUS
  <2>1. ASSUME NEW k \in active, Begin(k) \/ Step(k) PROVE k = l
    <3>1. \E s : Becomes(k, s)
      BY <2>1, AskingStep, AskNextStep DEF Begin, Step, Read, Answer, Reject, Verify, Write
    <3>2. active' = active
      BY <2>1 DEF Begin, Step, Read, Answer, Reject, Verify, Write
    <3> QED
      BY <3>1, <3>2, BecomesStep DEF IInv
  <2>2. ~(Feed \/ IngestFed)
    BY DEF Feed, IngestFed
  <2>3. Begin(l) \/ Step(l)
    BY <2>1, <2>2 DEF Next
  <2>4. Ingest(Effective(load[l].batch))
    BY <2>3 DEF Begin, Step, Read, Answer, Reject, Verify, Write
  <2> QED
    BY <2>4, AnswerCounts DEF IInv, Typed, TypeOK
<1> QED
  BY <1>1, Invariant, PTL DEF Spec, AnswersCount

-----------------------------------------------------------------------------
(* Contacts are found. What a load of mute lists has asked and not yet     *)
(* verified, and what the stores know besides, make up all there is.       *)
Offered(a) == {d \in RelayLists(world, a) : d.genuine /\ d.at \cap Configured # {}}

(* Where a contact writes is known: the stores have its effective list, or *)
(* there is none.                                                          *)
Known(a) == RelayLists(held, a) = SelectReplaceable(Offered(a))

Sought ==
  {d \in Verified(world) :
     d.kind = "mutes" /\ d.author \in Trusted /\ d.at \cap Home(d.author) # {}}

Counts(d) == \E h \in held : Slot(h) = Slot(d) /\ d.age <= h.age

Open(s) == s.todo \cup {s.request}

Asks(s) == s.await \in {"list", "verify"}

Discovering(q) == q.kinds = {"relays"} /\ q.names = Name /\ q.relays = Configured

Fetching(q) == q.kinds = {"mutes"} /\ q.names = Name

(* Only loads of mute lists ask for relay lists, and answers are to what   *)
(* was asked.                                                              *)
AskedBy(l, s) ==
  /\ s.await = "read" => \A q \in s.todo : q.kinds \subseteq Administrative
  /\ Asks(s) /\ l # "mutes" => \A q \in Open(s) : q.kinds \subseteq Administrative
  /\ Asks(s) /\ l = "mutes" => \/ \A q \in Open(s) : Discovering(q)
                               \/ \A q \in Open(s) : Fetching(q)
  /\ s.await = "verify" => /\ s.batch \subseteq Matching(s.request)
                           /\ s.complete => s.batch = Matching(s.request)

Asked == \A l \in active : AskedBy(l, load[l])

Fed == \A d \in incoming : d.kind # "relays"

ListsOffered == \A d \in held : d.kind = "relays" => d \in Offered(d.author)

(* Whatever a load that nothing failed is still without it will ask for.   *)
SightedBy(s) ==
  Asks(s) /\ s.complete =>
    /\ s.request.kinds = {"relays"} =>
         \A a \in Trusted : Known(a) \/ \E q \in Open(s) : a \in q.authors
    /\ s.request.kinds = {"mutes"} =>
         \A d \in Sought : Counts(d) \/ \E q \in Open(s) : d \in Matching(q)

Sighted == "mutes" \in active => SightedBy(load["mutes"])

FInv == Asked /\ Fed /\ ListsOffered /\ Sighted /\ TrustGraphFound

LEMMA Least ==
  ASSUME NEW N \in SUBSET Nat, N # {}, IsFiniteSet(N)
  PROVE  \E n \in N : \A m \in N : n <= m
<1> DEFINE R == {p \in N \X N : p[1] < p[2]}
<1>1. \A n, m \in N : << n, m >> \in R <=> n < m
  OBVIOUS
<1>2. /\ \A x \in N : << x, x >> \notin R
      /\ \A x, y, z \in N : << x, y >> \in R /\ << y, z >> \in R => << x, z >> \in R
  BY <1>1
<1> HIDE DEF R
<1>3. PICK n \in N : \A m \in N : << m, n >> \notin R
  BY <1>2, Unbeaten
<1>4. ASSUME NEW m \in N PROVE n <= m
  <2>1. ~(m < n) /\ m \in Nat /\ n \in Nat
    BY <1>1, <1>3
  <2> QED
    BY <2>1
<1> QED
  BY <1>4

(* A relay that fewer than three others come before is among the first     *)
(* three, and a list that names any relay has one that no other precedes.  *)
LEMMA NamedFirst ==
  ASSUME NEW list \in Document
  PROVE  /\ FirstNamed(list) \subseteq FirstThree(list)
         /\ FirstNamed(list) = {} => FirstThree(list) = {}
<1> DEFINE Before(j) == {list.tags[k].url : k \in {h \in Writes(list) : h < j}}
<1>1. /\ list.tags \in Seq(RelayTag) /\ Len(list.tags) \in Nat
      /\ DOMAIN list.tags = 1..Len(list.tags) /\ Writes(list) \subseteq DOMAIN list.tags
  BY DEF Document, Writes
<1>2. \A j \in Writes(list) : j \in Nat
  BY <1>1
<1>3. \A j : IsFiniteSet(Before(j)) /\ Cardinality(Before(j)) \in Nat
  <2> TAKE j
  <2> DEFINE S == {h \in Writes(list) : h < j}
             f == [k \in S |-> list.tags[k].url]
  <2>1. IsFiniteSet(1..Len(list.tags))
    BY <1>1, FS_Interval
  <2>2. IsFiniteSet(S)
    BY <1>1, <2>1, FS_Subset
  <2>3. f \in Surjection(S, Before(j))
    BY DEF Surjection
  <2>4. IsFiniteSet(Before(j))
    <3> HIDE DEF S, f, Before
    <3> QED
      BY <2>2, <2>3, FS_Surjection
  <2> QED
    BY <2>4, FS_CardinalityType
<1>4. ASSUME NEW i \in Writes(list), Cardinality(Before(i)) < 3
      PROVE  list.tags[i].url \in FirstThree(list)
  <2>1. Urls(list, i) = Before(i) \cup {list.tags[i].url}
    BY <1>2 DEF Urls
  <2>2. Cardinality(Urls(list, i)) <= 3
    <3>1. /\ Cardinality(Before(i) \cup {list.tags[i].url}) =
               IF list.tags[i].url \in Before(i) THEN Cardinality(Before(i))
                                                 ELSE Cardinality(Before(i)) + 1
          /\ Cardinality(Before(i)) \in Nat
      BY <1>3, FS_AddElement
    <3> QED
      BY <1>4, <2>1, <3>1
  <2> QED
    BY <2>1, <2>2 DEF FirstThree
<1>5. FirstNamed(list) \subseteq FirstThree(list)
  BY <1>4 DEF FirstNamed
<1>6. ASSUME FirstThree(list) # {} PROVE FirstNamed(list) # {}
  <2>1. Writes(list) # {} /\ Writes(list) \in SUBSET Nat
    BY <1>2, <1>6 DEF FirstThree
  <2>2. PICK i \in Writes(list) : \A j \in Writes(list) : i <= j
    <3>1. IsFiniteSet(1..Len(list.tags))
      BY <1>1, FS_Interval
    <3>2. IsFiniteSet(Writes(list))
      BY <1>1, <3>1, FS_Subset
    <3> QED
      BY <2>1, <3>2, Least
  <2>3. Before(i) = {}
    BY <1>2, <2>2
  <2>4. Cardinality(Before(i)) < 3
    <3>1. Cardinality({}) = 0
      BY FS_EmptySet
    <3> HIDE DEF Before
    <3>2. Cardinality(Before(i)) = 0
      BY <2>3, <3>1
    <3> QED
      BY <3>2
  <2>5. list.tags[i].url \in FirstNamed(list)
    BY <2>2, <2>4 DEF FirstNamed
  <2> QED
    BY <2>5
<1> QED
  BY <1>5, <1>6

(* Whoever's list is known is looked for where that list says.             *)
LEMMA HomeWritten ==
  ASSUME NEW a, NEW docs, docs \subseteq Document,
         RelayLists(docs, a) = SelectReplaceable(Offered(a))
  PROVE  Home(a) \subseteq WriteRelays(a, docs)
<1> DEFINE lists == RelayLists(docs, a)
           named == UNION {FirstNamed(list) : list \in lists}
           written == UNION {FirstThree(list) : list \in lists}
<1>1. \A list \in lists : list \in Document
  BY DEF RelayLists
<1>2. named \subseteq written /\ (named = {} => written = {})
  BY <1>1, NamedFirst
<1>3. Home(a) = IF named = {} THEN Configured ELSE named
  BY DEF Home, Offered
<1>4. WriteRelays(a, docs) = IF written # {} THEN written ELSE Configured
  BY DEF WriteRelays
<1> HIDE DEF named, written
<1> QED
  BY <1>2, <1>3, <1>4

(* The requests for mute lists cover all that is sought of them.           *)
LEMMA SoughtGrouped ==
  ASSUME world \subseteq Document, NEW docs, docs \subseteq Document,
         \A a \in Trusted : RelayLists(docs, a) = SelectReplaceable(Offered(a)),
         NEW d \in Sought
  PROVE  \E q \in Grouped(docs) : d \in Matching(q)
<1>1. /\ d \in world /\ d.kind = "mutes" /\ d.author \in Trusted
      /\ d.at \subseteq Relay /\ d.author \in Author /\ d.name \in Name
  BY LoadingAssumption DEF Sought, Verified, Document
<1>2. PICK r \in d.at \cap Home(d.author) : TRUE
  BY DEF Sought
<1>3. r \in Relay /\ r \in WriteRelays(d.author, docs)
  BY <1>1, <1>2, HomeWritten
<1>4. PICK c \in Chunks : d.author \in c
  BY <1>1, LoadingAssumption
<1> DEFINE authors == {a \in Trusted : r \in WriteRelays(a, docs)}
<1>5. c \cap authors \in Chunked(authors) /\ d.author \in c \cap authors
  BY <1>1, <1>3, <1>4 DEF Chunked
<1> DEFINE q == Ask({"mutes"}, c \cap authors, {r})
<1>6. q \in Grouped(docs)
  <2> HIDE DEF q
  <2>1. q \in {Ask({"mutes"}, chunk, {r}) : chunk \in Chunked(authors)}
    BY <1>5 DEF q
  <2> QED
    BY <1>3, <2>1 DEF Grouped
<1>7. d \in Matching(q)
  BY <1>1, <1>2, <1>5 DEF Matching, Ask, AskNamed
<1> QED
  BY <1>6, <1>7

-----------------------------------------------------------------------------
(* What most steps do: relay lists stay, and no mute list gives way to an  *)
(* older one.                                                              *)
MutesKept(docs, old) ==
  \A d \in old : d.kind = "mutes" => \E h \in docs : Slot(h) = Slot(d) /\ d.age <= h.age

SameLists == \A a : RelayLists(held', a) = RelayLists(held, a)

LEMMA SlotNames ==
  ASSUME NEW d, NEW e, Slot(d) = Slot(e)
  PROVE  /\ d.author = e.author
         /\ d.kind \in {"relays", "mutes"} => e.kind = d.kind
BY DEF Slot, IsList

LEMMA KeptItself ==
  ASSUME TypeOK
  PROVE  MutesKept(held, held)
BY Ages DEF MutesKept

LEMMA CoversMutes ==
  ASSUME NEW docs, NEW old, Covers(docs, old)
  PROVE  MutesKept(docs, old)
BY DEF Covers, MutesKept, LastWins

(* What is sought depends on the world alone, and what was found stays.    *)
LEMMA WorldKept ==
  ASSUME world' = world
  PROVE  /\ Sought' = Sought
         /\ \A a : Offered(a)' = Offered(a)
         /\ \A q : Matching(q)' = Matching(q)
BY DEF Sought, Home, Offered, RelayLists, Matching

(* Nothing but a newer one of its author displaces a mute list.            *)
LEMMA MutesCount ==
  ASSUME TypeOK, TypeOK', world' = world, NEW docs \in SUBSET world, Ingest(Effective(docs)),
         NEW d \in Verified(docs), d.kind = "mutes"
  PROVE  \E h \in held' : Slot(h) = Slot(d) /\ d.age <= h.age
<1>1. PICK e \in Verified(docs) : Succeeds(e, d) /\ Counted(e, held')
  BY AnswerCounts
<1>2. Slot(e) = Slot(d) /\ \E h \in held' : Slot(h) = Slot(e) /\ e.age <= h.age
  BY <1>1 DEF Succeeds, Counted, Slot, IsList, LastWins
<1>3. PICK h \in held' : Slot(h) = Slot(e) /\ e.age <= h.age
  BY <1>2
<1>4. {d.age, e.age, h.age} \subseteq Nat
  BY <1>3, WorldType DEF TypeOK, Document, Verified
<1> QED
  BY <1>1, <1>2, <1>3, <1>4 DEF Succeeds

LEMMA CountsKept ==
  ASSUME TypeOK, TypeOK', world' = world, MutesKept(held', held), NEW d \in Sought, Counts(d)
  PROVE  Counts(d)'
<1>1. d.kind = "mutes" /\ d \in world
  BY DEF Sought, Verified
<1>2. PICK h \in held : Slot(h) = Slot(d) /\ d.age <= h.age
  BY DEF Counts
<1>3. h.kind = "mutes"
  BY <1>1, <1>2, SlotNames
<1>4. PICK g \in held' : Slot(g) = Slot(h) /\ h.age <= g.age
  BY <1>2, <1>3 DEF MutesKept
<1>5. {d.age, h.age, g.age} \subseteq Nat
  BY <1>1, WorldType DEF TypeOK, Document
<1>6. Slot(g) = Slot(d) /\ d.age <= g.age
  BY <1>2, <1>4, <1>5
<1> QED
  BY <1>6 DEF Counts

LEMMA TrustSought == TrustGraphFound <=> (found => \A d \in Sought : Counts(d))
BY DEF TrustGraphFound, Sought, Counts

LEMMA FoundKept ==
  ASSUME TypeOK, TypeOK', world' = world, MutesKept(held', held), TrustGraphFound,
         found' => found
  PROVE  TrustGraphFound'
<1>1. ( TrustGraphFound <=> (found => \A d \in Sought : Counts(d)) )'
  BY TrustSought, PTL
<1>2. found => \A d \in Sought : Counts(d)
  BY TrustSought
<1> QED
  BY <1>1, <1>2, WorldKept, CountsKept

LEMMA ListsKept ==
  ASSUME world' = world, SameLists, ListsOffered
  PROVE  ListsOffered' /\ \A a : Known(a) => Known(a)'
<1>1. \A a : RelayLists(held, a) = SelectReplaceable(Offered(a)) =>
               RelayLists(held', a) = SelectReplaceable(Offered(a)')
  BY WorldKept DEF SameLists
<1>2. ASSUME NEW d \in held', d.kind = "relays" PROVE d \in Offered(d.author)
  BY <1>2 DEF SameLists, RelayLists, ListsOffered
<1> QED
  BY <1>1, <1>2, WorldKept DEF Known, ListsOffered

(* Ingesting documents that are no relay lists.                            *)
LEMMA IngestKeeps ==
  ASSUME TypeOK, NEW events, Ingest(events), \A e \in events : e.kind # "relays"
  PROVE  SameLists /\ MutesKept(held', held)
<1>1. PICK new \in SUBSET Remaining(held, events) : held' = Ingested(held, new)
  BY DEF Ingest
<1>2. \A e \in new : e.kind # "relays"
  BY <1>1 DEF Remaining, Recognised
<1>3. SameLists
  BY <1>1, <1>2, SlotNames DEF SameLists, RelayLists, Ingested
<1>4. MutesKept(held', held)
  BY Ages, IngestStep, CoversMutes DEF TypeOK
<1> QED
  BY <1>3, <1>4

LEMMA ReadKeeps ==
  ASSUME TypeOK, held' = Hydrated
  PROVE  SameLists /\ MutesKept(held', held)
<1>1. CASE ~cached
  BY <1>1, KeptItself DEF Hydrated, SameLists
<1>2. CASE cached
  <2>1. held' = (held \ Administered(held)) \cup saved
    BY <1>2 DEF Hydrated
  <2>2. /\ \A d \in Administered(held) \cup saved : d.kind \in Administrative
        /\ "relays" \notin Administrative /\ "mutes" \notin Administrative
    BY Ages DEF Administered, Administrative
  <2>3. SameLists
    BY <2>1, <2>2 DEF SameLists, RelayLists, Administered
  <2>4. MutesKept(held', held)
    BY <2>1, <2>2, Ages DEF MutesKept, Administered
  <2> QED
    BY <2>3, <2>4
<1> QED
  BY <1>1, <1>2

-----------------------------------------------------------------------------
LEMMA SightedKept ==
  ASSUME TypeOK, TypeOK', world' = world, SameLists, MutesKept(held', held), ListsOffered,
         NEW s, SightedBy(s)
  PROVE  SightedBy(s)'
<1>1. \A a : Known(a) => Known(a)'
  BY ListsKept
<1>2. \A d \in Sought : Counts(d) => Counts(d)'
  BY CountsKept
<1> QED
  BY <1>1, <1>2, WorldKept DEF SightedBy

LEMMA AskedKept ==
  ASSUME world' = world, NEW l, NEW s
  PROVE  AskedBy(l, s)' <=> AskedBy(l, s)
BY WorldKept DEF AskedBy

(* A load goes on; what it does to the stores the others do not notice.    *)
LEMMA OneLoadFound ==
  ASSUME IInv, IInv', FInv, NEW l \in active, NEW s, Becomes(l, s),
         UNCHANGED << world, active, incoming >>,
         AskedBy(l, s), l = "mutes" => SightedBy(s)',
         l # "mutes" => SameLists /\ MutesKept(held', held),
         ListsOffered', TrustGraphFound'
  PROVE  FInv'
<1>1. load'[l] = s /\ \A k \in active \ {l} : load'[k] = load[k]
  BY BecomesStep DEF IInv
<1>2. Asked'
  BY <1>1, AskedKept DEF FInv, Asked
<1>3. Sighted'
  <2> SUFFICES ASSUME "mutes" \in active' PROVE SightedBy(load["mutes"])'
    BY DEF Sighted
  <2>1. PICK t : t = load'["mutes"]
    OBVIOUS
  <2>2. SightedBy(t)'
    <3>1. CASE l = "mutes"
      BY <1>1, <2>1, <3>1
    <3>2. CASE l # "mutes"
      <4>1. t = load["mutes"] /\ SightedBy(load["mutes"])
        BY <1>1, <2>1, <3>2 DEF FInv, Sighted
      <4>2. SightedBy(t)
        BY <4>1
      <4> QED
        BY <3>2, <4>2, SightedKept DEF IInv, Typed, FInv
    <3> QED
      BY <3>1, <3>2
  <2> QED
    BY <2>1, <2>2 DEF SightedBy, Asks, Open
<1>4. Fed'
  BY DEF FInv, Fed
<1> QED
  BY <1>2, <1>3, <1>4 DEF FInv

(* What a load asks next.                                                  *)
LEMMA AskNextCases ==
  ASSUME NEW l, NEW complete, AskNext(l, complete)
  PROVE  \E s :
           /\ Becomes(l, s)
           /\ \/ /\ load[l].todo # {}
                 /\ s.await = "list" /\ s.complete = complete /\ Open(s) = load[l].todo
                 /\ found' = found
              \/ /\ load[l].todo = {} /\ Discovered(l) /\ Grouped(held') # {}
                 /\ s.await = "list" /\ s.complete = complete /\ Open(s) = Grouped(held')
                 /\ found' = found
              \/ /\ load[l].todo = {} /\ ~(Discovered(l) /\ Grouped(held') # {})
                 /\ s.await = "idle" /\ found' = (found \/ (l = "mutes" /\ complete))
<1>1. ASSUME NEW todo, Asking(l, todo, complete)
      PROVE  \E s : /\ Becomes(l, s) /\ s.await = "list" /\ s.complete = complete
                    /\ Open(s) = todo
  <2>1. PICK q \in todo : Becomes(l, At("list", todo \ {q}, q, {}, complete))
    BY <1>1 DEF Asking
  <2> DEFINE s == At("list", todo \ {q}, q, {}, complete)
  <2>2. s.await = "list" /\ s.complete = complete /\ Open(s) = todo
    BY DEF At, Open
  <2> HIDE DEF s
  <2> QED
    BY <2>1, <2>2 DEF s
<1>2. CASE load[l].todo # {}
  BY <1>1, <1>2 DEF AskNext
<1>3. CASE load[l].todo = {} /\ Discovered(l) /\ Grouped(held') # {}
  BY <1>1, <1>3 DEF AskNext
<1>4. CASE load[l].todo = {} /\ ~(Discovered(l) /\ Grouped(held') # {})
  <2>1. Becomes(l, Idle) /\ found' = (found \/ (l = "mutes" /\ complete))
    BY <1>4 DEF AskNext
  <2>2. Idle.await = "idle"
    BY DEF Idle, At
  <2> QED
    BY <1>4, <2>1, <2>2
<1> QED
  BY <1>2, <1>3, <1>4

(* A load of mute lists asks for all it needs to know, and what the others *)
(* ask for is none of it.                                                  *)
LEMMA FirstAsked ==
  ASSUME NEW l \in Load
  PROVE  /\ l # "mutes" => \A q \in Requests(l) : q.kinds \subseteq Administrative
         /\ l = "mutes" => /\ \A q \in Requests(l) : Discovering(q)
                           /\ \A a \in Trusted : \E q \in Requests(l) : a \in q.authors
<1>1. CASE l = "admin"
  BY <1>1 DEF Requests, AskNamed, Administrative
<1>2. CASE l = "labels"
  BY <1>2 DEF Requests, Ask, AskNamed, Administrative
<1>3. CASE l = "community"
  BY <1>3, LoadingAssumption DEF Requests, AskNamed, Administrative
<1>4. CASE l = "mutes"
  <2>1. Requests(l) = {Ask({"relays"}, chunk, Configured) : chunk \in Chunked(Trusted)}
    BY <1>4 DEF Requests
  <2>2. \A q \in Requests(l) : Discovering(q)
    BY <2>1 DEF Ask, AskNamed, Discovering
  <2>3. ASSUME NEW a \in Trusted PROVE \E q \in Requests(l) : a \in q.authors
    <3>1. PICK c \in Chunks : a \in c
      BY LoadingAssumption
    <3>2. c \cap Trusted \in Chunked(Trusted)
      BY <3>1 DEF Chunked
    <3>3. Ask({"relays"}, c \cap Trusted, Configured) \in Requests(l)
      BY <2>1, <3>2
    <3>4. a \in Ask({"relays"}, c \cap Trusted, Configured).authors
      BY <3>1 DEF Ask, AskNamed
    <3> QED
      BY <3>3, <3>4
  <2> QED
    BY <1>4, <2>2, <2>3
<1> QED
  BY <1>1, <1>2, <1>3, <1>4 DEF Load

-----------------------------------------------------------------------------
(* The steps. *)

LEMMA SameStores ==
  ASSUME TypeOK, UNCHANGED << world, held >>
  PROVE  SameLists /\ MutesKept(held', held)
BY KeptItself DEF SameLists

LEMMA Idles ==
  ASSUME NEW l, NEW s, s.await \in {"idle", "write"}
  PROVE  AskedBy(l, s) /\ SightedBy(s)'
BY DEF AskedBy, SightedBy, Asks

LEMMA BeginFound ==
  ASSUME IInv, IInv', FInv, NEW l \in active, Begin(l)
  PROVE  FInv'
<1>1. UNCHANGED << world, active, held, incoming, found >>
  BY DEF Begin
<1>2. /\ SameLists /\ MutesKept(held', held) /\ ListsOffered' /\ TrustGraphFound'
  BY <1>1, SameStores, ListsKept, FoundKept DEF IInv, Typed, FInv
<1>3. l \in Load
  BY WorldType DEF IInv, Typed
<1>4. CASE l = "admin"
  <2> DEFINE s == At("read", Requests(l), {}, {}, TRUE)
  <2>1. Becomes(l, s) /\ s.await = "read" /\ s.todo = Requests(l)
    BY <1>4 DEF Begin, At
  <2> HIDE DEF s
  <2>2. AskedBy(l, s)
    BY <1>3, <1>4, <2>1, FirstAsked DEF AskedBy, Asks
  <2> QED
    BY <1>1, <1>2, <1>4, <2>1, <2>2, OneLoadFound
<1>5. CASE l # "admin"
  <2>1. PICK q \in Requests(l) : Becomes(l, At("list", Requests(l) \ {q}, q, {}, TRUE))
    BY <1>5 DEF Begin, Asking
  <2> DEFINE s == At("list", Requests(l) \ {q}, q, {}, TRUE)
  <2>2. Becomes(l, s) /\ s.await = "list" /\ s.request = q /\ Open(s) = Requests(l)
    BY <2>1 DEF At, Open
  <2> HIDE DEF s
  <2>3. AskedBy(l, s)
    BY <1>3, <2>2, FirstAsked DEF AskedBy, Asks
  <2>4. l = "mutes" => SightedBy(s)'
    BY <1>3, <2>2, FirstAsked DEF SightedBy, Discovering
  <2> QED
    BY <1>1, <1>2, <2>2, <2>3, <2>4, OneLoadFound
<1> QED
  BY <1>4, <1>5

LEMMA ReadFound ==
  ASSUME IInv, IInv', FInv, NEW l \in active, Read(l)
  PROVE  FInv'
<1>1. /\ l = "admin" /\ load[l].await = "read" /\ held' = Hydrated
      /\ UNCHANGED << world, active, incoming, found >>
  BY DEF Read, IInv, AdminOnly
<1>2. /\ SameLists /\ MutesKept(held', held) /\ ListsOffered' /\ TrustGraphFound'
  BY <1>1, ReadKeeps, ListsKept, FoundKept DEF IInv, Typed, FInv
<1>3. PICK q \in load[l].todo : Becomes(l, At("list", load[l].todo \ {q}, q, {}, TRUE))
  BY DEF Read, Asking
<1> DEFINE s == At("list", load[l].todo \ {q}, q, {}, TRUE)
<1>4. Becomes(l, s) /\ s.await = "list" /\ Open(s) = load[l].todo
  BY <1>3 DEF At, Open
<1> HIDE DEF s
<1>5. AskedBy(l, s)
  BY <1>1, <1>4 DEF AskedBy, Asks, FInv, Asked
<1> QED
  BY <1>1, <1>2, <1>4, <1>5, OneLoadFound

LEMMA AnswerFound ==
  ASSUME IInv, IInv', FInv, NEW l \in active, Answer(l)
  PROVE  FInv'
<1>1. load[l].await = "list" /\ UNCHANGED << world, active, held, incoming, found >>
  BY DEF Answer
<1>2. /\ SameLists /\ MutesKept(held', held) /\ ListsOffered' /\ TrustGraphFound'
  BY <1>1, SameStores, ListsKept, FoundKept DEF IInv, Typed, FInv
<1>3. PICK batch \in SUBSET Matching(load[l].request) :
        Becomes(l, At("verify", load[l].todo, load[l].request, batch,
                      load[l].complete /\ batch = Matching(load[l].request)))
  BY DEF Answer
<1>4. PICK s : s = At("verify", load[l].todo, load[l].request, batch,
                     load[l].complete /\ batch = Matching(load[l].request))
  OBVIOUS
<1>5. /\ Becomes(l, s) /\ s.await = "verify" /\ s.request = load[l].request
      /\ Open(s) = Open(load[l]) /\ s.batch = batch
      /\ s.complete => load[l].complete /\ batch = Matching(load[l].request)
  BY <1>3, <1>4 DEF At, Open
<1>6. AskedBy(l, s)
  BY <1>1, <1>3, <1>5 DEF AskedBy, Asks, FInv, Asked
<1>7. l = "mutes" => SightedBy(s)'
  <2> SUFFICES ASSUME l = "mutes" PROVE SightedBy(s)'
    OBVIOUS
  <2>1. SightedBy(s)
    BY <1>1, <1>5 DEF SightedBy, Asks, FInv, Sighted
  <2>2. TypeOK /\ TypeOK' /\ ListsOffered /\ world' = world
    BY <1>1 DEF IInv, Typed, FInv
  <2>3. SameLists /\ MutesKept(held', held)
    BY <1>2
  <2> QED
    BY <2>1, <2>2, <2>3, SightedKept
<1>8. Becomes(l, s) /\ UNCHANGED << world, active, incoming >>
  BY <1>1, <1>5
<1> QED
  BY <1>2, <1>6, <1>7, <1>8, OneLoadFound

LEMMA WriteFound ==
  ASSUME IInv, IInv', FInv, NEW l \in active, Write(l)
  PROVE  FInv'
<1>1. /\ Becomes(l, Idle) /\ UNCHANGED << world, active, held, incoming, found >>
  BY DEF Write
<1>2. /\ SameLists /\ MutesKept(held', held) /\ ListsOffered' /\ TrustGraphFound'
  BY <1>1, SameStores, ListsKept, FoundKept DEF IInv, Typed, FInv
<1>3. Idle.await = "idle"
  BY DEF Idle, At
<1> QED
  BY <1>1, <1>2, <1>3, Idles, OneLoadFound

LEMMA FeedFound ==
  ASSUME IInv, IInv', FInv, "relays" \notin FedKinds, Feed \/ IngestFed
  PROVE  FInv'
<1>1. UNCHANGED << world, active, load, found >>
  BY DEF Feed, IngestFed
<1>2. SameLists /\ MutesKept(held', held) /\ Fed'
  <2>1. CASE Feed
    BY <2>1, SameStores DEF Feed, Fed, IInv, Typed
  <2>2. CASE IngestFed
    <3>1. Ingest(Effective(incoming)) /\ incoming' = {}
      BY <2>2 DEF IngestFed
    <3>2. \A e \in Effective(incoming) : e.kind # "relays"
      BY EffectiveSubset DEF FInv, Fed
    <3> QED
      BY <3>1, <3>2, IngestKeeps DEF IInv, Typed, Fed
  <2> QED
    BY <2>1, <2>2
<1>3. ListsOffered' /\ TrustGraphFound'
  BY <1>1, <1>2, ListsKept, FoundKept DEF IInv, Typed, FInv
<1>4. Asked'
  <2> SUFFICES ASSUME NEW l \in active' PROVE AskedBy(l, load[l])'
    BY DEF Asked
  <2>1. PICK t : t = load[l] /\ t = load'[l]
    BY <1>1
  <2>2. AskedBy(l, t)'
    BY <1>1, <2>1, AskedKept DEF FInv, Asked
  <2> QED
    BY <2>1, <2>2 DEF AskedBy, Asks, Open
<1>5. Sighted'
  <2> SUFFICES ASSUME "mutes" \in active' PROVE SightedBy(load["mutes"])'
    BY DEF Sighted
  <2>1. PICK t : t = load["mutes"] /\ t = load'["mutes"]
    BY <1>1
  <2>2. SightedBy(t)
    BY <1>1, <2>1 DEF FInv, Sighted
  <2>3. SightedBy(t)'
    BY <1>1, <1>2, <2>2, SightedKept DEF IInv, Typed, FInv
  <2> QED
    BY <2>1, <2>3 DEF SightedBy, Asks, Open
<1> QED
  BY <1>2, <1>3, <1>4, <1>5 DEF FInv

LEMMA ReloadFound ==
  ASSUME Reload
  PROVE  FInv'
<1>1. /\ \A l \in active' : load'[l].await = "idle"
      /\ held' = {} /\ incoming' = {} /\ found' = FALSE
  BY DEF Reload, Idle, At
<1> QED
  BY <1>1
  DEF FInv, Asked, AskedBy, Asks, Fed, ListsOffered, Sighted, SightedBy, TrustGraphFound

(* A request for relay lists that is answered in full.                     *)
LEMMA EffectiveLists ==
  ASSUME TypeOK, NEW q, Discovering(q), NEW a \in q.authors
  PROVE  RelayLists(Effective(Matching(q)), a) = SelectReplaceable(Offered(a))
<1> DEFINE docs == Verified(Matching(q))
<1>1. \A d \in docs : d.kind = "relays" /\ CoordinateOf(d) = << "relays", d.author, Unnamed >>
  BY Nameless DEF Verified, Matching, Discovering, CoordinateOf
<1>2. \A d : d \in docs /\ d.author = a <=> d \in Offered(a)
  BY Nameless DEF Verified, Matching, Discovering, Offered, RelayLists
<1> HIDE DEF docs
<1>3. \A d : d \in SelectReplaceable(docs) /\ d.author = a <=> d \in SelectReplaceable(Offered(a))
  <2> TAKE d
  <2>1. \A e \in Offered(a) : CoordinateOf(e) = << "relays", a, Unnamed >> /\ e.author = a
    BY <1>1, <1>2
  <2>2. ASSUME d \in SelectReplaceable(docs), d.author = a
        PROVE  d \in SelectReplaceable(Offered(a))
    BY <1>2, <2>2 DEF SelectReplaceable
  <2>3. ASSUME d \in SelectReplaceable(Offered(a))
        PROVE  d \in SelectReplaceable(docs) /\ d.author = a
    <3>1. /\ d \in Offered(a) /\ d \in docs /\ d.author = a
          /\ CoordinateOf(d) = << "relays", a, Unnamed >>
      BY <1>2, <2>1, <2>3 DEF SelectReplaceable
    <3>2. \A e \in docs : CoordinateOf(e) = CoordinateOf(d) => e \in Offered(a)
      BY <1>1, <1>2, <3>1
    <3> QED
      BY <2>3, <3>1, <3>2 DEF SelectReplaceable
  <2> QED
    BY <2>2, <2>3
<1>4. \A d \in SelectReplaceable(docs) : d.kind = "relays"
  BY <1>1 DEF SelectReplaceable
<1>5. Effective(Matching(q)) = SelectReplaceable(docs)
  BY DEF Effective, docs
<1> QED
  BY <1>3, <1>4, <1>5 DEF RelayLists

(* Relay lists that are ingested replace those of their authors.           *)
LEMMA ListsIngested ==
  ASSUME NEW events, Ingest(events),
         \A e \in events : e.kind = "relays" /\ e.name = Unnamed,
         \A d, e \in events : CoordinateOf(d) = CoordinateOf(e) => d = e
  PROVE  held' = Ingested(held, events)
<1>1. PICK new \in SUBSET Remaining(held, events) :
        /\ \A d \in Remaining(held, events) : \E e \in new : Slot(e) = Slot(d)
        /\ held' = Ingested(held, new)
  BY DEF Ingest
<1>2. Remaining(held, events) = events
  BY DEF Remaining, Recognised, IsList, Supersedes, LastWins
<1>3. ASSUME NEW d \in events PROVE d \in new
  <2>1. PICK e \in new : Slot(e) = Slot(d)
    BY <1>1, <1>2
  <2>2. e \in events /\ CoordinateOf(d) = CoordinateOf(e)
    BY <1>1, <1>2, <2>1, SlotNames DEF CoordinateOf
  <2> QED
    BY <2>1, <2>2
<1> QED
  BY <1>1, <1>2, <1>3

LEMMA DiscoverStep ==
  ASSUME TypeOK, world' = world, ListsOffered, NEW q, Discovering(q),
         NEW batch \in SUBSET Matching(q), Ingest(Effective(batch))
  PROVE  /\ ListsOffered' /\ MutesKept(held', held)
         /\ batch = Matching(q) =>
              \A a : Known(a) \/ a \in q.authors => Known(a)'
<1> DEFINE new == Effective(batch)
<1>1. /\ batch \in SUBSET world /\ new \subseteq batch
      /\ \A d \in new : /\ d.kind = "relays" /\ d.author \in q.authors /\ d.name = Unnamed
                        /\ d \in Offered(d.author)
  BY EffectiveSubset, Nameless DEF Matching, Discovering, Offered, RelayLists, Genuine
<1>2. \A d, e \in new : CoordinateOf(d) = CoordinateOf(e) => d = e
  BY <1>1, WorldDistinct, SelectedOnce DEF Effective
<1> HIDE DEF new
<1>3. held' = Ingested(held, new)
  BY <1>1, <1>2, ListsIngested DEF new
<1>4. ListsOffered'
  <2>1. \A d \in held' : d.kind = "relays" => d \in Offered(d.author)
    BY <1>1, <1>3 DEF Ingested, ListsOffered
  <2> QED
    BY <2>1, WorldKept DEF ListsOffered
<1>5. MutesKept(held', held)
  BY Ages, IngestStep, CoversMutes DEF TypeOK
<1>6. ASSUME batch = Matching(q), NEW a, Known(a) \/ a \in q.authors
      PROVE  Known(a)'
  <2>1. CASE a \in q.authors
    <3>1. RelayLists(new, a) = SelectReplaceable(Offered(a))
      BY <1>6, <2>1, EffectiveLists DEF new
    <3>2. RelayLists(held', a) = RelayLists(new, a)
      <4>1. CASE RelayLists(new, a) # {}
        <5>1. PICK e \in new : e.kind = "relays" /\ e.author = a
          BY <4>1 DEF RelayLists
        <5>2. \A d \in RelayLists(held, a) : Slot(d) = Slot(e)
          BY <5>1 DEF RelayLists, Slot, IsList
        <5> QED
          BY <1>3, <5>1, <5>2 DEF RelayLists, Ingested
      <4>2. CASE RelayLists(new, a) = {}
        <5>1. Distinct(Offered(a))
          <6>1. Offered(a) \in SUBSET world /\ Offered(a) = Verified(Offered(a))
            BY DEF Offered, RelayLists, Verified
          <6> QED
            BY <6>1, WorldDistinct
        <5>2. Offered(a) = {}
          BY <3>1, <4>2, <5>1, SelectedNewest
        <5>3. RelayLists(held, a) = {}
          BY <5>2 DEF RelayLists, ListsOffered
        <5> QED
          BY <1>3, <4>2, <5>3 DEF RelayLists, Ingested
      <4> QED
        BY <4>1, <4>2
    <3> QED
      BY <3>1, <3>2, WorldKept DEF Known
  <2>2. CASE a \notin q.authors
    <3>1. \A e \in new : e.author # a
      BY <1>1, <2>2
    <3>2. RelayLists(held', a) = RelayLists(held, a)
      BY <1>3, <3>1, SlotNames DEF RelayLists, Ingested
    <3> QED
      BY <1>6, <2>2, <3>2, WorldKept DEF Known
  <2> QED
    BY <2>1, <2>2
<1> QED
  BY <1>4, <1>5, <1>6

LEMMA GroupedFetch ==
  ASSUME NEW docs, NEW q \in Grouped(docs)
  PROVE  Fetching(q)
<1>1. PICK r \in Relay : \E chunk : q = Ask({"mutes"}, chunk, {r})
  BY DEF Grouped
<1> QED
  BY <1>1 DEF Ask, AskNamed, Fetching

(* What is asked next is of a kind with what was asked, or where contacts  *)
(* write.                                                                  *)
LEMMA NextAsked ==
  ASSUME NEW l, NEW s, AskedBy(l, load[l]), Asks(load[l]), s.await = "list",
         \/ Open(s) = load[l].todo
         \/ Discovered(l) /\ Open(s) = Grouped(held')
  PROVE  AskedBy(l, s)
<1>1. CASE Open(s) = load[l].todo
  BY <1>1 DEF AskedBy, Asks, Open
<1>2. CASE Discovered(l) /\ Open(s) = Grouped(held')
  <2>1. l = "mutes" /\ \A q \in Open(s) : Fetching(q)
    BY <1>2, GroupedFetch DEF Discovered
  <2> QED
    BY <2>1 DEF AskedBy, Asks
<1> QED
  BY <1>1, <1>2

LEMMA RejectFound ==
  ASSUME IInv, IInv', FInv, NEW l \in active, Reject(l)
  PROVE  FInv'
<1>1. load[l].await = "list" /\ UNCHANGED << world, active, held, incoming >>
  BY DEF Reject
<1>2. \E s : /\ Becomes(l, s) /\ AskedBy(l, s) /\ SightedBy(s)' /\ (found' => found)
  <2>1. CASE l = "admin"
    <3>1. Becomes(l, Idle) /\ found' = found /\ Idle.await = "idle"
      BY <2>1 DEF Reject, Idle, At
    <3> QED
      BY <3>1, Idles
  <2>2. CASE l # "admin"
    <3>1. AskNext(l, FALSE)
      BY <2>2 DEF Reject
    <3>2. PICK s :
            /\ Becomes(l, s)
            /\ \/ /\ s.await = "list" /\ s.complete = FALSE
                  /\ Open(s) = load[l].todo /\ found' = found
               \/ /\ s.await = "list" /\ s.complete = FALSE
                  /\ Discovered(l) /\ Open(s) = Grouped(held') /\ found' = found
               \/ s.await = "idle" /\ found' = (found \/ (l = "mutes" /\ FALSE))
      BY <3>1, AskNextCases
    <3>3. found' => found
      <4>1. found \in BOOLEAN
        BY DEF IInv, Typed, TypeOK
      <4> QED
        BY <3>2, <4>1
    <3>4. CASE s.await = "idle"
      BY <3>2, <3>3, <3>4, Idles
    <3>5. CASE s.await = "list"
      <4>1. AskedBy(l, s)
        BY <1>1, <3>2, <3>5, NextAsked DEF FInv, Asked, Asks
      <4>2. SightedBy(s)'
        BY <3>2, <3>5 DEF SightedBy
      <4> QED
        BY <3>2, <3>3, <4>1, <4>2
    <3> QED
      BY <3>2, <3>4, <3>5
  <2> QED
    BY <2>1, <2>2
<1>3. PICK s : Becomes(l, s) /\ AskedBy(l, s) /\ SightedBy(s)' /\ (found' => found)
  BY <1>2
<1>4. /\ SameLists /\ MutesKept(held', held) /\ ListsOffered' /\ TrustGraphFound'
  BY <1>1, <1>3, SameStores, ListsKept, FoundKept DEF IInv, Typed, FInv
<1> QED
  BY <1>1, <1>3, <1>4, OneLoadFound

(* Loads that do not look for mute lists bring no relay lists.             *)
LEMMA VerifyOthersFound ==
  ASSUME IInv, IInv', FInv, NEW l \in active, Verify(l), l # "mutes"
  PROVE  FInv'
<1>1. /\ load[l].await = "verify" /\ Ingest(Effective(load[l].batch))
      /\ UNCHANGED << world, active, incoming >>
  BY DEF Verify
<1>2. \A d \in load[l].batch : d.kind # "relays"
  BY <1>1 DEF FInv, Asked, AskedBy, Asks, Open, Matching, Administrative
<1>3. SameLists /\ MutesKept(held', held)
  BY <1>1, <1>2, EffectiveSubset, IngestKeeps DEF IInv, Typed
<1>4. PICK s : Becomes(l, s) /\ AskedBy(l, s) /\ (found' => found)
  <2>1. CASE l = "admin"
    <3> DEFINE s == At("write", {}, {}, Administered(held'), TRUE)
    <3>1. Becomes(l, s) /\ found' = found /\ s.await = "write"
      BY <2>1 DEF Verify, At
    <3> HIDE DEF s
    <3> QED
      BY <3>1 DEF AskedBy, Asks
  <2>2. CASE l # "admin"
    <3>1. AskNext(l, load[l].complete)
      BY <2>2 DEF Verify
    <3>2. PICK s :
            /\ Becomes(l, s)
            /\ \/ /\ s.await = "list" /\ s.complete = load[l].complete
                  /\ Open(s) = load[l].todo /\ found' = found
               \/ /\ s.await = "list" /\ s.complete = load[l].complete
                  /\ Discovered(l) /\ Open(s) = Grouped(held') /\ found' = found
               \/ s.await = "idle" /\ found' = (found \/ (l = "mutes" /\ load[l].complete))
      BY <3>1, AskNextCases
    <3>3. found' => found
      <4>1. found \in BOOLEAN
        BY DEF IInv, Typed, TypeOK
      <4> QED
        BY <3>2, <4>1
    <3>4. AskedBy(l, s)
      BY <1>1, <3>2, Idles, NextAsked DEF FInv, Asked, Asks
    <3> QED
      BY <3>2, <3>3, <3>4
  <2> QED
    BY <2>1, <2>2
<1>5. ListsOffered' /\ TrustGraphFound'
  BY <1>1, <1>3, <1>4, ListsKept, FoundKept DEF IInv, Typed, FInv
<1> QED
  BY <1>1, <1>3, <1>4, <1>5, OneLoadFound

(* The last but one answer of a load of mute lists says where all write,   *)
(* the last what they wrote.                                               *)
LEMMA VerifyMutesFound ==
  ASSUME IInv, IInv', FInv, Verify("mutes"), "mutes" \in active
  PROVE  FInv'
<1> DEFINE l == "mutes"
<1>1. /\ load[l].await = "verify" /\ Ingest(Effective(load[l].batch))
      /\ UNCHANGED << world, active, incoming >>
      /\ AskNext(l, load[l].complete)
  BY DEF Verify
<1>2. PICK q : q = load[l].request
  OBVIOUS
<1>3. PICK batch : batch = load[l].batch
  OBVIOUS
<1>4. PICK todo : todo = load[l].todo
  OBVIOUS
<1>5. /\ batch \in SUBSET Matching(q)
      /\ load[l].complete => batch = Matching(q)
      /\ (\A p \in todo \cup {q} : Discovering(p)) \/ (\A p \in todo \cup {q} : Fetching(p))
  BY <1>1, <1>2, <1>3, <1>4 DEF FInv, Asked, AskedBy, Asks, Open
<1>6. TypeOK /\ TypeOK' /\ ListsOffered /\ Ingest(Effective(batch)) /\ world' = world
  BY <1>1, <1>3 DEF IInv, Typed, FInv
<1>7. PICK s :
        /\ Becomes(l, s)
        /\ \/ /\ todo # {} /\ s.await = "list" /\ s.complete = load[l].complete
              /\ Open(s) = todo /\ found' = found
           \/ /\ todo = {} /\ Discovered(l) /\ Grouped(held') # {}
              /\ s.await = "list" /\ s.complete = load[l].complete
              /\ Open(s) = Grouped(held') /\ found' = found
           \/ /\ todo = {} /\ ~(Discovered(l) /\ Grouped(held') # {})
              /\ s.await = "idle" /\ found' = (found \/ load[l].complete)
  BY <1>1, <1>4, AskNextCases
<1>8. AskedBy(l, s)
  BY <1>1, <1>4, <1>7, Idles, NextAsked DEF FInv, Asked, Asks
<1>9. Discovered(l) <=> q.kinds = {"relays"}
  BY <1>2 DEF Discovered
<1>10. ( TrustGraphFound <=> (found => \A d \in Sought : Counts(d)) )'
  BY TrustSought, PTL
<1>11. CASE \A p \in todo \cup {q} : Fetching(p)
  <2>1. \A d \in batch : d.kind # "relays"
    BY <1>5, <1>11 DEF Matching, Fetching
  <2>2. SameLists /\ MutesKept(held', held)
    BY <1>6, <2>1, EffectiveSubset, IngestKeeps
  <2>3. ListsOffered' /\ \A d \in Sought : Counts(d) => Counts(d)'
    BY <1>6, <2>2, ListsKept, CountsKept
  <2>4. ASSUME load[l].complete, NEW d \in Sought
        PROVE  Counts(d)' \/ \E p \in todo : d \in Matching(p)
    <3>1. Counts(d) \/ \E p \in todo \cup {q} : d \in Matching(p)
      BY <1>1, <1>2, <1>4, <1>11, <2>4 DEF FInv, Sighted, SightedBy, Asks, Open, Fetching
    <3>2. CASE d \in Matching(q)
      <4>1. d \in Verified(batch) /\ d.kind = "mutes" /\ batch \in SUBSET world
        BY <1>5, <2>4, <3>2 DEF Sought, Verified, Matching
      <4>2. \E h \in held' : Slot(h) = Slot(d) /\ d.age <= h.age
        BY <1>6, <4>1, MutesCount
      <4> QED
        BY <4>2 DEF Counts
    <3> QED
      BY <2>3, <3>1, <3>2
  <2>5. ~Discovered(l)
    BY <1>9, <1>11 DEF Fetching
  <2>6. TrustGraphFound'
    <3>1. found' => found \/ (load[l].complete /\ todo = {})
      BY <1>7, <2>5
    <3>2. found => \A d \in Sought : Counts(d)
      BY TrustSought DEF FInv
    <3> QED
      BY <1>6, <1>10, <2>3, <2>4, <3>1, <3>2, WorldKept
  <2>7. SightedBy(s)'
    <3>1. CASE s.await = "idle"
      BY <3>1, Idles
    <3>2. CASE s.await = "list"
      <4>1. Open(s) = todo /\ s.complete = load[l].complete
        BY <1>7, <2>5, <3>2
      <4>2. s.request \in todo
        BY <4>1 DEF Open
      <4>3. s.request.kinds # {"relays"}
        BY <1>11, <4>2 DEF Fetching
      <4> QED
        BY <1>6, <2>4, <4>1, <4>3, WorldKept DEF SightedBy
    <3> QED
      BY <1>7, <3>1, <3>2
  <2> QED
    BY <1>1, <1>7, <1>8, <2>3, <2>6, <2>7, OneLoadFound
<1>12. CASE \A p \in todo \cup {q} : Discovering(p)
  <2>1. /\ ListsOffered' /\ MutesKept(held', held)
        /\ load[l].complete => \A a : Known(a) \/ a \in q.authors => Known(a)'
    BY <1>5, <1>6, <1>12, DiscoverStep
  <2>2. \A d \in Sought : Counts(d) => Counts(d)'
    BY <1>6, <2>1, CountsKept
  <2>3. ASSUME load[l].complete, NEW a \in Trusted
        PROVE  Known(a)' \/ \E p \in todo : a \in p.authors
    <3>1. Known(a) \/ \E p \in todo \cup {q} : a \in p.authors
      BY <1>1, <1>2, <1>4, <1>12, <2>3 DEF FInv, Sighted, SightedBy, Asks, Open, Discovering
    <3> QED
      BY <2>1, <2>3, <3>1
  <2>4. ASSUME load[l].complete, todo = {}, NEW d \in Sought
        PROVE  \E p \in Grouped(held') : d \in Matching(p)
    <3>1. \A a \in Trusted : RelayLists(held', a) = SelectReplaceable(Offered(a))
      BY <1>6, <2>3, <2>4, WorldKept DEF Known
    <3>2. world \subseteq Document /\ held' \subseteq Document
      BY <1>6, WorldType DEF TypeOK
    <3> QED
      BY <3>1, <3>2, SoughtGrouped
  <2>5. Discovered(l)
    BY <1>9, <1>12 DEF Discovering
  <2>6. TrustGraphFound'
    <3>1. found' => found \/ (load[l].complete /\ todo = {} /\ Grouped(held') = {})
      BY <1>7, <2>5
    <3>2. found => \A d \in Sought : Counts(d)
      BY TrustSought DEF FInv
    <3> QED
      BY <1>6, <1>10, <2>2, <2>4, <3>1, <3>2, WorldKept
  <2>7. SightedBy(s)'
    <3>1. CASE s.await = "idle"
      BY <3>1, Idles
    <3>2. CASE s.await = "list" /\ todo # {}
      <4>1. Open(s) = todo /\ s.complete = load[l].complete /\ s.request \in todo
        BY <1>7, <3>2 DEF Open
      <4>2. s.request.kinds # {"mutes"}
        BY <1>12, <4>1 DEF Discovering
      <4> QED
        BY <2>3, <4>1, <4>2 DEF SightedBy
    <3>3. CASE s.await = "list" /\ todo = {}
      <4>1. /\ Open(s) = Grouped(held') /\ s.complete = load[l].complete
            /\ s.request \in Grouped(held')
        BY <1>7, <3>3 DEF Open
      <4>2. s.request.kinds # {"relays"}
        BY <4>1, GroupedFetch DEF Fetching
      <4> QED
        BY <1>6, <2>4, <3>3, <4>1, <4>2, WorldKept DEF SightedBy
    <3> QED
      BY <1>7, <3>1, <3>2, <3>3
  <2> QED
    BY <1>1, <1>7, <1>8, <2>1, <2>6, <2>7, OneLoadFound
<1> QED
  BY <1>5, <1>11, <1>12

LEMMA NextFound ==
  ASSUME "relays" \notin FedKinds, IInv, IInv', FInv, [Next]_vars
  PROVE  FInv'
<1>1. CASE UNCHANGED vars
  <2>1. UNCHANGED << world, active, held, load, incoming, found >>
    BY <1>1 DEF vars
  <2>2. /\ Sought' = Sought
        /\ \A a : Known(a)' <=> Known(a)
        /\ \A q : Matching(q)' = Matching(q)
        /\ \A d : Counts(d)' <=> Counts(d)
    BY <2>1, WorldKept DEF Known, Counts
  <2>3. Asked' /\ Fed' /\ ListsOffered' /\ TrustGraphFound'
    <3>1. Asked'
      BY <2>1, <2>2 DEF FInv, Asked, AskedBy, Asks, Open
    <3>2. Fed' /\ ListsOffered'
      BY <2>1, WorldKept DEF FInv, Fed, ListsOffered
    <3>3. (TrustGraphFound <=> (found => \A d \in Sought : Counts(d)))'
      BY TrustSought, PTL
    <3>4. found => \A d \in Sought : Counts(d)
      BY TrustSought DEF FInv
    <3> QED
      BY <2>1, <2>2, <3>1, <3>2, <3>3, <3>4
  <2>4. Sighted'
    BY <2>1, <2>2 DEF FInv, Sighted, SightedBy, Asks, Open
  <2> QED
    BY <2>3, <2>4 DEF FInv
<1>2. ASSUME NEW l \in active, Verify(l) PROVE FInv'
  BY <1>2, VerifyOthersFound, VerifyMutesFound
<1> QED
  BY <1>1, <1>2, BeginFound, ReadFound, AnswerFound, RejectFound, WriteFound, FeedFound,
     ReloadFound DEF Next, Step

(* After a load of mute lists that no relay failed, what each contact      *)
(* wrote where its effective relay list says is found: for any contacts,   *)
(* relays, chunks and relay lists, whatever loads run beside it, unless a  *)
(* host feeds the runtime relay lists of its own.                          *)
THEOREM ContactsFound ==
  ASSUME "relays" \notin FedKinds
  PROVE  Spec => []TrustGraphFound
<1>1. Init => FInv
  <2> SUFFICES ASSUME Init PROVE FInv
    OBVIOUS
  <2>1. /\ \A l \in active : load[l].await = "idle"
        /\ held = {} /\ incoming = {} /\ found = FALSE
    BY DEF Init, Idle, At
  <2> QED
    BY <2>1
    DEF FInv, Asked, AskedBy, Asks, Fed, ListsOffered, Sighted, SightedBy, TrustGraphFound
<1>2. IInv /\ IInv' /\ FInv /\ [Next]_vars => FInv'
  BY NextFound
<1>3. FInv => TrustGraphFound
  BY DEF FInv
<1> QED
  BY <1>1, <1>2, <1>3, Invariant, PTL DEF Spec
=============================================================================
