------------------------- MODULE ViewerSessionProofs -------------------------
(***************************************************************************)
(* ViewerSession, for any accounts and any number of waiting operations:   *)
(* its types, whatever races what, and its Isolation, provided that the    *)
(* application does not switch viewers while a cache entry of the viewer   *)
(* is being read or a mute list decrypted.                                 *)
(*                                                                         *)
(* Isolation alone is not inductive: it says nothing of the operations     *)
(* that wait. Of those that will not look at the viewer again, whatever    *)
(* they carry must be the viewer's (Carried).                              *)
(***************************************************************************)
EXTENDS ViewerSession, FiniteSetTheorems, TLAPS

Unguarded == {"read-viewer", "decrypt"}

OwnedBy(data, a) == \A f \in Field : data[f] \subseteq {a}

Typed ==
  /\ viewer \in Viewer
  /\ held \in Held
  /\ saved \in [Account -> Held \cup {None}]
  /\ flights \subseteq Flight

Carried ==
  \A f \in flights :
    f.await \in Unguarded => /\ f.account = viewer
                             /\ f.data # None => OwnedBy(f.data, viewer)

IInv == Typed /\ Isolation /\ Carried

-----------------------------------------------------------------------------
(* An operation that waits for something else carries nothing, so that     *)
(* adding it, as much as ending any, leaves the rest as it was.            *)
LEMMA FlightsStep ==
  ASSUME IInv, NEW next, next \subseteq Flight,
         \A f \in next : f.await \notin Unguarded,
         flights' \subseteq flights \cup next,
         UNCHANGED << viewer, held, saved >>
  PROVE  IInv'
<1>1. Typed'
  BY DEF IInv, Typed
<1>2. Isolation'
  BY DEF IInv, Isolation
<1>3. Carried'
  BY DEF IInv, Carried, OwnedBy
<1> QED
  BY <1>1, <1>2, <1>3 DEF IInv

LEMMA EndStep ==
  ASSUME IInv, flights' \subseteq flights, UNCHANGED << viewer, held, saved >>
  PROVE  IInv'
<1>1. Typed' /\ Isolation'
  BY DEF IInv, Typed, Isolation
<1>2. Carried'
  BY DEF IInv, Carried, OwnedBy
<1> QED
  BY <1>1, <1>2 DEF IInv

LEMMA WaitingType ==
  ASSUME NEW await \in Await, NEW load \in BOOLEAN, NEW account \in Viewer
  PROVE  /\ Waiting(await, load, account, None) \in Flight
         /\ Waiting(await, load, account, None).await = await
BY DEF Waiting, Flight

(* Starting an operation that carries nothing.                             *)
LEMMA StartStep ==
  ASSUME IInv, NEW await \in Await \ Unguarded, NEW load \in BOOLEAN,
         NEW account \in Viewer, Start(Waiting(await, load, account, None)),
         UNCHANGED << viewer, held, saved >>
  PROVE  IInv'
<1> DEFINE next == {Waiting(await, load, account, None)}
<1>1. next \subseteq Flight /\ \A f \in next : f.await \notin Unguarded
  BY WaitingType
<1>2. flights' \subseteq flights \cup next
  BY DEF Start
<1> HIDE DEF next
<1> QED
  BY <1>1, <1>2, FlightsStep

(* What follows a hydrate carries nothing.                                 *)
LEMMA AfterHydrateType ==
  ASSUME NEW f \in Flight
  PROVE  /\ AfterHydrate(f) \subseteq Flight
         /\ \A g \in AfterHydrate(f) : g.await \notin Unguarded
<1>1. NoViewer \in Viewer /\ "list-admin" \in Await \ Unguarded
  BY DEF Viewer, Await, Unguarded
<1>2. Waiting("list-admin", TRUE, NoViewer, None) \in Flight
      /\ Waiting("list-admin", TRUE, NoViewer, None).await = "list-admin"
  BY <1>1, WaitingType
<1> QED
  BY <1>1, <1>2 DEF AfterHydrate

LEMMA InitInv == Init => IInv
<1> SUFFICES ASSUME Init PROVE IInv
  OBVIOUS
<1>1. Nothing \in Held /\ \A f \in Field : Nothing[f] = {}
  BY DEF Nothing, Held
<1> QED
  BY <1>1 DEF Init, IInv, Typed, Isolation, Carried, Viewer

-----------------------------------------------------------------------------
(* A switch empties what is held, and nothing that waits carries anything. *)
LEMMA SetViewerInv ==
  ASSUME IInv, Raceable \cap Unguarded = {}, SetViewer
  PROVE  IInv'
<1>1. Nothing \in Held /\ \A f \in Field : Nothing[f] = {}
  BY DEF Nothing, Held
<1>2. \A f \in flights' : f.await \notin Unguarded
  BY DEF SetViewer
<1> QED
  BY <1>1, <1>2 DEF IInv, Typed, Isolation, Carried, SetViewer

(* A field that holds nobody's data but the viewer's may be replaced.      *)
LEMMA FieldStep ==
  ASSUME IInv, NEW f \in Field, NEW owners, owners \subseteq {viewer},
         held' = [held EXCEPT ![f] = owners],
         flights' \subseteq flights, UNCHANGED << viewer, saved >>
  PROVE  IInv'
<1>1. viewer \in Viewer
  BY DEF IInv, Typed
<1>2. held' \in Held
  BY <1>1 DEF IInv, Typed, Held
<1>3. Typed'
  BY <1>2 DEF IInv, Typed
<1>4. \A g \in Field : held'[g] \subseteq {viewer'}
  BY DEF IInv, Typed, Held, Isolation
<1>5. Isolation'
  BY <1>4 DEF IInv, Isolation
<1>6. Carried'
  BY DEF IInv, Carried, OwnedBy
<1> QED
  BY <1>3, <1>5, <1>6 DEF IInv

LEMMA HostSetsInv == ASSUME IInv, HostSets PROVE IInv'
<1>1. held["overrides"] \subseteq {viewer} /\ "overrides" \in Field
  BY DEF IInv, Isolation, Field
<1>2. flights' \subseteq flights /\ UNCHANGED << viewer, saved >>
  BY DEF HostSets
<1>3. CASE \E f \in Field \ {"overrides"}, owners \in {{}, {viewer}} :
             held' = [held EXCEPT ![f] = owners]
  BY <1>2, <1>3, FieldStep
<1>4. CASE \E owners \in (SUBSET held["overrides"]) \cup {held["overrides"] \cup {viewer}} :
             held' = [held EXCEPT !["overrides"] = owners]
  <2>1. PICK owners \in (SUBSET held["overrides"]) \cup {held["overrides"] \cup {viewer}} :
               held' = [held EXCEPT !["overrides"] = owners]
    BY <1>4
  <2>2. owners \subseteq {viewer}
    BY <1>1, <2>1
  <2> QED
    BY <1>1, <1>2, <2>1, <2>2, FieldStep
<1> QED
  BY <1>3, <1>4 DEF HostSets

(* The viewer's cache entry is its own, and so is what is read of it.      *)
LEMMA AdminReadInv == ASSUME IInv, AdminRead PROVE IInv'
<1>1. PICK f \in flights :
        /\ f.await = "read-admin"
        /\ \/ Resume(f, AfterHydrate(f))
           \/ viewer # NoViewer
                /\ Resume(f, {Waiting("read-viewer", f.load, viewer, saved[viewer])})
        /\ UNCHANGED << viewer, held, saved >>
  BY DEF AdminRead
<1>2. f \in Flight
  BY DEF IInv, Typed
<1>3. CASE Resume(f, AfterHydrate(f))
  <2>1. flights' \subseteq flights \cup AfterHydrate(f)
    BY <1>3 DEF Resume
  <2> QED
    BY <1>1, <1>2, <2>1, AfterHydrateType, FlightsStep
<1>4. CASE /\ viewer # NoViewer
           /\ Resume(f, {Waiting("read-viewer", f.load, viewer, saved[viewer])})
  <2> DEFINE w == Waiting("read-viewer", f.load, viewer, saved[viewer])
  <2>1. viewer \in Account /\ saved[viewer] \in Held \cup {None}
    BY <1>4 DEF IInv, Typed, Viewer
  <2>2. w \in Flight
    BY <1>2, <2>1 DEF Waiting, Flight, Await, Viewer
  <2>3. w.account = viewer /\ w.data = saved[viewer]
    BY DEF Waiting
  <2>4. w.data # None => OwnedBy(w.data, viewer)
    BY <2>1, <2>3 DEF IInv, Isolation, OwnedBy
  <2>5. flights' \subseteq flights \cup {w}
    BY <1>4 DEF Resume
  <2> HIDE DEF w
  <2>6. Typed'
    BY <1>1, <2>2, <2>5 DEF IInv, Typed
  <2>7. Isolation'
    BY <1>1 DEF IInv, Isolation
  <2>8. Carried'
    BY <1>1, <2>3, <2>4, <2>5 DEF IInv, Carried, OwnedBy
  <2> QED
    BY <2>6, <2>7, <2>8 DEF IInv
<1> QED
  BY <1>1, <1>3, <1>4

(* What was read of the cache is the viewer's still.                       *)
LEMMA ViewerReadInv == ASSUME IInv, ViewerRead PROVE IInv'
<1>1. PICK f \in flights :
        /\ f.await = "read-viewer"
        /\ held' = IF f.data = None THEN held ELSE Restored(f.data)
        /\ Resume(f, AfterHydrate(f))
        /\ UNCHANGED << viewer, saved >>
  BY DEF ViewerRead
<1>2. f \in Flight
  BY DEF IInv, Typed
<1>3. flights' \subseteq flights \cup AfterHydrate(f)
  BY <1>1 DEF Resume
<1>4. CASE f.data = None
  BY <1>1, <1>2, <1>3, <1>4, AfterHydrateType, FlightsStep
<1>5. CASE f.data # None
  <2>1. f.data \in Held /\ OwnedBy(f.data, viewer)
    BY <1>1, <1>2, <1>5 DEF IInv, Carried, Unguarded, Flight
  <2>2. held' = [f.data EXCEPT !["overrides"] = @ \cup held["overrides"]]
    BY <1>1, <1>5 DEF Restored
  <2>3. held \in Held /\ \A g \in Field : held[g] \subseteq {viewer}
    BY DEF IInv, Typed, Isolation
  <2>4. held' \in Held
    BY <2>1, <2>2, <2>3 DEF Held, Field
  <2>5. \A g \in Field : held'[g] \subseteq {viewer}
    BY <2>1, <2>2, <2>3 DEF Held, Field, OwnedBy
  <2>6. Typed'
    BY <1>1, <1>2, <1>3, <2>4, AfterHydrateType DEF IInv, Typed
  <2>7. Isolation'
    BY <1>1, <2>5 DEF IInv, Isolation
  <2>8. Carried'
    BY <1>1, <1>2, <1>3, AfterHydrateType DEF IInv, Carried, OwnedBy
  <2> QED
    BY <2>6, <2>7, <2>8 DEF IInv
<1> QED
  BY <1>4, <1>5

(* What is held is the viewer's, and is written under the viewer's key.    *)
LEMMA AdminWrittenInv == ASSUME IInv, AdminWritten PROVE IInv'
<1>1. PICK f \in flights :
        /\ saved' = IF viewer = NoViewer THEN saved ELSE [saved EXCEPT ![viewer] = held]
        /\ Resume(f, {})
        /\ UNCHANGED << viewer, held >>
  BY DEF AdminWritten
<1>2. flights' \subseteq flights
  BY <1>1 DEF Resume
<1>3. Carried'
  BY <1>1, <1>2 DEF IInv, Carried, OwnedBy
<1>4. Typed'
  BY <1>1, <1>2 DEF IInv, Typed, Viewer
<1>5. \A a \in Account : saved'[a] # None => \A g \in Field : saved'[a][g] \subseteq {a}
  BY <1>1 DEF IInv, Typed, Isolation
<1>6. Isolation'
  BY <1>1, <1>5 DEF IInv, Isolation
<1> QED
  BY <1>3, <1>4, <1>6 DEF IInv

(* A contact list is adopted only if it is the viewer's.                   *)
LEMMA ContactsListedInv == ASSUME IInv, ContactsListed PROVE IInv'
<1>1. PICK f \in flights :
        /\ IF AdoptsContacts(f)
             THEN \E owners \in {{}, {f.account}} : held' = [held EXCEPT !["contacts"] = owners]
             ELSE UNCHANGED held
        /\ Resume(f, {})
        /\ UNCHANGED << viewer, saved >>
  BY DEF ContactsListed
<1>2. flights' \subseteq flights /\ "contacts" \in Field
  BY <1>1 DEF Resume, Field
<1>3. CASE AdoptsContacts(f)
  <2>1. PICK owners \in {{}, {f.account}} : held' = [held EXCEPT !["contacts"] = owners]
    BY <1>1, <1>3
  <2>2. owners \subseteq {viewer}
    BY <1>3, <2>1 DEF AdoptsContacts
  <2> QED
    BY <1>1, <1>2, <2>1, <2>2, FieldStep
<1>4. CASE ~AdoptsContacts(f)
  <2>1. UNCHANGED << viewer, held, saved >>
    BY <1>1, <1>4
  <2> QED
    BY <1>2, <2>1, EndStep
<1> QED
  BY <1>3, <1>4

(* The mutes that were decrypted are the viewer's still.                   *)
LEMMA DecryptedInv == ASSUME IInv, Decrypted PROVE IInv'
<1>1. PICK f \in flights :
        /\ f.await = "decrypt"
        /\ held' = [held EXCEPT !["mutes"] = @ \cup {f.account}]
        /\ Resume(f, {})
        /\ UNCHANGED << viewer, saved >>
  BY DEF Decrypted
<1>2. f.account = viewer
  BY <1>1 DEF IInv, Carried, Unguarded
<1>3. "mutes" \in Field /\ held["mutes"] \cup {f.account} \subseteq {viewer}
  BY <1>2 DEF IInv, Isolation, Field
<1>4. held' = [held EXCEPT !["mutes"] = held["mutes"] \cup {f.account}]
  BY <1>1
<1>5. flights' \subseteq flights
  BY <1>1 DEF Resume
<1> QED
  BY <1>1, <1>3, <1>4, <1>5, FieldStep

(* Storage survives a reload, and the rest starts anew.                    *)
LEMMA ReloadInv == ASSUME IInv, Reload PROVE IInv'
<1>1. Nothing \in Held /\ \A f \in Field : Nothing[f] = {}
  BY DEF Nothing, Held
<1> QED
  BY <1>1 DEF IInv, Typed, Isolation, Carried, Reload, Viewer

-----------------------------------------------------------------------------
LEMMA NextInv ==
  ASSUME IInv, Raceable \cap Unguarded = {}, [Next]_vars
  PROVE  IInv'
<1>0. /\ NoViewer \in Viewer /\ TRUE \in BOOLEAN /\ FALSE \in BOOLEAN
      /\ {"read-admin", "write-admin", "list-contacts"} \subseteq Await \ Unguarded
  BY DEF Viewer, Await, Unguarded
<1>1. CASE SetViewer
  BY <1>1, SetViewerInv
<1>2. CASE HostSets
  BY <1>2, HostSetsInv
<1>3. CASE Hydrate
  BY <1>0, <1>3, StartStep DEF Hydrate
<1>4. CASE AdminRead
  BY <1>4, AdminReadInv
<1>5. CASE ViewerRead
  BY <1>5, ViewerReadInv
<1>6. CASE Persist
  BY <1>0, <1>6, StartStep DEF Persist
<1>7. CASE Listed
  <2>1. PICK f \in flights :
          /\ Resume(f, {Waiting("write-admin", FALSE, NoViewer, None)})
          /\ UNCHANGED << viewer, held, saved >>
    BY <1>7 DEF Listed
  <2> DEFINE w == Waiting("write-admin", FALSE, NoViewer, None)
  <2>2. w \in Flight /\ w.await \notin Unguarded
    BY <1>0, WaitingType
  <2>3. flights' \subseteq flights \cup {w}
    BY <2>1 DEF Resume
  <2> HIDE DEF w
  <2> QED
    BY <2>1, <2>2, <2>3, FlightsStep
<1>8. CASE AdminWritten
  BY <1>8, AdminWrittenInv
<1>9. CASE LoadContacts
  <2>1. PICK a \in Account : Start(Waiting("list-contacts", FALSE, a, None))
    BY <1>9 DEF LoadContacts
  <2>2. a \in Viewer /\ UNCHANGED << viewer, held, saved >>
    BY <1>9 DEF LoadContacts, Viewer
  <2> QED
    BY <1>0, <2>1, <2>2, StartStep
<1>10. CASE ContactsListed
  BY <1>10, ContactsListedInv
<1>11. CASE AbsorbPrivateMutes
  <2> DEFINE w == Waiting("decrypt", FALSE, viewer, None)
  <2>1. viewer \in Viewer /\ "decrypt" \in Await
    BY DEF IInv, Typed, Await
  <2>2. w \in Flight /\ w.account = viewer /\ w.data = None
    BY <2>1 DEF Waiting, Flight
  <2>3. flights' = flights \cup {w} /\ UNCHANGED << viewer, held, saved >>
    BY <1>11 DEF AbsorbPrivateMutes, Start
  <2> HIDE DEF w
  <2>4. Typed' /\ Isolation'
    BY <2>2, <2>3 DEF IInv, Typed, Isolation
  <2>5. Carried'
    BY <2>2, <2>3 DEF IInv, Carried, OwnedBy
  <2> QED
    BY <2>4, <2>5 DEF IInv
<1>12. CASE Decrypted
  BY <1>12, DecryptedInv
<1>13. CASE Fail
  <2>1. flights' \subseteq flights /\ UNCHANGED << viewer, held, saved >>
    BY <1>13 DEF Fail, Resume
  <2> QED
    BY <2>1, EndStep
<1>14. CASE Reload
  BY <1>14, ReloadInv
<1>15. CASE UNCHANGED vars
  <2>1. flights' \subseteq flights /\ UNCHANGED << viewer, held, saved >>
    BY <1>15 DEF vars
  <2> QED
    BY <2>1, EndStep
<1> QED
  BY <1>1, <1>2, <1>3, <1>4, <1>5, <1>6, <1>7, <1>8, <1>9, <1>10, <1>11,
     <1>12, <1>13, <1>14, <1>15 DEF Next

(* "One account's blocks, mutes, and overrides can never leak into         *)
(* another's session" (runtime.js:1130-1131), nor into its saved state, if *)
(* no switch comes between the start of a viewer read or a decryption and  *)
(* its answer. All other operations may race a switch.                     *)
THEOREM SessionsIsolated ==
  ASSUME Raceable \cap Unguarded = {}
  PROVE  Spec => []Isolation
<1>1. Init => IInv
  BY InitInv
<1>2. IInv /\ [Next]_vars => IInv'
  BY NextInv
<1>3. IInv => Isolation
  BY DEF IInv
<1> QED
  BY <1>1, <1>2, <1>3, PTL DEF Spec

-----------------------------------------------------------------------------
(* The types, whatever races what: the operations that wait are counted.   *)
FlightsTyped ==
  /\ flights \subseteq Flight
  /\ IsFiniteSet(flights) /\ Cardinality(flights) <= MaxFlights
  /\ \A f \in flights : f.data # None => f.await = "read-viewer"

TInv == Typed /\ FlightsTyped

LEMMA OneMore ==
  ASSUME NEW S, IsFiniteSet(S), NEW x
  PROVE  IsFiniteSet(S \cup {x}) /\ Cardinality(S \cup {x}) <= Cardinality(S) + 1
<1>1. /\ IsFiniteSet(S \cup {x})
      /\ Cardinality(S \cup {x}) = IF x \in S THEN Cardinality(S) ELSE Cardinality(S) + 1
  BY FS_AddElement
<1>2. Cardinality(S) \in Nat
  BY FS_CardinalityType
<1> QED
  BY <1>1, <1>2

LEMMA StartTyped ==
  ASSUME FlightsTyped, NEW w \in Flight, w.data = None, Start(w)
  PROVE  FlightsTyped'
<1>1. flights' = flights \cup {w} /\ Cardinality(flights) < MaxFlights
  BY DEF Start
<1>2. IsFiniteSet(flights') /\ Cardinality(flights') <= Cardinality(flights) + 1
  BY <1>1, OneMore DEF FlightsTyped
<1>3. Cardinality(flights') <= MaxFlights
  BY <1>1, <1>2, FS_CardinalityType, ViewerAssumption DEF FlightsTyped
<1> QED
  BY <1>1, <1>2, <1>3 DEF FlightsTyped

(* What goes on takes the place of what has answered.                      *)
LEMMA ResumeTyped ==
  ASSUME FlightsTyped, NEW f \in flights, NEW next, next \subseteq Flight,
         next = {} \/ \E w : next = {w},
         \A w \in next : w.data # None => w.await = "read-viewer",
         Resume(f, next)
  PROVE  FlightsTyped'
<1>1. flights' = (flights \ {f}) \cup next
  BY DEF Resume
<1>2. /\ IsFiniteSet(flights \ {f})
      /\ Cardinality(flights \ {f}) = Cardinality(flights) - 1
  BY FS_RemoveElement DEF FlightsTyped
<1>3. IsFiniteSet(flights') /\ Cardinality(flights') <= Cardinality(flights)
  <2>1. CASE next = {}
    BY <1>1, <1>2, <2>1, FS_CardinalityType DEF FlightsTyped
  <2>2. CASE next # {}
    <3>1. PICK w : next = {w}
      BY <2>2
    <3>2. flights' = (flights \ {f}) \cup {w}
      BY <1>1, <3>1
    <3>3. /\ IsFiniteSet(flights')
          /\ Cardinality(flights') <= Cardinality(flights \ {f}) + 1
      BY <1>2, <3>2, OneMore
    <3>4. Cardinality(flights) \in Nat /\ Cardinality(flights') \in Nat
      BY <3>3, FS_CardinalityType DEF FlightsTyped
    <3> QED
      BY <1>2, <3>3, <3>4
  <2> QED
    BY <2>1, <2>2
<1>4. Cardinality(flights') <= MaxFlights
  BY <1>3, FS_CardinalityType, ViewerAssumption DEF FlightsTyped
<1> QED
  BY <1>1, <1>3, <1>4 DEF FlightsTyped

LEMMA EndTyped ==
  ASSUME FlightsTyped, NEW f \in flights, Resume(f, {})
  PROVE  FlightsTyped'
BY ResumeTyped, Zenon

LEMMA AfterHydrateTyped ==
  ASSUME NEW f
  PROVE  /\ AfterHydrate(f) \subseteq Flight
         /\ AfterHydrate(f) = {} \/ \E w : AfterHydrate(f) = {w}
         /\ \A w \in AfterHydrate(f) : w.data = None
<1> DEFINE w == Waiting("list-admin", TRUE, NoViewer, None)
<1>1. w \in Flight /\ w.data = None
  BY DEF Waiting, Flight, Viewer, Await
<1>2. AfterHydrate(f) = {} \/ AfterHydrate(f) = {w}
  BY DEF AfterHydrate
<1> HIDE DEF w
<1> QED
  BY <1>1, <1>2

-----------------------------------------------------------------------------
LEMMA InitTyped == Init => TInv
<1> SUFFICES ASSUME Init PROVE TInv
  OBVIOUS
<1>1. flights = {} /\ IsFiniteSet({}) /\ Cardinality({}) = 0
  BY FS_EmptySet DEF Init
<1> QED
  BY <1>1, InitInv, ViewerAssumption DEF IInv, TInv, FlightsTyped

LEMMA BeginsTyped ==
  ASSUME TInv, Hydrate \/ Persist \/ LoadContacts \/ AbsorbPrivateMutes
  PROVE  TInv'
<1>1. viewer \in Viewer /\ NoViewer \in Viewer
  BY DEF TInv, Typed, Viewer
<1>2. PICK await \in Await, load \in BOOLEAN, account \in Viewer :
        Start(Waiting(await, load, account, None))
  <2>1. CASE Hydrate
    BY <1>1, <2>1 DEF Hydrate, Await
  <2>2. CASE Persist
    BY <1>1, <2>2 DEF Persist, Await
  <2>3. CASE LoadContacts
    BY <1>1, <2>3 DEF LoadContacts, Await, Viewer
  <2>4. CASE AbsorbPrivateMutes
    BY <1>1, <2>4 DEF AbsorbPrivateMutes, Await
  <2> QED
    BY <2>1, <2>2, <2>3, <2>4
<1>3. UNCHANGED << viewer, held, saved >>
  BY DEF Hydrate, Persist, LoadContacts, AbsorbPrivateMutes
<1> DEFINE w == Waiting(await, load, account, None)
<1>4. w \in Flight /\ w.data = None
  BY DEF Waiting, Flight
<1>5. Start(w)
  BY <1>2
<1> HIDE DEF w
<1>6. FlightsTyped'
  BY <1>4, <1>5, StartTyped DEF TInv
<1> QED
  BY <1>3, <1>6 DEF TInv, Typed, FlightsTyped

LEMMA AdminReadTyped == ASSUME TInv, AdminRead PROVE TInv'
<1>1. PICK f \in flights :
        /\ \/ Resume(f, AfterHydrate(f))
           \/ viewer # NoViewer
                /\ Resume(f, {Waiting("read-viewer", f.load, viewer, saved[viewer])})
        /\ UNCHANGED << viewer, held, saved >>
  BY DEF AdminRead
<1>2. f \in Flight
  BY DEF TInv, Typed
<1>3. FlightsTyped'
  <2>1. CASE Resume(f, AfterHydrate(f))
    BY <2>1, AfterHydrateTyped, ResumeTyped DEF TInv
  <2>2. CASE /\ viewer # NoViewer
             /\ Resume(f, {Waiting("read-viewer", f.load, viewer, saved[viewer])})
    <3> DEFINE w == Waiting("read-viewer", f.load, viewer, saved[viewer])
    <3>1. viewer \in Account /\ saved[viewer] \in Held \cup {None}
      BY <2>2 DEF TInv, Typed, Viewer
    <3>2. w \in Flight /\ w.await = "read-viewer"
      BY <1>2, <3>1 DEF Waiting, Flight, Await, Viewer
    <3>3. Resume(f, {w})
      BY <2>2
    <3> HIDE DEF w
    <3> QED
      BY <3>2, <3>3, ResumeTyped DEF TInv
  <2> QED
    BY <1>1, <2>1, <2>2
<1> QED
  BY <1>1, <1>3 DEF TInv, Typed, FlightsTyped

LEMMA ViewerReadTyped == ASSUME TInv, ViewerRead PROVE TInv'
<1>1. PICK f \in flights :
        /\ held' = IF f.data = None THEN held ELSE Restored(f.data)
        /\ Resume(f, AfterHydrate(f))
        /\ UNCHANGED << viewer, saved >>
  BY DEF ViewerRead
<1>2. f \in Flight /\ held \in Held
  BY DEF TInv, Typed
<1>3. FlightsTyped'
  BY <1>1, AfterHydrateTyped, ResumeTyped DEF TInv
<1>4. held' \in Held
  <2>1. CASE f.data = None
    BY <1>1, <1>2, <2>1
  <2>2. CASE f.data # None
    <3>1. f.data \in Held
      BY <1>2, <2>2 DEF Flight
    <3>2. held' = [f.data EXCEPT !["overrides"] = f.data["overrides"] \cup held["overrides"]]
      BY <1>1, <2>2 DEF Restored
    <3> QED
      BY <1>2, <3>1, <3>2 DEF Held, Field
  <2> QED
    BY <2>1, <2>2
<1> QED
  BY <1>1, <1>3, <1>4 DEF TInv, Typed, FlightsTyped

LEMMA AnsweredTyped ==
  ASSUME TInv, Listed \/ AdminWritten \/ ContactsListed \/ Decrypted \/ Fail
  PROVE  TInv'
<1>1. FlightsTyped'
  <2>1. CASE Listed
    <3>1. PICK f \in flights : Resume(f, {Waiting("write-admin", FALSE, NoViewer, None)})
      BY <2>1 DEF Listed
    <3> DEFINE w == Waiting("write-admin", FALSE, NoViewer, None)
    <3>2. w \in Flight /\ w.data = None
      BY DEF Waiting, Flight, Await, Viewer
    <3>3. Resume(f, {w})
      BY <3>1
    <3> HIDE DEF w
    <3> QED
      BY <3>2, <3>3, ResumeTyped DEF TInv
  <2>2. CASE AdminWritten \/ ContactsListed \/ Decrypted \/ Fail
    <3>1. PICK f \in flights : Resume(f, {})
      BY <2>2 DEF AdminWritten, ContactsListed, Decrypted, Fail
    <3> QED
      BY <3>1, EndTyped DEF TInv
  <2> QED
    BY <2>1, <2>2
<1>2. viewer' \in Viewer
  BY DEF Listed, AdminWritten, ContactsListed, Decrypted, Fail, TInv, Typed
<1>3. held' \in Held
  <2>1. CASE Listed \/ AdminWritten \/ Fail
    BY <2>1 DEF Listed, AdminWritten, Fail, TInv, Typed
  <2>2. CASE ContactsListed
    <3>1. PICK f \in flights :
            IF AdoptsContacts(f)
              THEN \E owners \in {{}, {f.account}} : held' = [held EXCEPT !["contacts"] = owners]
              ELSE UNCHANGED held
      BY <2>2 DEF ContactsListed
    <3>2. f.account \in Viewer
      BY DEF TInv, Typed, Flight
    <3> QED
      BY <3>1, <3>2 DEF TInv, Typed, Held
  <2>3. CASE Decrypted
    <3>1. PICK f \in flights : held' = [held EXCEPT !["mutes"] = held["mutes"] \cup {f.account}]
      BY <2>3 DEF Decrypted
    <3>2. f.account \in Viewer /\ "mutes" \in Field
      BY DEF TInv, Typed, Flight, Field
    <3> QED
      BY <3>1, <3>2 DEF TInv, Typed, Held
  <2> QED
    BY <2>1, <2>2, <2>3
<1>4. saved' \in [Account -> Held \cup {None}]
  BY DEF Listed, AdminWritten, ContactsListed, Decrypted, Fail, TInv, Typed
<1> QED
  BY <1>1, <1>2, <1>3, <1>4 DEF TInv, Typed, FlightsTyped

LEMMA SwitchTyped == ASSUME TInv, SetViewer \/ HostSets \/ Reload PROVE TInv'
<1>1. Nothing \in Held /\ NoViewer \in Viewer /\ viewer \in Viewer
  BY DEF Nothing, Held, Viewer, TInv, Typed
<1>2. held' \in Held /\ viewer' \in Viewer /\ saved' = saved
  <2>1. CASE SetViewer \/ Reload
    BY <1>1, <2>1 DEF SetViewer, Reload
  <2>2. CASE HostSets
    <3>1. \E f \in Field, owners \in SUBSET Viewer : held' = [held EXCEPT ![f] = owners]
      BY <1>1, <2>2 DEF HostSets, Field, TInv, Typed, Held
    <3> QED
      BY <1>1, <2>2, <3>1 DEF HostSets, TInv, Typed, Held
  <2> QED
    BY <2>1, <2>2
<1>3. FlightsTyped'
  <2>1. CASE flights' = flights
    BY <2>1 DEF TInv, FlightsTyped
  <2>2. CASE flights' = {}
    <3>1. IsFiniteSet({}) /\ Cardinality({}) = 0
      BY FS_EmptySet
    <3> QED
      BY <2>2, <3>1, ViewerAssumption DEF FlightsTyped
  <2> QED
    BY <2>1, <2>2 DEF SetViewer, HostSets, Reload
<1> QED
  BY <1>2, <1>3 DEF TInv, Typed, FlightsTyped

(* The session's variables keep their types, and only what a read of the   *)
(* viewer's cache brings is carried past an await, with or without races.  *)
THEOREM TypeCorrect == Spec => []TypeOK
<1>1. TInv /\ [Next]_vars => TInv'
  <2> SUFFICES ASSUME TInv, [Next]_vars PROVE TInv'
    OBVIOUS
  <2>1. CASE UNCHANGED vars
    BY <2>1 DEF vars, TInv, Typed, FlightsTyped
  <2> QED
    BY <2>1, BeginsTyped, AdminReadTyped, ViewerReadTyped, AnsweredTyped, SwitchTyped DEF Next
<1>2. TInv => TypeOK
  BY DEF TInv, Typed, FlightsTyped, TypeOK
<1> QED
  BY <1>1, <1>2, InitTyped, PTL DEF Spec
=============================================================================
