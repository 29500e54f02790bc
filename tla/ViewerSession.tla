---------------------------- MODULE ViewerSession ----------------------------
(***************************************************************************)
(* The viewer's own state in the runtime (packages/runtime/src/runtime.js):*)
(* contacts, blocks, mutes and overrides, the storage they are written to, *)
(* and the asynchronous operations that may still be waiting when the      *)
(* application switches to another account.                                *)
(*                                                                         *)
(* What matters of a piece of viewer state is whose it is: a field holds   *)
(* the set of the accounts whose data is in it. An operation is a flight   *)
(* for as long as it waits; what it does before, between and after its     *)
(* awaits is a step each. Two calls of one operation that wait for the     *)
(* same thing are one flight.                                              *)
(***************************************************************************)
EXTENDS Naturals, FiniteSets

CONSTANTS
  Account,       \* Pubkeys that may be the viewer.
  NoViewer,      \* The empty pubkey: nobody is signed in.
  None,          \* Nothing saved.
  Raceable,      \* Awaits during which the application may switch viewers.
  MaxFlights     \* Bound on the operations that wait at once.

Viewer == Account \cup {NoViewer}
Field == {"contacts", "blocks", "mutes", "overrides"}
Held == [Field -> SUBSET Viewer]
Nothing == [f \in Field |-> {}]

(* Where an operation may wait: for the administrative or the viewer's     *)
(* part of the cache, for relays, for the administrative part to be        *)
(* written, for a signer to decrypt.                                       *)
Await == {"read-admin", "read-viewer", "list-admin", "write-admin",
          "list-contacts", "decrypt"}

(* A load is a hydrate that goes on to query relays and to persist.        *)
Flight ==
  [ await : Await, load : BOOLEAN, account : Viewer, data : Held \cup {None} ]

ASSUME ViewerAssumption ==
  /\ NoViewer \notin Account /\ None \notin Held
  /\ Raceable \subseteq Await /\ MaxFlights \in Nat

VARIABLES
  viewer,     \* viewerPubkey.
  held,       \* The trust and override stores' viewer state.
  saved,      \* Account -> what persist() last wrote under its key, or None.
  flights     \* Operations that wait.

vars == << viewer, held, saved, flights >>

Init ==
  /\ viewer = NoViewer
  /\ held = Nothing
  /\ saved = [a \in Account |-> None]
  /\ flights = {}

Waiting(await, load, account, data) ==
  [await |-> await, load |-> load, account |-> account, data |-> data]

Start(flight) ==
  /\ Cardinality(flights) < MaxFlights
  /\ flights' = flights \cup {flight}

(* A fault: what was awaited is answered again.                            *)
ResumeAgain(flight, next) == flights' = flights \cup next

Resume(flight, next) == flights' = (flights \ {flight}) \cup next

-----------------------------------------------------------------------------
(* setViewer: whatever belongs to the previous viewer is cleared.          *)
SetViewer ==
  /\ \A f \in flights : f.await \in Raceable
  /\ viewer' \in Viewer \ {viewer}
  /\ held' = Nothing
  /\ UNCHANGED << saved, flights >>

(* The application seeds contacts, blocks or mutes, which replaces them;   *)
(* an override is added to the others, or removed.                         *)
HostSets ==
  /\ \/ \E f \in Field \ {"overrides"}, owners \in {{}, {viewer}} :
          held' = [held EXCEPT ![f] = owners]
     \/ \E owners \in (SUBSET held["overrides"]) \cup {held["overrides"] \cup {viewer}} :
          held' = [held EXCEPT !["overrides"] = owners]
  /\ UNCHANGED << viewer, saved, flights >>

-----------------------------------------------------------------------------
(* hydrate, alone or as the first part of loadAdministrativeState.         *)
Hydrate ==
  /\ \E load \in BOOLEAN : Start(Waiting("read-admin", load, NoViewer, None))
  /\ UNCHANGED << viewer, held, saved >>

(* What a hydrate that is done leaves: a load goes on to list.             *)
AfterHydrate(f) ==
  IF f.load THEN {Waiting("list-admin", TRUE, NoViewer, None)} ELSE {}

(* The administrative part was read: a cache of another root ends the      *)
(* hydrate; else the current viewer's part is read next.                   *)
AdminRead ==
  \E f \in flights :
    /\ f.await = "read-admin"
    /\ \/ Resume(f, AfterHydrate(f))
       \/ viewer # NoViewer
            /\ Resume(f, {Waiting("read-viewer", f.load, viewer, saved[viewer])})
    /\ UNCHANGED << viewer, held, saved >>

(* The viewer's part was read: it replaces what is held, except that       *)
(* overrides are set one by one.                                           *)
Restored(data) == [data EXCEPT !["overrides"] = @ \cup held["overrides"]]

ViewerRead ==
  \E f \in flights :
    /\ f.await = "read-viewer"
    /\ held' = IF f.data = None THEN held ELSE Restored(f.data)
    /\ Resume(f, AfterHydrate(f))
    /\ UNCHANGED << viewer, saved >>

(* persist, alone or once the documents of a load were ingested.           *)
Persist ==
  /\ Start(Waiting("write-admin", FALSE, NoViewer, None))
  /\ UNCHANGED << viewer, held, saved >>

Listed ==
  \E f \in flights :
    /\ f.await = "list-admin"
    /\ Resume(f, {Waiting("write-admin", FALSE, NoViewer, None)})
    /\ UNCHANGED << viewer, held, saved >>

(* The administrative part was written: what is held now goes under the    *)
(* key of who is the viewer now.                                           *)
AdminWritten ==
  \E f \in flights :
    /\ f.await = "write-admin"
    /\ saved' = IF viewer = NoViewer THEN saved ELSE [saved EXCEPT ![viewer] = held]
    /\ Resume(f, {})
    /\ UNCHANGED << viewer, held >>

-----------------------------------------------------------------------------
(* loadContacts, or a contact list that arrives live: it waits for relays  *)
(* or for the verifier, and is adopted if its owner is the viewer then.    *)
LoadContacts ==
  /\ \E a \in Account : Start(Waiting("list-contacts", FALSE, a, None))
  /\ UNCHANGED << viewer, held, saved >>

(* A fault: the owner is not compared with the viewer of the moment.       *)
AdoptsAnyContacts(flight) == flight.account # NoViewer

AdoptsContacts(flight) == flight.account = viewer

ContactsListed ==
  \E f \in flights :
    /\ f.await = "list-contacts"
    /\ IF AdoptsContacts(f)
         THEN \E owners \in {{}, {f.account}} : held' = [held EXCEPT !["contacts"] = owners]
         ELSE UNCHANGED held
    /\ Resume(f, {})
    /\ UNCHANGED << viewer, saved >>

(* The viewer's own mute list has encrypted entries: the signer is asked   *)
(* for them and nobody waits for the answer.                               *)
AbsorbPrivateMutes ==
  /\ viewer # NoViewer
  /\ Start(Waiting("decrypt", FALSE, viewer, None))
  /\ UNCHANGED << viewer, held, saved >>

(* They are added to the mutes that are held when the answer arrives.      *)
Decrypted ==
  \E f \in flights :
    /\ f.await = "decrypt"
    /\ held' = [held EXCEPT !["mutes"] = @ \cup {f.account}]
    /\ Resume(f, {})
    /\ UNCHANGED << viewer, saved >>

(* An awaited call rejects, or yields nothing to apply. *)
Fail ==
  \E f \in flights : Resume(f, {}) /\ UNCHANGED << viewer, held, saved >>

(* The page is reloaded: only storage survives.                            *)
Reload ==
  /\ viewer' = NoViewer /\ held' = Nothing /\ flights' = {}
  /\ UNCHANGED saved

Next ==
  \/ SetViewer           \/ HostSets
  \/ Hydrate             \/ AdminRead       \/ ViewerRead
  \/ Persist             \/ Listed          \/ AdminWritten
  \/ LoadContacts        \/ ContactsListed
  \/ AbsorbPrivateMutes  \/ Decrypted
  \/ Fail                \/ Reload

Spec == Init /\ [][Next]_vars

-----------------------------------------------------------------------------
(* The variables have their types; only an operation that was begun for an *)
(* account carries that account's data.                                    *)
TypeOK ==
  /\ viewer \in Viewer /\ held \in Held
  /\ saved \in [Account -> Held \cup {None}]
  /\ flights \subseteq Flight /\ Cardinality(flights) <= MaxFlights
  /\ \A f \in flights : f.data # None => f.await = "read-viewer"

(* "Viewer-specific state is cleared so one account's blocks, mutes, and   *)
(* overrides can never leak into another's session" (runtime.js:1130-1131):*)
(* what is held is the viewer's, and so is what is saved under its key.    *)
Isolation ==
  /\ \A f \in Field : held[f] \subseteq {viewer}
  /\ \A a \in Account : saved[a] # None => \A f \in Field : saved[a][f] \subseteq {a}
=============================================================================
