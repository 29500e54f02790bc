------------------------ MODULE RelayTransportProofs ------------------------
(***************************************************************************)
(* The safety of RelayTransport for any relays, any calls and any number   *)
(* of broken sockets.                                                      *)
(*                                                                         *)
(* The type invariant needs that only configured relays are given events   *)
(* (Confined). Each property then needs something of its own: that relays  *)
(* are connected to (Connected), that ids of calls to come were never      *)
(* requested (Unrequested), that a relay answers once (Tallied).           *)
(***************************************************************************)
EXTENDS RelayTransport, FiniteSetTheorems, TLAPS

(* Relays that calls name are sent no events, and so answer none.          *)
Confined == \A u \in Outbox : queue[u] = {} /\ unanswered[u] \cap Publish = {}

Typed == TypeOK /\ Confined

(* Configured relays are never without a connection, unless it is refused. *)
Connected == ~closed => \A u \in Relay : socket[u] # "none"

(* Ids of calls that have not begun were never requested.                  *)
Unrequested ==
  \A i \in Id : status[i] = "idle" =>
    i \notin subscriptions /\ \A u \in Url : requests[u][i] = 0

(* A relay has one answer, and nobody is late for a publish under way.     *)
Tallied ==
  \A p \in Publish : /\ accepted[p] \cap rejected[p] = {}
                     /\ status[p] # "done" => timedOut[p] = {}

-----------------------------------------------------------------------------
(* Connecting leaves relays connecting, refused, or with a timer.          *)
LEMMA ConnectionStates ==
  ASSUME NEW u, NEW thrown
  PROVE  /\ Connection(u, thrown) \in {"refused", "down", "connecting"}
         /\ Connection(u, thrown) = "refused" <=> u \in malformed
         /\ Connection(u, thrown) = "down" <=> u \in thrown \ malformed
BY DEF Connection

LEMMA ConnectingStep ==
  ASSUME TypeOK, NEW us \in SUBSET Url, Connecting(us)
  PROVE  /\ socket' \in [Url -> SocketState] /\ retry' \in [Url -> BOOLEAN]
         /\ \A u \in Url \ us : socket'[u] = socket[u] /\ retry'[u] = retry[u]
         /\ \A u \in us : \/ socket'[u] = "connecting" /\ ~retry'[u]
                          \/ socket'[u] = "down" /\ retry'[u]
                          \/ socket'[u] = "refused" /\ u \in malformed
<1>1. PICK thrown \in SUBSET us :
        /\ socket' = [u \in Url |-> IF u \in us THEN Connection(u, thrown) ELSE socket[u]]
        /\ retry' = [u \in Url |-> IF u \in us THEN u \in thrown \ malformed ELSE retry[u]]
  BY DEF Connecting
<1>2. \A u \in us : /\ socket'[u] = Connection(u, thrown)
                    /\ retry'[u] = (u \in thrown \ malformed)
  BY <1>1
<1>3. \A u \in us : Connection(u, thrown) \in SocketState
  BY ConnectionStates DEF SocketState
<1>4. socket' \in [Url -> SocketState] /\ retry' \in [Url -> BOOLEAN]
  <2>1. \A u \in Url : socket[u] \in SocketState /\ retry[u] \in BOOLEAN
    BY DEF TypeOK
  <2>2. socket' \in [Url -> SocketState]
    BY <1>1, <1>3, <2>1
  <2>3. \A u \in Url :
          (IF u \in us THEN u \in thrown \ malformed ELSE retry[u]) \in BOOLEAN
    <3>1. TAKE u \in Url
    <3>2. CASE u \in us
      BY <3>2
    <3>3. CASE u \notin us
      BY <2>1, <3>3
    <3> QED
      BY <3>2, <3>3
  <2>4. retry' \in [Url -> BOOLEAN]
    BY <1>1, <2>3
  <2> QED
    BY <2>2, <2>4
<1>5. \A u \in Url \ us : socket'[u] = socket[u] /\ retry'[u] = retry[u]
  BY <1>1
<1>6. \A u \in us : \/ socket'[u] = "connecting" /\ ~retry'[u]
                    \/ socket'[u] = "down" /\ retry'[u]
                    \/ socket'[u] = "refused" /\ u \in malformed
  BY <1>2, ConnectionStates
<1> QED
  BY <1>4, <1>5, <1>6

(* Resolving connects relays that have no connection, and no others.       *)
LEMMA ResolveStep ==
  ASSUME TypeOK, NEW us \in SUBSET Url, Resolve(us)
  PROVE  /\ socket' \in [Url -> SocketState] /\ retry' \in [Url -> BOOLEAN]
         /\ \A u \in Url :
              \/ socket'[u] = socket[u] /\ retry'[u] = retry[u]
              \/ ~closed /\ socket'[u] = "connecting" /\ ~retry'[u]
              \/ ~closed /\ socket'[u] = "down" /\ retry'[u]
              \/ ~closed /\ socket'[u] = "refused" /\ u \in malformed
<1>1. CASE closed
  BY <1>1 DEF Resolve, TypeOK
<1>2. CASE ~closed
  <2> DEFINE fresh == {u \in us : socket[u] = "none"}
  <2>1. fresh \in SUBSET Url /\ Connecting(fresh)
    BY <1>2 DEF Resolve
  <2> HIDE DEF fresh
  <2> QED
    BY <1>2, <2>1, ConnectingStep
<1> QED
  BY <1>1, <1>2

(* What calls name are relays, finitely many.                              *)
LEMMA ChoicesAreRelays ==
  ASSUME NEW us \in Choices
  PROVE  us \in SUBSET Url /\ Cardinality(us) \in Nat
<1>1. us \subseteq Url
  BY UrlAssumption DEF Choices, Url
<1>2. IsFiniteSet(us) /\ Cardinality(us) \in Nat
  BY <1>1, UrlAssumption, FS_Subset, FS_CardinalityType
<1> QED
  BY <1>1, <1>2

-----------------------------------------------------------------------------
(* Types. *)

LEMMA InitTyped == Init => Typed
<1> SUFFICES ASSUME Init PROVE Typed
  OBVIOUS
<1>1. PICK thrown \in SUBSET Relay :
        socket = [u \in Url |-> IF u \in Outbox THEN "none" ELSE Connection(u, thrown)]
  BY DEF Init
<1>2. \A u \in Url : (IF u \in Outbox THEN "none" ELSE Connection(u, thrown)) \in SocketState
  BY ConnectionStates DEF SocketState
<1>3. socket \in [Url -> SocketState] /\ retry \in [Url -> BOOLEAN]
  BY <1>1, <1>2 DEF Init
<1>4. requests \in [Url -> [Id -> Nat]]
  BY DEF Init, NoRequests
<1>5. Confined
  BY DEF Init, Confined, Url
<1>6. /\ malformed \in Unusable /\ closed \in BOOLEAN
      /\ queue \in [Url -> SUBSET Publish] /\ sent \in [Url -> SUBSET Publish]
      /\ unanswered \in [Url -> SUBSET Call]
  BY DEF Init
<1>8. /\ subscriptions \subseteq Id /\ targets \in [Id -> SUBSET Url]
      /\ status \in [Call -> {"idle", "pending", "done"}]
      /\ pendingEose \in [List -> Int]
  BY DEF Init
<1>7. {accepted, rejected, timedOut} \subseteq [Publish -> SUBSET Relay]
      /\ expired \subseteq Publish
  BY DEF Init
<1> QED
  BY <1>3, <1>4, <1>5, <1>6, <1>7, <1>8 DEF Typed, TypeOK

LEMMA RegisterTyped ==
  ASSUME Typed, NEW i \in Id, NEW us \in Choices, Register(i, us),
         pendingEose' \in [List -> Int]
  PROVE  Typed'
<1>1. us \in SUBSET Url
  BY ChoicesAreRelays
<1>2. socket' \in [Url -> SocketState] /\ retry' \in [Url -> BOOLEAN]
  BY <1>1, ResolveStep DEF Typed, Register
<1>3. /\ requests' \in [Url -> [Id -> Nat]]
      /\ unanswered' \in [Url -> SUBSET Call]
      /\ \A u \in Outbox : unanswered'[u] \cap Publish = {}
  BY CallAssumption DEF Typed, TypeOK, Confined, Register, SendRequest, Id, Call, Url
<1>4. queue' = queue /\ sent' = sent
  BY DEF Register, SendRequest
<1>5. /\ status' \in [Call -> {"idle", "pending", "done"}]
      /\ targets' \in [Id -> SUBSET Url] /\ subscriptions' \subseteq Id
  BY <1>1 DEF Typed, TypeOK, Register, Call
<1>6. UNCHANGED << malformed, closed, accepted, rejected, timedOut, expired >>
  BY DEF Register
<1> QED
  BY <1>2, <1>3, <1>4, <1>5, <1>6 DEF Typed, TypeOK, Confined

LEMMA FinishTyped ==
  ASSUME TypeOK, NEW i \in Id, Finish(i)
  PROVE  /\ status' \in [Call -> {"idle", "pending", "done"}]
         /\ subscriptions' \subseteq Id
         /\ requests' \in [Url -> [Id -> Nat]]
         /\ queue' = queue /\ sent' = sent
BY DEF TypeOK, Finish, SendClose, Call

LEMMA NextTyped == Typed /\ [Next]_vars => Typed'
<1> SUFFICES ASSUME Typed, [Next]_vars PROVE Typed'
  OBVIOUS
<1> USE DEF Typed
<1>1. ASSUME NEW u \in Url, Open(u) PROVE Typed'
  <2>1. requests' \in [Url -> [Id -> Nat]]
    BY <1>1 DEF Open, TypeOK
  <2>2. unanswered' \in [Url -> SUBSET Call]
    BY <1>1 DEF Open, TypeOK, Reissued, Call
  <2>3. /\ queue' \in [Url -> SUBSET Publish] /\ sent' \in [Url -> SUBSET Publish]
        /\ socket' \in [Url -> SocketState]
    BY <1>1 DEF Open, TypeOK, SocketState
  <2>4. Confined'
    BY <1>1, CallAssumption DEF Open, TypeOK, Confined, Reissued, Id, Url
  <2> QED
    BY <1>1, <2>1, <2>2, <2>3, <2>4 DEF Open, TypeOK, calls
<1>2. ASSUME NEW u \in Url, Break(u) PROVE Typed'
  <2>1. requests' \in [Url -> [Id -> Nat]]
    BY <1>2 DEF Break, TypeOK, NoRequests
  <2> QED
    BY <1>2, <2>1 DEF Break, TypeOK, Confined, calls, SocketState
<1>3. ASSUME NEW u \in Url, Reconnect(u) PROVE Typed'
  <2>1. socket' \in [Url -> SocketState] /\ retry' \in [Url -> BOOLEAN]
    BY <1>3, ConnectingStep DEF Reconnect
  <2> QED
    BY <1>3, <2>1 DEF Reconnect, TypeOK, Confined, calls
<1>4. ASSUME NEW u \in Url, NEW i \in Id, Eose(u, i) PROVE Typed'
  <2>1. /\ unanswered' \in [Url -> SUBSET Call]
        /\ \A v \in Outbox : unanswered'[v] \cap Publish = {}
    BY <1>4 DEF Eose, TypeOK, Confined, Url
  <2>2. pendingEose' \in [List -> Int]
    BY <1>4 DEF Eose, TypeOK
  <2>3. /\ status' \in [Call -> {"idle", "pending", "done"}]
        /\ subscriptions' \subseteq Id
        /\ requests' \in [Url -> [Id -> Nat]]
        /\ queue' = queue /\ sent' = sent
    BY <1>4, FinishTyped DEF Eose, TypeOK
  <2> QED
    BY <1>4, <2>1, <2>2, <2>3 DEF Eose, TypeOK, Confined
<1>5. ASSUME NEW u \in Url, NEW p \in Publish, Ok(u, p) PROVE Typed'
  <2>1. u \in Relay
    BY <1>5 DEF Ok, Confined, Url
  <2>2. /\ unanswered' \in [Url -> SUBSET Call]
        /\ \A v \in Outbox : unanswered'[v] \cap Publish = {}
    BY <1>5 DEF Ok, TypeOK, Confined, Url
  <2>3. /\ accepted' \in [Publish -> SUBSET Relay]
        /\ rejected' \in [Publish -> SUBSET Relay]
        /\ status' \in [Call -> {"idle", "pending", "done"}]
    <3>1. CASE status[p] = "pending" /\ u \notin Answered(p)
      <4>1. \/ accepted' = [accepted EXCEPT ![p] = @ \cup {u}] /\ rejected' = rejected
            \/ rejected' = [rejected EXCEPT ![p] = @ \cup {u}] /\ accepted' = accepted
        BY <1>5, <3>1 DEF Ok
      <4>2. status' \in {status, [status EXCEPT ![p] = "done"]}
        BY <1>5, <3>1 DEF Ok
      <4> QED
        <5>1. /\ accepted \in [Publish -> SUBSET Relay]
              /\ rejected \in [Publish -> SUBSET Relay]
              /\ status \in [Call -> {"idle", "pending", "done"}]
          BY DEF TypeOK
        <5>2. /\ accepted' \in [Publish -> SUBSET Relay]
              /\ rejected' \in [Publish -> SUBSET Relay]
          BY <4>1, <2>1, <5>1
        <5> QED
          BY <4>2, <5>1, <5>2 DEF Call
    <3>2. CASE ~(status[p] = "pending" /\ u \notin Answered(p))
      BY <1>5, <3>2 DEF Ok, TypeOK
    <3> QED
      BY <3>1, <3>2
  <2> QED
    BY <1>5, <2>2, <2>3 DEF Ok, TypeOK, Confined
<1>6. ASSUME NEW l \in List, StartList(l) PROVE Typed'
  <2>1. PICK us \in Choices :
          Register(l, us) /\ pendingEose' = [pendingEose EXCEPT ![l] = Cardinality(us)]
    BY <1>6 DEF StartList
  <2>2. pendingEose' \in [List -> Int]
    BY <2>1, ChoicesAreRelays DEF TypeOK
  <2> QED
    BY <2>1, <2>2, RegisterTyped DEF Id
<1>7. ASSUME NEW l \in List, ListTimeout(l) PROVE Typed'
  BY <1>7, FinishTyped DEF ListTimeout, TypeOK, Confined, Id
<1>8. ASSUME NEW i \in Sub, Subscribe(i) PROVE Typed'
  BY <1>8, RegisterTyped DEF Subscribe, Id, TypeOK
<1>9. ASSUME NEW i \in Sub, Unsubscribe(i) PROVE Typed'
  BY <1>9, FinishTyped DEF Unsubscribe, TypeOK, Confined, Id
<1>10. ASSUME NEW p \in Publish, StartPublish(p) PROVE Typed'
  <2>1. /\ sent' \in [Url -> SUBSET Publish] /\ queue' \in [Url -> SUBSET Publish]
        /\ unanswered' \in [Url -> SUBSET Call]
        /\ status' \in [Call -> {"idle", "pending", "done"}]
    BY <1>10 DEF StartPublish, SendEvent, TypeOK, Call
  <2>2. Confined'
    BY <1>10, UrlAssumption DEF StartPublish, SendEvent, TypeOK, Confined, Url
  <2> QED
    BY <1>10, <2>1, <2>2 DEF StartPublish, SendEvent, TypeOK
<1>11. ASSUME NEW p \in Publish, PublishTimeout(p) PROVE Typed'
  <2>1. timedOut' \in [Publish -> SUBSET Relay]
    BY <1>11 DEF PublishTimeout, Unheard, TypeOK
  <2> QED
    BY <1>11, <2>1 DEF PublishTimeout, TypeOK, Confined, net, Call
<1>12. CASE Close
  <2>1. requests' \in [Url -> [Id -> Nat]]
    BY <1>12 DEF Close, NoRequests
  <2> QED
    BY <1>12, <2>1 DEF Close, TypeOK, Confined, SocketState, Url
<1>13. CASE UNCHANGED vars
  BY <1>13 DEF vars, net, calls, TypeOK, Confined
<1> QED
  BY <1>1, <1>2, <1>3, <1>4, <1>5, <1>6, <1>7, <1>8, <1>9, <1>10, <1>11, <1>12, <1>13
  DEF Next

(* Every state of the transport has the types of TypeOK, whatever relays   *)
(* answer: in particular only configured relays are counted for a publish. *)
THEOREM TypeCorrect == Spec => []TypeOK
<1>1. Spec => []Typed
  BY InitTyped, NextTyped, PTL DEF Spec
<1> QED
  BY <1>1, PTL DEF Typed

-----------------------------------------------------------------------------
(* Relays are not given up. *)

LEMMA InitAbandonsNone == Init => NeverAbandoned /\ Connected
<1> SUFFICES ASSUME Init PROVE NeverAbandoned /\ Connected
  OBVIOUS
<1>1. PICK thrown \in SUBSET Relay :
        socket = [u \in Url |-> IF u \in Outbox THEN "none" ELSE Connection(u, thrown)]
  BY DEF Init
<1>2. \A u \in Url : retry[u] = (socket[u] = "down")
  BY DEF Init
<1>3. \A u \in Url : IF u \in Outbox THEN socket[u] = "none"
                                     ELSE socket[u] = Connection(u, thrown)
  BY <1>1
<1> QED
  <2>1. \A u \in Outbox : socket[u] = "none"
    BY <1>3 DEF Url
  <2>2. \A u \in Relay : /\ retry[u] = (socket[u] = "down")
                         /\ socket[u] \in {"refused", "down", "connecting"}
                         /\ socket[u] = "refused" => u \in malformed
    BY <1>2, <1>3, ConnectionStates, UrlAssumption DEF Url
  <2> QED
    BY <2>1, <2>2 DEF NeverAbandoned, Connected, Url

(* A step that leaves sockets alone, or connects those without a           *)
(* connection.                                                             *)
LEMMA ResolvingAbandonsNone ==
  ASSUME TypeOK, NeverAbandoned, Connected, NEW us \in SUBSET Url, Resolve(us),
         UNCHANGED << malformed, closed >>
  PROVE  NeverAbandoned' /\ Connected'
<1>1. CASE closed
  BY <1>1 DEF NeverAbandoned, Connected
<1>2. CASE ~closed
  <2>1. \A u \in Url :
          \/ socket'[u] = socket[u] /\ retry'[u] = retry[u]
          \/ socket'[u] = "connecting" /\ ~retry'[u]
          \/ socket'[u] = "down" /\ retry'[u]
          \/ socket'[u] = "refused" /\ u \in malformed
    BY ResolveStep
  <2> QED
    BY <1>2, <2>1 DEF NeverAbandoned, Connected, Url
<1> QED
  BY <1>1, <1>2

LEMMA NextAbandonsNone ==
  TypeOK /\ NeverAbandoned /\ Connected /\ [Next]_vars => NeverAbandoned' /\ Connected'
<1> SUFFICES ASSUME TypeOK, NeverAbandoned, Connected, [Next]_vars
             PROVE  NeverAbandoned' /\ Connected'
  OBVIOUS
<1>1. ASSUME UNCHANGED << malformed, closed, socket, retry >>
      PROVE  NeverAbandoned' /\ Connected'
  BY <1>1 DEF NeverAbandoned, Connected
<1>2. ASSUME NEW u \in Url, Open(u) PROVE NeverAbandoned' /\ Connected'
  BY <1>2 DEF Open, TypeOK, NeverAbandoned, Connected, Url
<1>3. ASSUME NEW u \in Url, Break(u) PROVE NeverAbandoned' /\ Connected'
  BY <1>3 DEF Break, TypeOK, NeverAbandoned, Connected, Url
<1>4. ASSUME NEW u \in Url, Reconnect(u) PROVE NeverAbandoned' /\ Connected'
  <2>1. /\ \A v \in Url \ {u} : socket'[v] = socket[v] /\ retry'[v] = retry[v]
        /\ \/ socket'[u] = "connecting" /\ ~retry'[u]
           \/ socket'[u] = "down" /\ retry'[u]
           \/ socket'[u] = "refused" /\ u \in malformed
    BY <1>4, ConnectingStep DEF Reconnect
  <2> QED
    BY <1>4, <2>1 DEF Reconnect, NeverAbandoned, Connected, Url
<1>5. ASSUME NEW i \in Id, NEW us \in Choices, Register(i, us)
      PROVE  NeverAbandoned' /\ Connected'
  BY <1>5, ChoicesAreRelays, ResolvingAbandonsNone DEF Register
<1>6. CASE Close
  BY <1>6 DEF Close, NeverAbandoned, Connected
<1>7. ASSUME NEW u \in Url, NEW i \in Id, Eose(u, i) PROVE NeverAbandoned' /\ Connected'
  BY <1>1, <1>7 DEF Eose
<1>8. ASSUME NEW u \in Url, NEW p \in Publish, Ok(u, p) PROVE NeverAbandoned' /\ Connected'
  BY <1>1, <1>8 DEF Ok
<1>9. ASSUME NEW l \in List, StartList(l) \/ ListTimeout(l)
      PROVE  NeverAbandoned' /\ Connected'
  BY <1>1, <1>5, <1>9 DEF StartList, ListTimeout, Id
<1>10. ASSUME NEW i \in Sub, Subscribe(i) \/ Unsubscribe(i)
       PROVE  NeverAbandoned' /\ Connected'
  BY <1>1, <1>5, <1>10 DEF Subscribe, Unsubscribe, Id
<1>11. ASSUME NEW p \in Publish, StartPublish(p) \/ PublishTimeout(p)
       PROVE  NeverAbandoned' /\ Connected'
  BY <1>1, <1>11 DEF StartPublish, PublishTimeout, net
<1>12. CASE UNCHANGED vars
  BY <1>1, <1>12 DEF vars, net
<1> QED
  BY <1>2, <1>3, <1>4, <1>6, <1>7, <1>8, <1>9, <1>10, <1>11, <1>12 DEF Next

(* Until close() no relay is given up, for any number of relays and        *)
(* whichever sockets break or cannot be made.                              *)
THEOREM RelaysKept == Spec => []NeverAbandoned
<1>1. Spec => [](NeverAbandoned /\ Connected)
  BY TypeCorrect, InitAbandonsNone, NextAbandonsNone, PTL DEF Spec
<1> QED
  BY <1>1, PTL

-----------------------------------------------------------------------------
(* What subscriptions were asked, and events sent. *)

LEMMA FinishTells ==
  ASSUME TypeOK, NEW i \in Id, Finish(i)
  PROVE  /\ subscriptions' = subscriptions \ {i}
         /\ \A j \in Id \ {i} : \A u \in Url : requests'[u][j] = requests[u][j]
         /\ \A c \in Call \ {i} : status'[c] = status[c]
         /\ status'[i] = "done"
         /\ UNCHANGED << queue, sent >>
BY DEF TypeOK, Finish, SendClose, Call

LEMMA RegisterAsks ==
  ASSUME TypeOK, NEW i \in Id, NEW us \in Choices, Register(i, us)
  PROVE  /\ subscriptions' = subscriptions \cup {i}
         /\ targets' = [targets EXCEPT ![i] = us]
         /\ \A j \in Id \ {i} : \A u \in Url : requests'[u][j] = requests[u][j]
         /\ \A u \in us : IsOpen(u) => requests'[u][i] = requests[u][i] + 1
         /\ \A c \in Call \ {i} : status'[c] = status[c]
         /\ status[i] = "idle" /\ status'[i] = "pending"
         /\ \A u \in Url : socket'[u] = "open" => IsOpen(u)
         /\ UNCHANGED << closed, queue, sent >>
<1>1. us \in SUBSET Url
  BY ChoicesAreRelays
<1>2. /\ subscriptions' = subscriptions \cup {i} /\ targets' = [targets EXCEPT ![i] = us]
      /\ UNCHANGED << closed, queue, sent >>
  BY DEF Register, SendRequest
<1>3. /\ \A c \in Call \ {i} : status'[c] = status[c]
      /\ status[i] = "idle" /\ status'[i] = "pending"
  BY DEF Register, TypeOK, Call
<1>4. /\ \A j \in Id \ {i} : \A u \in Url : requests'[u][j] = requests[u][j]
      /\ \A u \in us : IsOpen(u) => requests'[u][i] = requests[u][i] + 1
  BY <1>1 DEF Register, SendRequest, TypeOK
<1>5. \A u \in Url : socket'[u] = "open" => IsOpen(u)
  BY <1>1, ResolveStep DEF Register, IsOpen
<1> QED
  BY <1>2, <1>3, <1>4, <1>5

LEMMA NextUnrequested == TypeOK /\ Unrequested /\ [Next]_vars => Unrequested'
<1> SUFFICES ASSUME TypeOK, Unrequested, [Next]_vars PROVE Unrequested'
  OBVIOUS
<1>1. ASSUME subscriptions' \subseteq subscriptions, requests' = requests,
             \A i \in Id : status'[i] = "idle" => status[i] = "idle"
      PROVE  Unrequested'
  BY <1>1 DEF Unrequested
<1>2. ASSUME NEW u \in Url, Open(u) PROVE Unrequested'
  BY <1>2 DEF Open, Reissued, TypeOK, Unrequested, calls
<1>3. ASSUME NEW u \in Url, Break(u) PROVE Unrequested'
  BY <1>3 DEF Break, NoRequests, TypeOK, Unrequested, calls
<1>4. ASSUME NEW u \in Url, Reconnect(u) PROVE Unrequested'
  BY <1>1, <1>4 DEF Reconnect, calls
<1>5. ASSUME NEW i \in Id, Finish(i) PROVE Unrequested'
  BY <1>5, FinishTells DEF Unrequested, Call
<1>6. ASSUME NEW i \in Id, NEW us \in Choices, Register(i, us) PROVE Unrequested'
  BY <1>6, RegisterAsks DEF Unrequested, Call
<1>7. ASSUME NEW u \in Url, NEW i \in Id, Eose(u, i) PROVE Unrequested'
  BY <1>1, <1>5, <1>7 DEF Eose
<1>8. ASSUME NEW u \in Url, NEW p \in Publish, Ok(u, p) PROVE Unrequested'
  BY <1>1, <1>8, CallAssumption DEF Ok, TypeOK, Call, Id
<1>9. ASSUME NEW l \in List, StartList(l) \/ ListTimeout(l) PROVE Unrequested'
  BY <1>5, <1>6, <1>9 DEF StartList, ListTimeout, Id
<1>10. ASSUME NEW i \in Sub, Subscribe(i) \/ Unsubscribe(i) PROVE Unrequested'
  BY <1>5, <1>6, <1>10 DEF Subscribe, Unsubscribe, Id
<1>11. ASSUME NEW p \in Publish, StartPublish(p) \/ PublishTimeout(p) PROVE Unrequested'
  <2>1. subscriptions' = subscriptions /\ requests' = requests
    BY <1>11 DEF StartPublish, SendEvent, PublishTimeout, net
  <2>2. \A i \in Id : status'[i] = status[i]
    BY <1>11, CallAssumption DEF StartPublish, PublishTimeout, TypeOK, Call, Id
  <2> QED
    BY <1>1, <2>1, <2>2
<1>12. CASE Close
  BY <1>12 DEF Close, NoRequests, Unrequested
<1>13. CASE UNCHANGED vars
  BY <1>1, <1>13 DEF vars, net, calls
<1> QED
  BY <1>2, <1>3, <1>4, <1>7, <1>8, <1>9, <1>10, <1>11, <1>12, <1>13 DEF Next

LEMMA NextRequestsOnce ==
  TypeOK /\ Unrequested /\ RequestedOnce /\ [Next]_vars => RequestedOnce'
<1> SUFFICES ASSUME TypeOK, Unrequested, RequestedOnce, [Next]_vars PROVE RequestedOnce'
  OBVIOUS
<1>1. ASSUME UNCHANGED << closed, socket, subscriptions, targets, requests >>
      PROVE  RequestedOnce'
  BY <1>1 DEF RequestedOnce, IsOpen
<1>2. ASSUME NEW u \in Url, Open(u) PROVE RequestedOnce'
  BY <1>2 DEF Open, Reissued, TypeOK, RequestedOnce, IsOpen, calls
<1>3. ASSUME NEW u \in Url, Break(u) PROVE RequestedOnce'
  BY <1>3 DEF Break, TypeOK, RequestedOnce, IsOpen, calls
<1>4. ASSUME NEW u \in Url, Reconnect(u) PROVE RequestedOnce'
  <2>1. socket'[u] # "open" /\ \A v \in Url \ {u} : socket'[v] = socket[v]
    BY <1>4, ConnectingStep DEF Reconnect
  <2>2. UNCHANGED << closed, subscriptions, targets, requests >>
    BY <1>4 DEF Reconnect, calls
  <2> QED
    BY <2>1, <2>2 DEF TypeOK, RequestedOnce, IsOpen
<1>5. ASSUME NEW i \in Id, Finish(i), UNCHANGED << closed, socket, targets >>
      PROVE  RequestedOnce'
  BY <1>5, FinishTells DEF TypeOK, RequestedOnce, IsOpen
<1>6. ASSUME NEW i \in Id, NEW us \in Choices, Register(i, us) PROVE RequestedOnce'
  <2> SUFFICES ASSUME ~closed', NEW j \in subscriptions', NEW u \in targets'[j],
                      socket'[u] = "open"
               PROVE  requests'[u][j] = 1
    BY DEF RequestedOnce, IsOpen
  <2>1. us \in SUBSET Url
    BY ChoicesAreRelays
  <2>2. CASE j = i
    BY <1>6, <2>1, <2>2, RegisterAsks DEF TypeOK, Unrequested
  <2>3. CASE j # i
    BY <1>6, <2>3, RegisterAsks DEF TypeOK, RequestedOnce
  <2> QED
    BY <2>2, <2>3
<1>7. ASSUME NEW u \in Url, NEW i \in Id, Eose(u, i) PROVE RequestedOnce'
  BY <1>1, <1>5, <1>7 DEF Eose
<1>8. ASSUME NEW u \in Url, NEW p \in Publish, Ok(u, p) PROVE RequestedOnce'
  BY <1>1, <1>8 DEF Ok
<1>9. ASSUME NEW l \in List, StartList(l) \/ ListTimeout(l) PROVE RequestedOnce'
  BY <1>5, <1>6, <1>9 DEF StartList, ListTimeout, Id
<1>10. ASSUME NEW i \in Sub, Subscribe(i) \/ Unsubscribe(i) PROVE RequestedOnce'
  BY <1>5, <1>6, <1>10 DEF Subscribe, Unsubscribe, Id
<1>11. ASSUME NEW p \in Publish, StartPublish(p) \/ PublishTimeout(p) PROVE RequestedOnce'
  BY <1>1, <1>11 DEF StartPublish, SendEvent, PublishTimeout, net
<1>12. CASE Close
  BY <1>12 DEF Close, RequestedOnce
<1>13. CASE UNCHANGED vars
  BY <1>1, <1>13 DEF vars, net, calls
<1> QED
  BY <1>2, <1>3, <1>4, <1>7, <1>8, <1>9, <1>10, <1>11, <1>12, <1>13 DEF Next

(* A live subscription was requested exactly once on each open socket of a *)
(* relay it named, for any calls and however sockets break and reconnect.  *)
THEOREM SubscriptionsRequestedOnce == Spec => []RequestedOnce
<1>1. Init => Unrequested /\ RequestedOnce
  BY DEF Init, NoRequests, Unrequested, RequestedOnce
<1> QED
  BY <1>1, TypeCorrect, NextUnrequested, NextRequestsOnce, PTL DEF Spec

-----------------------------------------------------------------------------
(* Events and what becomes of them. *)

LEMMA NextKeepsEvents ==
  TypeOK /\ Connected /\ EventsKept /\ [Next]_vars => EventsKept'
<1> SUFFICES ASSUME TypeOK, Connected, EventsKept, [Next]_vars PROVE EventsKept'
  OBVIOUS
<1>1. ASSUME closed' = closed, queue' = queue, sent' = sent,
             \A p \in Publish : status'[p] # "idle" => status[p] # "idle"
      PROVE  EventsKept'
  BY <1>1 DEF EventsKept
<1>2. ASSUME NEW u \in Url, Open(u) PROVE EventsKept'
  BY <1>2 DEF Open, TypeOK, EventsKept, Url, calls
<1>3. ASSUME NEW u \in Url, Break(u) \/ Reconnect(u) PROVE EventsKept'
  BY <1>1, <1>3 DEF Break, Reconnect, calls
<1>4. ASSUME NEW i \in Id, Finish(i), closed' = closed PROVE EventsKept'
  BY <1>1, <1>4, FinishTells, CallAssumption DEF Call, Id
<1>5. ASSUME NEW i \in Id, NEW us \in Choices, Register(i, us) PROVE EventsKept'
  BY <1>1, <1>5, RegisterAsks, CallAssumption DEF Call, Id
<1>6. ASSUME NEW u \in Url, NEW i \in Id, Eose(u, i) PROVE EventsKept'
  BY <1>1, <1>4, <1>6 DEF Eose
<1>7. ASSUME NEW u \in Url, NEW p \in Publish, Ok(u, p) PROVE EventsKept'
  <2>1. \A q \in Publish : status'[q] # "idle" => status[q] # "idle"
    BY <1>7 DEF Ok, TypeOK, Call
  <2> QED
    BY <1>1, <1>7, <2>1 DEF Ok
<1>8. ASSUME NEW l \in List, StartList(l) \/ ListTimeout(l) PROVE EventsKept'
  BY <1>4, <1>5, <1>8 DEF StartList, ListTimeout, Id
<1>9. ASSUME NEW i \in Sub, Subscribe(i) \/ Unsubscribe(i) PROVE EventsKept'
  BY <1>4, <1>5, <1>9 DEF Subscribe, Unsubscribe, Id
<1>10. ASSUME NEW p \in Publish, StartPublish(p) PROVE EventsKept'
  <2> SUFFICES ASSUME ~closed', NEW q \in Publish, NEW u \in Relay, status'[q] # "idle"
               PROVE  q \in queue'[u] \cup sent'[u]
    BY DEF EventsKept
  <2>1. u \in Url /\ ~closed /\ (IsOpen(u) \/ Queues(u))
    BY <1>10 DEF StartPublish, Connected, TypeOK, SocketState, IsOpen, Queues, Url
  <2>2. CASE q = p
    BY <1>10, <2>1, <2>2 DEF StartPublish, SendEvent
  <2>3. CASE q # p
    BY <1>10, <2>1, <2>3 DEF StartPublish, SendEvent, EventsKept, TypeOK, Call
  <2> QED
    BY <2>2, <2>3
<1>11. ASSUME NEW p \in Publish, PublishTimeout(p) PROVE EventsKept'
  <2>1. \A q \in Publish : status'[q] # "idle" => status[q] # "idle"
    BY <1>11 DEF PublishTimeout, TimerSet, TypeOK, Call
  <2> QED
    BY <1>1, <1>11, <2>1 DEF PublishTimeout, net
<1>12. CASE Close
  BY <1>12 DEF Close, EventsKept
<1>13. CASE UNCHANGED vars
  BY <1>1, <1>13 DEF vars, net, calls
<1> QED
  BY <1>2, <1>3, <1>6, <1>7, <1>8, <1>9, <1>10, <1>11, <1>12, <1>13 DEF Next

(* Until close() every configured relay was sent each published event or   *)
(* still will be, for any events and however often its socket breaks.      *)
THEOREM EventsNotDropped == Spec => []EventsKept
<1>1. Init => EventsKept
  BY DEF Init, EventsKept, Call
<1>2. Spec => [](NeverAbandoned /\ Connected)
  BY TypeCorrect, InitAbandonsNone, NextAbandonsNone, PTL DEF Spec
<1> QED
  BY <1>1, <1>2, TypeCorrect, NextKeepsEvents, PTL DEF Spec

LEMMA NextTallies ==
  TypeOK /\ TypeOK' /\ Tallied /\ PublishAccountsForAll /\ [Next]_vars
    => Tallied' /\ PublishAccountsForAll'
<1> SUFFICES ASSUME TypeOK, TypeOK', Tallied, PublishAccountsForAll, [Next]_vars
             PROVE  Tallied' /\ PublishAccountsForAll'
  OBVIOUS
<1>1. ASSUME UNCHANGED << accepted, rejected, timedOut, expired >>,
             \A p \in Publish : status'[p] = status[p]
      PROVE  Tallied' /\ PublishAccountsForAll'
  BY <1>1 DEF Tallied, PublishAccountsForAll, Answered
<1>2. ASSUME NEW u \in Url, Open(u) \/ Break(u) \/ Reconnect(u)
      PROVE  Tallied' /\ PublishAccountsForAll'
  BY <1>1, <1>2 DEF Open, Break, Reconnect, calls
<1>3. ASSUME NEW i \in Id, Finish(i), UNCHANGED << accepted, rejected, timedOut, expired >>
      PROVE  Tallied' /\ PublishAccountsForAll'
  BY <1>1, <1>3, FinishTells, CallAssumption DEF Call, Id
<1>4. ASSUME NEW i \in Id, NEW us \in Choices, Register(i, us)
      PROVE  Tallied' /\ PublishAccountsForAll'
  BY <1>1, <1>4, RegisterAsks, CallAssumption DEF Register, Call, Id
<1>5. ASSUME NEW u \in Url, NEW i \in Id, Eose(u, i)
      PROVE  Tallied' /\ PublishAccountsForAll'
  BY <1>1, <1>3, <1>5 DEF Eose
<1>6. ASSUME NEW u \in Url, NEW p \in Publish, Ok(u, p)
      PROVE  Tallied' /\ PublishAccountsForAll'
  <2>1. CASE ~(status[p] = "pending" /\ u \notin Answered(p))
    BY <1>1, <1>6, <2>1 DEF Ok
  <2>2. CASE status[p] = "pending" /\ u \notin Answered(p)
    <3>1. /\ \/ accepted' = [accepted EXCEPT ![p] = @ \cup {u}] /\ rejected' = rejected
             \/ rejected' = [rejected EXCEPT ![p] = @ \cup {u}] /\ accepted' = accepted
          /\ status' = IF Cardinality(Answered(p)') >= Cardinality(Relay)
                         THEN [status EXCEPT ![p] = "done"] ELSE status
          /\ UNCHANGED << timedOut, expired >>
      BY <1>6, <2>2 DEF Ok
    <3>2. /\ accepted \in [Publish -> SUBSET Relay] /\ rejected \in [Publish -> SUBSET Relay]
          /\ accepted' \in [Publish -> SUBSET Relay] /\ rejected' \in [Publish -> SUBSET Relay]
          /\ timedOut \in [Publish -> SUBSET Relay]
          /\ status \in [Call -> {"idle", "pending", "done"}]
      BY DEF TypeOK
    <3>3. /\ accepted'[p] \cap rejected'[p] = {}
          /\ \A q \in Publish \ {p} : /\ accepted'[q] = accepted[q] /\ rejected'[q] = rejected[q]
                                      /\ status'[q] = status[q]
      BY <2>2, <3>1, <3>2 DEF Tallied, Answered, Call
    <3>4. status'[p] = "done" => Answered(p)' = Relay
      <4>1. Answered(p)' \subseteq Relay /\ IsFiniteSet(Relay)
        BY <3>2, UrlAssumption, FS_Subset DEF Answered, Url
      <4>2. Cardinality(Answered(p)') >= Cardinality(Relay) => Answered(p)' = Relay
        BY <4>1, FS_Subset, FS_CardinalityType
      <4> QED
        BY <2>2, <3>1, <4>2
    <3>5. Tallied'
      BY <2>2, <3>1, <3>3 DEF Tallied
    <3> QED
      BY <2>2, <3>1, <3>3, <3>4, <3>5 DEF Tallied, PublishAccountsForAll, Answered
  <2> QED
    BY <2>1, <2>2
<1>7. ASSUME NEW l \in List, StartList(l) \/ ListTimeout(l)
      PROVE  Tallied' /\ PublishAccountsForAll'
  BY <1>3, <1>4, <1>7 DEF StartList, ListTimeout, Id
<1>8. ASSUME NEW i \in Sub, Subscribe(i) \/ Unsubscribe(i)
      PROVE  Tallied' /\ PublishAccountsForAll'
  BY <1>3, <1>4, <1>8 DEF Subscribe, Unsubscribe, Id
<1>9. ASSUME NEW p \in Publish, StartPublish(p) PROVE Tallied' /\ PublishAccountsForAll'
  BY <1>9 DEF StartPublish, TypeOK, Call, Tallied, PublishAccountsForAll, Answered
<1>10. ASSUME NEW p \in Publish, PublishTimeout(p) PROVE Tallied' /\ PublishAccountsForAll'
  <2>1. /\ status[p] = "pending" /\ status' = [status EXCEPT ![p] = "done"]
        /\ timedOut' = [timedOut EXCEPT ![p] = Relay \ Answered(p)]
        /\ expired' = expired \cup {p} /\ UNCHANGED << accepted, rejected >>
    BY <1>10 DEF PublishTimeout, TimerSet, Unheard
  <2>2. /\ accepted[p] \subseteq Relay /\ rejected[p] \subseteq Relay
        /\ timedOut \in [Publish -> SUBSET Relay]
        /\ status \in [Call -> {"idle", "pending", "done"}]
    BY DEF TypeOK
  <2> QED
    BY <2>1, <2>2 DEF Tallied, PublishAccountsForAll, Answered, Call
<1>11. CASE Close
  BY <1>1, <1>11 DEF Close
<1>12. CASE UNCHANGED vars
  BY <1>1, <1>12 DEF vars, calls
<1> QED
  BY <1>2, <1>5, <1>6, <1>7, <1>8, <1>9, <1>10, <1>11, <1>12 DEF Next

(* When a publish ends each configured relay has one outcome, for any      *)
(* number of them and in whatever order they answer.                       *)
THEOREM PublishesAccounted == Spec => []PublishAccountsForAll
<1>1. Init => Tallied /\ PublishAccountsForAll
  BY DEF Init, Tallied, PublishAccountsForAll, Call
<1> QED
  BY <1>1, TypeCorrect, NextTallies, PTL DEF Spec
=============================================================================
