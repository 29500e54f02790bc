--------------------------- MODULE RelayTransport ----------------------------
(***************************************************************************)
(* The WebSocket relay transport (packages/runtime/src/relayTransport.js): *)
(* connections that break and are retried, subscriptions that must survive *)
(* them, and list and publish calls that must end.                         *)
(*                                                                         *)
(* Of a relay it is assumed that it answers a REQ with at most one EOSE    *)
(* and an EVENT with at most one OK, on the socket it came from. Sockets   *)
(* break at any time and take with them whatever was under way. Event      *)
(* payloads, and with them the removal of duplicates, are left out, and so *)
(* is the length of the delays: a timer fires some time after it was set.  *)
(* A CLOSE that waits in a queue names a subscription that is gone, which  *)
(* the relay was never asked for on the socket to come: it has no effect,  *)
(* and the queues hold the events only.                                    *)
(***************************************************************************)
EXTENDS Integers, FiniteSets

CONSTANTS
  Relay,       \* The configured relays.
  Unusable,    \* The sets of them whose URLs may be malformed.
  Outbox,      \* Relays that calls may name beside them.
  Named,       \* The sets of relays that calls may name.
  List,        \* list() calls.
  Sub,         \* subscribe() calls.
  Publish      \* publish() calls, each of an event of its own.

Url == Relay \cup Outbox
Id == List \cup Sub            \* Subscription ids: what REQ and CLOSE carry.
Call == Id \cup Publish

ASSUME UrlAssumption ==
  /\ Relay # {} /\ Unusable \subseteq SUBSET Relay /\ Relay \cap Outbox = {} /\ IsFiniteSet(Url)
  /\ Named \subseteq (SUBSET (Url \ UNION Unusable)) \ {{}}

ASSUME CallAssumption ==
  List \cap Sub = {} /\ List \cap Publish = {} /\ Sub \cap Publish = {}

VARIABLES
  malformed,       \* The relays that no socket is opened for.
  closed,          \* close() was called.
  socket,          \* Url -> the state of its socket; "none" has no connection.
  retry,           \* Url -> whether a reconnect timer is set.
  queue,           \* Url -> events to send once the socket opens.
  subscriptions,   \* Ids in the subscription map.
  targets,         \* Id -> the relays its call named.
  status,          \* Call -> idle, pending or done.
  pendingEose,     \* List -> EOSEs still waited for.
  accepted,        \* Publish -> relays that answered OK true,
  rejected,        \*            that answered OK false,
  timedOut,        \*            that are reported as timed out.
  requests,        \* Url -> Id -> REQs sent on its socket and not closed.
  unanswered,      \* Url -> ids and events its relay has yet to answer.
  sent,            \* History: Url -> events its sockets were given.
  expired          \* History: publishes that their timer ended.

net == << malformed, closed, socket, retry, queue, requests, unanswered, sent >>
calls == << subscriptions, targets, status, pendingEose,
            accepted, rejected, timedOut, expired >>
vars == << net, calls >>

NoRequests == [i \in Id |-> 0]

(* What connect leaves: nothing for a malformed URL, a timer to try again  *)
(* where the socket's constructor throws, else a socket.                   *)
Connection(u, thrown) ==
  CASE u \in malformed -> "refused"
    [] u \in thrown \ malformed -> "down"
    [] OTHER -> "connecting"

(* Every configured relay is connected to at once.                         *)
Init ==
  /\ malformed \in Unusable
  /\ closed = FALSE
  /\ \E thrown \in SUBSET Relay :
       socket = [u \in Url |-> IF u \in Outbox THEN "none" ELSE Connection(u, thrown)]
  /\ retry = [u \in Url |-> socket[u] = "down"]
  /\ queue = [u \in Url |-> {}]
  /\ subscriptions = {}
  /\ targets = [i \in Id |-> {}]
  /\ status = [c \in Call |-> "idle"]
  /\ pendingEose = [l \in List |-> 0]
  /\ accepted = [p \in Publish |-> {}]
  /\ rejected = [p \in Publish |-> {}]
  /\ timedOut = [p \in Publish |-> {}]
  /\ requests = [u \in Url |-> NoRequests]
  /\ unanswered = [u \in Url |-> {}]
  /\ sent = [u \in Url |-> {}]
  /\ expired = {}

-----------------------------------------------------------------------------
IsOpen(u) == socket[u] = "open"

(* send: a closed socket's frame is queued, except that a REQ is dropped,  *)
(* since opening the socket re-issues every live subscription.             *)
SendRequest(us, i) ==
  LET reached == {u \in us : IsOpen(u)}
  IN  /\ requests' = [u \in Url |-> IF u \in reached
                                      THEN [requests[u] EXCEPT ![i] = @ + 1]
                                      ELSE requests[u]]
      /\ unanswered' = [u \in Url |-> unanswered[u] \cup (IF u \in reached THEN {i} ELSE {})]
      /\ UNCHANGED << queue, sent >>

SendClose(us, i) ==
  /\ requests' = [u \in Url |-> IF u \in us /\ IsOpen(u)
                                  THEN [requests[u] EXCEPT ![i] = 0] ELSE requests[u]]
  /\ UNCHANGED << queue, sent >>

(* A fault: only the first connection's queue is kept.                     *)
QueuesConnecting(u) == socket[u] = "connecting"

Queues(u) == socket[u] \in {"connecting", "down", "refused"}

SendEvent(us, p) ==
  LET reached == {u \in us : IsOpen(u)}
  IN  /\ sent' = [u \in Url |-> sent[u] \cup (IF u \in reached THEN {p} ELSE {})]
      /\ unanswered' = [u \in Url |-> unanswered[u] \cup (IF u \in reached THEN {p} ELSE {})]
      /\ queue' = [u \in Url |-> queue[u] \cup
                     (IF u \in us /\ Queues(u) THEN {p} ELSE {})]
      /\ UNCHANGED requests

-----------------------------------------------------------------------------
(* A fault: a constructor that throws sets no timer.                       *)
ConnectingOnce(us) ==
  \E thrown \in SUBSET us :
    /\ socket' = [u \in Url |-> IF u \in us THEN Connection(u, thrown) ELSE socket[u]]
    /\ retry' = [u \in Url |-> retry[u] /\ u \notin us]

Connecting(us) ==
  \E thrown \in SUBSET us :
    /\ socket' = [u \in Url |-> IF u \in us THEN Connection(u, thrown) ELSE socket[u]]
    /\ retry' = [u \in Url |-> IF u \in us THEN u \in thrown \ malformed ELSE retry[u]]

(* A fault: subscriptions are requested again from configured relays only. *)
ReissuedToConfigured(u) == IF u \in Relay THEN subscriptions ELSE {}

Reissued(u) == subscriptions

(* onopen: every live subscription is requested again, whichever relays it *)
(* named; then what was queued is sent.                                    *)
Open(u) ==
  /\ socket[u] = "connecting"
  /\ socket' = [socket EXCEPT ![u] = "open"]
  /\ requests' = [requests EXCEPT ![u] = [i \in Id |-> IF i \in Reissued(u) THEN 1 ELSE 0]]
  /\ sent' = [sent EXCEPT ![u] = @ \cup queue[u]]
  /\ unanswered' = [unanswered EXCEPT ![u] = Reissued(u) \cup queue[u]]
  /\ queue' = [queue EXCEPT ![u] = {}]
  /\ UNCHANGED << malformed, closed, retry, calls >>

(* onclose: of a socket that was open, or that never opened.               *)
Break(u) ==
  /\ socket[u] \in {"connecting", "open"}
  /\ socket' = [socket EXCEPT ![u] = "down"]
  /\ requests' = [requests EXCEPT ![u] = NoRequests]
  /\ unanswered' = [unanswered EXCEPT ![u] = {}]
  /\ retry' = [retry EXCEPT ![u] = TRUE]
  /\ UNCHANGED << malformed, closed, queue, sent, calls >>

Reconnect(u) ==
  /\ retry[u]
  /\ Connecting({u})
  /\ UNCHANGED << malformed, closed, queue, requests, unanswered, sent, calls >>

(* resolveTargets: relays that are named for the first time are connected  *)
(* to, unless the transport is closed.                                     *)
Resolve(us) ==
  IF closed THEN UNCHANGED << socket, retry >>
  ELSE Connecting({u \in us : socket[u] = "none"})

Choices == {Relay} \cup Named

-----------------------------------------------------------------------------
(* list and subscribe register a subscription and request it.              *)
Register(i, us) ==
  /\ status[i] = "idle"
  /\ status' = [status EXCEPT ![i] = "pending"]
  /\ targets' = [targets EXCEPT ![i] = us]
  /\ subscriptions' = subscriptions \cup {i}
  /\ Resolve(us)
  /\ SendRequest(us, i)
  /\ UNCHANGED << malformed, closed, accepted, rejected, timedOut, expired >>

StartList(l) ==
  \E us \in Choices :
    /\ Register(l, us)
    /\ pendingEose' = [pendingEose EXCEPT ![l] = Cardinality(us)]

Subscribe(i) ==
  \E us \in Choices : Register(i, us) /\ UNCHANGED pendingEose

(* finish, and a subscription handle's close: it leaves the map, and the   *)
(* relays the call named are told.                                         *)
Finish(i) ==
  /\ status' = [status EXCEPT ![i] = "done"]
  /\ subscriptions' = subscriptions \ {i}
  /\ SendClose(targets[i], i)

Unsubscribe(i) ==
  /\ status[i] = "pending"
  /\ Finish(i)
  /\ UNCHANGED << malformed, closed, socket, retry, unanswered, targets, pendingEose,
                  accepted, rejected, timedOut, expired >>

(* An EOSE is counted, whichever relay it is from and whether or not that  *)
(* relay sent one before.                                                  *)
Eose(u, i) ==
  /\ IsOpen(u) /\ i \in unanswered[u]
  /\ unanswered' = [unanswered EXCEPT ![u] = @ \ {i}]
  /\ IF i \in List /\ i \in subscriptions
       THEN /\ pendingEose' = [pendingEose EXCEPT ![i] = @ - 1]
            /\ IF pendingEose'[i] <= 0
                 THEN Finish(i)
                 ELSE UNCHANGED << status, subscriptions, requests, queue, sent >>
       ELSE UNCHANGED << pendingEose, status, subscriptions, requests, queue, sent >>
  /\ UNCHANGED << malformed, closed, socket, retry, targets,
                  accepted, rejected, timedOut, expired >>

(* A fault: close() clears the timers of pending calls too.                *)
TimerUnlessClosed(c) == status[c] = "pending" /\ ~closed

TimerSet(c) == status[c] = "pending"

ListTimeout(l) ==
  /\ TimerSet(l)
  /\ Finish(l)
  /\ UNCHANGED << malformed, closed, socket, retry, unanswered, targets, pendingEose,
                  accepted, rejected, timedOut, expired >>

-----------------------------------------------------------------------------
(* publish goes to every configured relay.                                 *)
StartPublish(p) ==
  /\ status[p] = "idle"
  /\ status' = [status EXCEPT ![p] = "pending"]
  /\ SendEvent(Relay, p)
  /\ UNCHANGED << malformed, closed, socket, retry, subscriptions, targets, pendingEose,
                  accepted, rejected, timedOut, expired >>

Answered(p) == accepted[p] \cup rejected[p]

(* An OK is heard while the call is pending; when every configured relay   *)
(* has answered the call ends.                                             *)
Ok(u, p) ==
  /\ IsOpen(u) /\ p \in unanswered[u]
  /\ unanswered' = [unanswered EXCEPT ![u] = @ \ {p}]
  /\ IF status[p] = "pending" /\ u \notin Answered(p)
       THEN /\ \/ accepted' = [accepted EXCEPT ![p] = @ \cup {u}] /\ UNCHANGED rejected
               \/ rejected' = [rejected EXCEPT ![p] = @ \cup {u}] /\ UNCHANGED accepted
            /\ status' = IF Cardinality(Answered(p)') >= Cardinality(Relay)
                           THEN [status EXCEPT ![p] = "done"] ELSE status
       ELSE UNCHANGED << accepted, rejected, status >>
  /\ UNCHANGED << malformed, closed, socket, retry, queue, requests, sent,
                  subscriptions, targets,
                  pendingEose, timedOut, expired >>

(* Faults: relays that the publish was not sent to are reported too; none  *)
(* is.                                                                     *)
EveryoneUnheard(p) == Url \ Answered(p)
NobodyUnheard(p) == {}

Unheard(p) == Relay \ Answered(p)

(* The timer: relays that never answered are reported as timed out.        *)
PublishTimeout(p) ==
  /\ TimerSet(p)
  /\ status' = [status EXCEPT ![p] = "done"]
  /\ timedOut' = [timedOut EXCEPT ![p] = Unheard(p)]
  /\ expired' = expired \cup {p}
  /\ UNCHANGED << net, subscriptions, targets, pendingEose, accepted, rejected >>

(* close: sockets, reconnect timers and subscriptions go; calls that are   *)
(* pending are left to their own timers.                                   *)
Close ==
  /\ ~closed
  /\ closed' = TRUE
  /\ socket' = [u \in Url |-> "none"]
  /\ retry' = [u \in Url |-> FALSE]
  /\ queue' = [u \in Url |-> {}]
  /\ requests' = [u \in Url |-> NoRequests]
  /\ unanswered' = [u \in Url |-> {}]
  /\ subscriptions' = {}
  /\ UNCHANGED << malformed, sent, targets, status, pendingEose,
                  accepted, rejected, timedOut, expired >>

Next ==
  \/ \E u \in Url : Open(u) \/ Break(u) \/ Reconnect(u)
  \/ \E u \in Url, i \in Id : Eose(u, i)
  \/ \E u \in Url, p \in Publish : Ok(u, p)
  \/ \E l \in List : StartList(l) \/ ListTimeout(l)
  \/ \E i \in Sub : Subscribe(i) \/ Unsubscribe(i)
  \/ \E p \in Publish : StartPublish(p) \/ PublishTimeout(p)
  \/ Close

(* A call's timer fires. Nothing is assumed of relays, sockets, reconnect   *)
(* timers or the application.                                              *)
Fairness ==
  /\ \A l \in List : WF_vars(ListTimeout(l))
  /\ \A p \in Publish : WF_vars(PublishTimeout(p))

Spec == Init /\ [][Next]_vars /\ Fairness

-----------------------------------------------------------------------------
SocketState == {"none", "refused", "connecting", "open", "down"}

(* The variables have their types.                                         *)
TypeOK ==
  /\ malformed \in Unusable /\ closed \in BOOLEAN
  /\ socket \in [Url -> SocketState] /\ retry \in [Url -> BOOLEAN]
  /\ queue \in [Url -> SUBSET Publish] /\ sent \in [Url -> SUBSET Publish]
  /\ requests \in [Url -> [Id -> Nat]] /\ unanswered \in [Url -> SUBSET Call]
  /\ subscriptions \subseteq Id /\ targets \in [Id -> SUBSET Url]
  /\ status \in [Call -> {"idle", "pending", "done"}]
  /\ pendingEose \in [List -> Int]
  /\ {accepted, rejected, timedOut} \subseteq [Publish -> SUBSET Relay]
  /\ expired \subseteq Publish

(* A relay that is not connected is being connected to, or a timer will:   *)
(* until close() no relay is given up, however often its socket breaks or  *)
(* cannot be made (relayTransport.js:190-219).                             *)
NeverAbandoned ==
  ~closed => \A u \in Url :
    \/ socket[u] \in {"connecting", "open"} /\ ~retry[u]
    \/ socket[u] = "down" /\ retry[u]
    \/ socket[u] = "none" /\ u \in Outbox
    \/ u \in malformed

(* "A reconnect that dropped them would leave the UI silently stale", and  *)
(* "queueing one too would send it twice" (relayTransport.js:89-91,        *)
(* 133-138): on the socket of a relay it named, a live subscription was    *)
(* requested exactly once.                                                 *)
RequestedOnce ==
  ~closed => \A i \in subscriptions : \A u \in targets[i] :
    IsOpen(u) => requests[u][i] = 1

(* An event is "queued rather than dropped, since nothing else would       *)
(* re-send it" (relayTransport.js:91-92): until close(), each configured   *)
(* relay was sent every published event or still will be.                  *)
EventsKept ==
  ~closed => \A p \in Publish, u \in Relay :
    status[p] # "idle" => p \in queue[u] \cup sent[u]

(* When a publish ends, each configured relay has one outcome: it accepted,*)
(* it refused or it is reported as timed out, the last only when the timer *)
(* ended the call (relayTransport.js:411-432).                             *)
PublishAccountsForAll ==
  \A p \in Publish : status[p] = "done" =>
    /\ accepted[p] \cup rejected[p] \cup timedOut[p] = Relay
    /\ accepted[p] \cap rejected[p] = {} /\ Answered(p) \cap timedOut[p] = {}
    /\ timedOut[p] # {} => p \in expired

(* A list or publish that was begun ends, whatever relays and sockets do,  *)
(* and even if the transport is closed meanwhile.                          *)
CallsEnd ==
  \A c \in List \cup Publish : status[c] = "pending" ~> status[c] = "done"
=============================================================================
