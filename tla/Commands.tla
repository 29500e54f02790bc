------------------------------ MODULE Commands -------------------------------
(***************************************************************************)
(* The governance commands (packages/runtime/src/commands.js) of the       *)
(* runtimes that a provider builds: a command asks the signer who is       *)
(* acting, looks up what that account may do, asks the signer to sign and  *)
(* publishes. Between its awaits the roster and the signer may change, the *)
(* element may throw the runtime away, and descendants may still hold its  *)
(* commands.                                                               *)
(*                                                                         *)
(* The commands that need a capability differ in which, and the arguments  *)
(* they refuse before anybody is asked; an account is entitled when the    *)
(* runtime's authority gives it the capability and the targets are not     *)
(* protected. What becomes of the signed event is RelayTransport's         *)
(* concern.                                                                *)
(***************************************************************************)
EXTENDS Provider

CONSTANTS
  Entitlements,  \* Sets of accounts that a runtime's authority may entitle.
  MaxCalls       \* Bound on the commands that wait at once.

ASSUME CommandsAssumption ==
  Entitlements \subseteq SUBSET Account /\ MaxCalls \in Nat

(* A command of a runtime, which asks a signer for its key and then one,   *)
(* the same or another, for a signature; a report asks for no capability.  *)
(* The actor is whose key was told. As history, a call remembers whether a *)
(* host attached another signer while its key was awaited.                 *)
Call ==
  [ runtime : Generation, signer : Account, await : {"key", "signature"}, free : BOOLEAN,
    actor : Account \cup {NoAccount}, replaced : BOOLEAN ]

VARIABLES
  entitled,    \* Runtime -> accounts that its authority entitles now.
  calls        \* Commands that wait.

vars == << elementVars, entitled, calls >>

Init ==
  /\ ElementInit
  /\ entitled = [g \in Generation |-> {}]
  /\ calls = {}

-----------------------------------------------------------------------------
(* A runtime's roster or protected actors change.                          *)
Governed ==
  /\ \E g \in 1..generation, accounts \in Entitlements :
       accounts # entitled[g] /\ entitled' = [entitled EXCEPT ![g] = accounts]
  /\ UNCHANGED << elementVars, calls >>

(* The runtime's signer of the moment is asked.                            *)
Asked(g, await, free, actor, replaced) ==
  [ runtime |-> g, signer |-> signer[g], await |-> await, free |-> free,
    actor |-> actor, replaced |-> replaced ]

(* A command, or a report, when it is given.                               *)
Given(g, await, free) == Asked(g, await, free, NoAccount, FALSE)

(* contribute, setRoles, setPolicy, setCommunitySources and publishLabel   *)
(* ask for the key; without a signer they fail at once.                    *)
Command ==
  /\ Cardinality(calls) < MaxCalls
  /\ \E g \in 1..generation :
       signer[g] # NoAccount /\ calls' = calls \cup {Given(g, "key", FALSE)}
  /\ UNCHANGED << elementVars, entitled >>

(* report asks for a signature.                                            *)
Report ==
  /\ Cardinality(calls) < MaxCalls
  /\ \E g \in 1..generation :
       signer[g] # NoAccount /\ calls' = calls \cup {Given(g, "signature", TRUE)}
  /\ UNCHANGED << elementVars, entitled >>

(* A fault: whoever holds a key may act.                                   *)
AllowedAnyone(c) == TRUE

Allowed(c) == c.signer \in entitled[c.runtime]

(* The key is told: an account that is not entitled is refused; else the   *)
(* runtime's signer of the moment is asked to sign.                        *)
KeyTold ==
  \E c \in calls :
    /\ c.await = "key"
    /\ calls' = (calls \ {c}) \cup
                  (IF Allowed(c)
                     THEN {Asked(c.runtime, "signature", FALSE, c.signer, c.replaced)}
                     ELSE {})
    /\ UNCHANGED << elementVars, entitled >>

(* The signer signs and the event goes to the transport, or it refuses.    *)
Answered ==
  \E c \in calls : calls' = calls \ {c} /\ UNCHANGED << elementVars, entitled >>

(* A call of the runtime that waits for another account's key remembers.   *)
Outdated(c, a) ==
  IF c.runtime = runtime /\ c.await = "key" /\ c.signer # a
    THEN [c EXCEPT !.replaced = TRUE]
    ELSE c

(* A signer is attached, whoever is being asked.                           *)
Attach ==
  /\ \E a \in Account : UseSigner(a) /\ calls' = {Outdated(c, a) : c \in calls}
  /\ UNCHANGED entitled

ElementStep ==
  /\ Connect \/ Disconnect \/ AttributeChanged \/ Continue \/ SignerAnswers \/ SignerRefuses
  /\ UNCHANGED << entitled, calls >>

Next ==
  \/ ElementStep \/ Attach
  \/ Governed \/ Command \/ Report \/ KeyTold \/ Answered

Spec == Init /\ [][Next]_vars

-----------------------------------------------------------------------------
(* The variables have their types.                                         *)
TypeOK ==
  /\ ElementTypeOK
  /\ entitled \in [Generation -> SUBSET Account]
  /\ calls \subseteq Call /\ Cardinality(calls) <= MaxCalls

(* "Every command checks authority before signing" (commands.js:3): when a *)
(* signature is asked for, the actor whose key was told is entitled by the *)
(* roster of that moment, not of the moment the command was given; and it  *)
(* is the actor who is asked. Another account is only ever asked, though   *)
(* nobody checked it, if a host attached its signer while the key was      *)
(* awaited: the code reads the runtime's signer again (commands.js:94).    *)
EntitledSign ==
  [][\A c \in calls' \ calls :
       c.await = "signature" /\ ~c.free =>
         /\ c.actor \in entitled[c.runtime]
         /\ c.signer # c.actor => c.replaced]_vars
=============================================================================
