----------------------------- MODULE Governance ------------------------------
(***************************************************************************)
(* What administration promises, however it is carried out: a register per *)
(* author and kind that holds the newest document offered, a roster, and a *)
(* ruling that is at every moment what that roster makes of those          *)
(* registers. Documents never touch the roster, a roster never touches the *)
(* registers, and a ruling is never a step behind. GovernanceAdminStore    *)
(* implements it (AdminStore, Refinement).                                 *)
(***************************************************************************)
EXTENDS AdminState

CONSTANTS
  FirstRoot,   \* Who is root before anything arrives.
  Archives     \* States that may be restored as a whole: the documents.

Slot == Actor \X Kind

VARIABLES
  roster,      \* Who may do what, and whom nobody may deny.
  register,    \* Slot -> the document it holds, as a set of at most one.
  ruling       \* Who and what is denied.

governed == << roster, register, ruling >>

(* The denials that a roster makes of the registers' documents.            *)
Ruling(r, docs) ==
  { t \in Target \ r.protectedActors :
      \E s \in Slot : \E c \in docs[s] :
        /\ c.kind \in {"user-deny", "event-deny", "address-deny"}
        /\ t \in EffectiveTargets(c) /\ Authorized(c, r) }

(* Documents in their registers.                                           *)
Filed(docs) == [s \in Slot |-> {c \in docs : << c.actor, c.kind >> = s}]

Start ==
  /\ roster = CreateAuthorityState(RootRoster(FirstRoot))
  /\ register = Filed({})
  /\ ruling = {}

-----------------------------------------------------------------------------
(* A register's document gives way to one that is not older only.          *)
GivesWay(before, after, s) ==
  \/ after = before
  \/ \E c \in after :
       /\ after = {c} /\ << c.actor, c.kind >> = s
       /\ \A b \in before : b.createdAt <= c.createdAt

Rule == ruling' = Ruling(roster', register')

(* Documents are offered.                                                  *)
Offer ==
  /\ \A s \in Slot : GivesWay(register[s], register'[s], s)
  /\ UNCHANGED roster
  /\ Rule

(* A roster is set.                                                        *)
Appoint ==
  /\ UNCHANGED register
  /\ Rule

(* A saved state takes the place of everything.                            *)
Restore ==
  /\ \E docs \in Archives : register' = Filed(docs)
  /\ Rule

Govern == Offer \/ Appoint \/ Restore

Governed == Start /\ [][Govern]_governed
=============================================================================
