---------------------------- MODULE MCEvaluator ------------------------------
(* Evaluator with the presets (packages/core/src/presets.js), their        *)
(* thresholds scaled down to two signers.                                  *)
EXTENDS Evaluator

CONSTANTS alice, bob, carol, post, scam, other

(* alice wrote the post; bob and carol report and mute.                    *)
AllSigners == {bob, carol}
Seed       == {bob, carol}
FollowSets == {{}, {bob}}
Account    == {[key |-> alice, author |-> alice]}
Posts      == Account \cup {[key |-> post, author |-> alice]}
MentionSets == {{scam}, {NotGiven}}
Clock      == {0, 2}
Window     == 1

Thresholds(downrank, warn, restrict, hide, transactionDeny) ==
  [ NoThresholds EXCEPT !.downrank = downrank, !.warn = warn, !.restrict = restrict,
                        !.hide = hide, !.transactionDeny = transactionDeny ]

Scam == (scam :> Thresholds(1, 1, 1, 2, 2))
Default == ("default" :> Thresholds(2, 1, 0, 0, 0))
Muted == ("default" :> Thresholds(1, 0, 0, 2, 0))
MutedFor == (scam :> Thresholds(1, 1, 0, 0, 0))

DenySale     == [NoEffects EXCEPT !.transaction = "deny"]
HideDenySale == [HideAndDeny EXCEPT !.transaction = "deny"]

Detail ==
  [ administrativeDeny |-> [ DenySale EXCEPT !.visibility = "restrict",
                                             !.interaction = "require-explicit-action" ],
    viewerBlock |-> HideAndDeny, allowlistMiss |-> NotGiven,
    requireAllowlist |-> FALSE, allowViewerOverride |-> TRUE,
    bypassHide |-> FALSE, bypassHideCeiling |-> NotGiven, disabled |-> FALSE,
    reports |-> Scam @@ Default, mutes |-> << >>, muteWindowSeconds |-> Window ]

Feed == [ Detail EXCEPT !.administrativeDeny = HideAndDeny, !.bypassHide = TRUE,
                        !.reports = Scam @@ Default, !.mutes = Muted @@ MutedFor ]

(* The allowlist preset with the reports of the others.                    *)
Allowlist ==
  [ Detail EXCEPT !.administrativeDeny = HideDenySale, !.requireAllowlist = TRUE,
                  !.allowlistMiss = HideDenySale ]

SellerDashboard ==
  [ Detail EXCEPT !.viewerBlock = NotGiven, !.allowViewerOverride = FALSE,
                  !.administrativeDeny = [DenySale EXCEPT !.visibility = "warn"],
                  !.bypassHide = TRUE, !.bypassHideCeiling = "warn" ]

Surfaces   == {Feed, Allowlist}
Dashboards == {SellerDashboard}
Denials    == {alice, bob, post}
Blocks     == {alice, bob}
Softer     == {"warn"}
==============================================================================
