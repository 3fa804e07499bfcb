--------------------------- MODULE ChangeLifecycle ---------------------------
(***************************************************************************)
(* The lifecycle of one row of BackendChange (lib/changes/lifecycle.ts):   *)
(* its statuses, the edges TRANSITIONS allows, and the groups of statuses  *)
(* the ledger decides by (lib/changes/types.ts, lib/changes/recovery.ts).  *)
(* "unopened" is a row not inserted yet, "withdrawn" one deleted again.    *)
(***************************************************************************)

ChangeStatus ==
  {"applying", "verifying", "healthy", "unverified", "failed",
   "partially_applied", "verification_failed", "awaiting_approval",
   "recovering", "recovered", "restored", "recovery_failed",
   "manual_intervention_required", "kept"}

RowStatus == ChangeStatus \cup {"unopened", "withdrawn"}

\* The edges of TRANSITIONS, and of the trigger that repeats them.
TRANSITIONS == [s \in ChangeStatus |->
  CASE s = "applying" -> {"verifying", "failed", "partially_applied",
                          "manual_intervention_required"}
    [] s = "verifying" -> {"healthy", "unverified", "verification_failed",
                           "manual_intervention_required"}
    [] s \in {"healthy", "unverified", "kept"} -> {"recovering"}
    [] s \in {"partially_applied", "verification_failed"} ->
         {"recovering", "awaiting_approval", "manual_intervention_required"}
    [] s = "awaiting_approval" ->
         {"recovering", "manual_intervention_required", "kept"}
    [] s = "recovering" ->
         {"recovered", "restored", "recovery_failed", "healthy", "unverified",
          "partially_applied", "verification_failed", "awaiting_approval",
          "manual_intervention_required", "kept"}
    [] s = "restored" -> {"healthy"}
    [] s = "recovery_failed" -> {"recovering", "manual_intervention_required"}
    [] s = "manual_intervention_required" -> {"recovering", "kept"}
    [] OTHER -> {}]

canTransition(from, to) == from \in ChangeStatus /\ to \in TRANSITIONS[from]

IN_EFFECT == {"healthy", "unverified", "kept"}

RECOVERY_OWED ==
  {"partially_applied", "verification_failed", "awaiting_approval",
   "recovery_failed", "manual_intervention_required"}

\* automatic and repair are Backenly's own; manual stands for a person's, from
\* History or by approving a request, which differ in wording and attribution.
RecoveryMode == {"automatic", "repair", "manual"}

byBackenly(mode) == mode \in {"automatic", "repair"}

\* Mutant: a restored change can be restored again.
restorableFromRestored(mode) ==
  IF mode = "automatic" THEN {"verification_failed", "partially_applied"}
                        ELSE IN_EFFECT \cup RECOVERY_OWED \cup {"restored"}

restorableFrom(mode) ==
  IF mode = "automatic" THEN {"verification_failed", "partially_applied"}
                        ELSE IN_EFFECT \cup RECOVERY_OWED
=============================================================================
