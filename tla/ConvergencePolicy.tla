------------------------- MODULE ConvergencePolicy -------------------------
(***************************************************************************)
(* The Breaker (src/src/convergence-policy.mjs): what a request to change  *)
(* the code once more is answered.  evaluateConvergence is a pure function *)
(* of the request; its triggers are tried in a fixed order and the first   *)
(* that applies decides.                                                   *)
(*                                                                         *)
(* A request is given by what the triggers tell apart.  Validation of the  *)
(* request's shape is left out; texts are a truth value each.              *)
(***************************************************************************)
EXTENDS Naturals

Importances == {"routine", "important", "critical"}
ProbeActions == {"none", "continue_once", "simplify_current_generation",
                 "rollback_to_generation", "direction_checkpoint", "human_decision",
                 "finish_now"}
GrantPurposes == {"none", "local_fix", "exploration", "simplify", "rollback", "architecture_fix"}

\* trusted: the importance was declared by one of the hard authorities; advances:
\* a new generation is asked for; falsifiable: a hypothesis and a test of it were
\* given; verified: evidenceQuality is "verified".
Request ==
    [audit : BOOLEAN, importance : Importances, trusted : BOOLEAN, failures : Nat,
     lastPurpose : GrantPurposes, advances : BOOLEAN, acceptance : BOOLEAN,
     architecture : BOOLEAN, exclusion : BOOLEAN, oscillation : BOOLEAN,
     sameInvariant : BOOLEAN, explore : BOOLEAN, explored : BOOLEAN, falsifiable : BOOLEAN,
     verified : BOOLEAN, changed : BOOLEAN, probeAction : ProbeActions]

Importance(q) == IF q.trusted THEN q.importance ELSE "routine"

\* `proof`: the decision is taken on verified evidence only, else it is a warning.
Trigger(decision, reason, proof) == [decision |-> decision, reason |-> reason, proof |-> proof]

\* Mutant: a probe's wish to go on is taken for a pass.
DirectionOf_Trusting(q) ==
    IF ~q.verified THEN "none"
    ELSE IF q.probeAction = "direction_checkpoint" THEN "checkpoint_required"
    ELSE IF q.probeAction = "human_decision" THEN "human_decision"
    ELSE IF q.probeAction = "continue_once" THEN "pass"
    ELSE IF q.probeAction = "finish_now" /\ q.acceptance THEN "finish"
    ELSE "none"

\* What a resolved probe decides by itself; the other actions decide nothing.
DirectionOf(q) ==
    IF ~q.verified THEN "none"
    ELSE IF q.probeAction = "direction_checkpoint" THEN "checkpoint_required"
    ELSE IF q.probeAction = "human_decision" THEN "human_decision"
    ELSE IF q.probeAction = "finish_now" /\ q.acceptance THEN "finish"
    ELSE "none"

DirectionReason(d) ==
    CASE d = "checkpoint_required" -> "probe_direction_checkpoint"
      [] d = "human_decision"      -> "probe_human_decision"
      [] OTHER                     -> "verified_acceptance_complete"

\* Mutant: the second failure asks for a direction, the third not again.
FailureTrigger_Once(q, otherwise) ==
    IF q.lastPurpose = "architecture_fix" /\ q.failures >= 3
    THEN Trigger("human_decision", "architecture_fix_failed", FALSE)
    ELSE IF q.failures = 2
    THEN Trigger("checkpoint_required", "repeated_review_invariant", FALSE)
    ELSE otherwise

FailureTrigger(q, otherwise) ==
    IF q.lastPurpose = "architecture_fix" /\ q.failures >= 3
    THEN Trigger("human_decision", "architecture_fix_failed", FALSE)
    ELSE IF q.failures >= 2
    THEN Trigger("checkpoint_required", "repeated_review_invariant", FALSE)
    ELSE otherwise

\* Mutant: for a critical change either new or verified evidence is enough.
BudgetTrigger_Either(q) ==
    IF Importance(q) = "important" /\ q.explore
    THEN IF ~q.explored /\ q.falsifiable
         THEN Trigger("pass", "exploration_grant_available", FALSE)
         ELSE Trigger("checkpoint_required", "exploration_budget_exhausted", FALSE)
    ELSE IF Importance(q) = "critical" /\ ~(q.changed \/ q.verified)
    THEN Trigger("checkpoint_required", "critical_evidence_required", FALSE)
    ELSE Trigger("pass", "basis_changed_or_scope_aligned", FALSE)

\* The budgets of an important and of a critical change; a routine one has none.
BudgetTrigger(q) ==
    IF Importance(q) = "important" /\ q.explore
    THEN IF ~q.explored /\ q.falsifiable
         THEN Trigger("pass", "exploration_grant_available", FALSE)
         ELSE Trigger("checkpoint_required", "exploration_budget_exhausted", FALSE)
    ELSE IF Importance(q) = "critical" /\ ~(q.changed /\ q.verified)
    THEN Trigger("checkpoint_required", "critical_evidence_required", FALSE)
    ELSE Trigger("pass", "basis_changed_or_scope_aligned", FALSE)

ExpansionTrigger(q) ==
    IF q.acceptance /\ q.architecture
    THEN Trigger("reflection_required", "acceptance_satisfied_scope_expansion", FALSE)
    ELSE IF q.architecture
    THEN Trigger("reflection_required", "unjustified_architecture_expansion", TRUE)
    ELSE IF q.oscillation THEN Trigger("reflection_required", "oscillation", TRUE)
    ELSE IF q.sameInvariant /\ q.advances /\ ~q.verified
    THEN Trigger("reflection_required", "evidence_free_same_invariant", FALSE)
    ELSE IF q.advances /\ ~q.changed
    THEN Trigger("reflection_required", "unchanged_basis_repeated_mutation", FALSE)
    ELSE BudgetTrigger(q)

DirectionTrigger(q) ==
    IF DirectionOf(q) # "none"
    THEN Trigger(DirectionOf(q), DirectionReason(DirectionOf(q)), FALSE)
    ELSE ExpansionTrigger(q)

Matched(q) ==
    IF q.exclusion THEN Trigger("reflection_required", "explicit_exclusion_touched", TRUE)
    ELSE FailureTrigger(q, DirectionTrigger(q))

Requested(q) == IF Matched(q).proof /\ ~q.verified THEN "warn" ELSE Matched(q).decision

\* An adapter that only audits has no way to stop anything.
Clamp(q, d) == IF q.audit /\ d # "pass" THEN "warn" ELSE d

EvaluateConvergence(q) ==
    [decision |-> Clamp(q, Requested(q)), requested |-> Requested(q),
     reason |-> Matched(q).reason, probeRequired |-> Requested(q) = "reflection_required"]

Decision(q) == EvaluateConvergence(q).decision
Goes(q) == Decision(q) \in {"pass", "warn", "finish"}
=============================================================================
