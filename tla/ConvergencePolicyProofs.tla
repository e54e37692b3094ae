---------------------- MODULE ConvergencePolicyProofs ----------------------
(***************************************************************************)
(* What ConvergencePolicy promises, for every request with any number of   *)
(* failures: the requests a run of TLC puts have at most three.            *)
(***************************************************************************)
EXTENDS BreakerRequests, TLAPS

\* Two failures hold up the work, or are a warning.
LEMMA FailureStops ==
    ASSUME NEW q \in Request, q.failures >= 2, ~q.exclusion
    PROVE  Decision(q) \in {"checkpoint_required", "human_decision", "warn"}
BY DEF Request, Decision, EvaluateConvergence, Clamp, Requested, Matched, FailureTrigger, Trigger

LEMMA FewFailuresPassOn ==
    ASSUME NEW q \in Request, NEW otherwise, q.failures < 2
    PROVE  FailureTrigger(q, otherwise) = otherwise
<1>1. q.failures \in Nat
  BY DEF Request
<1>2. ~(q.failures >= 2) /\ ~(q.failures >= 3)
  BY <1>1
<1> QED BY <1>2, Zenon DEF FailureTrigger

\* The triggers that let a pass through, one after the other.
LEMMA PassComesThrough ==
    ASSUME NEW q \in Request, Decision(q) = "pass", q.advances
    PROVE  /\ q.failures < 2 /\ q.changed
           /\ ~q.exclusion /\ ~q.architecture /\ ~q.oscillation
           /\ q.sameInvariant => q.verified
           /\ Importance(q) = "critical" => q.verified
<1>1. Matched(q).decision = "pass"
  BY DEF Decision, EvaluateConvergence, Clamp, Requested
<1>2. ~q.exclusion
  BY <1>1 DEF Matched, Trigger
<1>3. q.failures < 2 /\ DirectionTrigger(q).decision = "pass"
  BY <1>1, <1>2 DEF Matched, FailureTrigger, Trigger, Request
<1>4. ExpansionTrigger(q).decision = "pass"
  BY <1>3 DEF DirectionTrigger, DirectionOf, Trigger
<1>5. /\ ~q.architecture /\ ~q.oscillation /\ q.changed
      /\ q.sameInvariant => q.verified
      /\ BudgetTrigger(q).decision = "pass"
  BY <1>4 DEF ExpansionTrigger, Trigger
<1>6. Importance(q) = "critical" => q.verified
  BY <1>5 DEF BudgetTrigger, Trigger
<1> QED BY <1>2, <1>3, <1>5, <1>6

\* A failure more opens nothing that was closed.
LEMMA FailureOpensNothing ==
    ASSUME NEW q \in Request, ~Goes(q)
    PROVE  ~Goes([q EXCEPT !.failures = @ + 1])
<1> DEFINE r == [q EXCEPT !.failures = @ + 1]
<1>1. /\ r \in Request /\ r.failures = q.failures + 1
      /\ r.audit = q.audit /\ r.exclusion = q.exclusion /\ r.verified = q.verified
  BY DEF Request
<1>2. ~q.audit /\ ~r.audit
  BY <1>1 DEF Goes, Decision, EvaluateConvergence, Clamp, Request
<1>3. CASE q.exclusion
  BY <1>1, <1>2, <1>3 DEF Goes, Decision, EvaluateConvergence, Clamp, Requested, Matched, Trigger
<1>4. CASE ~q.exclusion /\ r.failures >= 2
  <2>1. Decision(r) \in {"checkpoint_required", "human_decision", "warn"}
    BY <1>1, <1>4, FailureStops
  <2>2. Decision(r) # "warn"
    BY <1>1, <1>2, <1>4 DEF Decision, EvaluateConvergence, Clamp, Requested, Matched,
       FailureTrigger, Trigger, Request
  <2> QED BY <2>1, <2>2 DEF Goes
<1>5. CASE ~q.exclusion /\ ~(r.failures >= 2)
  <2>1. /\ q.failures \in Nat /\ r.failures < 2 /\ q.failures < 2
    BY <1>1, <1>5 DEF Request
  <2>2. DirectionTrigger(r) = DirectionTrigger(q)
    BY DEF DirectionTrigger, DirectionOf, ExpansionTrigger, BudgetTrigger, Importance, Request
  <2>3. /\ FailureTrigger(q, DirectionTrigger(q)) = DirectionTrigger(q)
        /\ FailureTrigger(r, DirectionTrigger(r)) = DirectionTrigger(r)
    BY <1>1, <2>1, FewFailuresPassOn
  <2>4. Matched(r) = Matched(q)
    BY <1>1, <1>5, <2>2, <2>3 DEF Matched
  <2> QED BY <1>1, <2>4 DEF Goes, Decision, EvaluateConvergence, Clamp, Requested
<1> QED BY <1>3, <1>4, <1>5 DEF Request

\* Without its advice the request takes the same way through the triggers.
LEMMA AdviceIsNeedless ==
    ASSUME NEW q \in Request, Decision(q) = "pass"
    PROVE  Decision([q EXCEPT !.probeAction = "none"]) = "pass"
<1> DEFINE r == [q EXCEPT !.probeAction = "none"]
<1>1. Matched(q).decision = "pass" /\ ~q.exclusion
  BY DEF Decision, EvaluateConvergence, Clamp, Requested, Matched, Trigger
<1>2. q.failures < 2 /\ DirectionTrigger(q) = Matched(q)
  BY <1>1 DEF Matched, FailureTrigger, Trigger, Request
<1>3. DirectionOf(q) = "none"
  BY <1>1, <1>2 DEF DirectionTrigger, DirectionOf, Trigger
<1>4. DirectionOf(r) = "none"
  BY DEF DirectionOf, Request
<1>5. ExpansionTrigger(r) = ExpansionTrigger(q)
  BY DEF ExpansionTrigger, BudgetTrigger, Importance, Request
<1>6. Matched(r) = Matched(q)
  BY <1>1, <1>2, <1>3, <1>4, <1>5 DEF Matched, FailureTrigger, DirectionTrigger, Request
<1> QED BY <1>6 DEF Decision, EvaluateConvergence, Clamp, Requested, Request

\* Every pass to one more generation is earned (PassIsEarned).
THEOREM PassesAreEarned == PolicySpec => []PassIsEarned
<1>1. PassIsEarned
  BY RequestsAssumption, PassComesThrough DEF PassIsEarned, Asked
<1> QED BY <1>1, PTL

\* Repeated failure never opens a way (FailuresOnlyTighten).
THEOREM FailuresTighten == PolicySpec => []FailuresOnlyTighten
<1>1. FailuresOnlyTighten
  BY RequestsAssumption, FailureOpensNothing DEF FailuresOnlyTighten, Asked
<1> QED BY <1>1, PTL

\* A probe's advice opens nothing (AdviceNeverOpens).
THEOREM AdviceOpensNothing == PolicySpec => []AdviceNeverOpens
<1>1. AdviceNeverOpens
  BY RequestsAssumption, AdviceIsNeedless DEF AdviceNeverOpens, Asked
<1> QED BY <1>1, PTL
=============================================================================
