-------------------------- MODULE BreakerRequests --------------------------
(***************************************************************************)
(* The requests put to the Breaker of ConvergencePolicy, one at a time, and*)
(* what it promises of its answer to each.                                 *)
(***************************************************************************)
EXTENDS ConvergencePolicy

CONSTANTS Requests, Unasked

ASSUME RequestsAssumption == Requests \subseteq Request

VARIABLE request

Ask == request' \in IF request = Unasked THEN Requests ELSE {Unasked}
PolicyInit == request = Unasked
PolicySpec == PolicyInit /\ [][Ask]_request

Asked == request \in Requests

\* A pass to one more generation is earned: fewer than two failures, no exclusion,
\* no architecture, no oscillation, a changed basis, verified evidence where the
\* same invariant is touched again, and both where the change is critical.  The
\* triggers are eleven and their order decides, so a pass could slip past any.
PassIsEarned ==
    Asked /\ Decision(request) = "pass" /\ request.advances =>
        /\ request.failures < 2 /\ request.changed
        /\ ~request.exclusion /\ ~request.architecture /\ ~request.oscillation
        /\ request.sameInvariant => request.verified
        /\ Importance(request) = "critical" => request.verified

\* What was stopped is stopped as well with a failure more: repeated failure
\* never opens a way that one failure closed.
FailuresOnlyTighten ==
    Asked /\ ~Goes(request) => ~Goes([request EXCEPT !.failures = @ + 1])

\* A probe advises: whatever it says, a request it was not asked about would
\* have passed as well ("Probe advice cannot change ... grants").
AdviceNeverOpens ==
    Asked /\ Decision(request) = "pass" => Decision([request EXCEPT !.probeAction = "none"]) = "pass"
=============================================================================
