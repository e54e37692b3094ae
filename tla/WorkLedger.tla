----------------------------- MODULE WorkLedger -----------------------------
(***************************************************************************)
(* What the review queue promises about each piece of work, without rows,  *)
(* timers, launches or processes: work goes through triage and review under*)
(* numbered tokens; only the bearer of the newest token enters a verdict;  *)
(* work is given up only when every token has been spent; a verdict stays. *)
(* ReviewQueue implements it.                                              *)
(***************************************************************************)
EXTENDS Naturals

CONSTANTS
    Jobs,         \* pieces of work
    MaxAttempts   \* tokens that may be handed out for one piece of work

VARIABLE work     \* work[j]: the stage of j, its newest token, whether it is out

Open == {"triage", "review"}
Stages == {"none", "discarded", "reviewed_no_lesson", "published", "failed"} \cup Open

Entry(s, t, h) == [stage |-> s, token |-> t, held |-> h]

Init == work = [j \in Jobs |-> Entry("none", 0, FALSE)]

\* Work is entered once, for triage or straight for review.
Enter(j) ==
    /\ work[j].stage = "none"
    /\ \E s \in Open : work' = [work EXCEPT ![j] = Entry(s, 0, FALSE)]

\* A new token replaces the old one, also one whose bearer never came back.
Grant(j) ==
    /\ work[j].stage \in Open /\ work[j].token < MaxAttempts
    /\ work' = [work EXCEPT ![j] = Entry(@.stage, @.token + 1, TRUE)]

Return(j) ==
    /\ work[j].stage \in Open /\ work[j].held
    /\ work' = [work EXCEPT ![j] = Entry(@.stage, @.token, FALSE)]

Verdicts(s) == IF s = "triage" THEN {"review", "discarded"}
               ELSE {"reviewed_no_lesson", "published"}

Verdict(j) ==
    /\ work[j].stage \in Open /\ work[j].held
    /\ \E s \in Verdicts(work[j].stage) :
          work' = [work EXCEPT ![j] = Entry(s, @.token, FALSE)]

GiveUp(j) ==
    /\ work[j].stage \in Open /\ work[j].token = MaxAttempts
    /\ work' = [work EXCEPT ![j] = Entry("failed", @.token, FALSE)]

Next == \E j \in Jobs : Enter(j) \/ Grant(j) \/ Return(j) \/ Verdict(j) \/ GiveUp(j)

Spec == Init /\ [][Next]_work
=============================================================================
