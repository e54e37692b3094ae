---------------------------- MODULE ReviewQueue ----------------------------
(***************************************************************************)
(* The reviewer_jobs table of the control store and the operations on it   *)
(* (src/src/control-store.mjs).  Every operation runs in one BEGIN         *)
(* IMMEDIATE transaction, so an operation is one atomic action, whichever  *)
(* process calls it.                                                       *)
(*                                                                         *)
(* Callers are arbitrary here: any owner may present any lease epoch, as a *)
(* process that woke up late does.  ReviewPipeline restricts the callers   *)
(* to the processes the program really runs.                               *)
(*                                                                         *)
(* Time.  The code compares each timestamp column with the clock and with  *)
(* nothing else, so a column is abstracted to the answer of that           *)
(* comparison; TimePasses turns a future timestamp into a past one.  The   *)
(* lengths of the delays are abstracted away: timers elapse in any order.  *)
(*                                                                         *)
(* launch_epoch is only compared for equality with the value a hook was    *)
(* given, so it is abstracted to the hook that made the newest reservation.*)
(* The append-only review_job_events log has no reader in this module and  *)
(* is left out.                                                            *)
(***************************************************************************)
EXTENDS Naturals

CONSTANTS
    Jobs,         \* source identities, hence rows: one job per captured complaint
    Owners,       \* owner ids ("reviewer-<pid>", "classifier-<pid>")
    Hooks,        \* prompt hooks, which reserve launches
    Documents,    \* documents a review may publish
    MaxAttempts,  \* MAX_REVIEW_ATTEMPTS
    NoOwner, NoHook, NoDocument   \* SQL NULL in the respective column

\* Two retry delays are configured (REVIEW_RETRY_DELAYS_MS), one for each
\* attempt but the last: the code is written for at least three attempts.
ASSUME AttemptsAssumption == MaxAttempts \in Nat /\ MaxAttempts > 2
ASSUME NullAssumption ==
    NoOwner \notin Owners /\ NoHook \notin Hooks /\ NoDocument \notin Documents

VARIABLE job      \* job[j]: the row of j, "absent" until it is inserted

----------------------------------------------------------------------------
(* Rows and timestamps. *)

Timer == {"null", "future", "past"}
Due(t)     == t # "future"   \* column IS NULL OR column <= now
Live(t)    == t = "future"   \* column IS NOT NULL AND column > now
Expired(t) == t = "past"     \* column IS NOT NULL AND column <= now

Outcomes == {"reviewed_no_lesson", "published", "failed", "discarded"}
States == {"absent", "llm_pending", "pending", "running", "retryable"} \cup Outcomes

Row == [state : States, attempt : 0..MaxAttempts, lease_epoch : 0..MaxAttempts,
        owner_id : Owners \cup {NoOwner}, lease_until : Timer,
        next_attempt_at : Timer, next_launch_at : Timer,
        launch_epoch : Hooks \cup {NoHook},
        published_path : Documents \cup {NoDocument}]

NewRow(s) ==
    [state |-> s, attempt |-> 0, lease_epoch |-> 0, owner_id |-> NoOwner,
     lease_until |-> "null", next_attempt_at |-> "null", next_launch_at |-> "null",
     launch_epoch |-> NoHook, published_path |-> NoDocument]

Settled(r) == r.state \in Outcomes
Waiting(r) == r.state \in {"pending", "retryable"} /\ Due(r.next_attempt_at)
\* Mutant: reclaims whatever is running.
Abandoned_LeaseIgnored(r) == r.state = "running"
Abandoned(r) == r.state = "running" /\ Expired(r.lease_until)

Write(j, r) == job' = [job EXCEPT ![j] = r]
Skip(j) == UNCHANGED job

----------------------------------------------------------------------------
(* Rows after an UPDATE. *)

\* Mutant: the claim forgets to mint a new epoch.
Leased_SameEpoch(r, w) ==
    [r EXCEPT !.owner_id = w, !.attempt = @ + 1,
              !.lease_until = "future", !.next_attempt_at = "null"]

\* Both claims take the lease the same way.
Leased(r, w) ==
    [r EXCEPT !.owner_id = w, !.attempt = @ + 1, !.lease_epoch = @ + 1,
              !.lease_until = "future", !.next_attempt_at = "null"]

Unleased(r, s) == [r EXCEPT !.state = s, !.owner_id = NoOwner, !.lease_until = "null"]

\* The lease columns are cleared by every outcome, next_launch_at only by some.
Ended(r, s) == [Unleased(r, s) EXCEPT !.next_attempt_at = "null"]
Exhausted(r) == [Ended(r, "failed") EXCEPT !.next_launch_at = "null"]

----------------------------------------------------------------------------
(* Creation. *)

\* INSERT, unless the source identity already has its row.
CreateReviewCandidate(j, initialState) ==
    IF job[j].state = "absent" THEN Write(j, NewRow(initialState)) ELSE Skip(j)

----------------------------------------------------------------------------
(* The classifier's operations. *)

\* Mutant: a claim also asks for owner_id IS NULL.
ClassificationClaimable_Unowned(r) ==
    /\ r.state = "llm_pending" /\ r.attempt < MaxAttempts
    /\ Due(r.lease_until) /\ r.owner_id = NoOwner
\* Mutant: attempts are not counted against the bound.
ClassificationClaimable_Unbounded(r) == r.state = "llm_pending" /\ Due(r.lease_until)

ClassificationClaimable(r) ==
    /\ r.state = "llm_pending" /\ r.attempt < MaxAttempts
    /\ Due(r.lease_until)
\* Mutant: without the state test.
ClassificationSpent_AnyState(r) == r.attempt >= MaxAttempts
\* Tried when the claim finds no row; it does not look at the lease.
ClassificationSpent(r) == r.state = "llm_pending" /\ r.attempt >= MaxAttempts

ClaimLLMClassification(j, w) ==
    IF ClassificationClaimable(job[j]) THEN Write(j, Leased(job[j], w))
    ELSE IF ClassificationSpent(job[j]) THEN Write(j, Exhausted(job[j]))
    ELSE Skip(j)

\* Mutant: without the test of owner and epoch.
HoldsClassification_AnyCaller(r, w, e) == r.state = "llm_pending"
\* Neither release nor resolve asks whether the lease has expired.
HoldsClassification(r, w, e) ==
    r.state = "llm_pending" /\ r.owner_id = w /\ r.lease_epoch = e

\* withError: the caller gave an errorCode.
Released(r, withError) ==
    IF withError /\ r.attempt >= MaxAttempts THEN Exhausted(r)
    ELSE [Unleased(r, "llm_pending") EXCEPT !.next_launch_at = "future"]

ReleaseLLMClassification(j, w, e, withError) ==
    IF HoldsClassification(job[j], w, e)
    THEN Write(j, Released(job[j], withError)) ELSE Skip(j)

Resolved(r, admission) == Ended(r, IF admission THEN "pending" ELSE "discarded")

ResolveLLMAdmission(j, w, e, admission) ==
    IF HoldsClassification(job[j], w, e)
    THEN Write(j, Resolved(job[j], admission)) ELSE Skip(j)

----------------------------------------------------------------------------
(* The prompt hook's operations. *)

\* Mutant: an abandoned review is given up at once.
LaunchExhausted_Early(r) == Abandoned(r)
LaunchExhausted(r) == Abandoned(r) /\ r.attempt >= MaxAttempts
Launchable(r) ==
    /\ r.attempt < MaxAttempts /\ Due(r.next_launch_at)
    /\ Waiting(r) \/ Abandoned(r)
Reserved(r, h) == [r EXCEPT !.launch_epoch = h, !.next_launch_at = "future"]

ReserveReviewLaunch(j, h) ==
    IF LaunchExhausted(job[j]) THEN Write(j, Exhausted(job[j]))
    ELSE IF Launchable(job[j]) THEN Write(j, Reserved(job[j], h))
    ELSE Skip(j)

\* Mutant: without the test of the launch epoch.
LaunchRevocable_AnyHook(r, h) ==
    /\ r.next_launch_at # "null" /\ r.attempt < MaxAttempts
    /\ r.state \in {"pending", "retryable"} \/ Abandoned(r)
LaunchRevocable(r, h) ==
    /\ r.launch_epoch = h /\ r.next_launch_at # "null" /\ r.attempt < MaxAttempts
    /\ r.state \in {"pending", "retryable"} \/ Abandoned(r)

RecordReviewLaunchFailure(j, h) ==
    IF LaunchRevocable(job[j], h)
    THEN Write(j, [job[j] EXCEPT !.next_launch_at = "null"]) ELSE Skip(j)

----------------------------------------------------------------------------
(* The reviewer's operations. *)

\* Mutant: off by one.
Claimable_OffByOne(r) == r.attempt <= MaxAttempts /\ (Waiting(r) \/ Abandoned(r))
Claimable(r) == r.attempt < MaxAttempts /\ (Waiting(r) \/ Abandoned(r))
ClaimSpent(r) == r.attempt >= MaxAttempts /\ (Waiting(r) \/ Abandoned(r))
Claimed(r, w) == [Leased(r, w) EXCEPT !.state = "running"]

\* Unlike the other two exhaustions this one leaves next_launch_at alone.
ClaimReviewJob(j, w) ==
    IF Claimable(job[j]) THEN Write(j, Claimed(job[j], w))
    ELSE IF ClaimSpent(job[j]) THEN Write(j, Ended(job[j], "failed"))
    ELSE Skip(j)

\* Mutant: without the test of owner and epoch.
HoldsReviewLease_AnyCaller(r, w, e) == r.state = "running" /\ Live(r.lease_until)
\* The WHERE clause of every later write of a reviewer, and assertReviewLease.
HoldsReviewLease(r, w, e) ==
    /\ r.state = "running" /\ r.owner_id = w /\ r.lease_epoch = e
    /\ Live(r.lease_until)

RenewReviewLease(j, w, e) ==
    IF HoldsReviewLease(job[j], w, e)
    THEN Write(j, [job[j] EXCEPT !.lease_until = "future"]) ELSE Skip(j)

CompleteReviewNoLesson(j, w, e) ==
    IF HoldsReviewLease(job[j], w, e)
    THEN Write(j, Ended(job[j], "reviewed_no_lesson")) ELSE Skip(j)

CompleteReviewPublished(j, w, e, d) ==
    IF HoldsReviewLease(job[j], w, e)
    THEN Write(j, [Ended(job[j], "published") EXCEPT !.published_path = d])
    ELSE Skip(j)

\* Mutant: off by one, the last attempt is retried too.
FailedAttempt_OffByOne(r) ==
    [Unleased(r, IF r.attempt > MaxAttempts THEN "failed" ELSE "retryable")
        EXCEPT !.next_attempt_at = IF r.attempt \in {1, 2} THEN "future" ELSE "null"]
\* The retry delay is chosen by the attempt that failed.
FailedAttempt(r) ==
    [Unleased(r, IF r.attempt >= MaxAttempts THEN "failed" ELSE "retryable")
        EXCEPT !.next_attempt_at = IF r.attempt \in {1, 2} THEN "future" ELSE "null"]

FailReviewJob(j, w, e) ==
    IF HoldsReviewLease(job[j], w, e) /\ job[j].attempt \in 1..MaxAttempts
    THEN Write(j, FailedAttempt(job[j])) ELSE Skip(j)

----------------------------------------------------------------------------
(* The clock. *)

TimePasses(j) ==
    \/ Live(job[j].lease_until) /\ Write(j, [job[j] EXCEPT !.lease_until = "past"])
    \/ Live(job[j].next_attempt_at) /\ Write(j, [job[j] EXCEPT !.next_attempt_at = "past"])
    \/ Live(job[j].next_launch_at) /\ Write(j, [job[j] EXCEPT !.next_launch_at = "past"])

----------------------------------------------------------------------------

Init == job = [j \in Jobs |-> NewRow("absent")]

HookOperation(j) ==
    \/ \E s \in {"pending", "llm_pending"} : CreateReviewCandidate(j, s)
    \/ \E h \in Hooks : ReserveReviewLaunch(j, h) \/ RecordReviewLaunchFailure(j, h)

ClassifierOperation(j) ==
    \E w \in Owners :
        \/ ClaimLLMClassification(j, w)
        \/ \E e \in 0..MaxAttempts, b \in BOOLEAN :
              ReleaseLLMClassification(j, w, e, b) \/ ResolveLLMAdmission(j, w, e, b)

ReviewerOperation(j) ==
    \E w \in Owners :
        \/ ClaimReviewJob(j, w)
        \/ \E e \in 0..MaxAttempts :
              \/ RenewReviewLease(j, w, e)
              \/ CompleteReviewNoLesson(j, w, e)
              \/ \E d \in Documents : CompleteReviewPublished(j, w, e, d)
              \/ FailReviewJob(j, w, e)

Next == \E j \in Jobs :
    HookOperation(j) \/ ClassifierOperation(j) \/ ReviewerOperation(j) \/ TimePasses(j)

Spec == Init /\ [][Next]_job

----------------------------------------------------------------------------
(* Properties. *)

\* Every row has the shape the schema declares.
TypeOK == job \in [Jobs -> Row]

\* The columns of a row agree with one another, whatever order the operations of
\* several processes came in: a lease has an owner and only an unsettled row has
\* one; each claim of either kind spends one attempt and mints one epoch; a
\* retry is scheduled only for a row that still has an attempt left; a path is
\* recorded exactly by publication.
RowConsistent(r) ==
    /\ r.attempt = r.lease_epoch
    /\ r.owner_id = NoOwner <=> r.lease_until = "null"
    /\ r.owner_id # NoOwner => r.state \in {"running", "llm_pending"} /\ r.attempt > 0
    /\ r.state = "running" => r.owner_id # NoOwner
    /\ r.state = "retryable" => r.attempt < MaxAttempts
    /\ r.next_attempt_at # "null" => r.state = "retryable"
    /\ r.state = "published" <=> r.published_path # NoDocument

RowsConsistent == \A j \in Jobs : RowConsistent(job[j])

\* A verdict is final: no late answer, retry, reservation or claim reopens or
\* relabels a settled job (the state guard of every UPDATE).
SettledIsFinal ==
    [][\A j \in Jobs : Settled(job[j]) =>
          /\ job'[j].state = job[j].state
          /\ job'[j].published_path = job[j].published_path]_job

\* While a lease is live nobody else is given the job: the holder keeps it or
\* the lease ends, and no new epoch is minted (the lease test of both claims).
LiveLeaseIsExclusive ==
    [][\A j \in Jobs : Live(job[j].lease_until) =>
          /\ job'[j].owner_id \in {job[j].owner_id, NoOwner}
          /\ job'[j].lease_epoch = job[j].lease_epoch]_job
----------------------------------------------------------------------------
(* The queue implements the ledger: a token is a lease epoch, and it is out *)
(* while the row has an owner.                                              *)

Stage(s) ==
    CASE s = "absent" -> "none"
      [] s = "llm_pending" -> "triage"
      [] s \in {"pending", "running", "retryable"} -> "review"
      [] OTHER -> s

LedgerEntry(r) ==
    [stage |-> Stage(r.state), token |-> r.lease_epoch, held |-> r.owner_id # NoOwner]

Ledger == INSTANCE WorkLedger WITH work <- [j \in Jobs |-> LedgerEntry(job[j])]

\* A verdict is entered only under the newest lease epoch, a job is failed only
\* with all its attempts spent, by whichever of the six operations that can fail
\* it, and no operation moves a job backwards from review to triage.
ImplementsLedger == Ledger!Spec
=============================================================================
