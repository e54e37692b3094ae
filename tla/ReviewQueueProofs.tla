------------------------- MODULE ReviewQueueProofs -------------------------
(***************************************************************************)
(* Theorems about the review queue, for every number of jobs, owners,      *)
(* hooks and documents and every MaxAttempts above two.                    *)
(*                                                                         *)
(* An operation writes one row, so the argument is about one row: RowStep  *)
(* relates a row to the row an operation leaves; NextIsRowStep reduces a   *)
(* step of the queue to a row step; each property of the queue follows     *)
(* from a lemma about row steps.                                           *)
(***************************************************************************)
EXTENDS ReviewQueue, TLAPS

\* The row s that some operation, called by anybody, may leave in place of r.
HookRowStep(r, s) ==
    \/ r.state = "absent" /\ s \in {NewRow("pending"), NewRow("llm_pending")}
    \/ LaunchExhausted(r) /\ s = Exhausted(r)
    \/ Launchable(r) /\ \E h \in Hooks : s = Reserved(r, h)
    \/ /\ r.next_launch_at # "null" /\ s = [r EXCEPT !.next_launch_at = "null"]

ClassifierRowStep(r, s) ==
    \/ ClassificationClaimable(r) /\ \E w \in Owners : s = Leased(r, w)
    \/ ClassificationSpent(r) /\ s = Exhausted(r)
    \/ /\ \E w \in Owners, e \in 0..MaxAttempts : HoldsClassification(r, w, e)
       /\ \E b \in BOOLEAN : s = Released(r, b) \/ s = Resolved(r, b)

ReviewerRowStep(r, s) ==
    \/ Claimable(r) /\ \E w \in Owners : s = Claimed(r, w)
    \/ ClaimSpent(r) /\ s = Ended(r, "failed")
    \/ /\ \E w \in Owners, e \in 0..MaxAttempts : HoldsReviewLease(r, w, e)
       /\ \/ s = [r EXCEPT !.lease_until = "future"]
          \/ s = Ended(r, "reviewed_no_lesson")
          \/ \E d \in Documents : s = [Ended(r, "published") EXCEPT !.published_path = d]
          \/ r.attempt \in 1..MaxAttempts /\ s = FailedAttempt(r)

ClockRowStep(r, s) ==
    \/ Live(r.lease_until) /\ s = [r EXCEPT !.lease_until = "past"]
    \/ Live(r.next_attempt_at) /\ s = [r EXCEPT !.next_attempt_at = "past"]
    \/ Live(r.next_launch_at) /\ s = [r EXCEPT !.next_launch_at = "past"]

RowStep(r, s) ==
    HookRowStep(r, s) \/ ClassifierRowStep(r, s) \/ ReviewerRowStep(r, s) \/ ClockRowStep(r, s)

----------------------------------------------------------------------------

\* A step of the queue leaves the table alone or takes one row through a row step.
LEMMA NextIsRowStep ==
    ASSUME Next
    PROVE  \/ UNCHANGED job
           \/ \E j \in Jobs : \E s : job' = [job EXCEPT ![j] = s] /\ RowStep(job[j], s)
<1> DEFINE Result(j) == \/ UNCHANGED job
                        \/ \E s : job' = [job EXCEPT ![j] = s] /\ RowStep(job[j], s)
<1>1. ASSUME NEW j \in Jobs, HookOperation(j) PROVE Result(j)
  BY <1>1 DEF HookOperation, CreateReviewCandidate, ReserveReviewLaunch,
     RecordReviewLaunchFailure, LaunchRevocable, Write, Skip, RowStep, HookRowStep
<1>2. ASSUME NEW j \in Jobs, ClassifierOperation(j) PROVE Result(j)
  BY <1>2 DEF ClassifierOperation, ClaimLLMClassification, ReleaseLLMClassification,
     ResolveLLMAdmission, Write, Skip, RowStep, ClassifierRowStep
<1>3. ASSUME NEW j \in Jobs, ReviewerOperation(j) PROVE Result(j)
  BY <1>3 DEF ReviewerOperation, ClaimReviewJob, RenewReviewLease, CompleteReviewNoLesson,
     CompleteReviewPublished, FailReviewJob, Write, Skip, RowStep, ReviewerRowStep
<1>4. ASSUME NEW j \in Jobs, TimePasses(j) PROVE Result(j)
  BY <1>4 DEF TimePasses, Write, RowStep, ClockRowStep
<1> QED
  BY <1>1, <1>2, <1>3, <1>4 DEF Next

----------------------------------------------------------------------------
(* The inductive invariant: the shape of a row and the agreement of its columns. *)

\* A row not yet inserted has no epoch and no reservation.
Blank(r) == r.state = "absent" => r.lease_epoch = 0 /\ r.next_launch_at = "null"

RowOK(r) == r \in Row /\ RowConsistent(r) /\ Blank(r)
QueueInv == job \in [Jobs -> Row] /\ \A j \in Jobs : RowConsistent(job[j]) /\ Blank(job[j])

\* A fresh row of any of the three initial states has a consistent shape.
LEMMA NewRowOK ==
    ASSUME NEW s \in {"absent", "pending", "llm_pending"} PROVE RowOK(NewRow(s))
BY AttemptsAssumption, NullAssumption
   DEF RowOK, Row, RowConsistent, Blank, NewRow, States, Outcomes, Timer

\* Every row step keeps the shape of the row and the agreement of its columns.
LEMMA RowStepOK ==
    ASSUME NEW r, RowOK(r), NEW s, RowStep(r, s) PROVE RowOK(s)
<1> USE AttemptsAssumption, NullAssumption
    DEF RowOK, Row, RowConsistent, Blank, States, Outcomes, Timer
<1>1. ASSUME LaunchExhausted(r) \/ ClassificationSpent(r) PROVE RowOK(Exhausted(r))
  BY <1>1 DEF LaunchExhausted, Abandoned, ClassificationSpent, Exhausted, Ended, Unleased
<1>2. CASE HookRowStep(r, s)
  <2>1. CASE r.state = "absent" /\ s \in {NewRow("pending"), NewRow("llm_pending")}
    BY <2>1, NewRowOK
  <2>2. CASE LaunchExhausted(r) /\ s = Exhausted(r)
    BY <2>2, <1>1
  <2>3. ASSUME Launchable(r), NEW h \in Hooks, s = Reserved(r, h) PROVE RowOK(s)
    BY <2>3 DEF Reserved, Launchable, Waiting, Abandoned
  <2>4. CASE r.next_launch_at # "null" /\ s = [r EXCEPT !.next_launch_at = "null"]
    BY <2>4
  <2> QED BY <1>2, <2>1, <2>2, <2>3, <2>4 DEF HookRowStep
<1>3. CASE ClassifierRowStep(r, s)
  <2>1. ASSUME ClassificationClaimable(r), NEW w \in Owners, s = Leased(r, w) PROVE RowOK(s)
    <3>1. r.attempt + 1 \in 0..MaxAttempts /\ r.attempt + 1 > 0 /\ r.attempt + 1 # 0
      BY <2>1 DEF ClassificationClaimable
    <3>2. s \in Row
      BY <2>1, <3>1 DEF Leased
    <3>3. RowConsistent(s) /\ Blank(s)
      BY <2>1, <3>1 DEF ClassificationClaimable, Leased
    <3> QED BY <3>2, <3>3
  <2>2. CASE ClassificationSpent(r) /\ s = Exhausted(r)
    BY <2>2, <1>1
  <2>3. ASSUME NEW w \in Owners, NEW e \in 0..MaxAttempts, HoldsClassification(r, w, e),
               NEW b \in BOOLEAN, s = Released(r, b)
        PROVE  RowOK(s)
    <3>1. CASE s = Exhausted(r) /\ r.attempt >= MaxAttempts
      BY <3>1, <2>3, <1>1 DEF HoldsClassification, ClassificationSpent
    <3>2. CASE s = [Unleased(r, "llm_pending") EXCEPT !.next_launch_at = "future"]
      BY <3>2, <2>3 DEF HoldsClassification, Unleased
    <3> QED BY <2>3, <3>1, <3>2 DEF Released
  <2>4. ASSUME NEW w \in Owners, NEW e \in 0..MaxAttempts, HoldsClassification(r, w, e),
               NEW b \in BOOLEAN, s = Resolved(r, b)
        PROVE  RowOK(s)
    BY <2>4 DEF HoldsClassification, Resolved, Ended, Unleased
  <2> QED BY <1>3, <2>1, <2>2, <2>3, <2>4 DEF ClassifierRowStep
<1>4. CASE ReviewerRowStep(r, s)
  <2>1. ASSUME Claimable(r), NEW w \in Owners, s = Claimed(r, w) PROVE RowOK(s)
    <3>1. r.attempt + 1 \in 0..MaxAttempts /\ r.attempt + 1 > 0
      BY <2>1 DEF Claimable
    <3>2. s \in Row
      BY <2>1, <3>1 DEF Claimed, Leased
    <3>3. RowConsistent(s) /\ Blank(s)
      BY <2>1, <3>1 DEF Claimable, Waiting, Abandoned, Claimed, Leased
    <3> QED BY <3>2, <3>3
  <2>2. CASE ClaimSpent(r) /\ s = Ended(r, "failed")
    BY <2>2 DEF ClaimSpent, Waiting, Abandoned, Ended, Unleased
  <2>3. ASSUME NEW w \in Owners, NEW e \in 0..MaxAttempts, HoldsReviewLease(r, w, e)
        PROVE  /\ RowOK([r EXCEPT !.lease_until = "future"])
               /\ RowOK(Ended(r, "reviewed_no_lesson"))
               /\ \A d \in Documents :
                     RowOK([Ended(r, "published") EXCEPT !.published_path = d])
               /\ r.attempt \in 1..MaxAttempts => RowOK(FailedAttempt(r))
    <3>1. r.state = "running" /\ r.owner_id # NoOwner
      BY <2>3 DEF HoldsReviewLease
    <3>2. RowOK([r EXCEPT !.lease_until = "future"])
      BY <3>1
    <3>3. RowOK(Ended(r, "reviewed_no_lesson"))
      BY <3>1 DEF Ended, Unleased
    <3>4. ASSUME NEW d \in Documents
          PROVE  RowOK([Ended(r, "published") EXCEPT !.published_path = d])
      BY <3>1 DEF Ended, Unleased
    <3>5. ASSUME r.attempt \in 1..MaxAttempts PROVE RowOK(FailedAttempt(r))
      <4>1. r.attempt >= MaxAttempts => r.attempt \notin {1, 2}
        BY <3>5
      <4>2. FailedAttempt(r) \in Row
        BY <3>1 DEF FailedAttempt, Unleased
      <4>3. RowConsistent(FailedAttempt(r)) /\ Blank(FailedAttempt(r))
        BY <3>1, <3>5, <4>1 DEF FailedAttempt, Unleased
      <4> QED BY <4>2, <4>3
    <3> QED BY <3>2, <3>3, <3>4, <3>5
  <2> QED BY <1>4, <2>1, <2>2, <2>3 DEF ReviewerRowStep
<1>5. CASE ClockRowStep(r, s)
  <2>1. CASE Live(r.lease_until) /\ s = [r EXCEPT !.lease_until = "past"]
    BY <2>1 DEF Live
  <2>2. CASE Live(r.next_attempt_at) /\ s = [r EXCEPT !.next_attempt_at = "past"]
    BY <2>2 DEF Live
  <2>3. CASE Live(r.next_launch_at) /\ s = [r EXCEPT !.next_launch_at = "past"]
    BY <2>3 DEF Live
  <2> QED BY <1>5, <2>1, <2>2, <2>3 DEF ClockRowStep
<1> QED BY <1>2, <1>3, <1>4, <1>5 DEF RowStep

----------------------------------------------------------------------------
(* What a row step does to a settled row, to a live lease, to the ledger. *)

\* No row step relabels a settled row.
LEMMA RowStepSettled ==
    ASSUME NEW r, RowOK(r), NEW s, RowStep(r, s), Settled(r)
    PROVE  s.state = r.state /\ s.published_path = r.published_path
<1> USE DEF RowOK, Row, Settled, Outcomes
<1>1. CASE HookRowStep(r, s)
  BY <1>1 DEF HookRowStep, LaunchExhausted, Abandoned, Reserved
<1>2. ~ClassifierRowStep(r, s)
  BY DEF ClassifierRowStep, ClassificationClaimable, ClassificationSpent, HoldsClassification
<1>3. ~ReviewerRowStep(r, s)
  BY DEF ReviewerRowStep, Claimable, ClaimSpent, Waiting, Abandoned, HoldsReviewLease
<1>4. CASE ClockRowStep(r, s)
  BY <1>4 DEF ClockRowStep
<1> QED BY <1>1, <1>2, <1>3, <1>4 DEF RowStep

\* No row step gives a leased row to another owner or mints an epoch for it.
LEMMA RowStepLeased ==
    ASSUME NEW r, RowOK(r), NEW s, RowStep(r, s), Live(r.lease_until)
    PROVE  s.owner_id \in {r.owner_id, NoOwner} /\ s.lease_epoch = r.lease_epoch
<1> USE DEF RowOK, Row, Live
<1>1. r.owner_id # NoOwner /\ r.state \in {"running", "llm_pending"}
  BY DEF RowConsistent
<1>2. ~Waiting(r) /\ ~Abandoned(r)
  BY <1>1 DEF Waiting, Abandoned, Expired, RowConsistent
<1>3. CASE HookRowStep(r, s)
  BY <1>1, <1>2, <1>3 DEF HookRowStep, LaunchExhausted, Launchable
<1>4. CASE ClassifierRowStep(r, s)
  BY <1>4 DEF ClassifierRowStep, ClassificationClaimable, Due, Exhausted, Ended,
     Unleased, Released, Resolved
<1>5. CASE ReviewerRowStep(r, s)
  BY <1>2, <1>5 DEF ReviewerRowStep, Claimable, ClaimSpent, Ended, Unleased, FailedAttempt
<1>6. CASE ClockRowStep(r, s)
  BY <1>6 DEF ClockRowStep
<1> QED BY <1>3, <1>4, <1>5, <1>6 DEF RowStep

\* What each UPDATE makes of the epoch and the owner.
LEMMA LeaseAfter ==
    ASSUME NEW r \in Row
    PROVE  /\ \A s : Ended(r, s).lease_epoch = r.lease_epoch /\ Ended(r, s).owner_id = NoOwner
           /\ Exhausted(r).lease_epoch = r.lease_epoch /\ Exhausted(r).owner_id = NoOwner
           /\ \A h : /\ Reserved(r, h).lease_epoch = r.lease_epoch
                     /\ Reserved(r, h).owner_id = r.owner_id
           /\ \A w : /\ Leased(r, w).lease_epoch = r.lease_epoch + 1
                     /\ Claimed(r, w).lease_epoch = r.lease_epoch + 1
           /\ \A b : /\ Released(r, b).lease_epoch = r.lease_epoch
                     /\ Released(r, b).owner_id = NoOwner
           /\ FailedAttempt(r).lease_epoch = r.lease_epoch /\ FailedAttempt(r).owner_id = NoOwner
BY DEF Row, Ended, Unleased, Exhausted, Reserved, Leased, Claimed, Released, FailedAttempt

\* A row step mints at most one epoch, and without one it hands no lease over.
LEMMA RowStepEpoch ==
    ASSUME NEW r, RowOK(r), NEW s, RowStep(r, s)
    PROVE  \/ s.lease_epoch = r.lease_epoch /\ s.owner_id \in {r.owner_id, NoOwner}
           \/ s.lease_epoch = r.lease_epoch + 1
<1>1. r \in Row
  BY DEF RowOK
<1>2. CASE HookRowStep(r, s)
  <2>1. CASE r.state = "absent" /\ s \in {NewRow("pending"), NewRow("llm_pending")}
    BY <2>1 DEF NewRow, RowOK, Blank
  <2>2. CASE s = [r EXCEPT !.next_launch_at = "null"]
    BY <1>1, <2>2 DEF Row
  <2> QED BY <1>1, <1>2, <2>1, <2>2, LeaseAfter DEF HookRowStep
<1>3. CASE ClassifierRowStep(r, s)
  BY <1>1, <1>3, LeaseAfter DEF ClassifierRowStep, Resolved
<1>4. CASE ReviewerRowStep(r, s)
  <2>1. CASE s = [r EXCEPT !.lease_until = "future"]
    BY <1>1, <2>1 DEF Row
  <2>2. ASSUME NEW d \in Documents, s = [Ended(r, "published") EXCEPT !.published_path = d]
        PROVE  s.lease_epoch = r.lease_epoch /\ s.owner_id = NoOwner
    BY <1>1, <2>2 DEF Ended, Unleased, Row
  <2>3. CASE \/ \E w \in Owners : s = Claimed(r, w)
             \/ s \in {Ended(r, "failed"), Ended(r, "reviewed_no_lesson"), FailedAttempt(r)}
    BY <1>1, <2>3, LeaseAfter
  <2> QED BY <1>4, <2>1, <2>2, <2>3 DEF ReviewerRowStep
<1>5. CASE ClockRowStep(r, s)
  BY <1>1, <1>5 DEF ClockRowStep, Row
<1> QED BY <1>2, <1>3, <1>4, <1>5 DEF RowStep

\* The ledger entry b that a ledger step may leave in place of a.
EntryStep(a, b) ==
    \/ b = a
    \/ a.stage = "none" /\ \E s \in Ledger!Open : b = Ledger!Entry(s, 0, FALSE)
    \/ /\ a.stage \in Ledger!Open
       /\ \/ a.token < MaxAttempts /\ b = Ledger!Entry(a.stage, a.token + 1, TRUE)
          \/ a.held /\ b = Ledger!Entry(a.stage, a.token, FALSE)
          \/ a.held /\ \E s \in Ledger!Verdicts(a.stage) : b = Ledger!Entry(s, a.token, FALSE)
          \/ a.token = MaxAttempts /\ b = Ledger!Entry("failed", a.token, FALSE)

\* Seen through LedgerEntry, a row step is a ledger step or changes nothing.
LEMMA RowStepLedger ==
    ASSUME NEW r, RowOK(r), NEW s, RowStep(r, s)
    PROVE  EntryStep(LedgerEntry(r), LedgerEntry(s))
<1> USE AttemptsAssumption, NullAssumption
    DEF RowOK, Row, States, Outcomes, Timer, LedgerEntry, Stage, EntryStep, Ledger!Open,
        Ledger!Entry
<1>1. ASSUME LaunchExhausted(r) \/ ClassificationSpent(r)
      PROVE  EntryStep(LedgerEntry(r), LedgerEntry(Exhausted(r)))
  <2>1. r.state \in {"running", "llm_pending"} /\ r.lease_epoch = MaxAttempts
    BY <1>1 DEF LaunchExhausted, Abandoned, ClassificationSpent, RowConsistent
  <2>2. LedgerEntry(Exhausted(r)) = Ledger!Entry("failed", r.lease_epoch, FALSE)
    BY DEF Exhausted, Ended, Unleased
  <2> QED BY <2>1, <2>2
<1>2. CASE HookRowStep(r, s)
  <2>1. CASE r.state = "absent" /\ s \in {NewRow("pending"), NewRow("llm_pending")}
    <3>1. LedgerEntry(NewRow("pending")) = Ledger!Entry("review", 0, FALSE)
      BY DEF NewRow
    <3>2. LedgerEntry(NewRow("llm_pending")) = Ledger!Entry("triage", 0, FALSE)
      BY DEF NewRow
    <3> QED BY <2>1, <3>1, <3>2
  <2>2. CASE LaunchExhausted(r) /\ s = Exhausted(r)
    BY <2>2, <1>1
  <2>3. ASSUME NEW h \in Hooks, s = Reserved(r, h)
        PROVE  EntryStep(LedgerEntry(r), LedgerEntry(s))
    BY <2>3 DEF Reserved
  <2>4. CASE s = [r EXCEPT !.next_launch_at = "null"]
    BY <2>4
  <2> QED BY <1>2, <2>1, <2>2, <2>3, <2>4 DEF HookRowStep
<1>3. CASE ClassifierRowStep(r, s)
  <2>1. ASSUME ClassificationClaimable(r), NEW w \in Owners, s = Leased(r, w)
        PROVE  EntryStep(LedgerEntry(r), LedgerEntry(s))
    <3>1. r.state = "llm_pending" /\ r.lease_epoch < MaxAttempts
      BY <2>1 DEF ClassificationClaimable, RowConsistent
    <3>2. LedgerEntry(s) = Ledger!Entry("triage", r.lease_epoch + 1, TRUE)
      BY <2>1, <3>1 DEF Leased
    <3> QED BY <3>1, <3>2
  <2>2. CASE ClassificationSpent(r) /\ s = Exhausted(r)
    BY <2>2, <1>1
  <2>3. ASSUME NEW w \in Owners, NEW e \in 0..MaxAttempts, HoldsClassification(r, w, e),
               NEW b \in BOOLEAN, s \in {Released(r, b), Resolved(r, b)}
        PROVE  EntryStep(LedgerEntry(r), LedgerEntry(s))
    <3>1. r.state = "llm_pending" /\ r.owner_id # NoOwner
      BY <2>3 DEF HoldsClassification
    <3>2. CASE s = Exhausted(r) /\ r.attempt >= MaxAttempts
      BY <3>1, <3>2, <1>1 DEF ClassificationSpent
    <3>3. CASE s = [Unleased(r, "llm_pending") EXCEPT !.next_launch_at = "future"]
      BY <3>1, <3>3 DEF Unleased
    <3>4. CASE s = Resolved(r, b)
      BY <3>1, <3>4 DEF Resolved, Ended, Unleased, Ledger!Verdicts
    <3> QED BY <2>3, <3>2, <3>3, <3>4 DEF Released
  <2> QED BY <1>3, <2>1, <2>2, <2>3 DEF ClassifierRowStep
<1>4. CASE ReviewerRowStep(r, s)
  <2>1. ASSUME Claimable(r), NEW w \in Owners, s = Claimed(r, w)
        PROVE  EntryStep(LedgerEntry(r), LedgerEntry(s))
    <3>1. Stage(r.state) = "review" /\ r.lease_epoch < MaxAttempts
      BY <2>1 DEF Claimable, Waiting, Abandoned, RowConsistent
    <3>2. LedgerEntry(s) = Ledger!Entry("review", r.lease_epoch + 1, TRUE)
      BY <2>1 DEF Claimed, Leased
    <3> QED BY <3>1, <3>2
  <2>2. CASE ClaimSpent(r) /\ s = Ended(r, "failed")
    <3>1. Stage(r.state) = "review" /\ r.lease_epoch = MaxAttempts
      BY <2>2 DEF ClaimSpent, Waiting, Abandoned, RowConsistent
    <3>2. LedgerEntry(s) = Ledger!Entry("failed", r.lease_epoch, FALSE)
      BY <2>2 DEF Ended, Unleased
    <3> QED BY <3>1, <3>2
  <2>3. CASE r.state = "running" /\ s = [r EXCEPT !.lease_until = "future"]
    BY <2>3
  <2>4. CASE r.state = "running" /\ s = Ended(r, "reviewed_no_lesson")
    BY <2>4 DEF Ended, Unleased, Ledger!Verdicts, RowConsistent
  <2>5. ASSUME r.state = "running", NEW d \in Documents,
               s = [Ended(r, "published") EXCEPT !.published_path = d]
        PROVE  EntryStep(LedgerEntry(r), LedgerEntry(s))
    BY <2>5 DEF Ended, Unleased, Ledger!Verdicts, RowConsistent
  <2>6. CASE r.state = "running" /\ s = FailedAttempt(r)
    <3>1. r.owner_id # NoOwner
      BY <2>6 DEF RowConsistent
    <3>2. CASE r.attempt >= MaxAttempts
      <4>1. r.lease_epoch = MaxAttempts
        BY <3>2 DEF RowConsistent
      <4>2. LedgerEntry(s) = Ledger!Entry("failed", r.lease_epoch, FALSE)
        BY <2>6, <3>2 DEF FailedAttempt, Unleased
      <4> QED BY <2>6, <4>1, <4>2
    <3>3. CASE ~(r.attempt >= MaxAttempts)
      <4>1. LedgerEntry(s) = Ledger!Entry("review", r.lease_epoch, FALSE)
        BY <2>6, <3>3 DEF FailedAttempt, Unleased
      <4> QED BY <2>6, <3>1, <4>1
    <3> QED BY <3>2, <3>3
  <2> QED BY <1>4, <2>1, <2>2, <2>3, <2>4, <2>5, <2>6 DEF ReviewerRowStep, HoldsReviewLease
<1>5. CASE ClockRowStep(r, s)
  BY <1>5 DEF ClockRowStep
<1> QED BY <1>2, <1>3, <1>4, <1>5 DEF RowStep

----------------------------------------------------------------------------
(* Theorems. *)

\* Every step keeps the invariant.
LEMMA QueueInvKept ==
    ASSUME QueueInv, [Next]_job PROVE QueueInv'
<1>1. CASE UNCHANGED job
  BY <1>1 DEF QueueInv, RowConsistent, Blank
<1>2. ASSUME NEW j \in Jobs, NEW s, job' = [job EXCEPT ![j] = s], RowStep(job[j], s)
      PROVE  QueueInv'
  <2>1. RowOK(job[j])
    BY DEF QueueInv, RowOK
  <2>2. RowOK(s)
    BY <1>2, <2>1, RowStepOK
  <2> QED BY <1>2, <2>2 DEF QueueInv, RowOK
<1> QED BY <1>1, <1>2, NextIsRowStep

\* The invariant holds initially and is kept by every step.
THEOREM QueueInvariant == Spec => []QueueInv
<1>1. Init => QueueInv
  BY NewRowOK DEF Init, QueueInv, RowOK
<1>2. QueueInv /\ [Next]_job => QueueInv'
  BY QueueInvKept
<1> QED BY <1>1, <1>2, PTL DEF Spec

\* Every row keeps the shape the schema declares, for any callers and any bound.
THEOREM TypeCorrect == Spec => []TypeOK
<1>1. QueueInv => TypeOK
  BY DEF QueueInv, TypeOK
<1> QED BY <1>1, QueueInvariant, PTL

\* The columns of every row always agree with one another.
THEOREM RowsAlwaysConsistent == Spec => []RowsConsistent
<1>1. QueueInv => RowsConsistent
  BY DEF QueueInv, RowsConsistent
<1> QED BY <1>1, QueueInvariant, PTL

\* No operation, whoever calls it and however late, changes a verdict.
THEOREM VerdictsAreFinal == Spec => SettledIsFinal
<1> DEFINE Kept == \A j \in Jobs : Settled(job[j]) =>
                      /\ job'[j].state = job[j].state
                      /\ job'[j].published_path = job[j].published_path
<1>1. QueueInv /\ [Next]_job => [Kept]_job
  <2> SUFFICES ASSUME QueueInv, Next PROVE Kept \/ UNCHANGED job
    OBVIOUS
  <2>1. ASSUME NEW j \in Jobs, NEW s, job' = [job EXCEPT ![j] = s], RowStep(job[j], s)
        PROVE  Kept
    <3>1. RowOK(job[j])
      BY DEF QueueInv, RowOK
    <3>2. Settled(job[j]) => s.state = job[j].state /\ s.published_path = job[j].published_path
      BY <2>1, <3>1, RowStepSettled
    <3> QED BY <2>1, <3>2 DEF QueueInv
  <2> QED BY <2>1, NextIsRowStep
<1> QED BY <1>1, QueueInvariant, PTL DEF Spec, SettledIsFinal

\* A live lease excludes every other claim, of whichever kind.
THEOREM LeasesExclude == Spec => LiveLeaseIsExclusive
<1> DEFINE Kept == \A j \in Jobs : Live(job[j].lease_until) =>
                      /\ job'[j].owner_id \in {job[j].owner_id, NoOwner}
                      /\ job'[j].lease_epoch = job[j].lease_epoch
<1>1. QueueInv /\ [Next]_job => [Kept]_job
  <2> SUFFICES ASSUME QueueInv, Next PROVE Kept \/ UNCHANGED job
    OBVIOUS
  <2>1. ASSUME NEW j \in Jobs, NEW s, job' = [job EXCEPT ![j] = s], RowStep(job[j], s)
        PROVE  Kept
    <3>1. RowOK(job[j])
      BY DEF QueueInv, RowOK
    <3>2. Live(job[j].lease_until) => /\ s.owner_id \in {job[j].owner_id, NoOwner}
                                      /\ s.lease_epoch = job[j].lease_epoch
      BY <2>1, <3>1, RowStepLeased
    <3> QED BY <2>1, <3>2 DEF QueueInv
  <2> QED BY <2>1, NextIsRowStep
<1> QED BY <1>1, QueueInvariant, PTL DEF Spec, LiveLeaseIsExclusive

\* The queue implements the ledger: its initial table is the empty ledger, and
\* every operation is a ledger step or, in the ledger, nothing at all.
THEOREM QueueImplementsLedger == Spec => ImplementsLedger
<1> DEFINE Work == [j \in Jobs |-> LedgerEntry(job[j])]
<1>1. Init => Ledger!Init
  <2>1. LedgerEntry(NewRow("absent")) = Ledger!Entry("none", 0, FALSE)
    BY DEF LedgerEntry, Stage, NewRow, Ledger!Entry
  <2> QED BY <2>1 DEF Init, Ledger!Init
<1>2. QueueInv /\ [Next]_job => [Ledger!Next]_Work
  <2> SUFFICES ASSUME QueueInv, [Next]_job PROVE Ledger!Next \/ Work' = Work
    OBVIOUS
  <2>1. CASE UNCHANGED job
    BY <2>1
  <2>2. ASSUME NEW j \in Jobs, NEW s, job' = [job EXCEPT ![j] = s], RowStep(job[j], s)
        PROVE  Ledger!Next \/ Work' = Work
    <3> DEFINE a == LedgerEntry(job[j])
               b == LedgerEntry(s)
    <3>1. EntryStep(a, b)
      BY <2>2, RowStepLedger DEF QueueInv, RowOK
    <3>2. Work[j] = a /\ Work' = [Work EXCEPT ![j] = b]
      BY <2>2 DEF QueueInv
    <3> HIDE DEF a, b
    <3>3. CASE b = a
      BY <3>2, <3>3
    <3>4. CASE a.stage = "none" /\ \E t \in Ledger!Open : b = Ledger!Entry(t, 0, FALSE)
      <4>1. Ledger!Enter(j)
        BY <3>2, <3>4 DEF Ledger!Enter
      <4> QED BY <4>1 DEF Ledger!Next
    <3>5. CASE /\ a.stage \in Ledger!Open /\ a.token < MaxAttempts
               /\ b = Ledger!Entry(a.stage, a.token + 1, TRUE)
      <4>1. Ledger!Grant(j)
        BY <3>2, <3>5 DEF Ledger!Grant
      <4> QED BY <4>1 DEF Ledger!Next
    <3>6. CASE /\ a.stage \in Ledger!Open /\ a.held
               /\ b = Ledger!Entry(a.stage, a.token, FALSE)
      <4>1. Ledger!Return(j)
        BY <3>2, <3>6 DEF Ledger!Return
      <4> QED BY <4>1 DEF Ledger!Next
    <3>7. CASE /\ a.stage \in Ledger!Open /\ a.held
               /\ \E t \in Ledger!Verdicts(a.stage) : b = Ledger!Entry(t, a.token, FALSE)
      <4>1. Ledger!Verdict(j)
        BY <3>2, <3>7 DEF Ledger!Verdict
      <4> QED BY <4>1 DEF Ledger!Next
    <3>8. CASE /\ a.stage \in Ledger!Open /\ a.token = MaxAttempts
               /\ b = Ledger!Entry("failed", a.token, FALSE)
      <4>1. Ledger!GiveUp(j)
        BY <3>2, <3>8 DEF Ledger!GiveUp
      <4> QED BY <4>1 DEF Ledger!Next
    <3> QED BY <3>1, <3>3, <3>4, <3>5, <3>6, <3>7, <3>8 DEF EntryStep
  <2> QED BY <2>1, <2>2, NextIsRowStep
<1> QED BY <1>1, <1>2, QueueInvariant, PTL DEF Spec, ImplementsLedger, Ledger!Spec
=============================================================================
