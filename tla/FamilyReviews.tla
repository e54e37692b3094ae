---------------------------- MODULE FamilyReviews ----------------------------
(***************************************************************************)
(* What a reviewer does with its verdict: a complaint is filed under a     *)
(* family, as a lesson or as declined for a reason; a family that was      *)
(* declined too often, or twice for the same reason, gets a lesson the     *)
(* model did not write (runReviewJob, escalateDeclinedFamily).             *)
(*                                                                         *)
(* Reviewers of different complaints run at the same time, and the store   *)
(* is read before the model is called, again after it, and written later.  *)
(* The queue they work from is what ReviewQueue implements, WorkLedger:    *)
(* whoever bears the newest token of a job holds its lease.                *)
(***************************************************************************)
EXTENDS WorkLedger, FiniteSets, Sequences

CONSTANTS
    Reviewers,    \* processes
    Families, Reasons,
    NoJob, NoFamily, NoReason,   \* null
    NonFault,     \* NON_AGENT_FAULT_REASONS
    Threshold,    \* ESCALATION_THRESHOLD
    RepeatLimit,  \* REPEATED_REASON_LIMIT
    Window,       \* ESCALATION_WINDOW_MS, in days
    RingLimit,    \* REVIEW_DECLINE_MAX_STORED
    MaxDay        \* bound on the days that pass

ASSUME FamilyAssumption ==
    /\ IsFiniteSet(Jobs) /\ IsFiniteSet(Reviewers) /\ NonFault \subseteq Reasons
    /\ {MaxAttempts, Threshold, RepeatLimit, Window, MaxDay} \subseteq Nat
    /\ NoJob \notin Jobs /\ NoFamily \notin Families /\ NoReason \notin Reasons
    /\ RingLimit \in Nat \ {0} /\ RepeatLimit > 0 /\ Threshold > 0

VARIABLES
    filed,     \* filed[j]: family, reason and completion of j once it is settled
    created,   \* created[j]: the day j was captured
    ring,      \* the decline records in store_meta, oldest first, by job
    proc,      \* reviewer processes
    day

vars == <<work, filed, created, ring, proc, day>>

Unfiled == [family |-> NoFamily, reason |-> NoReason, on |-> 0, escalated |-> FALSE]
IdleReviewer == [pc |-> "idle", job |-> NoJob, token |-> 0, seen |-> {},
                 family |-> NoFamily, reason |-> NoReason]

At(w, pc) == proc[w].pc = pc
Exit(w) == proc' = [proc EXCEPT ![w] = IdleReviewer]
StoreKeeps == UNCHANGED <<work, filed, ring>>
TimeKeeps == UNCHANGED <<created, day>>

\* The owner/epoch/lease test of every write of a reviewer.
Holds(w) == LET entry == work[proc[w].job] IN entry.held /\ entry.token = proc[w].token

(*------------------------------ What is stored ---------------------------*)

Recent(stamp) == stamp + Window >= day

\* reviewer_jobs and review_job_events, which are never evicted.
Declines(f) == {j \in Jobs : work[j].stage = "reviewed_no_lesson" /\ filed[j].family = f}
ReasonDeclines(f, r) == {j \in Declines(f) : filed[j].reason = r}
HasLesson(f) == \E j \in Jobs : work[j].stage = "published" /\ filed[j].family = f

\* The newest records stay; of what a reviewer was given, those of f in the window.
Evicted(s) == IF Len(s) > RingLimit THEN Tail(s) ELSE s
RingDeclines(seen, f) == {j \in seen : filed[j].family = f /\ Recent(filed[j].on)}

\* The permanent count stands only while the family's first decline is in the window.
\* Mutant: the count is not asked.
OftenDeclined_RingOnly(seen, f) == Cardinality(RingDeclines(seen, f)) >= Threshold
OftenDeclined(seen, f) ==
    \/ Cardinality(RingDeclines(seen, f)) >= Threshold
    \/ Cardinality(Declines(f)) >= Threshold /\ \A j \in Declines(f) : Recent(created[j])

\* Mutant: once more than the limit.
Repeated_OffByOne(f, r) == Cardinality(ReasonDeclines(f, r)) > RepeatLimit
Repeated(f, r) == Cardinality(ReasonDeclines(f, r)) >= RepeatLimit

\* escalateDeclinedFamily: a reason used before overrules the window and a lesson that
\* did not hold, unless it blames nobody; otherwise only a family without a lesson.
\* Mutant: whatever the reason blames.
Escalates_AnyReason(seen, f, r) ==
    Repeated(f, r) \/ (~HasLesson(f) /\ OftenDeclined(seen, f))
Escalates(seen, f, r) ==
    \/ Repeated(f, r) /\ r \notin NonFault
    \/ ~Repeated(f, r) /\ ~HasLesson(f) /\ OftenDeclined(seen, f)

(*------------------------------- The reviewer ----------------------------*)

Capture(j) ==
    /\ Enter(j) /\ work'[j].stage = "review"
    /\ created' = [created EXCEPT ![j] = day]
    /\ UNCHANGED <<filed, ring, proc, day>>

ClaimReviewJob(w, j) ==
    /\ At(w, "idle") /\ Grant(j)
    /\ proc' = [proc EXCEPT ![w] = [IdleReviewer EXCEPT
          !.pc = "claimed", !.job = j, !.token = work'[j].token]]
    /\ UNCHANGED <<filed, ring>> /\ TimeKeeps

\* buildReviewContext: the decline records the model is shown, and the escalation counts.
BuildReviewContext(w) ==
    /\ At(w, "claimed")
    /\ proc' = [proc EXCEPT ![w].pc = "asking", ![w].seen = {ring[i] : i \in DOMAIN ring}]
    /\ StoreKeeps /\ TimeKeeps

\* The call settles once, with an answer that validates; a lesson that names a family of
\* the catalog is filed under no key.  The reviewer alone reads the
\* history for it: a decline is escalated or stands (an event logged before it stands,
\* recurred_after_lesson, is read by nothing).
Outcome(seen, f, r) ==
    IF r = NoReason THEN "teaching"
    ELSE IF Escalates(seen, f, r) THEN "escalating" ELSE "declining"

Answers(w) ==
    /\ At(w, "asking")
    /\ \E f \in Families \cup {NoFamily}, r \in Reasons \cup {NoReason} :
       /\ f = NoFamily => r = NoReason
       /\ proc' = [proc EXCEPT ![w] =
              [pc |-> Outcome(proc[w].seen, f, r), job |-> proc[w].job,
               token |-> proc[w].token, seen |-> {}, family |-> f, reason |-> r]]
    /\ StoreKeeps /\ TimeKeeps

\* Or there is none (no context, a timeout, an exit code, too much output, an answer that
\* does not validate), or the lesson cannot be filed.  Recorded only under the lease.
Fails(w) ==
    /\ proc[w].pc \in {"claimed", "asking", "teaching", "escalating"}
    /\ LET j == proc[w].job
       IN IF Holds(w)
          THEN IF work[j].token = MaxAttempts THEN GiveUp(j) ELSE Return(j)
          ELSE UNCHANGED work
    /\ Exit(w)
    /\ UNCHANGED <<filed, ring>> /\ TimeKeeps

Settle(w, stage) ==
    /\ Holds(w) /\ Verdict(proc[w].job) /\ work'[proc[w].job].stage = stage
    /\ filed' = [filed EXCEPT ![proc[w].job] =
          [family |-> proc[w].family, reason |-> proc[w].reason, on |-> day,
           escalated |-> At(w, "escalating")]]

CompleteReviewNoLesson(w) ==
    /\ At(w, "declining") /\ Settle(w, "reviewed_no_lesson")
    /\ ring' = Evicted(Append(ring, proc[w].job))
    /\ Exit(w)
    /\ TimeKeeps

\* A lesson of the model's, or the escalated one.
CompleteReviewPublished(w) ==
    /\ At(w, "teaching") \/ At(w, "escalating")
    /\ Settle(w, "published") /\ Exit(w)
    /\ UNCHANGED ring /\ TimeKeeps

\* Killed, refused for want of the lease, or failed while publishing: the row stays.
Leaves(w) ==
    /\ ~At(w, "idle") /\ Exit(w)
    /\ StoreKeeps /\ TimeKeeps

LeaseExpires(j) ==
    /\ Return(j)
    /\ UNCHANGED <<filed, created, ring, proc, day>>

\* A claim that finds the attempts spent.
AttemptsSpent(j) ==
    /\ ~work[j].held /\ GiveUp(j)
    /\ UNCHANGED <<filed, created, ring, proc, day>>

DayPasses ==
    /\ day < MaxDay /\ day' = day + 1
    /\ StoreKeeps /\ UNCHANGED <<created, proc>>

FamilyInit ==
    /\ Init
    /\ filed = [j \in Jobs |-> Unfiled] /\ created = [j \in Jobs |-> 0]
    /\ ring = <<>>
    /\ proc = [w \in Reviewers |-> IdleReviewer] /\ day = 0

ReviewerStep(w) ==
    \/ \E j \in Jobs : ClaimReviewJob(w, j)
    \/ BuildReviewContext(w) \/ Answers(w) \/ Fails(w)
    \/ CompleteReviewNoLesson(w) \/ CompleteReviewPublished(w) \/ Leaves(w)

FamilyNext ==
    \/ \E j \in Jobs : Capture(j) \/ LeaseExpires(j) \/ AttemptsSpent(j)
    \/ \E w \in Reviewers : ReviewerStep(w)
    \/ DayPasses

FamilySpec == FamilyInit /\ [][FamilyNext]_vars

(*------------------------------- Properties ------------------------------*)

\* A lesson the code wrote itself rests on records that are there for good: the family
\* had been declined Threshold times, or for the very reason given again, and that
\* reason blames the agent.  Neither the stale copy of the ring a reviewer carries
\* through the model call nor other families' records stand in for them.
EscalationIsEarned ==
    \A j \in Jobs : work[j].stage = "published" /\ filed[j].escalated =>
        \/ Repeated(filed[j].family, filed[j].reason) /\ filed[j].reason \notin NonFault
        \/ Cardinality(Declines(filed[j].family)) >= Threshold

\* One excuse wins once: a reason that blames the agent is accepted again for a family
\* only from reviewers that had weighed theirs before the first was recorded, so never
\* more often than there are reviewers, whatever failed and was retried.
SameExcuseRunsOut ==
    \A f \in Families, r \in Reasons \ NonFault :
        Cardinality(ReasonDeclines(f, r)) <= RepeatLimit - 1 + Cardinality(Reviewers)

\* Fresh excuses run out too, while a family's declines are in the window: the ring may
\* have lost them to other families, the permanent count has not.
FreshExcusesRunOut ==
    \A f \in Families :
        ~HasLesson(f) /\ (\A j \in Declines(f) : Recent(created[j])) =>
            Cardinality({j \in Declines(f) : filed[j].reason \notin NonFault})
                <= Threshold - 1 + Cardinality(Reviewers)
=============================================================================
