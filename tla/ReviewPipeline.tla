--------------------------- MODULE ReviewPipeline ---------------------------
(***************************************************************************)
(* The processes around the review queue: short-lived prompt hooks, which  *)
(* capture complaints and are the only scheduler there is; detached        *)
(* classifier and reviewer processes, which call a model and come back an  *)
(* unknown time later; and the reflections directory they publish into.    *)
(* Any of them may be killed between two of its steps.                     *)
(*                                                                         *)
(* A step of a process is one access to something shared: a transaction of *)
(* the queue, a scan of the directory, a link() into it, a spawn.          *)
(***************************************************************************)
EXTENDS ReviewQueue, FiniteSets

CONSTANTS
    LLMJobs,          \* complaints the wordlist missed: they start with the classifier
    UnsupportedJobs,  \* those of a host CLI the classifier has no invocation for
    Title,            \* Title[d]: the part of a document's file name its text decides
    BatchLimit,       \* RECOVERY_BATCH: jobs one recovery pass looks at
    NoJob,
    Punctuality,      \* the values of `punctual` to consider
    MaxFaults         \* bound on kills and failed spawns

\* Jobs are numbered in the order of their created_at.
ASSUME PipelineAssumption ==
    /\ Jobs \subseteq Nat /\ NoJob \notin Jobs
    /\ LLMJobs \subseteq Jobs /\ UnsupportedJobs \subseteq LLMJobs
    /\ BatchLimit \in Nat \ {0} /\ MaxFaults \in Nat
    /\ Punctuality \subseteq BOOLEAN

VARIABLES
    proc,    \* proc[w]: the detached process with owner id w
    hook,    \* hook[h]: the prompt hook h
    docs,    \* docs[j]: files in .agent/reflections with the reflection id of j
    faults,  \* faults so far
    punctual \* TRUE throughout an execution in which PUBLICATION_LEASE_MS outlives the
             \* renames it covers

shared == <<job, proc, hook, docs, faults>>
vars == <<shared, punctual>>

----------------------------------------------------------------------------
(* Processes. *)

Launched == {"reviewer", "classifier"}      \* started, nothing claimed yet
Publishing == {"concluded", "renewed", "staging", "staged", "linking", "filed"}
Reviewing == {"reviewing", "failing"} \cup Publishing
Holding == Reviewing \cup {"classifying"}   \* a claim succeeded

Process == [pc : {"idle"} \cup Launched \cup Holding, job : Jobs \cup {NoJob},
            epoch : 0..MaxAttempts, doc : Documents \cup {NoDocument}, escalated : BOOLEAN]
IdleProcess == [pc |-> "idle", job |-> NoJob, epoch |-> 0, doc |-> NoDocument, escalated |-> FALSE]

Passes == {"prompt", "reviewers", "classifiers"}
HookState == [pc : {"idle", "choosing", "reserved", "unlaunched"}, pass : Passes,
              due : SUBSET Jobs, job : Jobs \cup {NoJob}]
IdleHook == [pc |-> "idle", pass |-> "prompt", due |-> {}, job |-> NoJob]

Goto(w, pc) == proc' = [proc EXCEPT ![w].pc = pc]
Exit(w) == proc' = [proc EXCEPT ![w] = IdleProcess]
Start(w, pc, j) == proc' = [proc EXCEPT ![w] = [IdleProcess EXCEPT !.pc = pc, !.job = j]]
Hold(w, pc, e) == proc' = [proc EXCEPT ![w].pc = pc, ![w].epoch = e]

Fault == faults < MaxFaults /\ faults' = faults + 1

----------------------------------------------------------------------------
(* The prompt hook: its own complaint first, then the two recovery passes. *)

\* The created_at order and the LIMIT of a listing.
Oldest(S) == {j \in S : Cardinality({k \in S : k < j}) < BatchLimit}

\* Mutant: recovery lists only what waits.
DueReviews_WaitingOnly == Oldest({j \in Jobs :
    Due(job[j].next_launch_at) /\ Waiting(job[j]) /\ job[j].attempt < MaxAttempts})

DueReviews == Oldest({j \in Jobs :
    /\ Due(job[j].next_launch_at)
    /\ \/ Waiting(job[j]) /\ job[j].attempt < MaxAttempts
       \/ Abandoned(job[j])})

DueClassifications == Oldest({j \in Jobs : ClassificationClaimable(job[j]) /\ Due(job[j].next_launch_at)})

\* The order in which a pass goes through its listing.
IsNext(h, j) == j \in hook[h].due /\ \A k \in hook[h].due : j <= k

Complain(h, j) ==
    /\ hook[h].pc = "idle"
    /\ \A k \in Jobs : k < j => job[k].state # "absent"
    /\ CreateReviewCandidate(j, IF j \in LLMJobs THEN "llm_pending" ELSE "pending")
    /\ hook' = [hook EXCEPT ![h] = [IdleHook EXCEPT !.pc = "choosing", !.due = {j}]]
    /\ UNCHANGED <<proc, docs, faults>>

Prompt(h) ==
    /\ hook[h].pc = "idle"
    /\ hook' = [hook EXCEPT ![h].pc = "choosing"]
    /\ UNCHANGED <<job, proc, docs, faults>>

NextPass(h) ==
    /\ hook[h].pc = "choosing" /\ hook[h].due = {}
    /\ hook' = [hook EXCEPT ![h] =
          CASE @.pass = "prompt"    -> [@ EXCEPT !.pass = "reviewers", !.due = DueReviews]
            [] @.pass = "reviewers" -> [@ EXCEPT !.pass = "classifiers", !.due = DueClassifications]
            [] OTHER                -> IdleHook]
    /\ UNCHANGED <<job, proc, docs, faults>>

ForReviewer(h, j) == hook[h].pass = "reviewers" \/ (hook[h].pass = "prompt" /\ j \notin LLMJobs)

Reserve(h, j) ==
    /\ hook[h].pc = "choosing" /\ IsNext(h, j) /\ ForReviewer(h, j)
    /\ ReserveReviewLaunch(j, h)
    /\ hook' = [hook EXCEPT ![h] =
          IF Launchable(job[j])
          THEN [@ EXCEPT !.pc = "reserved", !.due = hook[h].due \ {j}, !.job = j]
          ELSE [@ EXCEPT !.due = hook[h].due \ {j}]]
    /\ UNCHANGED <<proc, docs, faults>>

Launch(h, w) ==
    /\ hook[h].pc = "reserved" /\ proc[w].pc = "idle"
    /\ Start(w, "reviewer", hook[h].job)
    /\ hook' = [hook EXCEPT ![h].pc = "choosing", ![h].job = NoJob]
    /\ UNCHANGED <<job, docs, faults>>

LaunchFails(h) ==
    /\ hook[h].pc = "reserved" /\ Fault
    /\ hook' = [hook EXCEPT ![h].pc = "unlaunched"]
    /\ UNCHANGED <<job, proc, docs>>

ReportLaunchFailure(h) ==
    /\ hook[h].pc = "unlaunched"
    /\ RecordReviewLaunchFailure(hook[h].job, h)
    /\ hook' = [hook EXCEPT ![h].pc = "choosing", ![h].job = NoJob]
    /\ UNCHANGED <<proc, docs, faults>>

\* No reservation: two hooks may both start a classifier for one job.
LaunchClassifier(h, j) ==
    /\ hook[h].pc = "choosing" /\ IsNext(h, j) /\ ~ForReviewer(h, j)
    /\ hook' = [hook EXCEPT ![h].due = @ \ {j}]
    /\ \/ /\ \E w \in Owners : proc[w].pc = "idle" /\ Start(w, "classifier", j)
          /\ UNCHANGED faults
       \/ Fault /\ UNCHANGED proc     \* a failed spawn is not recorded
    /\ UNCHANGED <<job, docs>>

HookStep(h) ==
    \/ Prompt(h) \/ NextPass(h) \/ ReportLaunchFailure(h)
    \/ \E j \in Jobs : Complain(h, j) \/ Reserve(h, j) \/ LaunchClassifier(h, j)
    \/ \E w \in Owners : Launch(h, w)

HookDies(h) ==
    /\ hook[h].pc # "idle" /\ Fault
    /\ hook' = [hook EXCEPT ![h] = IdleHook]
    /\ UNCHANGED <<job, proc, docs>>

----------------------------------------------------------------------------
(* The classifier process. *)

ClassifierClaims(w) ==
    /\ proc[w].pc = "classifier"
    /\ LET j == proc[w].job
       IN /\ ClaimLLMClassification(j, w)
          /\ IF ClassificationClaimable(job[j])
             THEN Hold(w, "classifying", job'[j].lease_epoch) ELSE Exit(w)
    /\ UNCHANGED <<hook, docs, faults>>

\* The model answered; a resolution that finds the claim gone just ends.
ClassifierResolves(w) ==
    /\ proc[w].pc = "classifying" /\ proc[w].job \notin UnsupportedJobs
    /\ \E admission \in BOOLEAN :
          ResolveLLMAdmission(proc[w].job, w, proc[w].epoch, admission)
    /\ Exit(w)
    /\ UNCHANGED <<hook, docs, faults>>

\* No evidence, no executable, a failed or timed-out call, an unreadable answer.
ClassifierFails(w) ==
    /\ proc[w].pc = "classifying"
    /\ ReleaseLLMClassification(proc[w].job, w, proc[w].epoch, TRUE)
    /\ Exit(w)
    /\ UNCHANGED <<hook, docs, faults>>

\* classifierInvocation throws outside every try block: nothing is released.
ClassifierHasNoInvocation(w) ==
    /\ proc[w].pc = "classifying" /\ proc[w].job \in UnsupportedJobs
    /\ Exit(w)
    /\ UNCHANGED <<job, hook, docs, faults>>

----------------------------------------------------------------------------
(* The reviewer process. *)

ReviewerClaims(w) ==
    /\ proc[w].pc = "reviewer"
    /\ LET j == proc[w].job
       IN /\ ClaimReviewJob(j, w)
          /\ IF Claimable(job[j])
             THEN Hold(w, "reviewing", job'[j].lease_epoch) ELSE Exit(w)
    /\ UNCHANGED <<hook, docs, faults>>

\* Context, provider or validation failed; the failure is recorded in the next step.
ReviewFails(w) ==
    /\ proc[w].pc = "reviewing" /\ Goto(w, "failing")
    /\ UNCHANGED <<job, hook, docs, faults>>

RecordFailure(w) ==
    /\ proc[w].pc = "failing"
    /\ FailReviewJob(proc[w].job, w, proc[w].epoch)
    /\ Exit(w)
    /\ UNCHANGED <<hook, docs, faults>>

Declines(w) ==
    /\ proc[w].pc = "reviewing"
    /\ CompleteReviewNoLesson(proc[w].job, w, proc[w].epoch)
    /\ Exit(w)
    /\ UNCHANGED <<hook, docs, faults>>

\* A lesson of the model, or one synthesised from repeated declines.
Concludes(w) ==
    /\ proc[w].pc = "reviewing"
    /\ \E d \in Documents, b \in BOOLEAN :
          proc' = [proc EXCEPT ![w].pc = "concluded", ![w].doc = d, ![w].escalated = b]
    /\ UNCHANGED <<job, hook, docs, faults>>

\* Mutant: the renewal before the rename is not checked.
Renews_Unchecked(w) ==
    /\ proc[w].pc \in {"concluded", "staging"}
    /\ RenewReviewLease(proc[w].job, w, proc[w].epoch)
    /\ IF HoldsReviewLease(job[proc[w].job], w, proc[w].epoch) \/ proc[w].pc = "staging"
       THEN Goto(w, IF proc[w].pc = "concluded" THEN "renewed" ELSE "staged")
       ELSE Exit(w)
    /\ UNCHANGED <<hook, docs, faults>>

\* Renewed twice: before publishing, and with the temporary file written, right
\* before the rename.  A lost lease ends the process and records nothing.
Renews(w) ==
    /\ proc[w].pc \in {"concluded", "staging"}
    /\ RenewReviewLease(proc[w].job, w, proc[w].epoch)
    /\ IF HoldsReviewLease(job[proc[w].job], w, proc[w].epoch)
       THEN Goto(w, IF proc[w].pc = "concluded" THEN "renewed" ELSE "staged")
       ELSE Exit(w)
    /\ UNCHANGED <<hook, docs, faults>>

\* publicationForIdentity: nothing there, the same bytes there, or a collision.
LooksForDocument(w) ==
    /\ proc[w].pc \in {"renewed", "staged"}
    /\ Goto(w, CASE docs[proc[w].job] = {} ->
                        IF proc[w].pc = "renewed" THEN "staging" ELSE "linking"
                 [] docs[proc[w].job] = {proc[w].doc} -> "filed"
                 [] OTHER -> "failing")
    /\ UNCHANGED <<job, hook, docs, faults>>

NameTaken(w) == \E d \in docs[proc[w].job] : Title[d] = Title[proc[w].doc]

\* Mutant: EEXIST is taken for success.
Links_ExistsIsSuccess(w) ==
    /\ proc[w].pc = "linking" /\ Goto(w, "filed")
    /\ docs' = [docs EXCEPT ![proc[w].job] =
          IF NameTaken(w) THEN @ ELSE @ \cup {proc[w].doc}]
    /\ UNCHANGED <<job, hook, faults>>

\* link() refuses a taken name; the file there is adopted if its bytes agree.
Links(w) ==
    /\ proc[w].pc = "linking"
    /\ \/ /\ ~NameTaken(w) /\ Goto(w, "filed")
          /\ docs' = [docs EXCEPT ![proc[w].job] = @ \cup {proc[w].doc}]
       \/ /\ NameTaken(w) /\ UNCHANGED docs
          /\ Goto(w, IF docs[proc[w].job] = {proc[w].doc} THEN "filed" ELSE "failing")
    /\ UNCHANGED <<job, hook, faults>>

\* Any other publication error, one after the link included.  Of an escalated
\* lesson the runner reports it as a lost lease, hence not at all.
PublicationFails(w) ==
    /\ proc[w].pc \in {"renewed", "staging", "staged", "linking"}
    /\ IF proc[w].escalated THEN Exit(w) ELSE Goto(w, "failing")
    /\ \/ UNCHANGED docs
       \/ /\ proc[w].pc = "linking" /\ ~NameTaken(w)
          /\ docs' = [docs EXCEPT ![proc[w].job] = @ \cup {proc[w].doc}]
    /\ UNCHANGED <<job, hook, faults>>

CompletesPublication(w) ==
    /\ proc[w].pc = "filed"
    /\ CompleteReviewPublished(proc[w].job, w, proc[w].epoch, proc[w].doc)
    /\ Exit(w)
    /\ UNCHANGED <<hook, docs, faults>>

WorkerStep(w) ==
    \/ ClassifierClaims(w) \/ ClassifierResolves(w) \/ ClassifierFails(w)
    \/ ClassifierHasNoInvocation(w)
    \/ ReviewerClaims(w) \/ ReviewFails(w) \/ RecordFailure(w) \/ Declines(w)
    \/ Concludes(w) \/ Renews(w) \/ LooksForDocument(w) \/ Links(w)
    \/ PublicationFails(w) \/ CompletesPublication(w)

WorkerDies(w) ==
    /\ proc[w].pc # "idle" /\ Fault
    /\ Exit(w)
    /\ UNCHANGED <<job, hook, docs>>

----------------------------------------------------------------------------

\* A worker between its second renewal and the end of the rename.
Renaming(w, j) ==
    /\ proc[w].pc \in {"staged", "linking"}
    /\ proc[w].job = j /\ proc[w].epoch = job[j].lease_epoch

Clock(j) ==
    /\ TimePasses(j)
    /\ punctual /\ (\E w \in Owners : Renaming(w, j)) =>
          job'[j].lease_until = job[j].lease_until
    /\ UNCHANGED <<proc, hook, docs, faults>>

PipelineInit ==
    /\ Init
    /\ proc = [w \in Owners |-> IdleProcess]
    /\ hook = [h \in Hooks |-> IdleHook]
    /\ docs = [j \in Jobs |-> {}]
    /\ faults = 0
    /\ punctual \in Punctuality

PipelineNext ==
    /\ \/ \E h \in Hooks : HookStep(h) \/ LaunchFails(h) \/ HookDies(h)
       \/ \E w \in Owners : WorkerStep(w) \/ WorkerDies(w)
       \/ \E j \in Jobs : Clock(j)
    /\ UNCHANGED punctual

PipelineSpec == PipelineInit /\ [][PipelineNext]_vars

\* The user keeps prompting, hence hooks keep running; a process that is not
\* killed goes on; a model call returns, because the runner times it out; every
\* timestamp is passed.  Kills and failed spawns are finitely many (MaxFaults).
Fairness ==
    /\ \A h \in Hooks : WF_shared(HookStep(h))
    /\ \A w \in Owners : WF_shared(WorkerStep(w))
    /\ \A j \in Jobs : WF_shared(Clock(j))

FairSpec == PipelineSpec /\ Fairness

----------------------------------------------------------------------------
(* Safety. *)

\* The processes, the hooks and the directory have the declared shape.
PipelineTypeOK ==
    /\ TypeOK
    /\ proc \in [Owners -> Process]
    /\ hook \in [Hooks -> HookState]
    /\ docs \in [Jobs -> SUBSET Documents]
    /\ faults \in 0..MaxFaults

HoldsCurrent(w) ==
    proc[w].pc \in Holding /\ proc[w].epoch = job[proc[w].job].lease_epoch

\* A lease epoch names one process: no two processes ever hold the same epoch of
\* a job, and while the row is owned the holder of its epoch is the owner, so
\* the owner/epoch test of every UPDATE singles out one process.
EpochsNameOneProcess ==
    \A w \in Owners : HoldsCurrent(w) =>
        /\ \A v \in Owners : HoldsCurrent(v) /\ proc[v].job = proc[w].job => v = w
        /\ job[proc[w].job].owner_id \in {w, NoOwner}

\* A process whose lease was taken over while it was away (its model call came
\* back late) changes no row, whatever step it goes on with.
StaleWorkerIsPowerless ==
    [][\A w \in Owners :
          proc[w].pc \in Holding /\ ~HoldsCurrent(w) /\ proc'[w] # proc[w]
             => job' = job]_vars

\* The path a published row records leads to a document that is there with the
\* bytes that were reviewed, through every crash, retry, race and adoption.
PublishedDocumentExists ==
    \A j \in Jobs : job[j].state = "published" => job[j].published_path \in docs[j]

\* Two reviewers of one complaint never leave two documents with its reflection
\* id, also when their texts get different file names, which link() would not
\* refuse; this needs the publication lease to outlive the rename.
OneDocumentPerReflection == punctual => \A j \in Jobs : Cardinality(docs[j]) <= 1

\* While the hook with the newest reservation of a job is still launching, no
\* other hook's late report of a failed launch takes the cooldown away, which
\* would let a third hook start a second reviewer at once.
NewestReservationKeepsCooldown ==
    [][\A h \in Hooks :
          LET j == hook[h].job
          IN  /\ hook[h].pc = "reserved" /\ job[j].launch_epoch = h
              /\ job[j].next_launch_at # "null" /\ job'[j].next_launch_at = "null"
              => job'[j].state = "failed"]_vars

Open(j) == job[j].state \in {"pending", "running", "retryable"}
NothingAwaited(j) == ~Live(job[j].lease_until) /\ Due(job[j].next_attempt_at) /\ Due(job[j].next_launch_at)

\* Recovery sees everything it has to: a review that waits for no timestamp is
\* in the listing of the next prompt and can be started from there, unless
\* BatchLimit older ones precede it that can.  A review that is never started
\* again, one admitted with its attempts spent, takes up no place of the batch.
\* Restricted to complaints that did not pass through the classifier.
EveryOpenReviewIsListed ==
    LET Startable(k) == Launchable(job[k]) \/ LaunchExhausted(job[k])
    IN  \A j \in Jobs \ LLMJobs :
          Open(j) /\ NothingAwaited(j) =>
              \/ j \in DueReviews /\ Startable(j)
              \/ Cardinality({k \in DueReviews : k < j /\ Startable(k)}) = BatchLimit

----------------------------------------------------------------------------
(* Liveness. *)

\* A complaint the wordlist caught is settled in the end, though nothing but the
\* user's next prompts drives it and reviewers may die at any step.
ReviewSettles == \A j \in Jobs \ LLMJobs : job[j].state = "pending" ~> Settled(job[j])

\* A complaint that waits for the classifier is classified or runs out of
\* attempts; a classifier that died does not block it for good.
ClassificationAdvances ==
    \A j \in LLMJobs : job[j].state = "llm_pending" ~>
        job[j].state # "llm_pending" \/ job[j].attempt = MaxAttempts

----------------------------------------------------------------------------
(* What comments in the source say and the code does not do. *)

\* control-store.mjs, resolveLLMAdmission: an admission "flips the job to
\* 'pending' so the reviewer can claim it".
AdmittedIsClaimable ==
    \A j \in LLMJobs : job[j].state = "pending" => Claimable(job[j])
=============================================================================
