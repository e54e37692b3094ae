------------------------ MODULE ReviewPipelineProofs ------------------------
(***************************************************************************)
(* Theorems about the review pipeline, for every number of complaints,     *)
(* processes, hooks and documents, however many of them are killed.        *)
(*                                                                         *)
(* A step of the pipeline is a step of the queue for the table, moves at   *)
(* most one process and one hook, and adds at most one document.  The      *)
(* first lemmas say so; the properties then follow from what such a step   *)
(* may do to a row, a process and the directory.                           *)
(***************************************************************************)
EXTENDS ReviewPipeline, ReviewQueueProofs, FiniteSetTheorems

----------------------------------------------------------------------------
(* The shape of the state: what the steps need to be steps of the queue.   *)

ProcessOK(p) ==
    /\ p \in Process
    /\ p.pc # "idle" => p.job \in Jobs
    /\ p.pc \in Publishing => p.doc \in Documents

HookOK(g) ==
    /\ g \in HookState
    /\ g.pc \in {"reserved", "unlaunched"} => g.job \in Jobs

Shapes ==
    /\ proc \in [Owners -> Process] /\ \A w \in Owners : ProcessOK(proc[w])
    /\ hook \in [Hooks -> HookState] /\ \A h \in Hooks : HookOK(hook[h])
    /\ docs \in [Jobs -> SUBSET Documents]
    /\ faults \in 0..MaxFaults
    /\ punctual \in BOOLEAN

\* The actions of one worker, and those of one hook.
AnyWorkerStep(w) == WorkerStep(w) \/ WorkerDies(w)
AnyHookStep(h) == HookStep(h) \/ LaunchFails(h) \/ HookDies(h)

----------------------------------------------------------------------------
(* A step of the pipeline is a step of the queue or leaves the table alone. *)

\* A hook calls an operation of the queue on one job, or none.
LEMMA HookStepIsQueueStep ==
    ASSUME Shapes, NEW h \in Hooks, AnyHookStep(h)
    PROVE  [Next]_job
<1> USE DEF Shapes, HookOK
<1>1. ASSUME NEW j \in Jobs, HookOperation(j) PROVE Next
  BY <1>1 DEF Next
<1>2. ASSUME NEW j \in Jobs, Complain(h, j) PROVE HookOperation(j)
  BY <1>2 DEF Complain, HookOperation
<1>3. ASSUME NEW j \in Jobs, Reserve(h, j) PROVE HookOperation(j)
  BY <1>3 DEF Reserve, HookOperation
<1>4. CASE ReportLaunchFailure(h)
  <2>1. hook[h].job \in Jobs /\ RecordReviewLaunchFailure(hook[h].job, h)
    BY <1>4 DEF ReportLaunchFailure
  <2> QED BY <2>1, <1>1 DEF HookOperation
<1> QED
  BY <1>1, <1>2, <1>3, <1>4 DEF AnyHookStep, HookStep, Prompt, NextPass, LaunchClassifier,
     Launch, LaunchFails, HookDies

\* So does a detached process, with its own owner id, epoch and document.
LEMMA WorkerStepIsQueueStep ==
    ASSUME Shapes, NEW w \in Owners, AnyWorkerStep(w)
    PROVE  [Next]_job
<1> DEFINE j == proc[w].job
           e == proc[w].epoch
<1>0. proc[w] \in Process /\ e \in 0..MaxAttempts
  BY DEF Shapes, Process
<1>1. ASSUME j \in Jobs, ClassifierOperation(j) \/ ReviewerOperation(j) PROVE Next
  BY <1>1 DEF Next
<1>2. ASSUME proc[w].pc # "idle" PROVE j \in Jobs
  BY <1>2 DEF Shapes, ProcessOK
<1>3. CASE ClassifierClaims(w) \/ ClassifierResolves(w) \/ ClassifierFails(w)
  <2>1. ClassifierOperation(j)
    BY <1>0, <1>3 DEF ClassifierClaims, ClassifierResolves, ClassifierFails, ClassifierOperation
  <2>2. proc[w].pc # "idle"
    BY <1>3 DEF ClassifierClaims, ClassifierResolves, ClassifierFails
  <2> QED BY <2>1, <2>2, <1>1, <1>2
<1>4. CASE ReviewerClaims(w) \/ RecordFailure(w) \/ Declines(w) \/ Renews(w)
  <2>1. ReviewerOperation(j)
    BY <1>0, <1>4 DEF ReviewerClaims, RecordFailure, Declines, Renews, ReviewerOperation
  <2>2. proc[w].pc # "idle"
    BY <1>4 DEF ReviewerClaims, RecordFailure, Declines, Renews
  <2> QED BY <2>1, <2>2, <1>1, <1>2
<1>5. CASE CompletesPublication(w)
  <2>1. proc[w].pc = "filed" /\ CompleteReviewPublished(j, w, e, proc[w].doc)
    BY <1>5 DEF CompletesPublication
  <2>2. proc[w].doc \in Documents
    BY <2>1 DEF Shapes, ProcessOK, Publishing
  <2>3. ReviewerOperation(j)
    BY <1>0, <2>1, <2>2 DEF ReviewerOperation
  <2> QED BY <2>1, <2>3, <1>1, <1>2
<1> QED
  BY <1>3, <1>4, <1>5 DEF AnyWorkerStep, WorkerStep, WorkerDies, ClassifierHasNoInvocation,
     ReviewFails, Concludes, LooksForDocument, Links, PublicationFails

\* Hence so is every step of the pipeline.
LEMMA PipelineStepIsQueueStep ==
    ASSUME Shapes, [PipelineNext]_vars PROVE [Next]_job
<1>1. ASSUME NEW j \in Jobs, Clock(j) PROVE Next
  BY <1>1 DEF Clock, Next
<1> QED
  BY <1>1, HookStepIsQueueStep, WorkerStepIsQueueStep
     DEF PipelineNext, vars, shared, AnyHookStep, AnyWorkerStep

----------------------------------------------------------------------------
(* What a step does to a process. *)

\* A claim by w: a launched process gets the epoch the claim mints.
ClaimsAs(w, q) ==
    /\ proc[w].pc \in Launched /\ q.pc \in {"classifying", "reviewing"}
    /\ q.job = proc[w].job
    /\ q.epoch = job[q.job].lease_epoch + 1
    /\ job'[q.job].lease_epoch = q.epoch /\ job'[q.job].owner_id = w

\* w goes on with the job and the epoch it has.
KeepsEpoch(w, q) ==
    proc[w].pc \in Holding /\ q.job = proc[w].job /\ q.epoch = proc[w].epoch

\* The process record q that a step may leave in place of that of w.
Becomes(w, q) ==
    /\ proc' = [proc EXCEPT ![w] = q]
    /\ ProcessOK(q)
    /\ q.pc \in Holding => ClaimsAs(w, q) \/ KeepsEpoch(w, q)

\* A process record without a job is well shaped, and so is a launched one.
LEMMA FreshProcessOK ==
    /\ ProcessOK(IdleProcess) /\ IdleProcess.pc = "idle"
    /\ \A pc \in Launched, j \in Jobs :
          LET q == [IdleProcess EXCEPT !.pc = pc, !.job = j]
          IN  ProcessOK(q) /\ q.pc = pc /\ q.job = j
<1> USE AttemptsAssumption DEF ProcessOK, Process, IdleProcess, Launched, Publishing
<1>1. ProcessOK(IdleProcess) /\ IdleProcess.pc = "idle"
  OBVIOUS
<1>2. ASSUME NEW pc \in Launched, NEW j \in Jobs,
             NEW q, q = [IdleProcess EXCEPT !.pc = pc, !.job = j]
      PROVE  ProcessOK(q) /\ q.pc = pc /\ q.job = j
  <2>1. q = [pc |-> pc, job |-> j, epoch |-> 0, doc |-> NoDocument, escalated |-> FALSE]
    BY <1>2
  <2>2. q \in Process
    BY <2>1
  <2> QED BY <2>1, <2>2
<1> QED BY <1>1, <1>2

\* A claim takes the launched process to the holder of the epoch it mints.
LEMMA ClaimHolds ==
    ASSUME QueueInv, Shapes, NEW w \in Owners, proc[w].pc \in Launched,
           NEW pc \in {"classifying", "reviewing"},
           NEW r, r = Leased(job[proc[w].job], w) \/ r = Claimed(job[proc[w].job], w),
           job[proc[w].job].attempt < MaxAttempts,
           Write(proc[w].job, r), Hold(w, pc, job'[proc[w].job].lease_epoch)
    PROVE  \E q : Becomes(w, q)
<1> DEFINE j == proc[w].job
           e == job'[j].lease_epoch
           q == [proc[w] EXCEPT !.pc = pc, !.epoch = e]
<1>1. proc[w] \in Process /\ j \in Jobs
  BY DEF Shapes, ProcessOK, Launched
<1>2. job[j] \in Row /\ job[j].lease_epoch = job[j].attempt
  BY <1>1 DEF QueueInv, RowConsistent
<1>3. job'[j] = r
  BY <1>1 DEF Write, QueueInv
<1>4. r.lease_epoch = job[j].lease_epoch + 1 /\ r.owner_id = w
  BY <1>2 DEF Leased, Claimed, Row
<1>5. e \in 0..MaxAttempts
  BY <1>2, <1>3, <1>4, AttemptsAssumption DEF Row
<1>6. q.pc = pc /\ q.job = j /\ q.epoch = e /\ q \in Process
  BY <1>1, <1>5 DEF Process, Holding, Reviewing
<1>7. ProcessOK(q)
  BY <1>1, <1>6 DEF ProcessOK, Publishing
<1>8. proc' = [proc EXCEPT ![w] = q]
  BY DEF Hold
<1> HIDE DEF q
<1>9. ClaimsAs(w, q)
  BY <1>3, <1>4, <1>6 DEF ClaimsAs
<1> QED BY <1>7, <1>8, <1>9 DEF Becomes

\* Of the workers' processes only the one that acts changes, and it holds an
\* epoch afterwards only if it held it before or has just minted it.
LEMMA WorkerBecomes ==
    ASSUME QueueInv, Shapes, NEW w \in Owners, AnyWorkerStep(w)
    PROVE  \E q : Becomes(w, q)
<1> DEFINE j == proc[w].job
<1>1. proc[w] \in Process /\ ProcessOK(proc[w])
  BY DEF Shapes
<1>2. ASSUME Exit(w) PROVE \E q : Becomes(w, q)
  <2>1. Becomes(w, IdleProcess)
    BY <1>2, FreshProcessOK DEF Exit, Becomes, Holding, Reviewing, Publishing
  <2> QED BY <2>1
\* The steps of a holder.
<1>3. ASSUME proc[w].pc \in Holding, NEW q, proc' = [proc EXCEPT ![w] = q], ProcessOK(q),
             q.job = proc[w].job, q.epoch = proc[w].epoch
      PROVE  \E p : Becomes(w, p)
  <2>1. Becomes(w, q)
    BY <1>3 DEF Becomes, KeepsEpoch
  <2> QED BY <2>1
<1>4. ASSUME proc[w].pc \in Holding, NEW pc \in Holding, Goto(w, pc),
             pc \in Publishing => proc[w].pc \in Publishing
      PROVE  \E q : Becomes(w, q)
  <2> DEFINE q == [proc[w] EXCEPT !.pc = pc]
  <2>1. q \in Process /\ q.pc = pc /\ q.job = proc[w].job /\ q.epoch = proc[w].epoch
        /\ q.doc = proc[w].doc
    BY <1>1 DEF Process
  <2>2. ProcessOK(q)
    BY <1>1, <1>4, <2>1 DEF ProcessOK, Holding, Reviewing, Publishing
  <2>3. proc' = [proc EXCEPT ![w] = q]
    BY <1>4 DEF Goto
  <2> HIDE DEF q
  <2> QED BY <1>3, <1>4, <2>1, <2>2, <2>3
<1>5. CASE ClassifierClaims(w)
  <2>1. CASE ClassificationClaimable(job[j])
    <3>1. /\ Write(j, Leased(job[j], w)) /\ Hold(w, "classifying", job'[j].lease_epoch)
          /\ proc[w].pc \in Launched /\ job[j].attempt < MaxAttempts
      BY <1>5, <2>1 DEF ClassifierClaims, ClaimLLMClassification, Launched, ClassificationClaimable
    <3> QED BY <3>1, ClaimHolds
  <2>2. CASE ~ClassificationClaimable(job[j])
    BY <1>2, <1>5, <2>2 DEF ClassifierClaims
  <2> QED BY <2>1, <2>2
<1>6. CASE ReviewerClaims(w)
  <2>1. CASE Claimable(job[j])
    <3>1. /\ Write(j, Claimed(job[j], w)) /\ Hold(w, "reviewing", job'[j].lease_epoch)
          /\ proc[w].pc \in Launched /\ job[j].attempt < MaxAttempts
      BY <1>6, <2>1 DEF ReviewerClaims, ClaimReviewJob, Launched, Claimable
    <3> QED BY <3>1, ClaimHolds
  <2>2. CASE ~Claimable(job[j])
    BY <1>2, <1>6, <2>2 DEF ReviewerClaims
  <2> QED BY <2>1, <2>2
<1>7. CASE ClassifierResolves(w) \/ ClassifierFails(w) \/ ClassifierHasNoInvocation(w)
  BY <1>2, <1>7 DEF ClassifierResolves, ClassifierFails, ClassifierHasNoInvocation
<1>8. CASE RecordFailure(w) \/ Declines(w) \/ CompletesPublication(w) \/ WorkerDies(w)
  BY <1>2, <1>8 DEF RecordFailure, Declines, CompletesPublication, WorkerDies
<1>9. CASE ReviewFails(w)
  BY <1>4, <1>9 DEF ReviewFails, Holding, Reviewing, Publishing
<1>10. CASE Concludes(w)
  <2>1. PICK d \in Documents, b \in BOOLEAN :
           proc' = [proc EXCEPT ![w].pc = "concluded", ![w].doc = d, ![w].escalated = b]
    BY <1>10 DEF Concludes
  <2> DEFINE q == [proc[w] EXCEPT !.pc = "concluded", !.doc = d, !.escalated = b]
  <2>2. proc' = [proc EXCEPT ![w] = q]
    BY <2>1 DEF Shapes
  <2>3. proc[w].pc \in Holding /\ "concluded" \in Holding
    BY <1>10 DEF Concludes, Holding, Reviewing, Publishing
  <2>4. q \in Process /\ q.pc = "concluded" /\ q.job = proc[w].job
        /\ q.epoch = proc[w].epoch /\ q.doc = d
    BY <1>1, <2>3 DEF Process
  <2>5. ProcessOK(q)
    BY <1>1, <2>3, <2>4 DEF ProcessOK, Holding, Reviewing, Publishing
  <2> HIDE DEF q
  <2> QED BY <1>3, <2>2, <2>3, <2>4, <2>5
<1>11. CASE Renews(w)
  BY <1>2, <1>4, <1>11 DEF Renews, Holding, Reviewing, Publishing
<1>12. CASE LooksForDocument(w)
  <2>1. proc[w].pc \in {"renewed", "staged"}
    BY <1>12 DEF LooksForDocument
  <2>2. PICK pc \in {"staging", "linking", "filed", "failing"} : Goto(w, pc)
    BY <1>12 DEF LooksForDocument
  <2> QED BY <1>4, <2>1, <2>2 DEF Holding, Reviewing, Publishing
<1>13. CASE Links(w)
  <2>1. PICK pc \in {"filed", "failing"} : proc[w].pc = "linking" /\ Goto(w, pc)
    BY <1>13 DEF Links
  <2> QED BY <1>4, <2>1 DEF Holding, Reviewing, Publishing
<1>14. CASE PublicationFails(w)
  BY <1>2, <1>4, <1>14 DEF PublicationFails, Holding, Reviewing, Publishing
<1> QED
  BY <1>5, <1>6, <1>7, <1>8, <1>9, <1>10, <1>11, <1>12, <1>13, <1>14
     DEF AnyWorkerStep, WorkerStep

\* A hook starts idle processes and touches no other.
LEMMA HookStarts ==
    ASSUME Shapes, NEW h \in Hooks, AnyHookStep(h)
    PROVE  \/ UNCHANGED proc
           \/ \E w \in Owners : \E q :
                 proc[w].pc = "idle" /\ q.pc \notin Holding /\ Becomes(w, q)
<1>1. ASSUME NEW w \in Owners, NEW pc \in Launched, NEW j \in Jobs, Start(w, pc, j),
             proc[w].pc = "idle"
      PROVE  \E q : proc[w].pc = "idle" /\ q.pc \notin Holding /\ Becomes(w, q)
  <2> DEFINE q == [IdleProcess EXCEPT !.pc = pc, !.job = j]
  <2>1. ProcessOK(q) /\ q.pc \notin Holding
    BY <1>1, FreshProcessOK DEF Launched, Holding, Reviewing, Publishing
  <2>2. Becomes(w, q)
    BY <1>1, <2>1 DEF Start, Becomes
  <2> QED BY <1>1, <2>1, <2>2
<1>2. ASSUME NEW w \in Owners, Launch(h, w)
      PROVE  \E q : proc[w].pc = "idle" /\ q.pc \notin Holding /\ Becomes(w, q)
  BY <1>1, <1>2 DEF Launch, Launched, Shapes, HookOK
<1>3. ASSUME NEW j \in Jobs, LaunchClassifier(h, j), ~UNCHANGED proc
      PROVE  \E w \in Owners : \E q : proc[w].pc = "idle" /\ q.pc \notin Holding /\ Becomes(w, q)
  BY <1>1, <1>3 DEF LaunchClassifier, Launched
<1> QED
  BY <1>2, <1>3 DEF AnyHookStep, HookStep, Prompt, NextPass, ReportLaunchFailure, Complain,
     Reserve, LaunchFails, HookDies
----------------------------------------------------------------------------
(* What a step does to a hook and to the directory. *)

\* Of the hooks only the one that acts changes, and it keeps its shape.
LEMMA HookBecomes ==
    ASSUME Shapes, NEW h \in Hooks, AnyHookStep(h)
    PROVE  \E g : hook' = [hook EXCEPT ![h] = g] /\ HookOK(g)
<1> DEFINE Result == \E g : hook' = [hook EXCEPT ![h] = g] /\ HookOK(g)
<1> USE DEF HookOK, HookState, Passes
<1>1. hook \in [Hooks -> HookState] /\ HookOK(hook[h])
  BY DEF Shapes
<1>2. HookOK(IdleHook)
  BY DEF IdleHook
<1>3. ASSUME NEW j \in Jobs, Complain(h, j) PROVE Result
  <2>1. HookOK([IdleHook EXCEPT !.pc = "choosing", !.due = {j}])
    BY DEF IdleHook
  <2> QED BY <1>3, <2>1 DEF Complain
<1>4. CASE Prompt(h) \/ LaunchFails(h)
  BY <1>1, <1>4 DEF Prompt, LaunchFails
<1>5. CASE NextPass(h)
  <2>1. DueReviews \subseteq Jobs /\ DueClassifications \subseteq Jobs
    BY DEF DueReviews, DueClassifications, Oldest
  <2>2. HookOK([hook[h] EXCEPT !.pass = "reviewers", !.due = DueReviews])
    BY <1>1, <2>1
  <2>3. HookOK([hook[h] EXCEPT !.pass = "classifiers", !.due = DueClassifications])
    BY <1>1, <2>1
  <2> HIDE DEF HookOK
  <2>4. CASE hook[h].pass = "prompt"
    BY <1>5, <2>2, <2>4 DEF NextPass
  <2>5. CASE hook[h].pass = "reviewers"
    BY <1>5, <2>3, <2>5 DEF NextPass
  <2>6. CASE hook[h].pass \notin {"prompt", "reviewers"}
    BY <1>2, <1>5, <2>6 DEF NextPass
  <2> QED BY <2>4, <2>5, <2>6
<1>6. ASSUME NEW j \in Jobs, Reserve(h, j) PROVE Result
  <2>1. HookOK([hook[h] EXCEPT !.pc = "reserved", !.due = hook[h].due \ {j}, !.job = j])
    BY <1>1
  <2>2. HookOK([hook[h] EXCEPT !.due = hook[h].due \ {j}])
    BY <1>1
  <2> HIDE DEF HookOK
  <2> QED BY <1>6, <2>1, <2>2 DEF Reserve
<1>7. CASE ReportLaunchFailure(h) \/ \E w \in Owners : Launch(h, w)
  <2>1. hook' = [hook EXCEPT ![h] = [hook[h] EXCEPT !.pc = "choosing", !.job = NoJob]]
    BY <1>7 DEF ReportLaunchFailure, Launch, Shapes
  <2>2. HookOK([hook[h] EXCEPT !.pc = "choosing", !.job = NoJob])
    BY <1>1
  <2> HIDE DEF HookOK
  <2> QED BY <2>1, <2>2
<1>8. ASSUME NEW j \in Jobs, LaunchClassifier(h, j) PROVE Result
  <2>1. hook' = [hook EXCEPT ![h] = [hook[h] EXCEPT !.due = hook[h].due \ {j}]]
    BY <1>8 DEF LaunchClassifier
  <2>2. HookOK([hook[h] EXCEPT !.due = hook[h].due \ {j}])
    BY <1>1
  <2> HIDE DEF HookOK
  <2> QED BY <2>1, <2>2
<1>9. CASE HookDies(h)
  BY <1>2, <1>9 DEF HookDies
<1> QED
  BY <1>3, <1>4, <1>5, <1>6, <1>7, <1>8, <1>9 DEF AnyHookStep, HookStep

\* Only a linking process adds to the directory, and only its own document.
LinksDocument(w) ==
    /\ proc[w].pc = "linking"
    /\ docs' = [docs EXCEPT ![proc[w].job] = @ \cup {proc[w].doc}]

LEMMA DocumentsGrow ==
    ASSUME NEW w \in Owners, AnyWorkerStep(w)
    PROVE  UNCHANGED docs \/ LinksDocument(w)
<1>1. CASE Links(w) \/ PublicationFails(w)
  BY <1>1 DEF Links, PublicationFails, LinksDocument
<1> QED
  BY <1>1 DEF AnyWorkerStep, WorkerStep, WorkerDies, ClassifierClaims, ClassifierResolves,
     ClassifierFails, ClassifierHasNoInvocation, ReviewerClaims, ReviewFails, RecordFailure,
     Declines, Concludes, Renews, LooksForDocument, CompletesPublication

\* A step of the pipeline is one of a hook, which writes no document; of a
\* process, which moves no hook; or of the clock, which does neither.
LEMMA ActorsDoNotMix ==
    ASSUME [PipelineNext]_vars
    PROVE  \/ \E h \in Hooks : AnyHookStep(h) /\ UNCHANGED docs
           \/ \E w \in Owners : AnyWorkerStep(w) /\ UNCHANGED hook
           \/ /\ \E j \in Jobs : Clock(j)
              /\ UNCHANGED <<proc, hook, docs, faults>>
           \/ UNCHANGED <<job, proc, hook, docs, faults>>
<1>1. ASSUME NEW h \in Hooks, AnyHookStep(h) PROVE UNCHANGED docs
  BY <1>1 DEF AnyHookStep, HookStep, Prompt, NextPass, ReportLaunchFailure, Complain, Reserve,
     LaunchClassifier, Launch, LaunchFails, HookDies
<1>2. ASSUME NEW w \in Owners, AnyWorkerStep(w) PROVE UNCHANGED hook
  BY <1>2 DEF AnyWorkerStep, WorkerStep, WorkerDies, ClassifierClaims, ClassifierResolves,
     ClassifierFails, ClassifierHasNoInvocation, ReviewerClaims, ReviewFails, RecordFailure,
     Declines, Concludes, Renews, LooksForDocument, Links, PublicationFails,
     CompletesPublication
<1>3. ASSUME NEW j \in Jobs, Clock(j) PROVE UNCHANGED <<proc, hook, docs, faults>>
  BY <1>3 DEF Clock
<1> QED
  BY <1>1, <1>2, <1>3 DEF PipelineNext, vars, shared, AnyHookStep, AnyWorkerStep
----------------------------------------------------------------------------
(* The shapes are kept. *)

\* Every step of the pipeline keeps the shape of the processes, the hooks and
\* the directory.
LEMMA ShapesKept ==
    ASSUME QueueInv, Shapes, [PipelineNext]_vars PROVE Shapes'
<1>1. ASSUME NEW w \in Owners, NEW q, Becomes(w, q)
      PROVE  (proc \in [Owners -> Process] /\ \A v \in Owners : ProcessOK(proc[v]))'
  <2>1. q \in Process /\ ProcessOK(q) /\ proc' = [proc EXCEPT ![w] = q]
    BY <1>1 DEF Becomes, ProcessOK
  <2> QED BY <2>1 DEF Shapes
<1>2. ASSUME NEW h \in Hooks, AnyHookStep(h)
      PROVE  (hook \in [Hooks -> HookState] /\ \A g \in Hooks : HookOK(hook[g]))'
  <2>1. PICK g : hook' = [hook EXCEPT ![h] = g] /\ HookOK(g) /\ g \in HookState
    BY <1>2, HookBecomes DEF HookOK
  <2> QED BY <2>1 DEF Shapes
<1>3. (proc \in [Owners -> Process] /\ \A w \in Owners : ProcessOK(proc[w]))'
  <2>1. ASSUME NEW h \in Hooks, AnyHookStep(h), ~UNCHANGED proc
        PROVE  \E w \in Owners : \E q : Becomes(w, q)
    BY <2>1, HookStarts
  <2>2. UNCHANGED proc \/ \E w \in Owners : \E q : Becomes(w, q)
    BY <2>1, WorkerBecomes, ActorsDoNotMix
  <2>3. CASE UNCHANGED proc
    BY <2>3 DEF Shapes, ProcessOK
  <2> QED BY <1>1, <2>2, <2>3
<1>4. (hook \in [Hooks -> HookState] /\ \A h \in Hooks : HookOK(hook[h]))'
  <2>1. CASE UNCHANGED hook
    BY <2>1 DEF Shapes, HookOK
  <2> QED BY <1>2, <2>1, ActorsDoNotMix
<1>5. docs' \in [Jobs -> SUBSET Documents]
  <2>1. ASSUME NEW w \in Owners, LinksDocument(w) PROVE docs' \in [Jobs -> SUBSET Documents]
    <3>1. proc[w].job \in Jobs /\ proc[w].doc \in Documents
      BY <2>1 DEF LinksDocument, Shapes, ProcessOK, Publishing
    <3> QED BY <2>1, <3>1 DEF LinksDocument, Shapes
  <2>2. CASE UNCHANGED docs
    BY <2>2 DEF Shapes
  <2> QED BY <2>1, <2>2, DocumentsGrow, ActorsDoNotMix
<1>6. faults' \in 0..MaxFaults
  <2>1. UNCHANGED faults \/ Fault
    BY DEF PipelineNext, vars, shared, HookStep, HookDies, LaunchFails, Prompt, NextPass,
       ReportLaunchFailure, Complain, Reserve, LaunchClassifier, Launch, WorkerStep,
       WorkerDies, ClassifierClaims, ClassifierResolves, ClassifierFails,
       ClassifierHasNoInvocation, ReviewerClaims, ReviewFails, RecordFailure, Declines,
       Concludes, Renews, LooksForDocument, Links, PublicationFails, CompletesPublication,
       Clock
  <2> QED BY <2>1, PipelineAssumption DEF Shapes, Fault
<1>7. punctual' = punctual
  BY DEF PipelineNext, vars
<1> QED BY <1>3, <1>4, <1>5, <1>6, <1>7 DEF Shapes

\* The initial state has the shapes and is the queue's initial table.
LEMMA PipelineInitOK == PipelineInit => Init /\ QueueInv /\ Shapes
<1> SUFFICES ASSUME PipelineInit PROVE Init /\ QueueInv /\ Shapes
  OBVIOUS
<1>1. Init /\ QueueInv
  BY NewRowOK DEF PipelineInit, Init, QueueInv, RowOK
<1>2. IdleProcess \in Process /\ ProcessOK(IdleProcess)
  BY FreshProcessOK DEF ProcessOK
<1>3. IdleHook \in HookState /\ HookOK(IdleHook)
  BY DEF IdleHook, HookState, HookOK, Passes
<1> QED BY <1>1, <1>2, <1>3, PipelineAssumption DEF PipelineInit, Shapes

\* The pipeline keeps the queue's invariant and the shapes.
THEOREM PipelineShapes == PipelineSpec => [](QueueInv /\ Shapes)
<1>1. QueueInv /\ Shapes /\ [PipelineNext]_vars => QueueInv' /\ Shapes'
  BY PipelineStepIsQueueStep, QueueInvKept, ShapesKept
<1> QED BY <1>1, PipelineInitOK, PTL DEF PipelineSpec

\* Every row, process, hook and file of the pipeline has the declared shape.
THEOREM PipelineTypeCorrect == PipelineSpec => []PipelineTypeOK
<1>1. QueueInv /\ Shapes => PipelineTypeOK
  BY DEF QueueInv, Shapes, PipelineTypeOK, TypeOK
<1> QED BY <1>1, PipelineShapes, PTL

\* The processes use the queue as it is meant to be used: whatever the pipeline
\* does, its table behaves as the queue's specification allows.
THEOREM PipelineUsesQueue == PipelineSpec => Spec
<1>1. Shapes /\ [PipelineNext]_vars => [Next]_job
  BY PipelineStepIsQueueStep
<1> QED BY <1>1, PipelineInitOK, PipelineShapes, PTL DEF PipelineSpec, Spec

\* So the pipeline has every property of the queue, the ledger included.
THEOREM PipelineInheritsQueue ==
    PipelineSpec => []RowsConsistent /\ SettledIsFinal /\ LiveLeaseIsExclusive /\ ImplementsLedger
BY PipelineUsesQueue, RowsAlwaysConsistent, VerdictsAreFinal, LeasesExclude,
   QueueImplementsLedger, PTL
----------------------------------------------------------------------------
(* Lease epochs. *)

\* A process that holds an epoch is moved by a step of its own; one that holds
\* none may also be started by a hook.
LEMMA OnlyItsOwnSteps ==
    ASSUME QueueInv, Shapes, [PipelineNext]_vars, NEW w \in Owners
    PROVE  \/ proc'[w] = proc[w]
           \/ proc[w].pc = "idle" /\ proc'[w].pc \notin Holding
           \/ AnyWorkerStep(w) /\ \E q : Becomes(w, q)
<1>1. ASSUME NEW v \in Owners, NEW q, Becomes(v, q)
      PROVE  IF v = w THEN proc'[w] = q ELSE proc'[w] = proc[w]
  BY <1>1 DEF Becomes, Shapes
<1>2. ASSUME NEW h \in Hooks, AnyHookStep(h)
      PROVE  proc'[w] = proc[w] \/ (proc[w].pc = "idle" /\ proc'[w].pc \notin Holding)
  BY <1>1, <1>2, HookStarts
<1>3. ASSUME NEW v \in Owners, AnyWorkerStep(v), v # w PROVE proc'[w] = proc[w]
  BY <1>1, <1>3, WorkerBecomes
<1> QED BY <1>2, <1>3, WorkerBecomes, ActorsDoNotMix

\* The epoch of a process is at most that of the row, and whose epoch is the
\* row's is the owner of the row if anybody is.
HolderOK(w) ==
    proc[w].pc \in Holding =>
        /\ proc[w].epoch <= job[proc[w].job].lease_epoch
        /\ HoldsCurrent(w) => job[proc[w].job].owner_id \in {w, NoOwner}

\* No epoch of a job, current or not, is held twice.
HeldOnce(v, w) ==
    /\ proc[v].pc \in Holding /\ proc[w].pc \in Holding
    /\ proc[v].job = proc[w].job /\ proc[v].epoch = proc[w].epoch
    => v = w

EpochInv == \A w \in Owners : HolderOK(w) /\ \A v \in Owners : HeldOnce(v, w)

\* The clauses of the invariant are kept, by the claim that mints an epoch and
\* by every step that does not.
LEMMA EpochInvKept ==
    ASSUME QueueInv, Shapes, EpochInv, [PipelineNext]_vars PROVE EpochInv'
<1>1. ASSUME NEW j \in Jobs
      PROVE  /\ job[j].lease_epoch \in Nat /\ job'[j].lease_epoch \in Nat
             /\ job[j].lease_epoch <= job'[j].lease_epoch
             /\ job'[j].lease_epoch = job[j].lease_epoch =>
                   job'[j].owner_id \in {job[j].owner_id, NoOwner}
  <2>1. QueueInv' /\ [Next]_job
    BY PipelineStepIsQueueStep, QueueInvKept
  <2>2. job[j].lease_epoch \in Nat /\ job'[j].lease_epoch \in Nat
    BY <2>1, AttemptsAssumption DEF QueueInv, Row
  <2>3. ASSUME NEW k \in Jobs, NEW s, job' = [job EXCEPT ![k] = s], RowStep(job[k], s)
        PROVE  \/ /\ job'[j].lease_epoch = job[j].lease_epoch
                  /\ job'[j].owner_id \in {job[j].owner_id, NoOwner}
               \/ job'[j].lease_epoch = job[j].lease_epoch + 1
    <3>1. RowOK(job[k])
      BY DEF QueueInv, RowOK
    <3>2. CASE k = j
      BY <2>3, <3>1, <3>2, RowStepEpoch DEF QueueInv
    <3>3. CASE k # j
      BY <2>3, <3>3 DEF QueueInv
    <3> QED BY <3>2, <3>3
  <2> QED BY <2>1, <2>2, <2>3, NextIsRowStep
<1>2. ASSUME NEW w \in Owners, proc[w].pc \in Holding
      PROVE  proc[w].job \in Jobs /\ proc[w].epoch \in Nat
  BY <1>2, AttemptsAssumption
     DEF Shapes, ProcessOK, Process, Holding, Reviewing, Publishing
\* What the three kinds of step leave of a process that holds an epoch after it.
<1>3. ASSUME NEW w \in Owners, proc'[w].pc \in Holding
      PROVE  \/ /\ proc[w].pc \in Holding /\ proc'[w].job = proc[w].job
                /\ proc'[w].epoch = proc[w].epoch
             \/ /\ \E q : Becomes(w, q)
                /\ proc'[w].job \in Jobs
                /\ proc'[w].epoch = job[proc'[w].job].lease_epoch + 1
                /\ job'[proc'[w].job].lease_epoch = proc'[w].epoch
                /\ job'[proc'[w].job].owner_id = w
  <2>1. ASSUME NEW q, Becomes(w, q) PROVE proc'[w] = q
    BY <2>1 DEF Becomes, Shapes
  <2>2. CASE \E q : Becomes(w, q)
    <3>1. PICK q : Becomes(w, q)
      BY <2>2
    <3>2. proc'[w] = q /\ q \in Process
      BY <2>1, <3>1 DEF Becomes, ProcessOK
    <3>3. q.job \in Jobs
      BY <1>3, <3>1, <3>2 DEF Becomes, ProcessOK, Holding, Reviewing, Publishing
    <3> QED BY <1>3, <3>1, <3>2, <3>3 DEF Becomes, ClaimsAs, KeepsEpoch
  <2> QED BY <1>3, <2>2, OnlyItsOwnSteps
<1>4. ASSUME NEW w \in Owners PROVE HolderOK(w)'
  <2> SUFFICES ASSUME proc'[w].pc \in Holding
               PROVE  /\ proc'[w].epoch <= job'[proc'[w].job].lease_epoch
                      /\ proc'[w].epoch = job'[proc'[w].job].lease_epoch =>
                            job'[proc'[w].job].owner_id \in {w, NoOwner}
    BY DEF HolderOK, HoldsCurrent
  <2>1. CASE /\ proc[w].pc \in Holding /\ proc'[w].job = proc[w].job
             /\ proc'[w].epoch = proc[w].epoch
    <3> DEFINE j == proc[w].job
    <3>1. /\ proc[w].epoch <= job[j].lease_epoch
          /\ proc[w].epoch = job[j].lease_epoch => job[j].owner_id \in {w, NoOwner}
      BY <2>1 DEF EpochInv, HolderOK, HoldsCurrent
    <3>2. j \in Jobs /\ proc[w].epoch \in Nat
      BY <1>2, <2>1
    <3> HIDE DEF j
    <3> QED BY <1>1, <2>1, <3>1, <3>2 DEF j
  <2>2. CASE /\ proc'[w].job \in Jobs
             /\ job'[proc'[w].job].lease_epoch = proc'[w].epoch
             /\ job'[proc'[w].job].owner_id = w
    BY <1>1, <2>2
  <2> QED BY <1>3, <2>1, <2>2
<1>5. ASSUME NEW v \in Owners, NEW w \in Owners PROVE HeldOnce(v, w)'
  <2> SUFFICES ASSUME proc'[v].pc \in Holding, proc'[w].pc \in Holding,
                      proc'[v].job = proc'[w].job, proc'[v].epoch = proc'[w].epoch, v # w
               PROVE  FALSE
    BY DEF HeldOnce
  <2>1. ASSUME NEW x \in Owners, NEW y \in Owners, x # y, \E q : Becomes(x, q)
        PROVE  proc'[y] = proc[y]
    BY <2>1 DEF Becomes, Shapes
  \* A process that has just claimed has a newer epoch than all the others.
  <2>2. ASSUME NEW x \in Owners, NEW y \in Owners, x # y,
               \E q : Becomes(x, q), proc'[x].job \in Jobs,
               proc'[x].epoch = job[proc'[x].job].lease_epoch + 1,
               proc'[y].pc \in Holding, proc'[y].job = proc'[x].job,
               proc'[y].epoch = proc'[x].epoch
        PROVE  FALSE
    <3>1. proc'[y] = proc[y]
      BY <2>1, <2>2
    <3>2. proc[y].epoch <= job[proc[y].job].lease_epoch /\ proc[y].epoch \in Nat
      BY <1>2, <2>2, <3>1 DEF EpochInv, HolderOK
    <3> QED BY <1>1, <2>2, <3>1, <3>2
  <2>3. CASE /\ proc[v].pc \in Holding /\ proc'[v].job = proc[v].job
             /\ proc'[v].epoch = proc[v].epoch
             /\ proc[w].pc \in Holding /\ proc'[w].job = proc[w].job
             /\ proc'[w].epoch = proc[w].epoch
    BY <2>3 DEF EpochInv, HeldOnce
  <2> QED BY <1>3, <2>2, <2>3
<1> QED BY <1>4, <1>5 DEF EpochInv

\* All that the pipeline keeps at any rate.
PipelineInv == QueueInv /\ Shapes /\ EpochInv

\* The queue's invariant, the shape of processes, hooks and directory, and that an epoch
\* is held by the one process that claimed it, hold of the pipeline at all times.
THEOREM EpochInvariant == PipelineSpec => []PipelineInv
<1>1. PipelineInit => PipelineInv
  <2>1. PipelineInit => EpochInv
    BY DEF PipelineInit, IdleProcess, EpochInv, HolderOK, HeldOnce, Holding, Reviewing,
       Publishing
  <2> QED BY <2>1, PipelineInitOK DEF PipelineInv
<1>2. PipelineInv /\ [PipelineNext]_vars => PipelineInv'
  BY PipelineStepIsQueueStep, QueueInvKept, ShapesKept, EpochInvKept DEF PipelineInv
<1> QED BY <1>1, <1>2, PTL DEF PipelineSpec

\* A lease epoch names one process, and an owned row is owned by it.
THEOREM EpochsAreUnique == PipelineSpec => []EpochsNameOneProcess
<1>1. PipelineInv => EpochsNameOneProcess
  BY DEF PipelineInv, EpochInv, HolderOK, HeldOnce, HoldsCurrent, EpochsNameOneProcess
<1> QED BY <1>1, EpochInvariant, PTL
----------------------------------------------------------------------------
(* Late workers. *)

\* No operation accepts an epoch that is not the row's.
LEMMA StaleStepChangesNoRow ==
    ASSUME NEW w \in Owners, proc[w].pc \in Holding, ~HoldsCurrent(w), AnyWorkerStep(w)
    PROVE  UNCHANGED job
<1>1. ~HoldsReviewLease(job[proc[w].job], w, proc[w].epoch)
  BY DEF HoldsCurrent, HoldsReviewLease
<1>2. ~HoldsClassification(job[proc[w].job], w, proc[w].epoch)
  BY DEF HoldsCurrent, HoldsClassification
<1>3. ~ClassifierClaims(w) /\ ~ReviewerClaims(w)
  BY DEF ClassifierClaims, ReviewerClaims, Holding, Reviewing, Publishing
<1>4. CASE ClassifierResolves(w) \/ ClassifierFails(w)
  BY <1>2, <1>4 DEF ClassifierResolves, ClassifierFails, ResolveLLMAdmission,
     ReleaseLLMClassification, Skip
<1>5. CASE RecordFailure(w) \/ Declines(w) \/ Renews(w) \/ CompletesPublication(w)
  BY <1>1, <1>5 DEF RecordFailure, Declines, Renews, CompletesPublication, FailReviewJob,
     CompleteReviewNoLesson, RenewReviewLease, CompleteReviewPublished, Skip
<1> QED
  BY <1>3, <1>4, <1>5 DEF AnyWorkerStep, WorkerStep, WorkerDies, ClassifierHasNoInvocation,
     ReviewFails, Concludes, LooksForDocument, Links, PublicationFails

\* A process whose lease was taken over changes no row, whatever it does next.
THEOREM StaleWorkersArePowerless == PipelineSpec => StaleWorkerIsPowerless
<1> DEFINE Powerless == \A w \in Owners :
              proc[w].pc \in Holding /\ ~HoldsCurrent(w) /\ proc'[w] # proc[w] => job' = job
<1>1. PipelineInv /\ [PipelineNext]_vars => [Powerless]_vars
  <2> SUFFICES ASSUME PipelineInv, [PipelineNext]_vars, NEW w \in Owners,
                      proc[w].pc \in Holding, ~HoldsCurrent(w), proc'[w] # proc[w]
               PROVE  job' = job
    OBVIOUS
  <2>1. AnyWorkerStep(w)
    BY OnlyItsOwnSteps DEF PipelineInv, Holding, Reviewing, Publishing
  <2> QED BY <2>1, StaleStepChangesNoRow
<1> QED BY <1>1, EpochInvariant, PTL DEF PipelineSpec, StaleWorkerIsPowerless

----------------------------------------------------------------------------
(* The documents of published rows. *)

\* What a process has filed is in the directory.
FiledInv == \A w \in Owners : proc[w].pc = "filed" => proc[w].doc \in docs[proc[w].job]

\* Nothing ever leaves the directory.
LEMMA DocumentsStay ==
    ASSUME Shapes, [PipelineNext]_vars PROVE \A j \in Jobs : docs[j] \subseteq docs'[j]
<1>1. ASSUME NEW w \in Owners, LinksDocument(w) PROVE \A j \in Jobs : docs[j] \subseteq docs'[j]
  BY <1>1 DEF LinksDocument, Shapes
<1> QED BY <1>1, DocumentsGrow, ActorsDoNotMix

\* The last stages before the verdict are entered by three actions only.
LEMMA LateStages ==
    ASSUME Shapes, NEW w \in Owners, AnyWorkerStep(w), proc'[w].pc \in {"staged", "linking", "filed"}
    PROVE  /\ Renews(w) \/ LooksForDocument(w) \/ Links(w)
           /\ Goto(w, proc'[w].pc)
           /\ proc'[w].job = proc[w].job /\ proc'[w].doc = proc[w].doc
           /\ proc'[w].epoch = proc[w].epoch
<1>1. proc \in [Owners -> Process] /\ proc[w] \in Process
  BY DEF Shapes
<1>2. ASSUME NEW pc, Goto(w, pc)
      PROVE  /\ proc'[w].pc = pc /\ proc'[w].job = proc[w].job
             /\ proc'[w].doc = proc[w].doc /\ proc'[w].epoch = proc[w].epoch
  BY <1>1, <1>2 DEF Goto, Process
<1>3. ~Exit(w)
  BY <1>1 DEF Exit, IdleProcess
<1>4. ASSUME NEW pc, Goto(w, pc) PROVE Goto(w, proc'[w].pc)
  BY <1>2, <1>4
<1>5. CASE Renews(w) \/ LooksForDocument(w) \/ Links(w)
  <2>1. \E pc : Goto(w, pc)
    BY <1>3, <1>5 DEF Renews, LooksForDocument, Links
  <2> QED BY <1>2, <1>4, <1>5, <2>1
<1>6. ~ReviewFails(w) /\ ~PublicationFails(w)
  BY <1>2, <1>3 DEF ReviewFails, PublicationFails
<1>7. ~Concludes(w)
  <2> SUFFICES ASSUME Concludes(w) PROVE FALSE
    OBVIOUS
  <2>1. PICK d \in Documents, b \in BOOLEAN :
           proc' = [proc EXCEPT ![w].pc = "concluded", ![w].doc = d, ![w].escalated = b]
    BY DEF Concludes
  <2>2. proc'[w] = [proc[w] EXCEPT !.pc = "concluded", !.doc = d, !.escalated = b]
    BY <1>1, <2>1
  <2> QED BY <1>1, <2>2 DEF Process
<1>8. ~ClassifierClaims(w) /\ ~ReviewerClaims(w)
  <2>1. ASSUME NEW pc, NEW e, Hold(w, pc, e) PROVE proc'[w].pc = pc
    BY <1>1, <2>1 DEF Hold, Process
  <2> QED BY <1>3, <2>1 DEF ClassifierClaims, ReviewerClaims
<1> QED
  BY <1>3, <1>5, <1>6, <1>7, <1>8 DEF AnyWorkerStep, WorkerStep, WorkerDies,
     ClassifierResolves, ClassifierFails, ClassifierHasNoInvocation, RecordFailure, Declines,
     CompletesPublication

\* A process that comes to "filed" has found its own bytes there or put them there.
LEMMA FilesWhatIsThere ==
    ASSUME Shapes, NEW w \in Owners, AnyWorkerStep(w), proc'[w].pc = "filed"
    PROVE  proc[w].doc \in docs'[proc[w].job]
<1>1. ASSUME NEW pc, Goto(w, pc) PROVE proc'[w].pc = pc
  BY <1>1 DEF Goto, Shapes, Process
<1>2. ~Exit(w)
  BY DEF Exit, IdleProcess, Shapes
<1>3. CASE LooksForDocument(w)
  BY <1>1, <1>3 DEF LooksForDocument
<1>4. CASE Links(w)
  <2>1. proc[w].job \in Jobs
    BY <1>4 DEF Links, Shapes, ProcessOK
  <2> QED BY <1>1, <1>4, <2>1 DEF Links, Shapes
<1>5. ~Renews(w)
  BY <1>1, <1>2 DEF Renews
<1> QED BY <1>3, <1>4, <1>5, LateStages

LEMMA FiledInvKept ==
    ASSUME PipelineInv, FiledInv, [PipelineNext]_vars PROVE FiledInv'
<1> SUFFICES ASSUME NEW w \in Owners, proc'[w].pc = "filed"
             PROVE  proc'[w].doc \in docs'[proc'[w].job]
  BY DEF FiledInv
<1>1. CASE proc'[w] = proc[w]
  <2>1. proc[w].job \in Jobs
    BY <1>1 DEF PipelineInv, Shapes, ProcessOK
  <2> QED BY <1>1, <2>1, DocumentsStay DEF FiledInv, PipelineInv
<1>2. CASE AnyWorkerStep(w)
  BY <1>2, FilesWhatIsThere, LateStages DEF PipelineInv
<1> QED
  BY <1>1, <1>2, OnlyItsOwnSteps DEF PipelineInv, Holding, Reviewing, Publishing

\* The state each UPDATE leaves.
LEMMA StatesAfter ==
    ASSUME NEW r \in Row
    PROVE  /\ \A s : NewRow(s).state = s /\ Ended(r, s).state = s
           /\ Exhausted(r).state = "failed"
           /\ \A h : Reserved(r, h).state = r.state
           /\ \A w : Leased(r, w).state = r.state /\ Claimed(r, w).state = "running"
           /\ \A b : Released(r, b).state \in {"failed", "llm_pending"}
           /\ \A b : Resolved(r, b).state \in {"pending", "discarded"}
           /\ FailedAttempt(r).state \in {"failed", "retryable"}
BY DEF Row, NewRow, Ended, Unleased, Exhausted, Reserved, Leased, Claimed, Released, Resolved,
   FailedAttempt

\* A row becomes published only through the process that filed the document.
LEMMA PublishesWhatIsFiled ==
    ASSUME PipelineInv, [PipelineNext]_vars, NEW j \in Jobs,
           job'[j].state = "published", job[j].state # "published"
    PROVE  \E w \in Owners : /\ proc[w].pc = "filed" /\ proc[w].job = j
                             /\ job'[j].published_path = proc[w].doc
<1>1. job \in [Jobs -> Row] /\ job[j] \in Row
  BY DEF PipelineInv, QueueInv
<1>2. ASSUME NEW k \in Jobs, NEW r, Write(k, r)
      PROVE  /\ k = j /\ job'[j] = r /\ r.state = "published"
             /\ job[k] \in Row /\ job[k].state # "published"
  BY <1>1, <1>2 DEF Write
<1>3. ~Skip(j) /\ ~UNCHANGED job
  BY DEF Skip
<1>4. ASSUME NEW h \in Hooks, AnyHookStep(h) PROVE FALSE
  <2>1. ASSUME NEW k \in Jobs, NEW s \in {"pending", "llm_pending"},
               CreateReviewCandidate(k, s)
        PROVE  FALSE
    BY <1>2, <1>3, <2>1, StatesAfter DEF CreateReviewCandidate, Skip
  <2>2. ASSUME NEW k \in Jobs, ReserveReviewLaunch(k, h) PROVE FALSE
    BY <1>2, <1>3, <2>2, StatesAfter DEF ReserveReviewLaunch, Skip
  <2>3. ASSUME NEW k \in Jobs, RecordReviewLaunchFailure(k, h) PROVE FALSE
    <3>1. [job[k] EXCEPT !.next_launch_at = "null"].state = job[k].state
      BY <1>1 DEF Row
    <3> QED BY <1>2, <1>3, <2>3, <3>1 DEF RecordReviewLaunchFailure, Skip
  <2>4. ASSUME ReportLaunchFailure(h) PROVE FALSE
    <3>1. hook[h].job \in Jobs
      BY <2>4 DEF ReportLaunchFailure, PipelineInv, Shapes, HookOK
    <3> QED BY <2>3, <2>4, <3>1 DEF ReportLaunchFailure
  <2> QED
    BY <1>3, <1>4, <2>1, <2>2, <2>4 DEF AnyHookStep, HookStep, Prompt, NextPass, Complain,
       Reserve, LaunchClassifier, Launch, LaunchFails, HookDies
<1>5. ASSUME NEW k \in Jobs, Clock(k) PROVE FALSE
  BY <1>1, <1>2, <1>5 DEF Clock, TimePasses, Row
<1>6. ASSUME NEW w \in Owners, AnyWorkerStep(w)
      PROVE  /\ proc[w].pc = "filed" /\ proc[w].job = j
             /\ job'[j].published_path = proc[w].doc
  <2>1. proc[w].pc # "idle" => proc[w].job \in Jobs
    BY DEF PipelineInv, Shapes, ProcessOK
  <2> USE <1>2, <1>3, <2>1, StatesAfter DEF Skip
  <2>2. ~ClassifierClaims(w)
    BY DEF ClassifierClaims, ClaimLLMClassification
  <2>3. ~ClassifierResolves(w) /\ ~ClassifierFails(w)
    BY DEF ClassifierResolves, ClassifierFails, ResolveLLMAdmission, ReleaseLLMClassification
  <2>4. ~ReviewerClaims(w)
    BY DEF ReviewerClaims, ClaimReviewJob
  <2>5. ~RecordFailure(w) /\ ~Declines(w) /\ ~Renews(w)
    <3>1. \A k \in Jobs : [job[k] EXCEPT !.lease_until = "future"].state = job[k].state
      BY <1>1 DEF Row
    <3>2. ~RecordFailure(w)
      BY DEF RecordFailure, FailReviewJob
    <3>3. ~Declines(w)
      BY DEF Declines, CompleteReviewNoLesson
    <3>4. ~Renews(w)
      <4> SUFFICES ASSUME Renews(w) PROVE FALSE
        OBVIOUS
      <4> DEFINE k == proc[w].job
                 r == [job[k] EXCEPT !.lease_until = "future"]
      <4>1. k \in Jobs /\ RenewReviewLease(k, w, proc[w].epoch)
        BY DEF Renews
      <4>2. Write(k, r)
        BY <4>1 DEF RenewReviewLease
      <4>3. r.state = job[k].state
        BY <3>1, <4>1
      <4> HIDE DEF k, r
      <4> QED BY <4>1, <4>2, <4>3
    <3> QED BY <3>2, <3>3, <3>4
  <2>6. CASE CompletesPublication(w)
    <3>1. /\ proc[w].pc = "filed" /\ proc[w].job \in Jobs
          /\ CompleteReviewPublished(proc[w].job, w, proc[w].epoch, proc[w].doc)
      BY <2>6 DEF CompletesPublication
    <3>2. Write(proc[w].job, [Ended(job[proc[w].job], "published") EXCEPT
                                !.published_path = proc[w].doc])
      BY <3>1 DEF CompleteReviewPublished
    <3>3. [Ended(job[j], "published") EXCEPT !.published_path = proc[w].doc].published_path
          = proc[w].doc
      BY <1>1 DEF Ended, Unleased, Row
    <3> QED BY <3>1, <3>2, <3>3
  <2> QED
    BY <1>3, <1>6, <2>2, <2>3, <2>4, <2>5, <2>6 DEF AnyWorkerStep, WorkerStep, WorkerDies,
       ClassifierHasNoInvocation, ReviewFails, Concludes, LooksForDocument, Links,
       PublicationFails
<1> QED BY <1>3, <1>4, <1>5, <1>6, ActorsDoNotMix

\* The recorded path of every published row leads to a document that is there.
THEOREM PublishedDocumentsExist == PipelineSpec => []PublishedDocumentExists
<1> DEFINE FInv == FiledInv /\ PublishedDocumentExists
<1>1. PipelineInit => FInv
  BY DEF PipelineInit, Init, NewRow, IdleProcess, FiledInv, PublishedDocumentExists
<1>2. PipelineInv /\ FInv /\ [PipelineNext]_vars => FInv'
  <2> SUFFICES ASSUME PipelineInv, FInv, [PipelineNext]_vars PROVE FInv'
    OBVIOUS
  <2>1. FiledInv'
    BY FiledInvKept
  <2>2. ASSUME NEW j \in Jobs, job'[j].state = "published"
        PROVE  job'[j].published_path \in docs'[j]
    <3>1. CASE job[j].state = "published"
      <4>1. [Next]_job /\ RowOK(job[j])
        BY PipelineStepIsQueueStep DEF PipelineInv, QueueInv, RowOK
      <4>2. ASSUME NEW k \in Jobs, NEW s, job' = [job EXCEPT ![k] = s], RowStep(job[k], s)
            PROVE  job'[j].published_path = job[j].published_path
        BY <3>1, <4>1, <4>2, RowStepSettled DEF PipelineInv, QueueInv, Settled, Outcomes
      <4>3. job'[j].published_path = job[j].published_path
        BY <4>1, <4>2, NextIsRowStep
      <4> QED BY <3>1, <4>3, DocumentsStay DEF PublishedDocumentExists, PipelineInv
    <3>2. CASE job[j].state # "published"
      <4>1. PICK w \in Owners : /\ proc[w].pc = "filed" /\ proc[w].job = j
                               /\ job'[j].published_path = proc[w].doc
        BY <2>2, <3>2, PublishesWhatIsFiled
      <4> QED BY <4>1, DocumentsStay DEF FiledInv, PipelineInv
    <3> QED BY <3>1, <3>2
  <2> QED BY <2>1, <2>2 DEF PublishedDocumentExists
<1> QED BY <1>1, <1>2, EpochInvariant, PTL DEF PipelineSpec
----------------------------------------------------------------------------
(* The cooldown of a launch. *)

\* What each UPDATE makes of next_launch_at: only a failed launch and the two
\* exhaustions clear it.
LEMMA CooldownAfter ==
    ASSUME NEW r \in Row
    PROVE  /\ \A s : Ended(r, s).next_launch_at = r.next_launch_at
           /\ \A h : Reserved(r, h).next_launch_at = "future"
           /\ \A w : /\ Leased(r, w).next_launch_at = r.next_launch_at
                     /\ Claimed(r, w).next_launch_at = r.next_launch_at
           /\ \A b : \/ Released(r, b).state = "failed"
                     \/ Released(r, b).next_launch_at = "future"
           /\ \A b : Resolved(r, b).next_launch_at = r.next_launch_at
           /\ FailedAttempt(r).next_launch_at = r.next_launch_at
           /\ [r EXCEPT !.lease_until = "future"].next_launch_at = r.next_launch_at
           /\ \A d : [Ended(r, "published") EXCEPT !.published_path = d].next_launch_at
                        = r.next_launch_at
BY DEF Row, Ended, Unleased, Exhausted, Reserved, Leased, Claimed, Released, Resolved,
   FailedAttempt

\* The report of a launch that failed leaves a newer reservation alone.
LEMMA CooldownKept ==
    ASSUME PipelineInv, [PipelineNext]_vars, NEW h \in Hooks, hook[h].pc = "reserved",
           NEW j, j = hook[h].job, job[j].launch_epoch = h,
           job[j].next_launch_at # "null", job'[j].next_launch_at = "null"
    PROVE  job'[j].state = "failed"
<1>1. j \in Jobs /\ job \in [Jobs -> Row] /\ job[j] \in Row /\ job[j].state # "absent"
  BY DEF PipelineInv, QueueInv, Shapes, HookOK, Blank
<1>2. ASSUME NEW k \in Jobs, NEW r, Write(k, r)
      PROVE  /\ k = j /\ job'[j] = r /\ r.next_launch_at = "null"
             /\ job[k] \in Row /\ job[k].next_launch_at # "null"
  BY <1>1, <1>2 DEF Write
<1>3. ~UNCHANGED job /\ \A k : ~Skip(k)
  BY DEF Skip
<1>4. ASSUME NEW r \in Row PROVE Exhausted(r).state = "failed"
  BY <1>4, StatesAfter
<1>5. ASSUME NEW g \in Hooks, AnyHookStep(g) PROVE job'[j].state = "failed"
  <2>1. ASSUME NEW k \in Jobs, Complain(g, k) PROVE FALSE
    BY <1>1, <1>2, <1>3, <2>1 DEF Complain, CreateReviewCandidate
  <2>2. ASSUME NEW k \in Jobs, Reserve(g, k) PROVE job'[j].state = "failed"
    BY <1>2, <1>3, <1>4, <2>2, CooldownAfter DEF Reserve, ReserveReviewLaunch
  <2>3. ~ReportLaunchFailure(g)
    <3> SUFFICES ASSUME ReportLaunchFailure(g) PROVE FALSE
      OBVIOUS
    <3>1. g # h /\ hook[g].job \in Jobs /\ RecordReviewLaunchFailure(hook[g].job, g)
      BY DEF ReportLaunchFailure, PipelineInv, Shapes, HookOK
    <3>2. hook[g].job = j /\ LaunchRevocable(job[j], g)
      BY <1>2, <1>3, <3>1 DEF RecordReviewLaunchFailure
    <3> QED BY <3>1, <3>2 DEF LaunchRevocable
  <2> QED
    BY <1>3, <1>5, <2>1, <2>2, <2>3 DEF AnyHookStep, HookStep, Prompt, NextPass,
       LaunchClassifier, Launch, LaunchFails, HookDies
<1>6. ASSUME NEW k \in Jobs, Clock(k) PROVE FALSE
  BY <1>1, <1>2, <1>6 DEF Clock, TimePasses, Row
<1>7. ASSUME NEW w \in Owners, AnyWorkerStep(w) PROVE job'[j].state = "failed"
  <2>1. proc[w].pc # "idle" => proc[w].job \in Jobs
    BY DEF PipelineInv, Shapes, ProcessOK
  <2> DEFINE k == proc[w].job
             e == proc[w].epoch
  <2>2. CASE ClassifierClaims(w)
    <3>1. k \in Jobs /\ ClaimLLMClassification(k, w)
      BY <2>1, <2>2 DEF ClassifierClaims
    <3> HIDE DEF k
    <3> QED BY <1>2, <1>3, <1>4, <3>1, CooldownAfter DEF ClaimLLMClassification
  <2>3. CASE ClassifierResolves(w)
    <3>1. PICK b \in BOOLEAN : k \in Jobs /\ ResolveLLMAdmission(k, w, e, b)
      BY <2>1, <2>3 DEF ClassifierResolves
    <3> HIDE DEF k, e
    <3> QED BY <1>2, <1>3, <3>1, CooldownAfter DEF ResolveLLMAdmission
  <2>4. CASE ClassifierFails(w)
    <3> DEFINE r == Released(job[k], TRUE)
    <3>1. k \in Jobs /\ ReleaseLLMClassification(k, w, e, TRUE)
      BY <2>1, <2>4 DEF ClassifierFails
    <3>2. Write(k, r)
      BY <1>3, <3>1 DEF ReleaseLLMClassification
    <3>3. r.state = "failed" \/ r.next_launch_at = "future"
      BY <1>1, <3>1 DEF Released, Exhausted, Ended, Unleased, Row
    <3> HIDE DEF k, r
    <3> QED BY <1>2, <3>1, <3>2, <3>3
  <2>5. CASE ReviewerClaims(w)
    <3>1. k \in Jobs /\ ClaimReviewJob(k, w)
      BY <2>1, <2>5 DEF ReviewerClaims
    <3> HIDE DEF k
    <3> QED BY <1>2, <1>3, <3>1, CooldownAfter DEF ClaimReviewJob
  <2>6. CASE RecordFailure(w)
    <3>1. k \in Jobs /\ FailReviewJob(k, w, e)
      BY <2>1, <2>6 DEF RecordFailure
    <3> HIDE DEF k, e
    <3> QED BY <1>2, <1>3, <3>1, CooldownAfter DEF FailReviewJob
  <2>7. CASE Declines(w)
    <3>1. k \in Jobs /\ CompleteReviewNoLesson(k, w, e)
      BY <2>1, <2>7 DEF Declines
    <3> HIDE DEF k, e
    <3> QED BY <1>2, <1>3, <3>1, CooldownAfter DEF CompleteReviewNoLesson
  <2>8. CASE Renews(w)
    <3> DEFINE r == [job[k] EXCEPT !.lease_until = "future"]
    <3>1. k \in Jobs /\ RenewReviewLease(k, w, e)
      BY <2>1, <2>8 DEF Renews
    <3>2. Write(k, r)
      BY <1>3, <3>1 DEF RenewReviewLease
    <3>3. r.next_launch_at = job[k].next_launch_at
      BY <1>1, <3>1, CooldownAfter
    <3> HIDE DEF k, r
    <3> QED BY <1>2, <3>1, <3>2, <3>3
  <2>9. CASE CompletesPublication(w)
    <3> DEFINE r == [Ended(job[k], "published") EXCEPT !.published_path = proc[w].doc]
    <3>1. k \in Jobs /\ CompleteReviewPublished(k, w, e, proc[w].doc)
      BY <2>1, <2>9 DEF CompletesPublication
    <3>2. Write(k, r)
      BY <1>3, <3>1 DEF CompleteReviewPublished
    <3>3. r.next_launch_at = job[k].next_launch_at
      BY <1>1, <3>1, CooldownAfter
    <3> HIDE DEF k, r
    <3> QED BY <1>2, <3>1, <3>2, <3>3
  <2> QED
    BY <1>3, <1>7, <2>2, <2>3, <2>4, <2>5, <2>6, <2>7, <2>8, <2>9 DEF AnyWorkerStep,
       WorkerStep, WorkerDies, ClassifierHasNoInvocation, ReviewFails, Concludes,
       LooksForDocument, Links, PublicationFails
<1> QED BY <1>3, <1>5, <1>6, <1>7, ActorsDoNotMix

\* The newest reservation keeps its cooldown while its hook is still launching.
THEOREM ReservationsKeepCooldown == PipelineSpec => NewestReservationKeepsCooldown
<1> DEFINE Kept == \A h \in Hooks :
              LET j == hook[h].job
              IN  /\ hook[h].pc = "reserved" /\ job[j].launch_epoch = h
                  /\ job[j].next_launch_at # "null" /\ job'[j].next_launch_at = "null"
                  => job'[j].state = "failed"
<1>1. PipelineInv /\ [PipelineNext]_vars => [Kept]_vars
  BY CooldownKept
<1> QED BY <1>1, EpochInvariant, PTL DEF PipelineSpec, NewestReservationKeepsCooldown
----------------------------------------------------------------------------
(* One document per reflection, when the publication lease outlives the    *)
(* rename.                                                                 *)

AtRename(w) == proc[w].pc \in {"staged", "linking"}
UnderLease(w) == HoldsReviewLease(job[proc[w].job], w, proc[w].epoch)

\* From its second renewal to the end of the rename a process holds the lease,
\* and when it links it is still true that it found nothing there.
RenameInv ==
    /\ \A w \in Owners : AtRename(w) => UnderLease(w)
    /\ \A w \in Owners : proc[w].pc = "linking" => docs[proc[w].job] = {}
    /\ \A j \in Jobs : docs[j] = {} \/ \E d : docs[j] = {d}

\* Nobody else, and not the clock, takes a lease from a process at its rename.
LEMMA LeaseUndisturbed ==
    ASSUME PipelineInv, punctual, [PipelineNext]_vars,
           NEW w \in Owners, AtRename(w), UnderLease(w), ~AnyWorkerStep(w)
    PROVE  HoldsReviewLease(job'[proc[w].job], w, proc[w].epoch)
<1> DEFINE k == proc[w].job
           r == job[k]
<1>1. k \in Jobs /\ job \in [Jobs -> Row] /\ r \in Row
  BY DEF PipelineInv, QueueInv, Shapes, ProcessOK, AtRename
<1>2. r.state = "running" /\ r.owner_id = w /\ r.lease_until = "future"
  BY DEF UnderLease, HoldsReviewLease, Live
<1>3. ~Waiting(r) /\ ~Abandoned(r)
  BY <1>2 DEF Waiting, Abandoned, Expired
<1>4. SUFFICES ASSUME job'[k] # r PROVE HoldsReviewLease(job'[k], w, proc[w].epoch)
  BY DEF UnderLease
<1>5. ASSUME NEW j \in Jobs, NEW s, Write(j, s) PROVE j = k /\ job[j] = r
  BY <1>1, <1>4, <1>5 DEF Write
<1>6. ~UNCHANGED job /\ \A j : ~Skip(j)
  BY <1>4 DEF Skip
<1>7. ASSUME NEW h \in Hooks, AnyHookStep(h) PROVE FALSE
  <2>1. ASSUME NEW j \in Jobs PROVE ~Complain(h, j)
    BY <1>2, <1>5, <1>6 DEF Complain, CreateReviewCandidate
  <2>2. ASSUME NEW j \in Jobs PROVE ~Reserve(h, j)
    BY <1>3, <1>5, <1>6 DEF Reserve, ReserveReviewLaunch, LaunchExhausted, Launchable
  <2>3. ~ReportLaunchFailure(h)
    <3> SUFFICES ASSUME ReportLaunchFailure(h) PROVE FALSE
      OBVIOUS
    <3>1. hook[h].job \in Jobs /\ RecordReviewLaunchFailure(hook[h].job, h)
      BY DEF ReportLaunchFailure, PipelineInv, Shapes, HookOK
    <3>2. LaunchRevocable(r, h)
      BY <1>5, <1>6, <3>1 DEF RecordReviewLaunchFailure
    <3> QED BY <1>2, <1>3, <3>2 DEF LaunchRevocable
  <2> QED
    BY <1>6, <1>7, <2>1, <2>2, <2>3 DEF AnyHookStep, HookStep, Prompt, NextPass,
       LaunchClassifier, Launch, LaunchFails, HookDies
<1>8. ASSUME NEW v \in Owners, AnyWorkerStep(v) PROVE FALSE
  <2>1. v # w /\ (proc[v].pc # "idle" => proc[v].job \in Jobs)
    BY <1>8 DEF PipelineInv, Shapes, ProcessOK
  <2>2. \A e : ~HoldsReviewLease(r, v, e) /\ ~HoldsClassification(r, v, e)
    BY <1>2, <2>1 DEF HoldsReviewLease, HoldsClassification
  <2>3. ~ClassificationClaimable(r) /\ ~ClassificationSpent(r) /\ ~Claimable(r) /\ ~ClaimSpent(r)
    BY <1>2, <1>3 DEF ClassificationClaimable, ClassificationSpent, Claimable, ClaimSpent
  <2> HIDE DEF r
  <2>4. ~ClassifierClaims(v) /\ ~ReviewerClaims(v)
    BY <1>5, <1>6, <2>1, <2>3 DEF ClassifierClaims, ReviewerClaims, ClaimLLMClassification,
       ClaimReviewJob
  <2>5. ~ClassifierResolves(v) /\ ~ClassifierFails(v)
    BY <1>5, <1>6, <2>1, <2>2 DEF ClassifierResolves, ClassifierFails, ResolveLLMAdmission,
       ReleaseLLMClassification
  <2>6. ~RecordFailure(v) /\ ~Declines(v) /\ ~CompletesPublication(v)
    BY <1>5, <1>6, <2>1, <2>2 DEF RecordFailure, Declines, CompletesPublication, FailReviewJob,
       CompleteReviewNoLesson, CompleteReviewPublished
  <2>7. ~Renews(v)
    BY <1>5, <1>6, <2>1, <2>2 DEF Renews, RenewReviewLease
  <2> QED
    BY <1>6, <1>8, <2>4, <2>5, <2>6, <2>7 DEF AnyWorkerStep, WorkerStep, WorkerDies,
       ClassifierHasNoInvocation, ReviewFails, Concludes, LooksForDocument, Links,
       PublicationFails
<1>9. ASSUME NEW j \in Jobs, Clock(j) PROVE HoldsReviewLease(job'[k], w, proc[w].epoch)
  <2>1. j = k
    BY <1>5, <1>9 DEF Clock, TimePasses
  <2>2. Renaming(w, k)
    BY DEF Renaming, AtRename, UnderLease, HoldsReviewLease
  <2>3. job'[k].lease_until = "future"
    BY <1>2, <1>9, <2>1, <2>2 DEF Clock
  <2>4. job'[k].state = r.state /\ job'[k].owner_id = r.owner_id
        /\ job'[k].lease_epoch = r.lease_epoch
    BY <1>1, <1>9, <2>1 DEF Clock, TimePasses, Write, Row
  <2> QED BY <2>3, <2>4 DEF UnderLease, HoldsReviewLease, Live
<1> QED BY <1>6, <1>7, <1>8, <1>9, ActorsDoNotMix

\* A process comes to its rename, and from there to link(), under its lease.
LEMMA EntersUnderLease ==
    ASSUME PipelineInv, RenameInv, NEW w \in Owners, AnyWorkerStep(w), AtRename(w)'
    PROVE  /\ UnderLease(w)'
           /\ proc'[w].pc = "linking" => docs'[proc'[w].job] = {}
<1> DEFINE k == proc[w].job
<1>1. /\ Renews(w) \/ LooksForDocument(w) \/ Links(w)
      /\ proc'[w].job = k /\ proc'[w].epoch = proc[w].epoch /\ Goto(w, proc'[w].pc)
  BY LateStages DEF PipelineInv, AtRename
<1>2. ASSUME NEW pc, Goto(w, pc) PROVE proc'[w].pc = pc
  BY <1>2 DEF Goto, PipelineInv, Shapes, Process
<1>3. CASE Renews(w)
  <2>1. HoldsReviewLease(job[k], w, proc[w].epoch)
    <3>1. ~Exit(w)
      BY DEF Exit, IdleProcess, PipelineInv, Shapes, AtRename
    <3> QED BY <1>3, <3>1 DEF Renews
  <2>2. k \in Jobs /\ RenewReviewLease(k, w, proc[w].epoch)
    BY <1>3 DEF Renews, PipelineInv, Shapes, ProcessOK
  <2>3. job'[k] = [job[k] EXCEPT !.lease_until = "future"]
    BY <2>1, <2>2 DEF RenewReviewLease, Write, PipelineInv, QueueInv
  <2>4. HoldsReviewLease(job'[k], w, proc[w].epoch)
    BY <2>1, <2>2, <2>3 DEF HoldsReviewLease, Live, PipelineInv, QueueInv, Row
  <2>5. proc'[w].pc # "linking"
    <3>1. Goto(w, IF proc[w].pc = "concluded" THEN "renewed" ELSE "staged")
      BY <1>3, <2>1 DEF Renews
    <3> QED BY <1>2, <3>1
  <2> QED BY <1>1, <2>4, <2>5 DEF UnderLease
<1>4. CASE LooksForDocument(w)
  <2>1. job' = job /\ docs' = docs /\ proc'[w].pc = "linking"
    BY <1>2, <1>4 DEF LooksForDocument, AtRename
  <2>2. proc[w].pc = "staged" /\ docs[k] = {}
    BY <1>2, <1>4, <2>1 DEF LooksForDocument
  <2>3. UnderLease(w)
    BY <2>2 DEF RenameInv, AtRename
  <2> QED BY <1>1, <2>1, <2>2, <2>3 DEF UnderLease
<1>5. ~Links(w)
  BY <1>2 DEF Links, AtRename
<1> QED BY <1>1, <1>3, <1>4, <1>5

LEMMA RenameInvKept ==
    ASSUME PipelineInv, punctual, RenameInv, [PipelineNext]_vars PROVE RenameInv'
<1>1. ASSUME NEW w \in Owners PROVE proc[w].pc = "linking" => proc[w].job \in Jobs
  BY DEF PipelineInv, Shapes, ProcessOK
\* Who links while w is at its rename is w.
<1>2. ASSUME NEW v \in Owners, LinksDocument(v), NEW w \in Owners, AtRename(w),
             proc[w].job = proc[v].job
      PROVE  v = w
  BY <1>2 DEF LinksDocument, RenameInv, AtRename, UnderLease, HoldsReviewLease
<1>3. UNCHANGED docs \/ \E w \in Owners : AnyWorkerStep(w) /\ LinksDocument(w)
  BY DocumentsGrow, ActorsDoNotMix
<1>4. ASSUME NEW w \in Owners, AtRename(w)'
      PROVE  /\ UnderLease(w)'
             /\ proc'[w].pc = "linking" => docs'[proc'[w].job] = {}
  <2>1. CASE AnyWorkerStep(w)
    BY <1>4, <2>1, EntersUnderLease
  <2>2. CASE proc'[w] = proc[w] /\ ~AnyWorkerStep(w)
    <3>1. AtRename(w) /\ UnderLease(w)
      BY <1>4, <2>2 DEF AtRename, RenameInv
    <3>2. UnderLease(w)'
      BY <2>2, <3>1, LeaseUndisturbed DEF UnderLease
    <3>3. ASSUME proc[w].pc = "linking" PROVE docs'[proc[w].job] = {}
      <4>1. docs[proc[w].job] = {} /\ proc[w].job \in Jobs
        BY <1>1, <3>3 DEF RenameInv
      <4>2. ASSUME NEW v \in Owners, AnyWorkerStep(v), LinksDocument(v)
            PROVE  docs'[proc[w].job] = docs[proc[w].job]
        BY <1>2, <2>2, <3>1, <4>1, <4>2 DEF LinksDocument, PipelineInv, Shapes
      <4> QED BY <1>3, <4>1, <4>2
    <3> QED BY <2>2, <3>2, <3>3
  <2> QED
    BY <1>4, <2>1, <2>2, OnlyItsOwnSteps DEF PipelineInv, AtRename, Holding, Reviewing, Publishing
<1>5. ASSUME NEW j \in Jobs PROVE docs'[j] = {} \/ \E d : docs'[j] = {d}
  <2>1. ASSUME NEW w \in Owners, LinksDocument(w) PROVE docs'[j] = {} \/ \E d : docs'[j] = {d}
    <3>1. docs[proc[w].job] = {} /\ proc[w].job \in Jobs
      BY <1>1, <2>1 DEF LinksDocument, RenameInv
    <3> QED BY <2>1, <3>1 DEF LinksDocument, RenameInv, PipelineInv, Shapes
  <2> QED BY <1>3, <2>1 DEF RenameInv
<1> QED BY <1>4, <1>5 DEF RenameInv, AtRename

\* Where the publication lease outlives the rename it covers (punctual), two reviewers of
\* one complaint never leave two documents behind.
THEOREM OneDocumentEach == PipelineSpec => []OneDocumentPerReflection
<1> DEFINE RInv == punctual => RenameInv
<1>1. PipelineInit => RInv
  BY DEF PipelineInit, IdleProcess, RenameInv, AtRename
<1>2. PipelineInv /\ RInv /\ [PipelineNext]_vars => RInv'
  <2>1. [PipelineNext]_vars => punctual' = punctual
    BY DEF PipelineNext, vars
  <2> QED BY <2>1, RenameInvKept
<1>3. RInv => OneDocumentPerReflection
  <2>1. ASSUME NEW S, S = {} \/ \E d : S = {d} PROVE Cardinality(S) <= 1
    <3>1. S = {} => Cardinality(S) = 0
      BY FS_EmptySet
    <3>2. ASSUME NEW d, S = {d} PROVE Cardinality(S) = 1
      BY <3>2, FS_Singleton
    <3> QED BY <2>1, <3>1, <3>2
  <2> QED BY <2>1 DEF RenameInv, OneDocumentPerReflection
<1> QED BY <1>1, <1>2, <1>3, EpochInvariant, PTL DEF PipelineSpec
----------------------------------------------------------------------------
(* What recovery lists. *)

\* The jobs of C that precede j.
Before(C, j) == {k \in C : k < j}

\* There are finitely many of them, and of two jobs the later has more.
LEMMA BeforeCounts ==
    ASSUME NEW C \in SUBSET Nat, NEW j \in C
    PROVE  /\ IsFiniteSet(Before(C, j)) /\ Cardinality(Before(C, j)) \in Nat
           /\ \A k \in C : k < j => Cardinality(Before(C, k)) < Cardinality(Before(C, j))
<1>1. ASSUME NEW i \in C
      PROVE  IsFiniteSet(Before(C, i)) /\ Cardinality(Before(C, i)) \in Nat
  <2>1. i \in Nat /\ \A k \in Before(C, i) : k \in Nat /\ k <= i
    BY DEF Before
  <2>2. IsFiniteSet(Before(C, i))
    BY <2>1, FS_BoundedSetOfNaturals
  <2> QED BY <2>2, FS_CardinalityType
<1>2. ASSUME NEW k \in C, k < j PROVE Cardinality(Before(C, k)) < Cardinality(Before(C, j))
  <2> DEFINE B == Before(C, k)
             D == B \cup {k}
  <2>1. IsFiniteSet(B) /\ Cardinality(B) \in Nat /\ Cardinality(Before(C, j)) \in Nat
    BY <1>1
  <2>2. k \notin B
    BY DEF Before
  <2>3. D \in SUBSET Before(C, j)
    <3>1. j \in Nat /\ k \in Nat /\ \A i \in B : i \in C /\ i \in Nat /\ i < k
      BY DEF Before
    <3>2. \A i \in B : i < j
      BY <1>2, <3>1
    <3> QED BY <1>2, <3>1, <3>2 DEF Before
  <2> HIDE DEF B
  <2>4. Cardinality(D) = Cardinality(B) + 1
    BY <2>1, <2>2, FS_AddElement
  <2>5. Cardinality(D) <= Cardinality(Before(C, j))
    BY <1>1, <2>3, FS_Subset
  <2> QED BY <2>1, <2>4, <2>5 DEF B
<1> QED BY <1>1, <1>2

\* A job of the candidates C that is not among the oldest of them has exactly
\* BatchLimit of those before it: counting what precedes each is a bijection
\* from the jobs before it to the numbers below their count.
LEMMA OldestPrecede ==
    ASSUME NEW C \in SUBSET Nat, NEW j \in C, j \notin Oldest(C)
    PROVE  Cardinality({k \in Oldest(C) : k < j}) = BatchLimit
<1> DEFINE Rank(k) == Cardinality(Before(C, k))
           S == Before(C, j)
           T == 0..(Rank(j) - 1)
           f == [k \in S |-> Rank(k)]
           S1 == {k \in Oldest(C) : k < j}
           T1 == 0..(BatchLimit - 1)
           g == [k \in S1 |-> Rank(k)]
<1>1. BatchLimit \in Nat \ {0}
  BY PipelineAssumption
<1>2. \A k \in C : k \in Oldest(C) <=> Rank(k) < BatchLimit
  BY DEF Oldest, Before
<1>3. \A k \in C : Rank(k) \in Nat /\ IsFiniteSet(Before(C, k))
  BY BeforeCounts
<1>4. \A i, k \in C : i < k => Rank(i) < Rank(k)
  BY BeforeCounts
<1>5. \A i, k \in C : Rank(i) = Rank(k) => i = k
  <2> SUFFICES ASSUME NEW i \in C, NEW k \in C, Rank(i) = Rank(k), i # k PROVE FALSE
    OBVIOUS
  <2>1. i < k \/ k < i
    OBVIOUS
  <2>2. Rank(i) < Rank(k) \/ Rank(k) < Rank(i)
    BY <1>4, <2>1
  <2>3. Rank(i) \in Nat /\ Rank(k) \in Nat
    BY <1>3
  <2> HIDE DEF Rank
  <2> QED BY <2>2, <2>3
<1>6. Rank(j) >= BatchLimit /\ Rank(j) \in Nat
  <2>1. ~(Rank(j) < BatchLimit) /\ Rank(j) \in Nat
    BY <1>2, <1>3
  <2> HIDE DEF Rank
  <2> QED BY <1>1, <2>1
<1>7. \A k \in S : k \in C /\ Rank(k) \in T
  <2>1. ASSUME NEW k \in S PROVE k \in C /\ Rank(k) \in Nat /\ Rank(k) < Rank(j)
    BY <1>3, <1>4, <2>1 DEF Before
  <2> HIDE DEF Rank, S
  <2> QED BY <1>6, <2>1
<1>8. IsFiniteSet(S) /\ IsFiniteSet(T) /\ Cardinality(S) = Cardinality(T)
  <2>1. IsFiniteSet(S) /\ Cardinality(S) = Rank(j)
    BY <1>3
  <2>2. 0 \in Int /\ Rank(j) - 1 \in Int
    BY <1>6
  <2>3. IsFiniteSet(T) /\ Cardinality(T) = IF 0 > Rank(j) - 1 THEN 0 ELSE (Rank(j) - 1) - 0 + 1
    BY <2>2, FS_Interval
  <2> HIDE DEF Rank, S, T
  <2> QED BY <1>6, <2>1, <2>3
<1>9. f \in Surjection(S, T)
  <2>1. f \in Injection(S, T)
    BY <1>5, <1>7 DEF Injection, IsInjective
  <2> HIDE DEF S, T, f
  <2> QED BY <1>8, <2>1, FS_Injection
<1>10. \A n \in T : \E k \in S : Rank(k) = n
  BY <1>9 DEF Surjection
<1>11. \A k \in S1 : k \in S /\ k \in C /\ Rank(k) \in T1
  <2>1. ASSUME NEW k \in S1 PROVE k \in S /\ k \in C /\ Rank(k) \in Nat /\ Rank(k) < BatchLimit
    BY <1>2, <1>3, <2>1 DEF Oldest, Before
  <2> HIDE DEF Rank, S, S1
  <2> QED BY <1>1, <2>1
<1>12. \A n \in T1 : \E k \in S1 : Rank(k) = n
  <2> SUFFICES ASSUME NEW n \in T1 PROVE \E k \in S1 : Rank(k) = n
    OBVIOUS
  <2>1. n \in T /\ n < BatchLimit
    BY <1>1, <1>6
  <2>2. PICK k \in S : Rank(k) = n
    BY <1>10, <2>1
  <2>3. k \in C /\ k < j /\ k \in Oldest(C)
    BY <1>2, <2>1, <2>2 DEF Before
  <2> QED BY <2>2, <2>3
<1>13. g \in Injection(S1, T1) /\ g \in Surjection(S1, T1)
  BY <1>5, <1>11, <1>12 DEF Injection, IsInjective, Surjection
<1>14. IsFiniteSet(T1) /\ Cardinality(T1) = BatchLimit
  <2>1. 0 \in Int /\ BatchLimit - 1 \in Int
    BY <1>1
  <2>2. IsFiniteSet(T1)
        /\ Cardinality(T1) = IF 0 > BatchLimit - 1 THEN 0 ELSE (BatchLimit - 1) - 0 + 1
    BY <2>1, FS_Interval
  <2> HIDE DEF T1
  <2> QED BY <1>1, <2>2
<1> HIDE DEF S1, T1, g
<1> QED BY <1>13, <1>14, FS_Injection DEF S1
\* A row the classifier never sees: waiting for its first review it has spent
\* no attempt, so it has one left.
Direct(r) ==
    /\ r.state # "llm_pending"
    /\ r.state = "pending" => r.attempt < MaxAttempts

DirectInv == \A j \in Jobs \ LLMJobs : Direct(job[j])

\* What each UPDATE but a classifier's leaves of the two columns.
LEMMA AttemptAfter ==
    ASSUME NEW r \in Row
    PROVE  /\ \A h : Reserved(r, h).state = r.state /\ Reserved(r, h).attempt = r.attempt
           /\ \A t \in Timer :
                 /\ [r EXCEPT !.lease_until = t].state = r.state
                 /\ [r EXCEPT !.lease_until = t].attempt = r.attempt
                 /\ [r EXCEPT !.next_attempt_at = t].state = r.state
                 /\ [r EXCEPT !.next_attempt_at = t].attempt = r.attempt
                 /\ [r EXCEPT !.next_launch_at = t].state = r.state
                 /\ [r EXCEPT !.next_launch_at = t].attempt = r.attempt
BY DEF Row, Reserved

\* Once inserted a row stays direct.
LEMMA RowStepDirect ==
    ASSUME NEW r, RowOK(r), Direct(r), r.state # "absent", NEW s, RowStep(r, s)
    PROVE  Direct(s)
<1>1. r \in Row
  BY DEF RowOK
<1>2. ASSUME s.state \notin {"pending", "llm_pending"} PROVE Direct(s)
  BY <1>2 DEF Direct
<1>3. ASSUME s.state = r.state, s.attempt = r.attempt PROVE Direct(s)
  BY <1>3 DEF Direct
<1>4. CASE HookRowStep(r, s)
  <2>1. CASE s = Exhausted(r)
    BY <1>1, <1>2, <2>1, StatesAfter
  <2>2. CASE \E h \in Hooks : s = Reserved(r, h)
    BY <1>1, <1>3, <2>2, AttemptAfter
  <2>3. CASE s = [r EXCEPT !.next_launch_at = "null"]
    BY <1>1, <1>3, <2>3, AttemptAfter DEF Timer
  <2> QED BY <1>4, <2>1, <2>2, <2>3 DEF HookRowStep
<1>5. ~ClassifierRowStep(r, s)
  BY DEF Direct, ClassifierRowStep, ClassificationClaimable, ClassificationSpent,
     HoldsClassification
<1>6. CASE ReviewerRowStep(r, s)
  <2>1. CASE s = [r EXCEPT !.lease_until = "future"]
    BY <1>1, <1>3, <2>1, AttemptAfter DEF Timer
  <2>2. ASSUME NEW d \in Documents, s = [Ended(r, "published") EXCEPT !.published_path = d]
        PROVE  s.state = "published"
    BY <1>1, <2>2 DEF Ended, Unleased, Row
  <2>3. CASE \/ \E w \in Owners : s = Claimed(r, w)
             \/ s \in {Ended(r, "failed"), Ended(r, "reviewed_no_lesson"), FailedAttempt(r)}
    BY <1>1, <1>2, <2>3, StatesAfter
  <2> QED BY <1>2, <1>6, <2>1, <2>2, <2>3 DEF ReviewerRowStep
<1>7. CASE ClockRowStep(r, s)
  BY <1>1, <1>3, <1>7, AttemptAfter DEF ClockRowStep, Timer
<1> QED BY <1>4, <1>5, <1>6, <1>7 DEF RowStep

\* A row is inserted by a complaint, and by nothing else.
LEMMA OnlyComplaintsInsert ==
    ASSUME PipelineInv, [PipelineNext]_vars, NEW j \in Jobs,
           job[j].state = "absent", job'[j] # job[j]
    PROVE  job'[j] = NewRow(IF j \in LLMJobs THEN "llm_pending" ELSE "pending")
<1> DEFINE r == job[j]
<1>1. job \in [Jobs -> Row] /\ r \in Row /\ RowConsistent(r) /\ Blank(r)
  BY DEF PipelineInv, QueueInv
<1>2. r.lease_until = "null" /\ r.next_attempt_at = "null" /\ r.next_launch_at = "null"
  BY <1>1, NullAssumption DEF RowConsistent, Blank, Row
<1>3. ~Waiting(r) /\ ~Abandoned(r) /\ \A h : ~LaunchRevocable(r, h)
  BY DEF Waiting, Abandoned, LaunchRevocable
<1>4. ASSUME NEW k \in Jobs, NEW s, Write(k, s) PROVE k = j /\ job[k] = r
  BY <1>1, <1>4 DEF Write
<1>5. ~UNCHANGED job /\ \A k : ~Skip(k)
  BY DEF Skip
<1>6. ASSUME NEW k \in Jobs, Clock(k) PROVE FALSE
  BY <1>2, <1>4, <1>6 DEF Clock, TimePasses, Live
<1>7. ASSUME NEW w \in Owners, AnyWorkerStep(w) PROVE FALSE
  <2>1. proc[w].pc # "idle" => proc[w].job \in Jobs
    BY DEF PipelineInv, Shapes, ProcessOK
  <2>2. \A e : ~HoldsReviewLease(r, w, e) /\ ~HoldsClassification(r, w, e)
    BY DEF HoldsReviewLease, HoldsClassification
  <2>3. ~ClassificationClaimable(r) /\ ~ClassificationSpent(r) /\ ~Claimable(r) /\ ~ClaimSpent(r)
    BY <1>3 DEF ClassificationClaimable, ClassificationSpent, Claimable, ClaimSpent
  <2> HIDE DEF r
  <2>4. ~ClassifierClaims(w) /\ ~ReviewerClaims(w)
    BY <1>4, <1>5, <2>1, <2>3 DEF ClassifierClaims, ReviewerClaims, ClaimLLMClassification,
       ClaimReviewJob
  <2>5. ~ClassifierResolves(w) /\ ~ClassifierFails(w)
    BY <1>4, <1>5, <2>1, <2>2 DEF ClassifierResolves, ClassifierFails, ResolveLLMAdmission,
       ReleaseLLMClassification
  <2>6. ~RecordFailure(w) /\ ~Declines(w) /\ ~CompletesPublication(w) /\ ~Renews(w)
    BY <1>4, <1>5, <2>1, <2>2 DEF RecordFailure, Declines, CompletesPublication, Renews,
       FailReviewJob, CompleteReviewNoLesson, CompleteReviewPublished, RenewReviewLease
  <2> QED
    BY <1>5, <1>7, <2>4, <2>5, <2>6 DEF AnyWorkerStep, WorkerStep, WorkerDies,
       ClassifierHasNoInvocation, ReviewFails, Concludes, LooksForDocument, Links,
       PublicationFails
<1>8. ASSUME NEW h \in Hooks, AnyHookStep(h)
      PROVE  job'[j] = NewRow(IF j \in LLMJobs THEN "llm_pending" ELSE "pending")
  <2>1. ASSUME NEW k \in Jobs, Complain(h, k)
        PROVE  job'[j] = NewRow(IF j \in LLMJobs THEN "llm_pending" ELSE "pending")
    <3>1. CreateReviewCandidate(k, IF k \in LLMJobs THEN "llm_pending" ELSE "pending")
      BY <2>1 DEF Complain
    <3>2. Write(k, NewRow(IF k \in LLMJobs THEN "llm_pending" ELSE "pending"))
      BY <1>5, <3>1 DEF CreateReviewCandidate
    <3>3. k = j
      BY <1>4, <3>2
    <3> QED BY <1>1, <3>2, <3>3 DEF Write
  <2>2. ASSUME NEW k \in Jobs PROVE ~Reserve(h, k)
    BY <1>3, <1>4, <1>5 DEF Reserve, ReserveReviewLaunch, LaunchExhausted, Launchable
  <2>3. ~ReportLaunchFailure(h)
    <3> SUFFICES ASSUME ReportLaunchFailure(h) PROVE FALSE
      OBVIOUS
    <3>1. hook[h].job \in Jobs /\ RecordReviewLaunchFailure(hook[h].job, h)
      BY DEF ReportLaunchFailure, PipelineInv, Shapes, HookOK
    <3> QED BY <1>3, <1>4, <1>5, <3>1 DEF RecordReviewLaunchFailure
  <2> QED
    BY <1>5, <1>8, <2>1, <2>2, <2>3 DEF AnyHookStep, HookStep, Prompt, NextPass,
       LaunchClassifier, Launch, LaunchFails, HookDies
<1> QED BY <1>5, <1>6, <1>7, <1>8, ActorsDoNotMix

LEMMA DirectInvKept ==
    ASSUME PipelineInv, DirectInv, [PipelineNext]_vars PROVE DirectInv'
<1> SUFFICES ASSUME NEW j \in Jobs \ LLMJobs, job'[j] # job[j] PROVE Direct(job'[j])
  BY DEF DirectInv, Direct
<1>1. CASE job[j].state = "absent"
  <2>1. job'[j] = NewRow("pending")
    BY <1>1, OnlyComplaintsInsert
  <2> QED BY <2>1, AttemptsAssumption DEF NewRow, Direct
<1>2. CASE job[j].state # "absent"
  <2>1. [Next]_job
    BY PipelineStepIsQueueStep DEF PipelineInv
  <2>2. ASSUME NEW k \in Jobs, NEW s, job' = [job EXCEPT ![k] = s], RowStep(job[k], s)
        PROVE  Direct(job'[j])
    <3>1. k = j /\ job'[j] = s
      BY <2>2 DEF PipelineInv, QueueInv
    <3>2. RowOK(job[j]) /\ Direct(job[j])
      BY DEF PipelineInv, QueueInv, RowOK, DirectInv
    <3> QED BY <1>2, <2>2, <3>1, <3>2, RowStepDirect
  <2> QED BY <2>1, <2>2, NextIsRowStep
<1> QED BY <1>1, <1>2

\* A review that waits for no timestamp is in the listing of the next prompt and can be
\* started from there, or BatchLimit older ones are that can.
THEOREM OpenReviewsAreListed == PipelineSpec => []EveryOpenReviewIsListed
<1>1. PipelineInit => DirectInv
  <2>1. Direct(NewRow("absent"))
    BY DEF NewRow, Direct
  <2> QED BY <2>1 DEF PipelineInit, Init, DirectInv
<1>2. PipelineInv /\ DirectInv /\ [PipelineNext]_vars => DirectInv'
  BY DirectInvKept
<1>3. PipelineInv /\ DirectInv => EveryOpenReviewIsListed
  <2> DEFINE C == {k \in Jobs :
                     /\ Due(job[k].next_launch_at)
                     /\ \/ Waiting(job[k]) /\ job[k].attempt < MaxAttempts
                        \/ Abandoned(job[k])}
  <2> DEFINE Startable(k) == Launchable(job[k]) \/ LaunchExhausted(job[k])
  <2> SUFFICES ASSUME PipelineInv, DirectInv, NEW j \in Jobs \ LLMJobs, Open(j),
                      NothingAwaited(j)
               PROVE  \/ j \in DueReviews /\ Startable(j)
                      \/ Cardinality({k \in DueReviews : k < j /\ Startable(k)}) = BatchLimit
    BY DEF EveryOpenReviewIsListed
  <2>1. C \in SUBSET Nat /\ DueReviews = Oldest(C)
    BY PipelineAssumption DEF DueReviews
  <2>3. \A k \in C : Startable(k)
    <3> SUFFICES ASSUME NEW k \in C PROVE Startable(k)
      OBVIOUS
    <3>1. job[k].attempt \in Nat /\ MaxAttempts \in Nat
      BY AttemptsAssumption DEF PipelineInv, QueueInv, TypeOK, Row
    <3>2. CASE job[k].attempt < MaxAttempts
      BY <3>2 DEF Launchable
    <3>3. CASE job[k].attempt >= MaxAttempts
      BY <3>1, <3>3 DEF LaunchExhausted
    <3> QED BY <3>1, <3>2, <3>3
  <2>2. j \in C
    <3> DEFINE r == job[j]
    <3>1. r \in Row /\ RowConsistent(r) /\ Direct(r)
      BY DEF PipelineInv, QueueInv, DirectInv
    <3>2. /\ r.state \in {"pending", "running", "retryable"}
          /\ r.lease_until # "future" /\ Due(r.next_attempt_at) /\ Due(r.next_launch_at)
      BY DEF Open, NothingAwaited, Live
    <3>3. CASE r.state \in {"pending", "retryable"}
      <4>1. r.attempt < MaxAttempts
        BY <3>1, <3>3 DEF RowConsistent, Direct
      <4> QED BY <3>2, <3>3, <4>1 DEF Waiting
    <3>4. CASE r.state = "running"
      <4>1. r.lease_until = "past"
        BY <3>1, <3>2, <3>4 DEF RowConsistent, Row, Timer
      <4> QED BY <3>2, <3>4, <4>1 DEF Abandoned, Expired
    <3> QED BY <3>2, <3>3, <3>4
  <2>4. Startable(j)
    BY <2>2, <2>3
  <2> HIDE DEF C, Startable
  <2>5. CASE j \notin DueReviews
    <3>1. DueReviews \subseteq C
      BY <2>1 DEF Oldest
    <3>2. {k \in DueReviews : k < j /\ Startable(k)} = {k \in DueReviews : k < j}
      BY <2>3, <3>1
    <3> QED BY <2>1, <2>2, <2>5, <3>2, OldestPrecede
  <2> QED BY <2>4, <2>5
<1> QED BY <1>1, <1>2, <1>3, EpochInvariant, PTL DEF PipelineSpec
=============================================================================
