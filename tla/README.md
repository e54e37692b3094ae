# Verification of agent-feedback-loop

TLA+ models of agent-feedback-loop, checked with TLC on small instances and,
where it matters most, proved with TLAPS for every value of the constants. File
names below are those of the repository, `control-store` standing for
`src/control-store.mjs` and so on; `file:line` is a line of it.

Check one run with `tlc -config <Run>.cfg <MCModule>.tla`, one proof module with
`tlapm <Module>.tla`. PROJECT.json lists the runs, the mutants of the code each
property rejects, the source lines behind every definition, the hazards and the
theorems.

## 1. The system

A prompt hook runs, as a process of its own, at every prompt the user types into
a host CLI. If the prompt complains, the hook stores it and starts a *detached*
process that asks a model what went wrong and publishes the answer as a lesson,
a Markdown document, for later prompts. There is no daemon and no scheduler:
whatever is left undone is picked up by the hook of some later prompt. All
shared state is one SQLite file, written in `BEGIN IMMEDIATE` transactions, a
directory of immutable documents and a block in the project's rules file. A
second, independent part, the convergence guard, is a set of commands that
decide whether repeated fix-and-review rounds on one boundary may go on.

| Component (source) | State | Operations | Hard behaviour | Correct when |
|---|---|---|---|---|
| Review queue (`control-store`: `reviewer_jobs`) | one row per complaint: state, attempt, owner, lease epoch, lease, retry and launch times | create, reserve, launch failure, claim, renew, complete, fail; classification claim, release, resolve | callers with old leases; two kinds of claim on one counter | a verdict is entered by the holder of the newest epoch only, stays, and work is given up only when its attempts are spent |
| Prompt hook and recovery (`cli`, `reviewer-launcher`) | none of its own; reservations in the row, emission marks | capture, reserve, spawn, report a failed spawn, two recovery passes; read the block, select, answer, mark | hooks interleave and die between any two of these | nothing is lost that a later prompt could still start or show |
| Detached classifier (`llm-classifier`) | lease in the row | claim, ask, resolve or release | unreserved launches, late answers, death | classification ends |
| Detached reviewer (`reviewer-runner`) | lease in the row | claim, ask, decline, escalate, publish, fail | a model call outlives its lease; death between file and row; history read before the call, used after it | late reviewers change nothing |
| Reflection publication (`reflection-document`) | `.agent/reflections/*.md` | identity scan, `link()`, adoption | scan and link are two steps; crash after the link | recorded documents exist, one per complaint |
| Escalation (`reviewer-escalate`, `control-store`) | ring of declines in `store_meta`, counts from `reviewer_jobs` | record, count, synthesise | ring eviction, two reviewers of one family | a family that keeps recurring gets a lesson, and only such a family |
| Rules block and selection (`rules-writer`, `update-rules-tier`, `lesson-layers`, `selector`) | managed block, `reflection_emissions` | project, rewrite; read, expand, select, mark | several writers of one file; budgets that drop sections twice | no lesson vanishes between the two channels |
| Convergence store (`convergence-store`) | tasks, loops, grants, an event log | review, evidence, decision, checkpoint, generation, probe, grant, resolve | status machine driven by several processes; leases; expiry | no generation is opened without a pass or a live grant |
| Convergence policy (`convergence-policy`) | none | transition table, Breaker decision | order of the triggers, boundary counts | a pass is earned |
| Controller and probe (`convergence-controller`, `-probe-runner`, `-probe-launcher`) | lease in the loop row | evaluate, record, launch, authorize; claim, ask, complete or fail | decisions on rows read before; advice that comes late | what is decided is decided for the loop as it is |
| Adapters, identity, CLI (`convergence-adapters`, `-sdd-adapter`, `-identity`, `-cli`) | grant files | record-review, checkpoint, authorize-fix, consume-grant, resolve | crash between row and file; repeated calls | calls are idempotent |
| Probe context (`convergence-probe-context`, `-result`) | encrypted context files | put, read, remove, prune | three parties remove one kind of file | a probe finds its context |
| Guard migration (`convergence-migration`) | legacy state file, two locks, snapshot, authority events | import, shadow compare, cutover, rollback | crash between file and database; another program writes the file | one authority at a time, and a way back |
| Execution guard (`execution-monitor`, `execution-hook`, `direction-review`, `design-permit`) | one record per session | count a call, record a verdict, reset | its hook dispatch is commented out in `cli`; only the reset is live | - |
| Capture (`capture`, `feedback-signal`, `language`) | session and event rows | recognise, redact, store | fail-open | a complaint yields at most one job |
| Blob store (`crypto-store`) | key file, encrypted blobs | create key, put, get | two processes create the key | one key |
| Reviewer provider (`reviewer-provider`, `-result`, `-result-file`, `-adapter`, `codex-host`) | none | run a CLI, validate its output | timeouts, output limits | bad output is a failure, never an answer |
| Reports, archive, installation, export, plugin, scripts | files | read, move, copy | sequential | - |

Interactions: hooks call the queue and spawn reviewers and classifiers; these
call the queue, write the directory, the declines and the rules block; the hook
of the next prompt reads block and directory. The guard's commands call the
controller, the controller the policy and the convergence store; it spawns
probes, which call the store back. The migration commands decide which guard's
commands may run. Nothing but leases, epochs, unique event uids and, for the
migration, two lock directories keeps all these processes apart.

## 2. Modules

| Module | Extends | What it models |
|---|---|---|
| `WorkLedger` | | abstract specification: what the queue promises about a piece of work, with numbered tokens instead of rows, timers and processes |
| `ReviewQueue` | | the `reviewer_jobs` table; every operation on it as one atomic action; callers are arbitrary |
| `ReviewPipeline` | `ReviewQueue` | the processes around the queue: hooks, classifiers, reviewers, the reflections directory, deaths and failed spawns |
| `FamilyReviews` | `WorkLedger` | what verdicts do to the family of a complaint: declines, ring, escalation |
| `LessonDelivery` | | how a published lesson reaches a prompt: rules block, selection, emission marks |
| `GenerationLedger` | | abstract specification: generations of a loop are opened one at a time, freely or by a permit that is used at most once |
| `ConvergenceLoop` | | the convergence store: one task, its loops and continuation grants; callers are arbitrary |
| `ConvergencePolicy`, `BreakerRequests` | | the Breaker as a function of the request; requests put to it one at a time |
| `GuardCommands` | `ConvergenceLoop`, instance of `ConvergencePolicy` | the guard's commands, the controller, the probe's process, context and grant files |
| `GuardAuthority` | | which of two guards a repository obeys: import, parity, cutover, rollback |

`ReviewQueueProofs`, `ReviewPipelineProofs`, `ConvergenceLoopProofs`,
`ConvergencePolicyProofs`, `GuardCommandsProofs`, `GuardAuthorityProofs`,
`LessonDeliveryProofs` and `FamilyReviewsProofs` hold the theorems; `MCReviewPipeline`, `MCFamilyReviews`,
`MCLessonDelivery`, `MCConvergenceLoop`, `MCGuardCommands` and `MCGuardAuthority`
the instances for TLC.

Three refinements connect them. `ReviewQueue` implements `WorkLedger`, so
`FamilyReviews` can be written over the ledger and leave timers and epochs out.
`ConvergenceLoop` implements `GenerationLedger`. `GuardCommands` implements
`ConvergenceLoop`: what holds of the store for arbitrary callers holds for the
commands.

### ReviewQueue

`job[j]` is the row of complaint `j`. Each operation of the store is an operator
of the same name: it tests the WHERE clause of the code's UPDATE (`Claimable`,
`HoldsReviewLease`, `LaunchRevocable`, ...) and writes the row the SET clause
describes (`Claimed`, `Ended`, `FailedAttempt`, ...); when no row matches it
changes nothing. An operation is one transaction, hence one step. `Next` lets any
owner present any epoch and any hook any reservation: a process that woke up
after its lease was taken over is such a caller, so nothing is assumed about who
calls.

Abstractions. A timestamp column is compared with the clock and with nothing
else, so it is `null`, `future` or `past`, and `TimePasses` turns one future
column of a row into a past one; this allows every order in which timers can
elapse, more than the configured delays do. `launch_epoch` is compared for
equality only and stands for the hook that made the newest reservation. The code
reads the clock before `BEGIN IMMEDIATE`, so an operation may use a time as old
as the busy timeout; the epoch in every WHERE clause orders the writes all the
same, and a lease expiring a little later than it could is one of the modelled
orders. `review_job_events` is not in this module: what reads it (the permanent
counts) is in `FamilyReviews`.

### WorkLedger

Work is entered once, for triage (the classifier) or for review; a token is
granted, at most MaxAttempts times, each replacing the last; only while a token
is out can a verdict be entered; work is given up only with the last token
granted; verdicts stay. `ReviewQueue` implements it with token = lease epoch, out
= the row has an owner (`ImplementsLedger`). Six operations of the code can fail a
job and two kinds of claim share one counter, which makes the refinement worth
stating.

### ReviewPipeline

`proc[w]` is the detached process with owner id `w`, `hook[h]` a prompt hook,
`docs[j]` the files that carry the reflection id of `j`. A step is one access to
something shared: a transaction, a scan of the directory, a `link()`, a spawn.
The reviewer's program counter follows `runReviewJob` and
`publishReflectionDocument`: `reviewing` (model call) - `concluded` - renewal -
`renewed` - identity scan - `staging` (temporary file) - second renewal -
`staged` - scan - `linking` - `filed` - completion. An unexpected answer leads to
`failing`, whose failure is recorded by a step of its own, since the process may
die in between. `HookDies` and `WorkerDies` kill a process anywhere;
`LaunchFails` is a spawn that fails; all of these count against `MaxFaults`.
`Title[d]` is the part of a document's file name its text decides: `link()`
refuses a taken *name*, not a second document of the same complaint.

`punctual` says whether the publication lease outlives the rename it covers.
Behaviours of both kinds are explored; under `punctual`, which is what the code's
second renewal relies on, `OneDocumentPerReflection` is asked also for documents
of different names.

### FamilyReviews

Complaints are filed under a family of problems, as a lesson or as declined for a
reason. `escalateDeclinedFamily` overrules the model: a family declined
`Threshold` times, or again for a reason that was already used
(`RepeatLimit`), gets a lesson the code writes. `ring` is the JSON list in
`store_meta`, shared by all families and evicting its oldest record (`Evicted`);
`Declines`, `ReasonDeclines` and `HasLesson` are the queries on `reviewer_jobs`,
which forget nothing. A reviewer reads the ring before its model call
(`BuildReviewContext`, `seen`), the counts after it (`Answers`), and writes later
(`CompleteReviewNoLesson`, `CompleteReviewPublished`), while other reviewers do
the same. Who may write is the ledger's question: `Holds(w)` is the newest token,
still out. Time is counted in days, for the escalation window only.

### LessonDelivery

Two channels show a lesson. The *block*: `Project` computes from the store which
families qualify, merges those whose newest lessons read alike, keeps the
sections the file has room for and an index line for every group; `Truncate` and
`Fill` are the two halves of `writeFile`, which is not atomic. The *documents*:
a hook notes what is published and what this context has had (`Begin`), reads the
block and expands the sections the prompt touches (`ReadProjectRulesBlock`,
`Composed` drops sections that do not fit), selects (`SelectReflections`),
answers (`Respond`), and only then marks what it showed, row by row
(`MarkEmitted`). Hooks and writers are killed anywhere (`Leave`, `WriterKilled`).
What a lexical score decides is a choice; a section's length is one cost, the
same for all. `delivered` is a history variable: what responses the host
received held. The selector tells lessons apart by family id, the store by
family key, hence `Families`, `Keys`, `KeyOf`, and `keyed`: a lesson that names a
family of the catalog is stored under no key (`reviewer-runner:505`).

### ConvergenceLoop

`task` is the row of the task, `loop[f]` that of the loop with fingerprint `f`
(`absent` before the insert), `grant[g]` that of grant `g`. Each operation of
`convergence-store` that changes one of these rows is an action of the same name,
one transaction and hence one step; a call that throws is no step. The status
machine is the table of `convergence-policy` (`Edges`, `ValidTransition`), asked
where the code asks it: not by reviews, nor for a grant's loop when the contract
changes, nor for a retried probe.

Abstractions. Timestamps are as in `ReviewQueue`. The two revisions, the
importance and its authority of a task are compared together and are one
`revision`. A snapshot or binding the caller passes in must equal the row's own
columns or the call throws, so the model takes the calls that match. A repeated
`event_uid` is answered from the event log and changes nothing; grant ids are used
once. Failure counts are compared with two only, so the count stops there. Which
decision the policy reaches is open (`RecordConvergenceDecision` takes any the
table allows). Not in it: aliases, `direction_generation`, result digests, the
`version` counter and the events themselves; `GuardCommands` has those a command
looks up.

### GenerationLedger

A loop enters with some generation; each later one is opened freely or by spending
the one permit that is out, written for the generation before it. A new permit
withdraws the old one, a changed contract all of them; spent and withdrawn permits
stay so. `ConvergenceLoop` implements it with permit = grant row, out = `active`
(`ImplementsLedger`). That "active" is enough is the point: nothing in the ledger
knows of statuses, expiry or `active_grant_id`, so the store has to keep both
tables in step for each of its steps to be one of the ledger's.

### ConvergencePolicy, BreakerRequests

`evaluateConvergence` is a pure function; `Request` is a record of what its eleven
triggers tell apart, each trigger an operator (`FailureTrigger`,
`DirectionTrigger`, `ExpansionTrigger`, `BudgetTrigger`, ...) that answers or
hands on to the next, `EvaluateConvergence` the whole with the final clamp for
unverified evidence. A hypothesis, an acceptance or a fingerprint is present or
not. `BreakerRequests` puts one request at a time and states what is promised of
every answer, some of it by comparing the answer with that to a neighbouring
request.

### GuardCommands

`agent[a]` is a process running one of the guard's commands; its `pc` stands
between two accesses to something shared, and its record holds what it has read
so far. `StoreReview`, `Evaluate`, `PutContext`, `RecordHardDecision`,
`RequestProbe`, `DiscardContext`, `RemoveContext` are record-review;
`BeginLocalFix`, `AuthorizeContinuation`, `ResumeAfterProbe`,
`IssueAuthorizedContinuation`, `WriteArtifact` authorize-fix, entered at
`BeginArchitectureFix` after a checkpoint; `OpenArtifact`, `ConsumeGrant`,
`Neutralize` consume-grant. `Crash` ends any of them anywhere. `runner[o]` is the
detached probe: claim, context, model call, completion or failure, clean-up,
death. The store's part of every step is an action of `ConvergenceLoop`, the
decision is `ConvergencePolicy`'s.

Abstractions. One loop of one task of fixed contract. Digests are the facts they
are taken of: a review names its basis and its evidence, a grant id is its
action, generation, basis and evidence, a decision uid the snapshot it was taken
on. `log` is what the commands look up in `convergence_events`. Of a probe's
actions simplify and rollback are left out: their grants differ from the local
fix's in name only and are issued from `reflection_resolved` alone. The two reads
inside `issueAuthorizedContinuation` and the store's transaction after them are
one step. The store compares the generation, the basis and the revisions that were
read and refuses others; the status it does not compare, it makes its own
transition from the one it finds. The exploration of an important task and the
audit branch are reached by no command and are in `ConvergencePolicy` only.

A context file outlives the command that wrote it, and every command that succeeds
prunes: it reads which contexts a probe is bound to, lists the directory, and
removes one after the other what is over a day old and was not bound
(`ListOrphan`, `PruneOrphan`). Of commands that have put a file and not yet
reserved their probe it knows nothing, and a file that is put again keeps its age
(`PutContext`). The model leaves the age open: any file may turn out to be old,
and `orphans` are those some prune has found old and unbound and may remove at any
later time. A file made anew is young, but a prune that has looked at the old one
may still be about to remove the name, so both are allowed. Reading what is bound
and looking at a file are one step: what was not bound, and is when it is looked
at, was reserved in between, which is the order where the look comes first.

Two properties speak of the review's own generation and review:
`DirectionIsAnswered` leaves out what a command that began in one generation
issues in the next, where nobody has yet judged the loop, and `ProbeContextKept`
leaves out the context of a probe whose review another one has followed, since
that probe can only fail. It also leaves out a probe reserved after a prune has
taken its file for an orphan (`log.orphaned`): see section 5.

### GuardAuthority

`op[o]` is a migration command, with the plan it read from the file; `lock` the
two lock directories, `snapshot` the cutover snapshot (`torn` between its
exclusive creation and its `chmod`), `log` the cutover and rollback events,
`compared` the shadow events. A step is one `mkdir`, one file operation or one
transaction: `LockAuthority`, `LockLegacy`, `VerifySource`, `WriteSnapshot`,
`SealSnapshot`, `RecheckSource`, `RecordGuardCutover`; `BeginRollback` (the
authority is read before the locks), `CompareSnapshot`, `RestoreFile`,
`RecheckRestored`, `RecordGuardRollback`. `Crash` leaves the locks behind as
`orphan`, since nothing in the code removes them. An import is one step although
it holds no lock between reading the file again and its transaction
(`convergence-migration:696`). The legacy guard is another
program, external to the repository; all that is assumed is that it writes its
file under its own lock (`LegacyLocks`, `LegacyWrites`). `Preflight` and
`KernelWrites` stand for any command of this guard.

## 3. Runs

| Run | Question | Instance | Distinct states |
|---|---|---|---|
| ReviewFencing | a late reviewer changes nothing, an epoch names one process, a recorded document exists, one document per complaint when the lease outlives the rename, recovery lists what it must | two reviewers, one hook, three texts, two under one name, two faults | 2 834 104 |
| ReviewClassification | columns of a row agree; verdicts stay; a live lease excludes; classifiers and reviewers share one counter; the ledger is implemented; a late report of a failed launch leaves a newer reservation alone | one complaint for the classifier, two processes, two hooks, one fault | 867 009 |
| ReviewRecovery | a review settles, a classification advances, though processes die | two complaints, one of a host without a classifier invocation, batch of one | 186 379 |
| FamilyReviews | a lesson the code writes is earned; no excuse, the same or a fresh one, is accepted without end | four complaints, two reviewers, two families, three reasons, one of which blames nobody, a ring of one, two days | 432 557 |
| LessonDelivery | what is withheld as delivered was delivered; every group of families of the block is named by every prompt that reads it | three documents of two families, two hooks, one writer, room for one section in the file and a part of it in the prompt | 724 819 |
| ConvergenceLoop | loops and grants agree, generations are opened once, the failure budget holds, probe columns agree, a live probe excludes, the ledger is implemented; beside it every request to the Breaker | one loop, two grants, owners, revisions, bases and reviews' evidence; two generations, four claims | 1 719 102 |
| GuardCommands | a probe reserved before a prune took its file for an orphan keeps its context, and its advice is used for the review it saw; a direction that was asked for is not worked around; log and rows agree | two agents, one probe process, two reviews with three pairs of verdicts, one checkpoint, grant file and context text | 1 678 638 |
| GuardAuthority | recorded transitions are exact, the way back stays open | two operators, three contents of the legacy file, one of them with an unspent receipt, two transitions | 3 812 724 |
| LateAdmission, TerminalReopened, StaleLocalFix, StaleRollback | see section 5 | a smaller instance of the same module | |

Bounds. *Queue and pipeline*: three attempts is the code's constant and is not
reduced. Two processes are the smallest number that lets one be late while the
other works, and three attempts let the row change hands twice. Of three texts,
two under one name tell adoption from collision and the third escapes `link()`.
Two faults allow a death and a failed spawn, or two deaths. One row is enough for
safety because no operation reads two rows except the listings, for which
ReviewRecovery has two complaints and a batch of one. There the complaint that may
be stuck is a classification; that a review which is never started again takes up
no place of a batch is left to the proof of `EveryOpenReviewIsListed`.

*Families*: the code's threshold is three, its ring 256 records, its window
fourteen days; the instance has a threshold of two, a ring of one and a window
that ends with the day, so that the threshold is crossed, the ring evicts and the
window closes within four complaints. With a ring smaller than the threshold the
first disjunct of `OftenDeclined` cannot be what escalates; the proof covers it.
`Within` (MCFamilyReviews) opens no more complaints than there are reviewers, and
lets one be claimed twice only while others are still to come and within a day.

*Delivery*: one document of each pair is a family's newer lesson, and the other
family's lesson reads like the older one, so that a merged section splits again.
Room for one section in the file and for one section and one index line in the
prompt makes both budgets bite. With three documents only one prompt runs at a
time (`Within`); two at a time are explored with two.

*Convergence store*: operations touch one loop, except a changed contract and the
count of loops left. TLC has one loop; that a changed contract lets go of the
right loops when there are several rests on the proofs. Two grants let one
supersede or outlive the other; two pieces of evidence let a loop fail twice,
which is all the store counts; two generations let each of two grants open one.
Four claims (`MaxClaims`) are the code's three attempts and the one a renewed
request makes beyond them. Once a probe has been asked for, one grant, one
generation and one basis are enough (`Within` of MCConvergenceLoop): probes read
none of them. The Breaker keeps nothing between two requests, so each of
`ToldApart`, with up to three failures, is put to it from the initial state; the
proofs lift the bound.

*Guard commands*: two agents, since every hazard is one command overtaking
another; two reviews, since two failures are the budget; one generation can be
opened, and `NameableGrants` leaves out grants that could not be spent then (it
keeps those a command that was overtaken names: the evidence of a continuation may
be that of an earlier review). The
histories are two failures, a failure and a review that does not count, a
directional failure and one that does not count; a directional failure as the
second of two asks for nothing a second failure does not. Context files
grow old, and are pruned, where record-review, checkpoint, resolve and the probe
are alone (`FilesAgeApart`): grants and grant files have no part in what becomes of
a context.

*Authority*: `v1` and `v2` have no loop in common, `v3` has both and an unspent
receipt: imports that collide and a cutover that must be refused. A parity set
that does not match and two fields let a comparison be incomplete or fail. Two
transitions are a cutover and its rollback; more repeat them, and the proofs have
no bound.

Rows, processes, grants, owners and texts are compared by equality only, so
symmetry in them is sound; ReviewRecovery, which checks liveness, uses none.

Fairness (`FairSpec` of ReviewPipeline): each hook keeps taking steps (the user
keeps prompting: without prompts nothing is promised), each process that is not
killed goes on (the runner kills a model call that takes too long, so it
returns), each timestamp is passed. No fairness on kills, failed spawns or on
which answer a model gives. The guard has no scheduler either, and nothing of its
code retries a command, so no liveness is stated there.

Deadlock is checked everywhere except in FamilyReviews (all complaints settled
and the last day reached), GuardAuthority and StaleRollback (locks orphaned by a
crash stop every migration command, and the legacy guard with them).

## 4. Proofs

`ReviewQueueProofs`, for any jobs, owners, hooks and documents and any
`MaxAttempts > 2` (`AttemptsAssumption`: the retry table has two delays;
`NullAssumption`: NULL is not a value). The invariant `QueueInv` is the type of
the table and `RowConsistent` of every row, which ties attempt to epoch and owner
to lease: without `attempt = lease_epoch` the ledger's last token could not be
shown to be granted, and without "a retryable row has an attempt left" a claim
could exceed the bound. The argument is about one row: `RowStep(r, s)` says that
some operation of some caller may leave `s` in place of `r`, `NextIsRowStep`
reduces `Next` to it. Theorems: `TypeCorrect`, `RowsAlwaysConsistent`,
`VerdictsAreFinal`, `LeasesExclude`, `QueueImplementsLedger`.

`ConvergenceLoopProofs`, for any loops, grants, owners, revisions, bases and
evidence and any bounds (`LoopAssumption`: naturals, and NULL is not a value). The
invariant `LoopInv` is the types, `RowOK` of every row, `GrantsMatchLoops` and
`SpentGrantsDiffer`. Each part needs the others: that a spent grant's generation
is new follows from every earlier one being below the loop's present one, that
none but the loop's grant is active for it from the agreement of the tables, and
that an absent loop has neither from `RowOK`. `RowMove` says which rows an
operation may leave, `StepKinds` reduces `Next` to such a move, one of the three
operations on grants, or an expiry. Theorems: all eight properties of the store.

`ConvergencePolicyProofs`, for every request with any number of failures: one
lemma follows a pass through the triggers in order, one says that a further
failure or a probe's advice leaves each trigger's answer or tightens it. There is
no state to speak of; the theorems say the three promises hold of whatever is
asked (`RequestsAssumption`).

`ReviewPipelineProofs`, for any complaints, processes, hooks and documents and any
number of kills (`PipelineAssumption`). `Shapes` gives every step of the pipeline
as a step of the queue for the table, of one process and of one hook; hence
`PipelineUsesQueue`, and every theorem about the queue holds of the pipeline
(`PipelineInheritsQueue`). On top of that, each property has its own invariant:

- `EpochInv`: a process beyond its claim has an epoch of its row no newer than the
  row's, as owner if it is the row's; two processes of one complaint differ in it.
  Hence `EpochsAreUnique`, and `StaleWorkersArePowerless`: a process that is no
  longer the holder writes no row.
- `FiledInv`: what was linked is there, and nothing removes it; a recorded path is
  one that was filed (`PublishedDocumentsExist`).
- `RenameInv`, under `punctual`: from its second renewal to the end of the rename a
  process holds the lease, so nobody else is there, so it still is true that it
  found nothing (`OneDocumentEach`).
- `DirectInv`: a review that was never a classification has an attempt left while
  it waits. That the listing of a bounded batch shows it (`OpenReviewsAreListed`)
  is then counting: the complaints before it fill the batch, or it is in it, and all
  of these the reservation that follows starts or, attempts spent under a lease that
  is over, fails.
- `ReservationsKeepCooldown` needs, of the queue, that an inserted row is blank
  where a reservation is recorded (`Blank`, now part of `QueueInv`).

`GuardCommandsProofs`, for any agents, probe processes, reviews, files and
histories (`GuardAssumption`). `GuardImplementsStore`: every step of a command is
a step of `ConvergenceLoop` or leaves the store alone. It needs `ProcessesOK`,
what a process carries between two steps is a review, a decision, a grant and an
epoch the store knows, and `LoopInv`, which thereby holds of the commands too;
`GuardKeepsGrants` and `GuardBudgetCostsGrant` follow from it and the store's
theorems without another look at the commands.

The other five theorems look at them: commands call the store in ten ways
(`Calls`), and everything else they do leaves the rows alone. `KnowledgeInv` says
of each command, of each probe and of the log that what they speak of is on record
(`Past`) and, if it is of the review and generation the row stands at (`Present`),
that the row still permits it. A second review of the same basis and a return to
an earlier generation are impossible, so knowledge that has become stale stays
harmless. `GuardTypeCorrect` needs only the counts in it; `ProbeContextsKept` that
a context is taken away by a command that was refused, or by a probe that ended,
while the loop asks for no other one (`Receptive`), and that no prune lists a file
a live probe is bound to, so a file that was no orphan when the probe was reserved
is none as long as it is live: what has become of it is followed through
`contexts \cup orphans`; `AdviceFitsReview` that a
resolved reflection is of the present review. `DirectionInv` adds what a grant
that is active, or that a command has made up its mind to issue (`Held`), shows:
an architecture fix a checkpoint after the latest review (`DirectedOK`), a local
fix a failure and, when the review asked for a direction, the second one, a
continuation the reflection that advised it (`HeldOK`, `CompletionOK`). Hence
`DirectionBeforeArchitecture` and `DirectionsAreAnswered`.

`GuardAuthorityProofs`, for any operators, contents and number of transitions
(`AuthorityAssumption`). The argument is mutual exclusion: `HoldsLocks` (a process
at a step Inside holds both locks) and `Knows` (what it has checked still holds,
since nobody else may touch file or snapshot) are inductive together with
`RollbackStaysPossible`. `AuthorityType`, `WayBack`, `ExactTransitions`.

`LessonDeliveryProofs` (`DeliveryAssumption`). `WithheldWasDelivered` says
nothing of the emission log a later prompt reads; `DeliveryInv` adds that
whatever is in the log, was read from it or is about to be logged was delivered.
`EveryLessonNamed` is about a block that was projected from a store which has
moved on since, so `BlockInv` says of every block, on disk or in a process, that
its sections fit the file and that each of its groups has a key in the index.
Both come from the projection: groups of equal texts are disjoint and each has its
first key, `Outranks` orders them strictly, hence ranks are distinct and the
sections are no more than there are ranks below `FileRoom`. The first gives
`LessonsAreNamed`, the second is part of `DeliveryTypeCorrect`. `Contexts # {}` is
assumed: a prompt has one.
`Occurrences` counts by `Cardinality`, since nothing can be proved of a fold.

`FamilyReviewsProofs` (`FamilyAssumption`). What was earned when a reviewer
weighed its verdict (`Weighed`) is earned when it publishes, because declines are
only added: a settled complaint leaves neither its stage nor its family. The
stale ring is harmless because every record it ever held is a decline that is
still counted (`RingOfDeclines`).

That excuses run out (`SameExcuseEnds`, `FreshExcusesEnd`) is a bound by what
reviewers may have weighed at the same time. `BoundInv` bounds the declines given
plus those coming, which settling does not change and weighing raises by one
after it found fewer than the limit. For fresh excuses it does so only while the
family has no lesson and all its declines are in the window (`Unheard`), which
once lost is not regained by those same declines. `IsFiniteSet(Reviewers)` and
`Threshold > 0` are assumed; the code's threshold is three.

Every safety and action property of a passing run is stated by one of these
theorems. Only model-checked: the liveness properties `ReviewSettles` and
`ClassificationAdvances` (the prover has no rule for fairness or ENABLED).

## 5. Where comments and code disagree

Each of these is a run TLC must refute.

- *LateAdmission*. `resolveLLMAdmission` is documented to flip the job to pending
  "so the reviewer can claim it". Classifier and reviewer spend the same
  attempts: an admission on the third leaves a job no reviewer can claim and no
  recovery lists.
- *TerminalReopened*. The transition table lets no event leave `terminal` and a
  review only keep a status; `recordConvergenceReview` does not ask it and writes
  `generation_closed` over any status.
- *StaleLocalFix*. After two failures `assertLocalReviewAuthorization` answers
  `direction_review_required`. It is asked about the loop read first;
  `issueAuthorizedContinuation` reads the loop again and issues for what it finds
  then. A second failing review in between leaves a grant, and a generation, past
  the budget with no checkpoint.
- *StaleRollback*. `rollbackGuardCutover` refuses a repository that is not cut
  over, but asks before it takes the locks. A second rollback that waited there
  restores the snapshot over what the legacy guard has written since, and is
  refused only by the database, afterwards.

Met on the way, described by the models but without a run of their own:

- Queue. Spent classifications "are failed on the next claim"
  (`control-store:1320`), but the listing leaves them out, so no claim comes. The
  exhaustion is called the "same terminal transition claimReviewJob makes"
  (`:1359`), which spares a live lease; this one does not, and classifiers are
  launched without a reservation: the claim of a second one fails the job while the
  first is on its last attempt, whose answer is then refused.
- Store. A review that arrives while a probe runs closes the generation; then
  nobody can complete, fail or resolve (`convergence-store:715`). The takeover of
  an expired probe writes `probe_running` over a checkpoint or a person's decision
  called for meanwhile (`:1061`), though a probe is "a bounded semantic adviser"
  (`templates/rules/feedback-loop.md:9`). A probe whose process died before its
  claim is launched by no later command (`convergence-controller:708`).
  `probe_attempt` is never set back for a loop's second probe.
- Commands. A grant that expires unspent has the same event uid when it is issued
  again, which is a replay without a token; only another review frees the loop
  (`convergence-controller:509`). A crash between the issue and the grant file
  loses the token for good (`convergence-sdd-adapter:901`). A recorded review
  repeated after its generation moved on is an `event_collision`, and one repeated
  after a later passing review asks for a checkpoint. A checkpoint file counts
  once per loop. A command that found a reflection resolved, and is overtaken by the
  continuation that opens the next generation, may issue another one there once a
  second probe is resolved, whatever that one advised; it takes three commands and
  two generations, which is why `DirectionIsAnswered` and its proof speak of a
  review's own generation. `put` keeps a context file that is there with its mtime
  (`convergence-probe-context:622`): one that a crashed command left, put again a
  day later for the same review, may be pruned by another command before its probe
  is reserved or just as it is, and the probe fails without its context.
- Migration. Locks of a process that died stay (`convergence-migration:772`), and
  so does a snapshot torn between creation and `chmod` (`:810`): every later
  cutover fails. A cutover after a rollback needs the same source and another
  decision reference. A second import that shares a loop with an earlier one fails
  as a whole. A command that passed its preflight may write after a rollback
  (`convergence-sdd-adapter:998`), the "dual-write" the rules forbid.
- Delivery. The families a prompt counts as covered are taken before the budget
  drops sections (`cli:378`), though the set is called what "the turn was actually
  shown in full". The index "names every family", so that "a family is never
  invisible" (`rules-writer:414`), but of families merged into one group it prints
  the first key; the others are named by their section, which a prompt may not get.
  `EveryLessonNamed` says what remains true: no group goes unnamed. A lesson naming a
  family of the catalog is filed without its key (`reviewer-runner:505`), so the
  store counts no recurrence and the block keeps the older lesson. The rules file
  is rewritten in place (`rules-writer:474`): a reader may find it empty, an older
  projection may win, a killed writer leaves it empty with the user's own text. A
  hook killed after its response and before the marks delivers again.
- Families. The permanent count is void once a family's *first* decline is
  outside the window (`reviewer-escalate:206`), though "the permanent count wins
  when it is larger". A family that has its lesson and is declined again for the same
  reason is not to be escalated, which "would pile up a second near-identical
  document" (`reviewer-runner:404`); `escalateDeclinedFamily` does so for every
  reason that blames the agent, as its own comment wants (`reviewer-escalate:153`),
  and each further decline publishes another. `recordLessonRecurred` writes an event nothing reads.

## 6. What could come next

1. `GuardAuthority` and `GuardCommands` in one model: there a command of this guard
   is two steps, `Preflight` and `KernelWrites`, whatever it does in between.
2. For the liveness properties, what can be proved of them: a measure of a row
   that every step but a fault lowers and that bounds how often a review can be
   claimed, so that only the scheduling is left to TLC.
3. A second loop in `GuardCommands`, for the one place where commands of two loops
   meet: the pruning of context files.
4. The provider's child process (timeout, kill, output limit), once its timers
   hold the event loop.

## 7. Not modelled

- Text: recognition of complaints, redaction, rendering, ranking, validation of
  JSON, digests. Their outcomes are nondeterministic choices where they steer
  control. SQLite itself: transactions are atomic and durable. File permissions,
  owners and path checks.
- The execution guard: its dispatch is commented out in `cli.mjs` (1549-1592), so
  no process takes its steps; only the reset of a session's record is live.
- `injection-ledger`: its compact form is not reached while the block is layered.
- The reviewer provider: what a child process of another vendor does is the choice
  between an answer, a decline and a failure. That a child which ignores SIGTERM
  may survive, because the second timer is unref'd (`reviewer-provider:437`), is
  outside these models.
- The archive: a command run by a person that moves old documents. A lesson shown
  by the block alone is never marked as emitted and may be archived, and an
  emission may race with the move.
- Installation, export, reports, plugin and scripts: sequential programs without
  shared state. PROJECT.json lists each component with its reason.
