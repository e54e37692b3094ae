--------------------------- MODULE GuardCommands ---------------------------
(***************************************************************************)
(* The guard's commands over the convergence store: record-review,         *)
(* checkpoint, authorize-fix, consume-grant and resolve                    *)
(* (src/src/convergence-sdd-adapter.mjs), the controller between them and  *)
(* the store (convergence-controller.mjs), the probe's process             *)
(* (convergence-probe-runner.mjs), its context files                       *)
(* (convergence-probe-context.mjs) and the grant files.                    *)
(*                                                                         *)
(* Every command is a process of its own.  It reads the store, decides on  *)
(* what it read, and writes in another transaction: an agent's `pc` stands *)
(* between two such steps, and other processes may step in between.  A     *)
(* call that throws ends the command; so does a crash, at any step.        *)
(*                                                                         *)
(* One loop of one task of fixed contract.  A review is named by its run   *)
(* id, and so are its evidence and the decision basis, which are digests   *)
(* of it: Bases and Evidence are the reviews.  Event uids and grant ids    *)
(* are digests of facts: here they are the facts.                          *)
(***************************************************************************)
EXTENDS ConvergenceLoop

Policy == INSTANCE ConvergencePolicy

CONSTANTS
    F,              \* the loop
    Agents,         \* processes running a guard command
    Files,          \* paths of grant files
    Checkpoints,    \* digests of checkpoint files
    Texts,          \* what a host may say in a probe's context
    Histories,      \* the verdicts the reviews may come with
    None            \* nothing: no context, no file, no checkpoint

Reviews == Bases
\* counted; counted with a direction; neither; never made
Kinds == {"failing", "directional", "passing", "none"}

\* A grant id: the digest of what the grant is for.
GrantNames ==
    [action : {"local_fix", "continue_once"}, generation : Nat, basis : Bases, evidence : Bases]
    \cup [action : {"architecture_fix"}, generation : Nat, basis : Bases, evidence : Checkpoints]

\* What a probe may advise.  Of the three actions that ask for a grant, the one whose
\* grant is a local fix: those of the others have a purpose of their own and are issued
\* from reflection_resolved only.
Advice == {"continue_once", "direction_checkpoint", "human_decision", "finish_now"}

ASSUME GuardAssumption ==
    /\ F \in Loops /\ Evidence = Bases /\ Grants \subseteq GrantNames
    /\ None \notin Checkpoints \cup [generation : Nat, action : Advice]
    /\ Histories \subseteq [Reviews -> Kinds]

VARIABLES
    kind,      \* kind[r]: the verdict of review r
    log,       \* what the commands look up in convergence_events
    contexts,  \* the probe context files
    orphans,   \* those a prune has found old and unbound, until they are made anew
    agent,     \* agent[a]: the command a is running, and what it has read
    runner,    \* runner[o]: the probe process o
    artifact   \* artifact[p]: the grant file p

contextRoot == <<contexts, orphans>>
guard == <<log, contextRoot, agent, runner, artifact>>
allVars == <<vars, kind, guard>>

Idle == [pc |-> "idle"]
row == loop[F]

\* log.generation[r]: the generation r was reported with, -1 while it is not recorded;
\* log.orphaned, a history variable: a prune was ahead of the last probe's reservation.
NoLog ==
    [failures |-> 0, reviewDecision |-> "pass", generation |-> [r \in Reviews |-> -1],
     decided |-> {}, requested |-> {}, context |-> None, orphaned |-> FALSE,
     completed |-> None, lastPurpose |-> "none",
     checkpoints |-> {}, checkpoint |-> None, directed |-> FALSE]

GuardInit ==
    /\ Init
    /\ kind \in Histories
    /\ log = NoLog /\ contexts = {} /\ orphans = {}
    /\ agent = [a \in Agents |-> Idle]
    /\ runner = [o \in Owners |-> Idle]
    /\ artifact = [p \in Files |-> None]

Goto(a, s) == agent' = [agent EXCEPT ![a] = s]
At(a, pc) == agent[a].pc = pc
Stored == UNCHANGED <<vars, kind, log>>     \* no transaction changes anything

----------------------------------------------------------------------------
(* record-review. *)

Recorded(r) == log.generation[r] >= 0
Counted(r) == kind[r] \in {"failing", "directional"}
Directional(r) == kind[r] = "directional"

BeginReview(a, r) ==
    /\ At(a, "idle") /\ kind[r] # "none"
    /\ Goto(a, [pc |-> "store", review |-> r, prior |-> row.basis,
                generation |-> row.fix_generation])
    /\ Stored /\ UNCHANGED <<contextRoot, runner, artifact>>

\* Mutant: a review is a failure whatever its verdict.
FailuresAfter_Any(r) == IF log.failures < 3 THEN log.failures + 1 ELSE log.failures
FailuresAfter(r) == IF Counted(r) /\ log.failures < 3 THEN log.failures + 1 ELSE log.failures

\* What recordReview does with the loop it gets back from the store.
AfterReview(a, r) ==
    IF Counted(r) /\ (log'.failures >= 2 \/ Directional(r))
    THEN [pc |-> "evaluate", review |-> r,
          prior |-> IF agent[a].prior = NoBasis THEN loop'[F].basis ELSE agent[a].prior]
    ELSE Idle

\* A recorded run id is answered from the log, unless the generation has moved on.
\* The generation read before is kept in the event; a new loop starts in 0.
StoreReview(a) ==
    LET r == agent[a].review IN
    /\ At(a, "store")
    /\ IF Recorded(r)
       THEN /\ UNCHANGED <<vars, log>>
            /\ Goto(a, IF log.generation[r] = agent[a].generation
                       THEN AfterReview(a, r) ELSE Idle)
       ELSE /\ RecordConvergenceReview(F, IF Exists(F) THEN row.fix_generation ELSE 0,
                                       Counted(r), Directional(r), r, r)
            /\ log' = [log EXCEPT !.generation[r] = agent[a].generation,
                                  !.failures = FailuresAfter(r),
                                  !.reviewDecision = loop'[F].current_decision,
                                  !.directed = FALSE]
            /\ Goto(a, AfterReview(a, r))
    /\ UNCHANGED <<kind, contextRoot, runner, artifact>>

\* The request the commands put to the Breaker; `advice` is a completed probe's.
GuardRequest(prior, advice) ==
    [audit |-> FALSE, importance |-> "routine", trusted |-> TRUE,
     failures |-> log.failures, lastPurpose |-> log.lastPurpose, advances |-> TRUE,
     acceptance |-> FALSE, architecture |-> FALSE, exclusion |-> FALSE, oscillation |-> FALSE,
     sameInvariant |-> TRUE, explore |-> FALSE, explored |-> FALSE, falsifiable |-> FALSE,
     verified |-> TRUE, changed |-> prior # row.basis, probeAction |-> advice]

\* A decision with the snapshot of the loop it was taken on: the event uid.
Verdict(prior, advice, decision, reason) ==
    [prior |-> prior, advice |-> advice, basis |-> row.basis,
     generation |-> row.fix_generation, failures |-> row.failure_count,
     decision |-> decision, reason |-> reason]

ToDecide(v, context, created) ==
    [pc |-> "decide", verdict |-> v, context |-> context, created |-> created]

\* evaluateAndAdvance reads the loop again.  A reflection needs a context the host
\* supplied (it may not, or not validly) for the latest review; without one the
\* decision falls back to a checkpoint.
Evaluate(a) ==
    LET prior == agent[a].prior
        v == Policy!EvaluateConvergence(GuardRequest(prior, "none"))
        fallback == ToDecide(Verdict(prior, "none", "checkpoint_required", "probe_context"),
                             None, FALSE)
    IN  /\ At(a, "evaluate")
        /\ CASE v.decision = "pass" -> Goto(a, Idle)
             [] v.decision = "reflection_required" ->
                  \/ Goto(a, fallback)
                  \/ /\ agent[a].review = row.basis
                     /\ \E t \in Texts :
                          Goto(a, [pc |-> "put", fallback |-> fallback,
                                   verdict |-> Verdict(prior, "none", v.decision, v.reason),
                                   context |-> [basis |-> row.basis, text |-> t,
                                                generation |-> row.fix_generation]])
             [] OTHER -> Goto(a, ToDecide(Verdict(prior, "none", v.decision, v.reason),
                                          None, FALSE))
        /\ Stored /\ UNCHANGED <<contextRoot, runner, artifact>>

\* The context is published by link(); a file that is there is kept, and its age.  One
\* made anew is young, but a prune that has looked at the file before may take it still.
PutContext(a) ==
    LET c == agent[a].context IN
    /\ At(a, "put")
    /\ \/ /\ contexts' = contexts \cup {c}
          /\ orphans' \in IF c \in contexts THEN {orphans} ELSE {orphans, orphans \ {c}}
          /\ Goto(a, ToDecide(agent[a].verdict, c, c \notin contexts))
       \/ /\ Goto(a, agent[a].fallback)
          /\ UNCHANGED contextRoot
    /\ Stored /\ UNCHANGED <<runner, artifact>>

AfterDecision(s) ==
    IF s.context = None THEN Idle
    ELSE [pc |-> "request", context |-> s.context, created |-> s.created]
AfterRefusal(s) ==
    IF s.context # None /\ s.created THEN [pc |-> "discard", context |-> s.context] ELSE Idle

SnapshotHolds(v) ==
    /\ row.failure_count = v.failures /\ row.fix_generation = v.generation /\ row.basis = v.basis

RecordHardDecision(a) ==
    LET s == agent[a]
        v == s.verdict
        legal == SnapshotHolds(v) /\ MayTurn(F, "breaker_triggered", DecisionTarget(v.decision))
    IN
    /\ At(a, "decide")
    /\ IF v \in log.decided THEN UNCHANGED <<vars, log>> /\ Goto(a, AfterDecision(s))
       ELSE \/ /\ legal
               /\ RecordConvergenceDecision(F, v.decision)
               /\ log' = [log EXCEPT !.decided = @ \cup {v}]
               /\ Goto(a, AfterDecision(s))
            \/ /\ ~legal
               /\ UNCHANGED <<vars, log>> /\ Goto(a, AfterRefusal(s))
    /\ UNCHANGED <<kind, contextRoot, runner, artifact>>

\* A due probe is launched; the spawn may fail, also after it was reported.
Launch ==
    \/ UNCHANGED runner
    \/ /\ row'.probe_state \in {"pending", "retryable"} /\ Elapsed(row'.probe_next)
       /\ \E o \in Owners : runner[o] = Idle /\ runner' = [runner EXCEPT ![o] = [pc |-> "started"]]

\* A probe that is asked for is due at once.
RequestProbe(a) ==
    LET s == agent[a]
        replayed == s.context \in log.requested /\ s.context.generation = row.fix_generation
        legal == /\ ~replayed /\ s.context \notin log.requested
                 /\ ~LiveProbe(row) /\ MayTurn(F, "reflection_requested", "probe_pending")
    IN
    /\ At(a, "request")
    /\ \/ replayed /\ UNCHANGED <<vars, log>> /\ Launch /\ Goto(a, Idle)
       \/ /\ legal
          /\ RequestConvergenceProbe(F, "past")
          /\ log' = [log EXCEPT !.requested = @ \cup {s.context}, !.context = s.context,
                                !.orphaned = s.context \in orphans]
          /\ Launch /\ Goto(a, Idle)
       \/ /\ ~replayed /\ ~legal
          /\ UNCHANGED <<vars, log, runner>> /\ Goto(a, AfterRefusal(s))
    /\ UNCHANGED <<kind, contextRoot, artifact>>

\* Mutant: a probe that waits for a retry is forgotten.
LiveContexts_Retry == IF row.probe_state \in {"pending", "running"} THEN {log.context} ELSE {}
LiveContexts == IF LiveProbe(row) THEN {log.context} ELSE {}

\* removeNewUnreferencedContext: the live digests are read, then the file removed.
DiscardContext(a) ==
    /\ At(a, "discard")
    /\ Goto(a, IF agent[a].context \in LiveContexts THEN Idle
               ELSE [pc |-> "remove", context |-> agent[a].context])
    /\ Stored /\ UNCHANGED <<contextRoot, runner, artifact>>

RemoveContext(a) ==
    /\ At(a, "remove")
    /\ contexts' = contexts \ {agent[a].context}
    /\ Goto(a, Idle) /\ Stored /\ UNCHANGED <<orphans, runner, artifact>>

----------------------------------------------------------------------------
(* checkpoint and resolve: one transaction each; a digest used before is    *)
(* answered from the log.                                                  *)

Checkpoint(k) ==
    /\ k \notin log.checkpoints
    /\ RecordConvergenceCheckpoint(F)
    /\ log' = [log EXCEPT !.checkpoints = @ \cup {k}, !.checkpoint = k, !.directed = TRUE]
    /\ UNCHANGED <<kind, contextRoot, agent, runner, artifact>>

Resolve ==
    /\ ResolveConvergenceLoop(F, "finish")
    /\ UNCHANGED <<kind, guard>>

----------------------------------------------------------------------------
(* authorize-fix. *)

AfterProbeStatuses == {"reflection_resolved", "grant_ready", "checkpoint_required",
                       "human_decision", "terminal"}
PostProbe == row.status \in AfterProbeStatuses /\ row.probe_state = "completed"

BeginLocalFix(a, p) ==
    /\ At(a, "idle") /\ Exists(F)
    /\ IF PostProbe THEN Goto(a, [pc |-> "resume", file |-> p])
       ELSE /\ log.failures = 1 /\ row.fix_generation = 0
            /\ row.status \notin {"probe_pending", "probe_running", "reflection_required"}
            /\ Goto(a, [pc |-> "authorize", file |-> p])
    /\ Stored /\ UNCHANGED <<contextRoot, runner, artifact>>

ToIssue(p, action, evidence) == [pc |-> "issue", file |-> p, action |-> action, evidence |-> evidence]

\* The checkpoint file handed in is the one recorded last.
BeginArchitectureFix(a, p) ==
    /\ At(a, "idle") /\ row.status \in {"direction_approved", "grant_ready"}
    /\ log.checkpoint # None
    /\ Goto(a, ToIssue(p, "architecture_fix", log.checkpoint))
    /\ Stored /\ UNCHANGED <<contextRoot, runner, artifact>>

\* Mutant: a local fix is authorized on the failure count alone.
MayFixLocally_Undirected == log.failures = 1
\* assertLocalReviewAuthorization; the Breaker passes a first failure on its changed basis.
MayFixLocally ==
    /\ log.failures = 1
    /\ ~Directional(row.basis)
    /\ log.reviewDecision # "checkpoint_required"

AuthorizeContinuation(a) ==
    /\ At(a, "authorize")
    /\ Goto(a, IF MayFixLocally THEN ToIssue(agent[a].file, "local_fix", row.basis) ELSE Idle)
    /\ Stored /\ UNCHANGED <<contextRoot, runner, artifact>>

\* authorizeAfterProbe: the latest review is evidence that is not trusted enough to
\* finish on, but that always changed the basis.
ResumeAfterProbe(a) ==
    LET v == Policy!EvaluateConvergence(GuardRequest(NoBasis, log.completed.action)) IN
    /\ At(a, "resume")
    /\ IF ~PostProbe \/ log.completed.generation # row.fix_generation
          \/ log.completed.action = "finish_now"
       THEN Goto(a, Idle)
       ELSE IF v.decision # "pass"
       THEN Goto(a, ToDecide(Verdict(NoBasis, log.completed.action, v.decision, v.reason),
                             None, FALSE))
       ELSE Goto(a, ToIssue(agent[a].file, "continue_once", row.basis))
    /\ Stored /\ UNCHANGED <<contextRoot, runner, artifact>>

Facts(s) ==
    [action |-> s.action, generation |-> row.fix_generation, basis |-> row.basis,
     evidence |-> IF s.action = "architecture_fix" THEN log.checkpoint ELSE s.evidence]

Purpose(action) == IF action = "architecture_fix" THEN action ELSE "local_fix"

\* Mutant: a loop that a review has closed since counts as approved.
MayIssue_Closed(s) ==
    \/ row.status \in {"direction_approved", "generation_closed"}
    \/ s.action = "continue_once" /\ row.status = "reflection_resolved"

\* A ready grant of the same purpose is no obstacle, but only the same facts name it.
MayIssue(s) ==
    \/ row.status = "grant_ready" /\ row.active_grant # NoGrant
       /\ Purpose(row.active_grant.action) = Purpose(s.action)
    \/ s.action = "architecture_fix" /\ row.status = "direction_approved"
    \/ s.action # "architecture_fix" /\ row.status = "generation_closed"
    \/ s.action = "continue_once" /\ row.status = "reflection_resolved"

\* issueAuthorizedContinuation reads the loop a third time.  Between that and the
\* transaction the generation, the basis or the revisions may change, and the store
\* refuses, or the status, which the store does not compare but takes its own step
\* from: the two are one step.
IssueAuthorizedContinuation(a) ==
    LET s == agent[a]  g == Facts(s)
        legal == /\ MayIssue(s) /\ grant[g].state = "unused"
                 /\ MayTurn(F, "grant_issued", "grant_ready")
    IN
    /\ At(a, "issue") /\ g \in Grants
    /\ \/ /\ legal /\ IssueContinuationGrant(F, g)
          /\ Goto(a, [pc |-> "write", file |-> s.file, grant |-> g])
       \/ /\ ~legal /\ UNCHANGED vars /\ Goto(a, Idle)
    /\ UNCHANGED <<kind, log, contextRoot, runner, artifact>>

\* The token is in this process only, until the file is linked.
WriteArtifact(a) ==
    LET p == agent[a].file IN
    /\ At(a, "write")
    /\ artifact' = IF artifact[p] = None THEN [artifact EXCEPT ![p] = [grant |-> agent[a].grant]]
                   ELSE artifact
    /\ Goto(a, Idle) /\ Stored /\ UNCHANGED <<contextRoot, runner>>

----------------------------------------------------------------------------
(* consume-grant.  Its file is emptied in place. *)

OpenArtifact(a, p) ==
    /\ At(a, "idle") /\ artifact[p] # None /\ artifact[p].grant # None
    /\ Goto(a, [pc |-> "consume", file |-> p, grant |-> artifact[p].grant])
    /\ Stored /\ UNCHANGED <<contextRoot, runner, artifact>>

\* The same brief is answered from the log, another one is refused.
ConsumeGrant(a) ==
    LET g == agent[a].grant IN
    /\ At(a, "consume")
    /\ \/ /\ ConsumeContinuationGrant(F, g)
          /\ log' = [log EXCEPT !.lastPurpose = Purpose(g.action)]
          /\ Goto(a, [pc |-> "neutralize", file |-> agent[a].file])
       \/ /\ ~Consumable(F, g) \/ ~MayTurn(F, "grant_consumed", "active_generation")
          /\ UNCHANGED <<vars, log>>
          /\ \/ Goto(a, Idle)
             \/ /\ grant[g].state = "consumed"
                /\ Goto(a, [pc |-> "neutralize", file |-> agent[a].file])
    /\ UNCHANGED <<kind, contextRoot, runner, artifact>>

Neutralize(a) ==
    /\ At(a, "neutralize")
    /\ artifact' = [artifact EXCEPT ![agent[a].file] = [grant |-> None]]
    /\ Goto(a, Idle) /\ Stored /\ UNCHANGED <<contextRoot, runner>>

Crash(a) ==
    /\ ~At(a, "idle")
    /\ Goto(a, Idle) /\ Stored /\ UNCHANGED <<contextRoot, runner, artifact>>

----------------------------------------------------------------------------
(* The probe's process. *)

RunnerGoes(o, s) == runner' = [runner EXCEPT ![o] = s]

ClaimProbe(o) ==
    /\ runner[o].pc = "started"
    /\ ClaimConvergenceProbe(F, o)
    /\ RunnerGoes(o, IF row'.probe_state = "running"
                     THEN [pc |-> "read", epoch |-> row'.probe_epoch] ELSE Idle)
    /\ UNCHANGED <<kind, log, contextRoot, agent, artifact>>

\* Mutant: a context is taken whatever was reviewed since.
ContextFits_AnyBasis(c) == c \in contexts /\ c.generation = row.fix_generation
ContextFits(c) == c \in contexts /\ c.generation = row.fix_generation /\ c.basis = row.basis

\* Without its context a probe fails for good; it cleans up what it was bound to.
ReadContext(o) ==
    /\ runner[o].pc = "read"
    /\ RunnerGoes(o, [epoch |-> runner[o].epoch,
                      pc |-> IF LiveProbe(row) /\ ContextFits(log.context) THEN "ask" ELSE "refuse",
                      context |-> IF LiveProbe(row) THEN log.context ELSE None])
    /\ Stored /\ UNCHANGED <<contextRoot, agent, artifact>>

ProviderAnswers(o) ==
    /\ runner[o].pc = "ask"
    /\ CompleteConvergenceProbe(F, o, runner[o].epoch)
    /\ \E action \in Advice :
          log' = [log EXCEPT !.completed = [generation |-> row.fix_generation, action |-> action]]
    /\ RunnerGoes(o, [pc |-> "clean", context |-> runner[o].context])
    /\ UNCHANGED <<kind, contextRoot, agent, artifact>>

ProbeFails(o) ==
    /\ \E retryable \in BOOLEAN :
          /\ runner[o].pc = "ask" \/ (runner[o].pc = "refuse" /\ ~retryable)
          /\ FailConvergenceProbe(F, o, runner[o].epoch, retryable)
    /\ RunnerGoes(o, IF row'.probe_state # "retryable" /\ runner[o].context # None
                     THEN [pc |-> "clean", context |-> runner[o].context] ELSE Idle)
    /\ UNCHANGED <<kind, log, contextRoot, agent, artifact>>

CleanContext(o) ==
    /\ runner[o].pc = "clean"
    /\ contexts' = contexts \ {runner[o].context}
    /\ RunnerGoes(o, Idle) /\ Stored /\ UNCHANGED <<orphans, agent, artifact>>

\* A refused claim, a lost lease, an error, a kill.
RunnerDies(o) ==
    /\ runner[o] # Idle
    /\ RunnerGoes(o, Idle) /\ Stored /\ UNCHANGED <<contextRoot, agent, artifact>>

----------------------------------------------------------------------------

\* pruneOrphans, at the end of any command that succeeded: the live digests are read,
\* then every other file over a day old is removed, one after the other.  The clock is
\* open: a file may turn out to be that old at any time, also one that a command has
\* found there and is about to reserve a probe for.
ListOrphan(c) ==
    /\ c \in contexts \ LiveContexts
    /\ orphans' = orphans \cup {c}
    /\ Stored /\ UNCHANGED <<contexts, agent, runner, artifact>>

PruneOrphan(c) ==
    /\ c \in contexts \cap orphans
    /\ contexts' = contexts \ {c}
    /\ Stored /\ UNCHANGED <<orphans, agent, runner, artifact>>

PruneOrphans == \E c \in contexts : ListOrphan(c) \/ PruneOrphan(c)

AgentStep(a) ==
    \/ \E r \in Reviews : BeginReview(a, r)
    \/ StoreReview(a) \/ Evaluate(a) \/ PutContext(a) \/ RecordHardDecision(a)
    \/ RequestProbe(a) \/ DiscardContext(a) \/ RemoveContext(a)
    \/ \E p \in Files : BeginLocalFix(a, p) \/ BeginArchitectureFix(a, p) \/ OpenArtifact(a, p)
    \/ AuthorizeContinuation(a) \/ ResumeAfterProbe(a) \/ IssueAuthorizedContinuation(a)
    \/ WriteArtifact(a) \/ ConsumeGrant(a) \/ Neutralize(a) \/ Crash(a)

RunnerStep(o) ==
    \/ ClaimProbe(o) \/ ReadContext(o) \/ ProviderAnswers(o) \/ ProbeFails(o)
    \/ CleanContext(o) \/ RunnerDies(o)

GuardNext ==
    \/ \E a \in Agents : AgentStep(a)
    \/ \E o \in Owners : RunnerStep(o)
    \/ \E k \in Checkpoints : Checkpoint(k)
    \/ Resolve
    \/ PruneOrphans
    \/ TimePasses /\ UNCHANGED <<kind, guard>>

GuardSpec == GuardInit /\ [][GuardNext]_allVars

----------------------------------------------------------------------------
(* Properties. *)

\* What is looked up in the log agrees with the rows, command by command: the
\* failures counted, the reviews recorded, the generation of the latest one, and a
\* grant that is named in a file or held by a process has been issued.
GuardTypeOK ==
    /\ log.failures \in 0..3
    /\ row.evidence = {r \in Reviews : Recorded(r)}
    /\ Exists(F) => row.failure_count = IF log.failures > 2 THEN 2 ELSE log.failures
    /\ contexts \subseteq [basis : Reviews, text : Texts, generation : Nat]
    /\ \A p \in Files : artifact[p] # None /\ artifact[p].grant # None
                         => grant[artifact[p].grant].state # "unused"

Opens == Exists(F) /\ row'.fix_generation # row.fix_generation

\* A generation is opened for an architecture fix only if a checkpoint was recorded
\* since the latest review, however long ago and on whatever view of the loop the
\* fix was authorized.
DirectionPrecedesArchitecture ==
    [][\A g \in Grants :
          /\ g.action = "architecture_fix"
          /\ grant[g].state = "active" /\ grant'[g].state = "consumed"
          => log.directed]_allVars

\* A review that asked for a direction is not worked around: from the generation it
\* was made in, the loop goes on after a checkpoint or after a reflection that said to
\* continue in this generation.
DirectionIsAnswered ==
    [][/\ Opens /\ log.failures < 2 /\ Directional(row.basis)
       /\ log.generation[row.basis] = row.fix_generation
       => \/ log.directed
          \/ /\ log.completed # None /\ log.completed.action = "continue_once"
             /\ log.completed.generation = row.fix_generation]_allVars

\* A probe that is reserved before a prune has taken its file for an orphan finds its
\* context, until it ends or the loop moves on: no refused request, no other probe's
\* clean-up and no prune that begins later takes it away.
ProbeContextKept ==
    /\ LiveProbe(row) /\ ~log.orphaned
    /\ log.context.basis = row.basis /\ log.context.generation = row.fix_generation
    => log.context \in contexts

\* What a probe advised is used for the review it was shown, or not at all.
AdviceIsForItsReview ==
    [][\A g \in Grants :
          /\ grant[g].state = "unused" /\ grant'[g].state = "active"
          /\ row.status = "reflection_resolved"
          => log.context.basis = row.basis]_allVars

\* Between them the commands do to the store what its operations do, one at a time.
ImplementsStore == Spec

\* The failure budget holds for the commands as well: after two failures a
\* generation is opened for a direction that was recorded, and in no other way
\* (direction_review_required of assertLocalReviewAuthorization).
BudgetNeedsDirection == [][Opens /\ log.failures >= 2 => log.directed]_allVars
=============================================================================
