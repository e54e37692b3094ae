-------------------------- MODULE ConvergenceLoop --------------------------
(***************************************************************************)
(* The convergence store (src/src/convergence-store.mjs): one task, its    *)
(* review loops and the continuation grants written for them.  Every       *)
(* operation is one BEGIN IMMEDIATE transaction, hence one atomic action,  *)
(* and any process may call any of them with whatever it knew some time    *)
(* ago.  An operation that throws changes nothing and is no step.          *)
(*                                                                         *)
(* Time.  A timestamp is only compared with the clock, so a column holds   *)
(* "null", "future" or "past"; TimePasses makes a future one past.         *)
(*                                                                         *)
(* Event uids.  A repeated event_uid is answered from the log and changes  *)
(* nothing, or is refused as a collision.  The uid matters to the state    *)
(* for grants only, whose id and uid name the same facts: a grant id is    *)
(* used once.  Snapshots and bindings the caller has to match are matched  *)
(* or the call throws; the model takes the calls that match.               *)
(*                                                                         *)
(* The two revisions, the importance and its authority move together in    *)
(* every comparison: `revision` stands for the four.                       *)
(***************************************************************************)
EXTENDS Integers

CONSTANTS
    Loops,             \* fingerprints
    Grants,            \* grant ids (each with its event uid and token)
    Owners,            \* owner ids of probe processes
    Revisions, Bases, Evidence,  \* contract revisions, decision bases, review evidence
    MaxProbeAttempts,  \* MAX_PROBE_ATTEMPTS
    MaxGeneration,     \* bound on fix_generation
    MaxClaims,         \* bound on probe_lease_epoch
    NoLoop, NoGrant, NoOwner, NoBasis   \* SQL NULL in the respective column

ASSUME LoopAssumption ==
    /\ MaxProbeAttempts \in Nat /\ MaxGeneration \in Nat /\ MaxClaims \in Nat
    /\ NoLoop \notin Loops /\ NoGrant \notin Grants
    /\ NoOwner \notin Owners /\ NoBasis \notin Bases

VARIABLES
    task,    \* the convergence_tasks row: its revision and state
    loop,    \* loop[f]: the convergence_loops row of f, "absent" until inserted
    grant    \* grant[g]: the continuation_grants row of g, "unused" until inserted

vars == <<task, loop, grant>>

----------------------------------------------------------------------------
(* The transition table (convergence-policy).                              *)

Statuses == {"active_generation", "generation_closed", "reflection_required",
             "probe_pending", "probe_running", "reflection_resolved",
             "checkpoint_required", "direction_approved", "grant_ready",
             "human_decision", "terminal"}

PreservingEvents == {"contract_projected", "evidence_recorded", "review_recorded",
                     "alias_declared", "distinct_declared"}

Stops == {"checkpoint_required", "human_decision", "terminal"}
Working == {"active_generation", "generation_closed"}

Edges ==
    {<<"generation_closed", "generation_opened", "active_generation">>,
     <<"active_generation", "generation_closed", "generation_closed">>,
     <<"reflection_required", "reflection_requested", "probe_pending">>,
     <<"probe_pending", "reflection_claimed", "probe_running">>,
     <<"checkpoint_required", "checkpoint_recorded", "direction_approved">>,
     <<"grant_ready", "grant_consumed", "active_generation">>,
     <<"grant_ready", "grant_revoked", "generation_closed">>}
    \cup Working \X {"breaker_triggered"} \X (Stops \cup {"reflection_required"})
    \cup {"reflection_resolved"} \X {"breaker_triggered"} \X Stops
    \cup {"probe_pending", "probe_running"} \X {"reflection_failed"}
            \X {"reflection_required", "checkpoint_required", "human_decision"}
    \cup {"probe_running"} \X {"reflection_completed"} \X (Stops \cup {"reflection_resolved"})
    \cup {"generation_closed", "reflection_resolved", "direction_approved"}
            \X {"grant_issued"} \X {"grant_ready"}

ValidTransition(from, event, to) ==
    IF event \in PreservingEvents THEN from # "terminal" /\ from = to
    ELSE IF event = "task_resolved" THEN from # "terminal" /\ to = "terminal"
    ELSE <<from, event, to>> \in Edges

----------------------------------------------------------------------------
(* Rows. *)

Timer == {"null", "future", "past"}
Live(t) == t = "future"      \* not NULL and later than now
Elapsed(t) == t = "past"     \* not NULL and not later than now

Decisions == {"pass", "reflection_required", "checkpoint_required", "hold",
              "human_decision", "finish"}
ProbeStates == {"null", "pending", "retryable", "running", "completed", "failed"}
LiveProbe(r) == r.probe_state \in {"pending", "retryable", "running"}

\* The store asks of a failure count whether it has reached two.
FailureBudget == 2

LoopRow == [status : Statuses \cup {"absent"}, failure_count : 0..FailureBudget,
            fix_generation : Nat, basis : Bases \cup {NoBasis}, evidence : SUBSET Evidence,
            current_decision : Decisions, active_grant : Grants \cup {NoGrant},
            probe_state : ProbeStates, probe_attempt : Nat, probe_owner : Owners \cup {NoOwner},
            probe_epoch : Nat, probe_lease : Timer, probe_next : Timer]

\* evidence: the digests of the loop's review events, which a later review looks up.
AbsentLoop ==
    [status |-> "absent", failure_count |-> 0, fix_generation |-> 0, basis |-> NoBasis,
     evidence |-> {}, current_decision |-> "pass", active_grant |-> NoGrant,
     probe_state |-> "null", probe_attempt |-> 0, probe_owner |-> NoOwner,
     probe_epoch |-> 0, probe_lease |-> "null", probe_next |-> "null"]

GrantRow == [state : {"unused", "active", "consumed", "revoked"}, loop : Loops \cup {NoLoop},
             generation : Nat, revision : Revisions, basis : Bases \cup {NoBasis},
             expires : Timer]

Exists(f) == loop[f].status # "absent"
MayTurn(f, event, to) == Exists(f) /\ ValidTransition(loop[f].status, event, to)
WriteLoop(f, r) == loop' = [loop EXCEPT ![f] = r]

----------------------------------------------------------------------------
(* The task. *)

Revoked(g) == [g EXCEPT !.state = "revoked"]

\* Mutant: the grants are revoked, the loops keep pointing at them.
Unready_Kept(r) == r
\* The loop of a revoked grant, whatever its status was.
Unready(r) == [r EXCEPT !.active_grant = NoGrant, !.status = "generation_closed"]

HoldsActive(f) ==
    \E g \in Grants : grant[g].state = "active" /\ grant[g].loop = f /\ loop[f].active_grant = g

\* A changed projection revokes every active grant of the task.  The task's own
\* state is kept, also when it is terminal.
UpsertConvergenceTask(r) ==
    /\ r # task.revision
    /\ task' = [task EXCEPT !.revision = r]
    /\ grant' = [g \in Grants |->
                   IF grant[g].state = "active" THEN Revoked(grant[g]) ELSE grant[g]]
    /\ loop' = [f \in Loops |-> IF HoldsActive(f) THEN Unready(loop[f]) ELSE loop[f]]

----------------------------------------------------------------------------
(* Reviews, evidence, decisions. *)

\* Mutant: the decision of an earlier round is always kept.
ReviewDecision_Kept(r, failed, failures, directional) == r.current_decision
ReviewDecision(r, failed, failures, directional) ==
    IF failed /\ (failures >= FailureBudget \/ directional)
    THEN "checkpoint_required" ELSE r.current_decision

\* counted: changes required, important or critical.  Evidence seen before does
\* not count again.  Every review closes the generation, whatever the status.
Reviewed(r, counted, directional, b, e) ==
    LET failed == counted /\ e \notin r.evidence
        failures == IF failed /\ r.failure_count < FailureBudget
                    THEN r.failure_count + 1 ELSE r.failure_count
    IN  [r EXCEPT !.status = "generation_closed", !.failure_count = failures,
                  !.current_decision = ReviewDecision(r, failed, failures, directional),
                  !.basis = b, !.evidence = @ \cup {e}]

\* n: the generation the caller reports; only a new loop takes it over.
RecordConvergenceReview(f, n, counted, directional, b, e) ==
    /\ WriteLoop(f, Reviewed(IF Exists(f) THEN loop[f]
                             ELSE [AbsentLoop EXCEPT !.fix_generation = n],
                             counted, directional, b, e))
    /\ UNCHANGED <<task, grant>>

DeclareConvergenceDistinct(f, b) ==
    /\ ~Exists(f)
    /\ WriteLoop(f, [AbsentLoop EXCEPT !.status = "generation_closed", !.basis = b])
    /\ UNCHANGED <<task, grant>>

\* Only a trusted class of evidence moves the basis; the others write no column.
RecordConvergenceEvidence(f, b) ==
    /\ Exists(f) /\ b # loop[f].basis
    /\ WriteLoop(f, [loop[f] EXCEPT !.basis = b])
    /\ UNCHANGED <<task, grant>>

DecisionTarget(d) ==
    CASE d \in {"checkpoint_required", "hold"} -> "checkpoint_required"
      [] d = "pass"   -> "generation_closed"
      [] d = "finish" -> "terminal"
      [] OTHER -> d

RecordConvergenceDecision(f, d) ==
    /\ MayTurn(f, "breaker_triggered", DecisionTarget(d))
    /\ WriteLoop(f, [loop[f] EXCEPT !.status = DecisionTarget(d), !.current_decision = d])
    /\ UNCHANGED <<task, grant>>

RecordConvergenceCheckpoint(f) ==
    /\ MayTurn(f, "checkpoint_recorded", "direction_approved")
    /\ WriteLoop(f, [loop[f] EXCEPT !.status = "direction_approved"])
    /\ UNCHANGED <<task, grant>>

\* Mutant: a generation is opened whatever the current decision is.
RequestConvergenceGeneration_AnyDecision(f) ==
    /\ MayTurn(f, "generation_opened", "active_generation")
    /\ loop[f].fix_generation < MaxGeneration
    /\ WriteLoop(f, [loop[f] EXCEPT !.status = "active_generation", !.fix_generation = @ + 1])
    /\ UNCHANGED <<task, grant>>

RequestConvergenceGeneration(f) ==
    /\ loop[f].current_decision = "pass"
    /\ MayTurn(f, "generation_opened", "active_generation")
    /\ loop[f].fix_generation < MaxGeneration
    /\ WriteLoop(f, [loop[f] EXCEPT !.status = "active_generation", !.fix_generation = @ + 1])
    /\ UNCHANGED <<task, grant>>

RemainingAfter(f) == {h \in Loops \ {f} : loop[h].status \notin {"absent", "terminal"}}

\* Mutant: the resolution is stored where the decision belongs.
ResolveConvergenceLoop_Resolution(f, d) ==
    /\ loop[f].active_grant = NoGrant /\ ~LiveProbe(loop[f])
    /\ MayTurn(f, "task_resolved", "terminal")
    /\ WriteLoop(f, [loop[f] EXCEPT !.status = "terminal", !.current_decision = "closed"])
    /\ task' = IF RemainingAfter(f) = {} THEN [task EXCEPT !.state = "terminal"] ELSE task
    /\ UNCHANGED grant

ResolveConvergenceLoop(f, d) ==
    /\ loop[f].active_grant = NoGrant /\ ~LiveProbe(loop[f])
    /\ MayTurn(f, "task_resolved", "terminal")
    /\ WriteLoop(f, [loop[f] EXCEPT !.status = "terminal", !.current_decision = d])
    /\ task' = IF RemainingAfter(f) = {} THEN [task EXCEPT !.state = "terminal"] ELSE task
    /\ UNCHANGED grant

----------------------------------------------------------------------------
(* Probes.  The attempt counter is never set back, not even by a new request. *)

\* Mutant: the request leaves the probe columns of the last probe as they are.
ProbeRequested_Reused(r, due) == [r EXCEPT !.status = "probe_pending", !.probe_next = due]
ProbeRequested(r, due) ==
    [r EXCEPT !.status = "probe_pending", !.probe_state = "pending", !.probe_owner = NoOwner,
              !.probe_lease = "null", !.probe_next = due]

\* due: when the caller wants the probe to run, which may be at once.
RequestConvergenceProbe(f, due) ==
    /\ ~LiveProbe(loop[f])
    /\ MayTurn(f, "reflection_requested", "probe_pending")
    /\ WriteLoop(f, ProbeRequested(loop[f], due))
    /\ UNCHANGED <<task, grant>>

\* Mutant: a running probe may be taken over before its lease has expired.
ProbeExpired_LeaseIgnored(r) == r.probe_state = "running"
ProbeExpired(r) == r.probe_state = "running" /\ Elapsed(r.probe_lease)
ProbeDue(r) == r.probe_state \in {"pending", "retryable"} /\ Elapsed(r.probe_next)
ProbeExhausted(r) == ProbeExpired(r) /\ r.probe_attempt >= MaxProbeAttempts

ProbeClaimed(r, o) ==
    [r EXCEPT !.status = "probe_running", !.probe_state = "running",
              !.probe_attempt = @ + 1, !.probe_owner = o, !.probe_epoch = @ + 1,
              !.probe_lease = "future", !.probe_next = "null"]

ProbeEnded(r, status, state, next) ==
    [r EXCEPT !.status = status, !.probe_state = state, !.probe_owner = NoOwner,
              !.probe_lease = "null", !.probe_next = next]

\* The transition table is asked for a pending probe only: a retry or a
\* takeover is granted whatever the status has become.
ClaimConvergenceProbe(f, o) ==
    /\ IF ProbeExhausted(loop[f])
       THEN /\ MayTurn(f, "reflection_failed", "checkpoint_required")
            /\ WriteLoop(f, ProbeEnded(loop[f], "checkpoint_required", "failed", "null"))
       ELSE /\ ProbeDue(loop[f]) \/ ProbeExpired(loop[f])
            /\ loop[f].probe_state = "pending" => MayTurn(f, "reflection_claimed", "probe_running")
            /\ loop[f].probe_epoch < MaxClaims
            /\ WriteLoop(f, ProbeClaimed(loop[f], o))
    /\ UNCHANGED <<task, grant>>

HoldsProbe(r, o, e) ==
    /\ r.probe_state = "running" /\ r.probe_owner = o /\ r.probe_epoch = e
    /\ Live(r.probe_lease)

CompleteConvergenceProbe(f, o, e) ==
    /\ HoldsProbe(loop[f], o, e)
    /\ MayTurn(f, "reflection_completed", "reflection_resolved")
    /\ WriteLoop(f, ProbeEnded(loop[f], "reflection_resolved", "completed", "null"))
    /\ UNCHANGED <<task, grant>>

RetriesLeft(r) == r.probe_attempt < MaxProbeAttempts

FailConvergenceProbe(f, o, e, retryable) ==
    LET again == retryable /\ RetriesLeft(loop[f])
        target == IF again THEN "reflection_required" ELSE "checkpoint_required"
    IN  /\ HoldsProbe(loop[f], o, e)
        /\ MayTurn(f, "reflection_failed", target)
        /\ WriteLoop(f, ProbeEnded(loop[f], target, IF again THEN "retryable" ELSE "failed",
                                   IF again THEN "future" ELSE "null"))
        /\ UNCHANGED <<task, grant>>

----------------------------------------------------------------------------
(* Continuation grants. *)

\* Mutant: the grant that was out stays active.
Superseded_Kept(g) == g
Superseded(g) == Revoked(g)

\* The bindings are the row's own columns: a caller with others is refused.
IssueContinuationGrant(f, g) ==
    /\ grant[g].state = "unused"
    /\ MayTurn(f, "grant_issued", "grant_ready")
    /\ grant' = [h \in Grants |->
                   IF h = g
                   THEN [state |-> "active", loop |-> f, generation |-> loop[f].fix_generation,
                         revision |-> task.revision, basis |-> loop[f].basis,
                         expires |-> "future"]
                   ELSE IF h = loop[f].active_grant /\ grant[h].state = "active"
                        THEN Superseded(grant[h]) ELSE grant[h]]
    /\ WriteLoop(f, [loop[f] EXCEPT !.status = "grant_ready", !.active_grant = g])
    /\ UNCHANGED task

Consumable(f, g) ==
    /\ grant[g].state = "active" /\ grant[g].loop = f /\ Live(grant[g].expires)
    /\ grant[g].revision = task.revision /\ grant[g].basis = loop[f].basis
    /\ grant[g].generation = loop[f].fix_generation
    /\ loop[f].active_grant = g

\* Mutant: the row is given the grant's current generation, not its next one.
Continued_NotAdvanced(r, n) == [r EXCEPT !.status = "active_generation", !.active_grant = NoGrant]
Continued(r, n) ==
    [r EXCEPT !.status = "active_generation", !.fix_generation = n, !.active_grant = NoGrant]

ConsumeContinuationGrant(f, g) ==
    /\ Consumable(f, g)
    /\ MayTurn(f, "grant_consumed", "active_generation")
    /\ loop[f].fix_generation < MaxGeneration
    /\ grant' = [grant EXCEPT ![g].state = "consumed"]
    /\ WriteLoop(f, Continued(loop[f], grant[g].generation + 1))
    /\ UNCHANGED task

----------------------------------------------------------------------------
(* The clock. *)

TimePasses ==
    \/ \E f \in Loops :
          /\ \/ /\ Live(loop[f].probe_lease)
                /\ WriteLoop(f, [loop[f] EXCEPT !.probe_lease = "past"])
             \/ /\ Live(loop[f].probe_next)
                /\ WriteLoop(f, [loop[f] EXCEPT !.probe_next = "past"])
          /\ UNCHANGED <<task, grant>>
    \/ \E g \in Grants :
          /\ grant[g].state = "active" /\ Live(grant[g].expires)
          /\ grant' = [grant EXCEPT ![g].expires = "past"]
          /\ UNCHANGED <<task, loop>>

----------------------------------------------------------------------------

\* The first projection of the contract has been made: every command of the
\* guard makes it before anything else.
Init ==
    /\ \E r \in Revisions :
          /\ task = [revision |-> r, state |-> "idle"]
          /\ grant = [g \in Grants |->
                        [state |-> "unused", loop |-> NoLoop, generation |-> 0,
                         revision |-> r, basis |-> NoBasis, expires |-> "null"]]
    /\ loop = [f \in Loops |-> AbsentLoop]

Reported(f) == IF Exists(f) THEN {loop[f].fix_generation} ELSE 0..MaxGeneration

ReviewOperation(f) ==
    \/ \E n \in Reported(f), counted, directional \in BOOLEAN, b \in Bases, e \in Evidence :
          RecordConvergenceReview(f, n, counted, directional, b, e)
    \/ \E b \in Bases : DeclareConvergenceDistinct(f, b) \/ RecordConvergenceEvidence(f, b)

DecisionOperation(f) ==
    \/ \E d \in Decisions : RecordConvergenceDecision(f, d)
    \/ RecordConvergenceCheckpoint(f)
    \/ RequestConvergenceGeneration(f)
    \/ \E d \in {"finish", "human_decision"} : ResolveConvergenceLoop(f, d)

ProbeOperation(f) ==
    \/ \E due \in {"future", "past"} : RequestConvergenceProbe(f, due)
    \/ \E o \in Owners :
          \/ ClaimConvergenceProbe(f, o)
          \/ \E e \in 1..MaxClaims :
                \/ CompleteConvergenceProbe(f, o, e)
                \/ \E retryable \in BOOLEAN : FailConvergenceProbe(f, o, e, retryable)

GrantOperation(f) ==
    \E g \in Grants : IssueContinuationGrant(f, g) \/ ConsumeContinuationGrant(f, g)

Next ==
    \/ \E r \in Revisions : UpsertConvergenceTask(r)
    \/ \E f \in Loops :
          ReviewOperation(f) \/ DecisionOperation(f) \/ ProbeOperation(f) \/ GrantOperation(f)
    \/ TimePasses

Spec == Init /\ [][Next]_vars

----------------------------------------------------------------------------
(* Properties. *)

\* Every row has the shape the schema declares.
TypeOK ==
    /\ task \in [revision : Revisions, state : {"idle", "terminal"}]
    /\ loop \in [Loops -> LoopRow]
    /\ grant \in [Grants -> GrantRow]

\* The two tables agree on which grant is out, although seven operations write
\* one of the two columns and a grant may outlive a review, a decision or a
\* checkpoint: an active grant is its loop's grant and carries the task's present
\* revision, a loop's grant is active, and a loop that is ready has a grant for
\* the very generation it is in.
GrantsMatchLoops ==
    /\ \A g \in Grants : grant[g].state = "active" =>
          /\ grant[g].loop \in Loops /\ loop[grant[g].loop].active_grant = g
          /\ grant[g].revision = task.revision
          /\ grant[g].generation <= loop[grant[g].loop].fix_generation
    /\ \A f \in Loops :
          /\ loop[f].active_grant # NoGrant => HoldsActive(f)
          /\ loop[f].status = "grant_ready" =>
                /\ loop[f].active_grant # NoGrant
                /\ grant[loop[f].active_grant].generation = loop[f].fix_generation

\* The probe columns agree with one another whatever the status of the loop has
\* become: a running probe, and no other, has an owner and a lease; a claim is
\* awaited exactly when one is scheduled; each claim is one attempt and one epoch.
ProbeColumnsAgree ==
    \A f \in Loops : LET r == loop[f] IN
        /\ r.probe_state = "running" <=> r.probe_owner # NoOwner
        /\ r.probe_state = "running" <=> r.probe_lease # "null"
        /\ r.probe_state \in {"pending", "retryable"} <=> r.probe_next # "null"
        /\ r.probe_attempt = r.probe_epoch
        /\ r.probe_state \in {"running", "retryable", "completed", "failed"} => r.probe_epoch > 0

\* No two grants ever opened the same generation of a loop, and what a spent
\* grant opened has been reached (the one-use promise of consumeContinuationGrant).
SpentGrantsDiffer ==
    /\ \A g \in Grants : grant[g].state = "consumed" =>
          grant[g].loop \in Loops /\ grant[g].generation < loop[grant[g].loop].fix_generation
    /\ \A g, h \in Grants :
          /\ g # h /\ grant[g].state = "consumed" /\ grant[h].state = "consumed"
          /\ grant[g].loop = grant[h].loop
          => grant[g].generation # grant[h].generation

\* A loop that failed twice has lost the free pass for good, whatever is reviewed,
\* decided, projected or reflected upon later (current_decision is written by four
\* operations, and a review keeps the one it finds).
RepeatedFailureWithholdsPass ==
    \A f \in Loops : loop[f].failure_count = FailureBudget => loop[f].current_decision # "pass"

\* Past the failure budget a further generation is opened by spending a grant
\* written for the present one, and in no other way.
BudgetNeedsGrant ==
    [][\A f \in Loops :
          /\ loop[f].failure_count = FailureBudget
          /\ loop'[f].fix_generation # loop[f].fix_generation
          => \E g \in Grants :
                /\ grant[g].state = "active" /\ grant'[g].state = "consumed"
                /\ grant[g].loop = f /\ grant[g].generation = loop[f].fix_generation]_vars

\* While a probe's lease is live no other process is given the probe, whatever
\* reviews, decisions and projections do to the loop meanwhile.
LiveProbeIsExclusive ==
    [][\A f \in Loops : Live(loop[f].probe_lease) =>
          /\ loop'[f].probe_owner \in {loop[f].probe_owner, NoOwner}
          /\ loop'[f].probe_epoch = loop[f].probe_epoch]_vars

----------------------------------------------------------------------------
(* The ledger of generations. *)

PermitState(s) ==
    CASE s = "active" -> "live" [] s = "consumed" -> "spent" [] s = "revoked" -> "void"
      [] OTHER -> s

LedgerGeneration == [f \in Loops |-> IF Exists(f) THEN loop[f].fix_generation ELSE -1]
LedgerPermit ==
    [g \in Grants |-> [state |-> PermitState(grant[g].state),
                       loop |-> grant[g].loop, generation |-> grant[g].generation]]

Ledger == INSTANCE GenerationLedger WITH
    Permits <- Grants, generation <- LedgerGeneration, permit <- LedgerPermit

\* Generations are opened one at a time, by a pass or by the one grant that is
\* out and was written for the present generation; a grant that was spent,
\* superseded or revoked by a changed contract never comes back.
ImplementsLedger == Ledger!Spec

\* The transition table lets no event leave "terminal" (validateTransition).
TerminalIsFinal ==
    [][\A f \in Loops : loop[f].status = "terminal" => loop'[f].status = "terminal"]_vars
=============================================================================
