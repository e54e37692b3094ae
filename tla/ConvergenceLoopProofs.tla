----------------------- MODULE ConvergenceLoopProofs -----------------------
(***************************************************************************)
(* Theorems about the convergence store, for any loops, grants, owners,    *)
(* revisions, bases and evidence and any bounds.                           *)
(*                                                                         *)
(* Most operations write one loop row and no grant: RowMove relates such a *)
(* row to the row it leaves, and RowMoveKeeps says what all of them have   *)
(* in common.  The three operations that write grants (a changed           *)
(* projection, issue, consume) are treated one by one.                     *)
(***************************************************************************)
EXTENDS ConvergenceLoop, TLAPS

\* The row s that an operation on the loop row alone may leave in place of r.
ReviewMove(r, s) ==
    \/ \E n \in 0..MaxGeneration, counted, directional \in BOOLEAN, b \in Bases, e \in Evidence :
          s = Reviewed(IF r.status # "absent" THEN r
                       ELSE [AbsentLoop EXCEPT !.fix_generation = n], counted, directional, b, e)
    \/ /\ r.status = "absent"
       /\ \E b \in Bases : s = [AbsentLoop EXCEPT !.status = "generation_closed", !.basis = b]
    \/ r.status # "absent" /\ \E b \in Bases : s = [r EXCEPT !.basis = b]

DecisionMove(r, s) ==
    /\ r.status # "absent"
    /\ \/ \E d \in Decisions \ {"pass"} :
             s = [r EXCEPT !.status = DecisionTarget(d), !.current_decision = d]
       \/ s = [r EXCEPT !.status = "direction_approved"]
       \/ /\ r.current_decision = "pass"
          /\ s = [r EXCEPT !.status = "active_generation", !.fix_generation = @ + 1]
       \/ \E d \in {"finish", "human_decision"} :
             s = [r EXCEPT !.status = "terminal", !.current_decision = d]

ProbeMove(r, s) ==
    /\ r.status # "absent"
    /\ \/ ~LiveProbe(r) /\ \E due \in {"future", "past"} : s = ProbeRequested(r, due)
       \/ ProbeExpired(r) /\ s = ProbeEnded(r, "checkpoint_required", "failed", "null")
       \/ (ProbeDue(r) \/ ProbeExpired(r)) /\ \E o \in Owners : s = ProbeClaimed(r, o)
       \/ /\ r.probe_state = "running"
          /\ \/ s = ProbeEnded(r, "reflection_resolved", "completed", "null")
             \/ s = ProbeEnded(r, "reflection_required", "retryable", "future")
             \/ s = ProbeEnded(r, "checkpoint_required", "failed", "null")

ClockMove(r, s) ==
    \/ Live(r.probe_lease) /\ s = [r EXCEPT !.probe_lease = "past"]
    \/ Live(r.probe_next) /\ s = [r EXCEPT !.probe_next = "past"]

RowMove(r, s) == ReviewMove(r, s) \/ DecisionMove(r, s) \/ ProbeMove(r, s) \/ ClockMove(r, s)

LoopStep ==
    /\ \E f \in Loops : \E s : loop' = [loop EXCEPT ![f] = s] /\ RowMove(loop[f], s)
    /\ UNCHANGED task \/ task' = [task EXCEPT !.state = "terminal"]
    /\ UNCHANGED grant

----------------------------------------------------------------------------
(* The inductive invariant. *)

ProbeAgrees(r) ==
    /\ r.probe_state = "running" <=> r.probe_owner # NoOwner
    /\ r.probe_state = "running" <=> r.probe_lease # "null"
    /\ r.probe_state \in {"pending", "retryable"} <=> r.probe_next # "null"
    /\ r.probe_attempt = r.probe_epoch
    /\ r.probe_state \in {"running", "retryable", "completed", "failed"} => r.probe_epoch > 0

RowOK(r) ==
    /\ r \in LoopRow
    /\ ProbeAgrees(r)
    /\ r.failure_count = FailureBudget => r.current_decision # "pass"
    /\ r.status = "absent" => r = AbsentLoop

RowsOK == \A f \in Loops : RowOK(loop[f])

LoopInv ==
    /\ TypeOK
    /\ RowsOK
    /\ GrantsMatchLoops
    /\ SpentGrantsDiffer

----------------------------------------------------------------------------
(* The transition table and the row moves. *)

\* No Breaker decision takes a loop to generation_closed: a pass is never stored.
LEMMA NoPassIsRecorded ==
    ASSUME NEW s, ValidTransition(s, "breaker_triggered", "generation_closed") PROVE FALSE
BY SMTT(30) DEF ValidTransition, PreservingEvents, Edges, Working, Stops

\* A row that was never inserted is in order, and so is one freshly inserted.
LEMMA AbsentOK == RowOK(AbsentLoop)
BY LoopAssumption DEF RowOK, LoopRow, AbsentLoop, ProbeAgrees, FailureBudget, Decisions,
   ProbeStates, Timer

\* A review leaves a row in order, keeps grant and probe columns, and closes it.
LEMMA ReviewedOK ==
    ASSUME NEW r, r \in LoopRow, ProbeAgrees(r),
           r.failure_count = FailureBudget => r.current_decision # "pass",
           NEW counted \in BOOLEAN, NEW directional \in BOOLEAN, NEW b \in Bases, NEW e \in Evidence
    PROVE  LET s == Reviewed(r, counted, directional, b, e) IN
           /\ RowOK(s)
           /\ s.status = "generation_closed"
           /\ s.active_grant = r.active_grant /\ s.fix_generation = r.fix_generation
           /\ s.probe_owner = r.probe_owner /\ s.probe_epoch = r.probe_epoch
<1> DEFINE s == Reviewed(r, counted, directional, b, e)
           failed == counted /\ e \notin r.evidence
           failures == IF failed /\ r.failure_count < FailureBudget
                       THEN r.failure_count + 1 ELSE r.failure_count
           decision == ReviewDecision(r, failed, failures, directional)
<1>1. failures \in 0..FailureBudget
  BY DEF LoopRow, FailureBudget
<1>2. decision \in Decisions
  BY DEF LoopRow, ReviewDecision, Decisions
<1>3. failures = FailureBudget => decision # "pass"
  <2>1. CASE failed
    BY <1>1, <2>1 DEF ReviewDecision, FailureBudget
  <2>2. CASE ~failed
    BY <2>2 DEF ReviewDecision
  <2> QED BY <2>1, <2>2
<1>4. s = [r EXCEPT !.status = "generation_closed", !.failure_count = failures,
                    !.current_decision = decision, !.basis = b, !.evidence = @ \cup {e}]
  BY DEF Reviewed
<1> HIDE DEF failures, decision, s
<1>5. s \in LoopRow
  BY <1>1, <1>2, <1>4 DEF LoopRow, Statuses
<1>6. ProbeAgrees(s)
  BY <1>4 DEF ProbeAgrees, LoopRow
<1>7. s.failure_count = FailureBudget => s.current_decision # "pass"
  BY <1>3, <1>4 DEF LoopRow
<1>8. /\ s.status = "generation_closed" /\ s.active_grant = r.active_grant
      /\ s.fix_generation = r.fix_generation
      /\ s.probe_owner = r.probe_owner /\ s.probe_epoch = r.probe_epoch
  BY <1>4 DEF LoopRow
<1> QED BY <1>5, <1>6, <1>7, <1>8 DEF RowOK, s

\* The status a decision other than a pass writes is one of the table's, and not
\* grant_ready.
LEMMA DecisionTargets ==
    ASSUME NEW d \in Decisions \ {"pass"}
    PROVE  DecisionTarget(d) \in Statuses \ {"grant_ready"}
BY DEF Decisions, DecisionTarget, Statuses

\* Every row move leaves a row in order.
LEMMA RowMoveOK ==
    ASSUME NEW r, RowOK(r), NEW s, RowMove(r, s) PROVE RowOK(s)
<1> USE LoopAssumption
<1>1. CASE ReviewMove(r, s)
  <2>1. ASSUME NEW n \in 0..MaxGeneration, NEW counted \in BOOLEAN, NEW directional \in BOOLEAN,
               NEW b \in Bases, NEW e \in Evidence,
               s = Reviewed(IF r.status # "absent" THEN r
                            ELSE [AbsentLoop EXCEPT !.fix_generation = n],
                            counted, directional, b, e)
        PROVE  RowOK(s)
    <3>1. CASE r.status # "absent"
      BY <2>1, <3>1, ReviewedOK DEF RowOK
    <3>2. CASE r.status = "absent"
      <4> DEFINE q == [AbsentLoop EXCEPT !.fix_generation = n]
      <4>1. q \in LoopRow /\ ProbeAgrees(q) /\ q.failure_count # FailureBudget
        BY AbsentOK DEF RowOK, LoopRow, AbsentLoop, ProbeAgrees, FailureBudget
      <4> HIDE DEF q
      <4>2. s = Reviewed(q, counted, directional, b, e)
        BY <2>1, <3>2 DEF q
      <4> QED BY <4>1, <4>2, ReviewedOK
    <3> QED BY <3>1, <3>2
  <2>2. ASSUME NEW b \in Bases,
               s = [AbsentLoop EXCEPT !.status = "generation_closed", !.basis = b]
        PROVE  RowOK(s)
    BY <2>2, AbsentOK DEF RowOK, LoopRow, AbsentLoop, ProbeAgrees, FailureBudget, Statuses
  <2>3. ASSUME NEW b \in Bases, r.status # "absent", s = [r EXCEPT !.basis = b] PROVE RowOK(s)
    BY <2>3 DEF RowOK, LoopRow, ProbeAgrees
  <2> QED BY <1>1, <2>1, <2>2, <2>3 DEF ReviewMove
<1>2. CASE DecisionMove(r, s)
  <2>1. ASSUME NEW d \in Decisions \ {"pass"},
               s = [r EXCEPT !.status = DecisionTarget(d), !.current_decision = d]
        PROVE  RowOK(s)
    <3>1. DecisionTarget(d) \in Statuses /\ DecisionTarget(d) # "absent"
      BY DecisionTargets DEF Statuses
    <3> QED BY <2>1, <3>1 DEF RowOK, LoopRow, ProbeAgrees
  <2>2. CASE s = [r EXCEPT !.status = "direction_approved"]
    BY <2>2 DEF RowOK, LoopRow, ProbeAgrees, Statuses
  <2>3. CASE /\ r.current_decision = "pass"
             /\ s = [r EXCEPT !.status = "active_generation", !.fix_generation = @ + 1]
    <3>1. r.fix_generation + 1 \in Nat
      BY DEF RowOK, LoopRow
    <3>2. s = [r EXCEPT !.status = "active_generation", !.fix_generation = r.fix_generation + 1]
      BY <2>3
    <3>3. s \in LoopRow
      BY <3>1, <3>2 DEF RowOK, LoopRow, Statuses
    <3>4. ProbeAgrees(s)
      BY <3>2 DEF RowOK, LoopRow, ProbeAgrees
    <3>5. s.status # "absent" /\ (s.failure_count = FailureBudget => s.current_decision # "pass")
      BY <3>2 DEF RowOK, LoopRow
    <3> QED BY <3>3, <3>4, <3>5 DEF RowOK
  <2>4. ASSUME NEW d \in {"finish", "human_decision"},
               s = [r EXCEPT !.status = "terminal", !.current_decision = d]
        PROVE  RowOK(s)
    BY <2>4 DEF RowOK, LoopRow, ProbeAgrees, Statuses, Decisions
  <2> QED BY <1>2, <2>1, <2>2, <2>3, <2>4 DEF DecisionMove
<1>3. CASE ProbeMove(r, s)
  <2> USE DEF RowOK, LoopRow, ProbeAgrees, Statuses, ProbeStates, Timer
  <2>1. ASSUME ~LiveProbe(r), NEW due \in {"future", "past"}, s = ProbeRequested(r, due)
        PROVE  RowOK(s)
    BY <2>1 DEF LiveProbe, ProbeRequested
  <2>2. ASSUME r.probe_state = "running",
               \/ s = ProbeEnded(r, "checkpoint_required", "failed", "null")
               \/ s = ProbeEnded(r, "reflection_resolved", "completed", "null")
               \/ s = ProbeEnded(r, "reflection_required", "retryable", "future")
        PROVE  RowOK(s)
    <3>1. r.probe_epoch > 0
      BY <2>2
    <3>2. CASE s = ProbeEnded(r, "checkpoint_required", "failed", "null")
      BY <3>1, <3>2 DEF ProbeEnded
    <3>3. CASE s = ProbeEnded(r, "reflection_resolved", "completed", "null")
      BY <3>1, <3>3 DEF ProbeEnded
    <3>4. CASE s = ProbeEnded(r, "reflection_required", "retryable", "future")
      BY <3>1, <3>4 DEF ProbeEnded
    <3> QED BY <2>2, <3>2, <3>3, <3>4
  <2>3. ASSUME NEW o \in Owners, s = ProbeClaimed(r, o), r.status # "absent" PROVE RowOK(s)
    <3>1. r.probe_epoch + 1 \in Nat /\ r.probe_epoch + 1 > 0
      OBVIOUS
    <3>2. s \in LoopRow
      BY <2>3, <3>1 DEF ProbeClaimed
    <3>3. ProbeAgrees(s)
      BY <2>3, <3>1 DEF ProbeClaimed
    <3> QED BY <2>3, <3>2, <3>3 DEF ProbeClaimed
  <2> QED BY <1>3, <2>1, <2>2, <2>3 DEF ProbeMove, ProbeExpired
<1>4. CASE ClockMove(r, s)
  <2>1. CASE Live(r.probe_lease) /\ s = [r EXCEPT !.probe_lease = "past"]
    BY <2>1 DEF Live, RowOK, LoopRow, ProbeAgrees, Timer, AbsentLoop
  <2>2. CASE Live(r.probe_next) /\ s = [r EXCEPT !.probe_next = "past"]
    BY <2>2 DEF Live, RowOK, LoopRow, ProbeAgrees, Timer, AbsentLoop
  <2> QED BY <1>4, <2>1, <2>2 DEF ClockMove
<1> QED BY <1>1, <1>2, <1>3, <1>4 DEF RowMove

\* What every row move has in common: the row exists afterwards and keeps its grant;
\* its generation stays, is reported by the first review, or is opened by a pass;
\* a ready loop is not made; a live lease is not taken away by another owner.
LEMMA RowMoveKeeps ==
    ASSUME NEW r, RowOK(r), NEW s, RowMove(r, s)
    PROVE  /\ s.status # "absent"
           /\ s.active_grant = r.active_grant
           /\ s.status = "grant_ready" =>
                 r.status = "grant_ready" /\ s.fix_generation = r.fix_generation
           /\ \/ r.status = "absent" /\ s.fix_generation \in 0..MaxGeneration
              \/ r.status # "absent" /\ s.fix_generation = r.fix_generation
              \/ /\ r.status # "absent" /\ s.fix_generation = r.fix_generation + 1
                 /\ r.current_decision = "pass"
           /\ Live(r.probe_lease) =>
                 s.probe_owner \in {r.probe_owner, NoOwner} /\ s.probe_epoch = r.probe_epoch
<1> USE LoopAssumption
<1>1. CASE ReviewMove(r, s)
  <2>1. ASSUME NEW n \in 0..MaxGeneration, NEW counted \in BOOLEAN, NEW directional \in BOOLEAN,
               NEW b \in Bases, NEW e \in Evidence,
               s = Reviewed(IF r.status # "absent" THEN r
                            ELSE [AbsentLoop EXCEPT !.fix_generation = n],
                            counted, directional, b, e)
        PROVE  /\ s.status = "generation_closed" /\ s.active_grant = r.active_grant
               /\ s.probe_owner = r.probe_owner /\ s.probe_epoch = r.probe_epoch
               /\ IF r.status = "absent" THEN s.fix_generation = n
                  ELSE s.fix_generation = r.fix_generation
    <3>1. CASE r.status # "absent"
      BY <2>1, <3>1, ReviewedOK DEF RowOK
    <3>2. CASE r.status = "absent"
      <4> DEFINE q == [AbsentLoop EXCEPT !.fix_generation = n]
      <4>1. q \in LoopRow /\ ProbeAgrees(q) /\ q.failure_count # FailureBudget
        BY AbsentOK DEF RowOK, LoopRow, AbsentLoop, ProbeAgrees, FailureBudget
      <4>2. /\ q.fix_generation = n /\ q.active_grant = r.active_grant
            /\ q.probe_owner = r.probe_owner /\ q.probe_epoch = r.probe_epoch
        BY <3>2 DEF RowOK, AbsentLoop
      <4> HIDE DEF q
      <4>3. s = Reviewed(q, counted, directional, b, e)
        BY <2>1, <3>2 DEF q
      <4> QED BY <3>2, <4>1, <4>2, <4>3, ReviewedOK
    <3> QED BY <3>1, <3>2
  <2>2. ASSUME r.status = "absent", NEW b \in Bases,
               s = [AbsentLoop EXCEPT !.status = "generation_closed", !.basis = b]
        PROVE  /\ s.status = "generation_closed" /\ s.active_grant = r.active_grant
               /\ s.probe_owner = r.probe_owner /\ s.probe_epoch = r.probe_epoch
               /\ s.fix_generation = 0
    BY <2>2 DEF RowOK, AbsentLoop
  <2>3. ASSUME NEW b \in Bases, r.status # "absent", s = [r EXCEPT !.basis = b]
        PROVE  /\ s.status = r.status /\ s.active_grant = r.active_grant
               /\ s.probe_owner = r.probe_owner /\ s.probe_epoch = r.probe_epoch
               /\ s.fix_generation = r.fix_generation
    BY <2>3 DEF RowOK, LoopRow
  <2>4. 0 \in 0..MaxGeneration
    OBVIOUS
  <2> QED BY <1>1, <2>1, <2>2, <2>3, <2>4 DEF ReviewMove
<1>2. CASE DecisionMove(r, s)
  <2>1. ASSUME NEW d \in Decisions \ {"pass"},
               s = [r EXCEPT !.status = DecisionTarget(d), !.current_decision = d]
        PROVE  s.status # "absent" /\ s.status # "grant_ready"
    BY <2>1, DecisionTargets DEF Statuses, RowOK, LoopRow
  <2>2. /\ s.active_grant = r.active_grant
        /\ s.probe_owner = r.probe_owner /\ s.probe_epoch = r.probe_epoch
    BY <1>2 DEF DecisionMove, RowOK, LoopRow
  <2>3. s.status # "absent" /\ s.status # "grant_ready"
    BY <1>2, <2>1 DEF DecisionMove, RowOK, LoopRow
  <2>4. \/ s.fix_generation = r.fix_generation
        \/ s.fix_generation = r.fix_generation + 1 /\ r.current_decision = "pass"
    BY <1>2 DEF DecisionMove, RowOK, LoopRow
  <2> QED BY <1>2, <2>2, <2>3, <2>4 DEF DecisionMove
<1>3. CASE ProbeMove(r, s)
  <2> DEFINE Kept == /\ s.active_grant = r.active_grant /\ s.fix_generation = r.fix_generation
                     /\ s.status # "absent" /\ s.status # "grant_ready"
             Held == Live(r.probe_lease) =>
                       s.probe_owner \in {r.probe_owner, NoOwner} /\ s.probe_epoch = r.probe_epoch
  <2>1. Live(r.probe_lease) => LiveProbe(r) /\ ~ProbeDue(r) /\ ~ProbeExpired(r)
    BY DEF RowOK, ProbeAgrees, Live, LiveProbe, ProbeDue, ProbeExpired, Elapsed
  <2>2. ASSUME ~LiveProbe(r), NEW due, s = ProbeRequested(r, due) PROVE Kept /\ Held
    <3>1. Kept
      BY <2>2 DEF ProbeRequested, RowOK, LoopRow
    <3>2. Held
      BY <2>1, <2>2
    <3> QED BY <3>1, <3>2
  <2>3. ASSUME NEW a \in {"checkpoint_required", "reflection_resolved", "reflection_required"},
               NEW b, NEW c, s = ProbeEnded(r, a, b, c)
        PROVE  Kept /\ Held
    BY <2>3 DEF ProbeEnded, RowOK, LoopRow
  <2>4. ASSUME ProbeDue(r) \/ ProbeExpired(r), NEW o \in Owners, s = ProbeClaimed(r, o)
        PROVE  Kept /\ Held
    BY <2>1, <2>4 DEF ProbeClaimed, RowOK, LoopRow
  <2> HIDE DEF Kept, Held
  <2>5. Kept /\ Held
    BY <1>3, <2>2, <2>3, <2>4 DEF ProbeMove
  <2>6. r.status # "absent"
    BY <1>3 DEF ProbeMove
  <2> QED BY <2>5, <2>6 DEF Kept, Held
<1>4. CASE ClockMove(r, s)
  BY <1>4 DEF ClockMove, RowOK, LoopRow, AbsentLoop, Live
<1> QED BY <1>1, <1>2, <1>3, <1>4 DEF RowMove

----------------------------------------------------------------------------
(* The kinds of steps. *)

GrantExpires ==
    /\ \E g \in Grants : grant' = [grant EXCEPT ![g].expires = "past"]
    /\ UNCHANGED <<task, loop>>

\* An operation of a probe's process is a row move.
LEMMA ProbeOperationMoves ==
    ASSUME RowsOK, NEW f \in Loops, ProbeOperation(f)
    PROVE  LoopStep
<1> DEFINE Moves == (\E s : WriteLoop(f, s) /\ ProbeMove(loop[f], s)) /\ UNCHANGED <<task, grant>>
<1>1. ASSUME NEW due \in {"future", "past"}, RequestConvergenceProbe(f, due) PROVE Moves
  BY <1>1 DEF RequestConvergenceProbe, MayTurn, Exists, ProbeMove
<1>2. ASSUME NEW o \in Owners, ClaimConvergenceProbe(f, o) PROVE Moves
  <2>1. CASE ProbeExhausted(loop[f])
    BY <1>2, <2>1 DEF ClaimConvergenceProbe, MayTurn, Exists, ProbeMove, ProbeExhausted
  <2>2. CASE ~ProbeExhausted(loop[f])
    <3>1. loop[f].status # "absent"
      BY <1>2, <2>2 DEF ClaimConvergenceProbe, RowsOK, RowOK, AbsentLoop, ProbeDue, ProbeExpired
    <3> QED BY <1>2, <2>2, <3>1 DEF ClaimConvergenceProbe, ProbeMove
  <2> QED BY <2>1, <2>2
<1>3. ASSUME NEW o \in Owners, NEW e \in 1..MaxClaims, CompleteConvergenceProbe(f, o, e) PROVE Moves
  BY <1>3 DEF CompleteConvergenceProbe, MayTurn, Exists, HoldsProbe, ProbeMove
<1>4. ASSUME NEW o \in Owners, NEW e \in 1..MaxClaims, NEW b \in BOOLEAN,
             FailConvergenceProbe(f, o, e, b)
      PROVE  Moves
  BY <1>4 DEF FailConvergenceProbe, MayTurn, Exists, HoldsProbe, ProbeMove
<1>5. Moves
  BY <1>1, <1>2, <1>3, <1>4 DEF ProbeOperation
<1> QED BY <1>5 DEF LoopStep, RowMove, WriteLoop

\* An operation that reviews or decides is a row move.
LEMMA OtherOperationMoves ==
    ASSUME NEW f \in Loops, ReviewOperation(f) \/ DecisionOperation(f)
    PROVE  LoopStep
<1> DEFINE Reviews == /\ \E s : WriteLoop(f, s) /\ ReviewMove(loop[f], s)
                      /\ UNCHANGED <<task, grant>>
           Decides == /\ \E s : WriteLoop(f, s) /\ DecisionMove(loop[f], s)
                      /\ UNCHANGED task \/ task' = [task EXCEPT !.state = "terminal"]
                      /\ UNCHANGED grant
<1>1. ASSUME NEW n \in Reported(f), NEW counted \in BOOLEAN, NEW directional \in BOOLEAN,
             NEW b \in Bases, NEW e \in Evidence,
             RecordConvergenceReview(f, n, counted, directional, b, e)
      PROVE  Reviews
  <2> DEFINE m == IF Exists(f) THEN 0 ELSE n
             s == Reviewed(IF loop[f].status # "absent" THEN loop[f]
                           ELSE [AbsentLoop EXCEPT !.fix_generation = m], counted, directional, b, e)
  <2>1. m \in 0..MaxGeneration
    BY LoopAssumption DEF Reported
  <2>2. WriteLoop(f, s) /\ UNCHANGED <<task, grant>>
    BY <1>1 DEF RecordConvergenceReview, Exists
  <2>3. ReviewMove(loop[f], s)
    BY <2>1 DEF ReviewMove
  <2> QED BY <2>2, <2>3
<1>2. ASSUME NEW b \in Bases, DeclareConvergenceDistinct(f, b) PROVE Reviews
  BY <1>2 DEF DeclareConvergenceDistinct, Exists, ReviewMove
<1>3. ASSUME NEW b \in Bases, RecordConvergenceEvidence(f, b) PROVE Reviews
  BY <1>3 DEF RecordConvergenceEvidence, Exists, ReviewMove
<1>4. ASSUME NEW d \in Decisions, RecordConvergenceDecision(f, d) PROVE Decides
  <2>1. d # "pass"
    BY <1>4, NoPassIsRecorded DEF RecordConvergenceDecision, MayTurn, DecisionTarget
  <2> QED BY <1>4, <2>1 DEF RecordConvergenceDecision, MayTurn, Exists, DecisionMove
<1>5. ASSUME RecordConvergenceCheckpoint(f) PROVE Decides
  BY <1>5 DEF RecordConvergenceCheckpoint, MayTurn, Exists, DecisionMove
<1>6. ASSUME RequestConvergenceGeneration(f) PROVE Decides
  BY <1>6 DEF RequestConvergenceGeneration, MayTurn, Exists, DecisionMove
<1>7. ASSUME NEW d \in {"finish", "human_decision"}, ResolveConvergenceLoop(f, d) PROVE Decides
  <2>1. UNCHANGED task \/ task' = [task EXCEPT !.state = "terminal"]
    BY <1>7 DEF ResolveConvergenceLoop
  <2> QED BY <1>7, <2>1 DEF ResolveConvergenceLoop, MayTurn, Exists, DecisionMove
<1>8. Reviews \/ Decides
  BY <1>1, <1>2, <1>3, <1>4, <1>5, <1>6, <1>7 DEF ReviewOperation, DecisionOperation
<1> QED BY <1>8 DEF LoopStep, RowMove, WriteLoop

\* A step writes one loop row by a move, or is one of the operations on grants.
LEMMA StepKinds ==
    ASSUME RowsOK, Next
    PROVE  \/ LoopStep
           \/ \E r \in Revisions : UpsertConvergenceTask(r)
           \/ \E f \in Loops, g \in Grants : IssueContinuationGrant(f, g)
           \/ \E f \in Loops, g \in Grants : ConsumeContinuationGrant(f, g)
           \/ GrantExpires
<1>1. TimePasses => LoopStep \/ GrantExpires
  <2>1. ASSUME NEW f \in Loops, Live(loop[f].probe_lease), UNCHANGED <<task, grant>>,
               WriteLoop(f, [loop[f] EXCEPT !.probe_lease = "past"])
        PROVE  LoopStep
    BY <2>1 DEF LoopStep, RowMove, ClockMove, WriteLoop
  <2>2. ASSUME NEW f \in Loops, Live(loop[f].probe_next), UNCHANGED <<task, grant>>,
               WriteLoop(f, [loop[f] EXCEPT !.probe_next = "past"])
        PROVE  LoopStep
    BY <2>2 DEF LoopStep, RowMove, ClockMove, WriteLoop
  <2> QED BY <2>1, <2>2 DEF TimePasses, GrantExpires
<1> QED BY <1>1, ProbeOperationMoves, OtherOperationMoves DEF Next, GrantOperation

----------------------------------------------------------------------------
(* Preservation of the invariant. *)

\* Facts about the rows that hold in every good state, for use at a glance.
LEMMA RowFacts ==
    ASSUME LoopInv, NEW f \in Loops
    PROVE  /\ RowOK(loop[f]) /\ loop[f] \in LoopRow
           /\ loop[f].fix_generation \in Nat
           /\ loop[f].active_grant \in Grants \cup {NoGrant}
           /\ loop[f].status = "absent" => loop[f].active_grant = NoGrant /\ loop[f].fix_generation = 0
BY DEF LoopInv, TypeOK, RowsOK, RowOK, LoopRow, AbsentLoop

\* An active grant's loop exists, and an inactive loop has no spent grant.
LEMMA GrantFacts ==
    ASSUME LoopInv, NEW g \in Grants
    PROVE  /\ grant[g] \in GrantRow /\ grant[g].generation \in Nat
           /\ grant[g].state \in {"active", "consumed"} =>
                 grant[g].loop \in Loops /\ loop[grant[g].loop].status # "absent"
<1>1. grant[g] \in GrantRow /\ grant[g].generation \in Nat
  BY DEF LoopInv, TypeOK, GrantRow
<1>2. CASE grant[g].state = "active"
  BY <1>1, <1>2, LoopAssumption, RowFacts DEF LoopInv, GrantsMatchLoops
<1>3. CASE grant[g].state = "consumed"
  <2>1. grant[g].loop \in Loops /\ grant[g].generation < loop[grant[g].loop].fix_generation
    BY <1>3 DEF LoopInv, SpentGrantsDiffer
  <2> QED BY <1>1, <2>1, RowFacts
<1> QED BY <1>1, <1>2, <1>3

\* The invariant holds initially.
LEMMA InvInit == Init => LoopInv
<1> SUFFICES ASSUME Init PROVE LoopInv
  OBVIOUS
<1> USE LoopAssumption
<1>1. \A f \in Loops : loop[f] = AbsentLoop
  BY DEF Init
<1>2. \A g \in Grants : grant[g].state = "unused"
  BY DEF Init
<1>3. RowsOK
  BY <1>1, AbsentOK DEF RowsOK
<1>4. TypeOK
  <2>1. task \in [revision : Revisions, state : {"idle", "terminal"}]
    BY DEF Init
  <2>2. loop \in [Loops -> LoopRow]
    BY AbsentOK DEF Init, RowOK
  <2>3. grant \in [Grants -> GrantRow]
    BY DEF Init, GrantRow, Timer
  <2> QED BY <2>1, <2>2, <2>3 DEF TypeOK
<1>5. GrantsMatchLoops
  BY <1>1, <1>2 DEF GrantsMatchLoops, AbsentLoop
<1>6. SpentGrantsDiffer
  BY <1>2 DEF SpentGrantsDiffer
<1> QED BY <1>3, <1>4, <1>5, <1>6 DEF LoopInv

\* A row move preserves the invariant.
LEMMA LoopStepKeeps == ASSUME LoopInv, LoopStep PROVE LoopInv'
<1> PICK f \in Loops : \E s : loop' = [loop EXCEPT ![f] = s] /\ RowMove(loop[f], s)
  BY DEF LoopStep
<1> PICK s : loop' = [loop EXCEPT ![f] = s] /\ RowMove(loop[f], s)
  OBVIOUS
<1>1. RowOK(loop[f]) /\ RowOK(s)
  BY RowFacts, RowMoveOK
<1>2. /\ loop'[f] = s
      /\ \A h \in Loops \ {f} : loop'[h] = loop[h]
      /\ grant' = grant /\ task'.revision = task.revision
      /\ task' \in [revision : Revisions, state : {"idle", "terminal"}]
  BY DEF LoopStep, LoopInv, TypeOK
<1>3. /\ s.active_grant = loop[f].active_grant
      /\ s.status = "grant_ready" =>
            loop[f].status = "grant_ready" /\ s.fix_generation = loop[f].fix_generation
      /\ s.fix_generation \in Nat /\ loop[f].fix_generation <= s.fix_generation
  <2>1. s.fix_generation \in Nat
    BY <1>1 DEF RowOK, LoopRow
  <2> QED BY <1>1, <2>1, RowMoveKeeps, RowFacts
<1> HIDE DEF LoopStep
<1>4. RowsOK'
  BY <1>1, <1>2 DEF RowsOK, LoopInv
<1>5. TypeOK'
  BY <1>1, <1>2 DEF LoopInv, TypeOK, RowOK
<1>6. GrantsMatchLoops'
  <2>1. ASSUME NEW g \in Grants, grant[g].state = "active"
        PROVE  /\ grant[g].loop \in Loops /\ loop'[grant[g].loop].active_grant = g
               /\ grant[g].revision = task'.revision
               /\ grant[g].generation <= loop'[grant[g].loop].fix_generation
    <3>1. /\ grant[g].loop \in Loops /\ loop[grant[g].loop].active_grant = g
          /\ grant[g].revision = task.revision
          /\ grant[g].generation <= loop[grant[g].loop].fix_generation
      BY <2>1 DEF LoopInv, GrantsMatchLoops
    <3>2. CASE grant[g].loop = f
      <4>1. grant[g].generation \in Nat /\ loop[f].fix_generation \in Nat
        BY GrantFacts, RowFacts
      <4> QED BY <1>2, <1>3, <3>1, <3>2, <4>1
    <3>3. CASE grant[g].loop # f
      BY <1>2, <3>1, <3>3
    <3> QED BY <3>2, <3>3
  <2>2. ASSUME NEW h \in Loops
        PROVE  /\ loop'[h].active_grant = loop[h].active_grant
               /\ loop'[h].status = "grant_ready" =>
                     loop[h].status = "grant_ready"
                     /\ loop'[h].fix_generation = loop[h].fix_generation
    BY <1>2, <1>3
  <2> QED BY <1>2, <2>1, <2>2 DEF LoopInv, GrantsMatchLoops, HoldsActive
<1>7. SpentGrantsDiffer'
  <2>1. ASSUME NEW g \in Grants, grant[g].state = "consumed"
        PROVE  grant[g].loop \in Loops /\ grant[g].generation < loop'[grant[g].loop].fix_generation
    <3>1. grant[g].loop \in Loops /\ grant[g].generation < loop[grant[g].loop].fix_generation
      BY <2>1 DEF LoopInv, SpentGrantsDiffer
    <3>2. grant[g].generation \in Nat /\ loop[f].fix_generation \in Nat
      BY GrantFacts, RowFacts
    <3> QED BY <1>2, <1>3, <3>1, <3>2
  <2> QED BY <1>2, <2>1 DEF LoopInv, SpentGrantsDiffer
<1> QED BY <1>4, <1>5, <1>6, <1>7 DEF LoopInv

\* A changed projection preserves the invariant: no grant stays active, and every
\* loop that had one is closed.
LEMMA UpsertKeeps ==
    ASSUME LoopInv, NEW r \in Revisions, UpsertConvergenceTask(r) PROVE LoopInv'
<1>1. \A g \in Grants : /\ grant'[g].state # "active"
                        /\ grant'[g].state = "consumed" => grant'[g] = grant[g]
  BY GrantFacts DEF UpsertConvergenceTask, Revoked, GrantRow
<1>2. \A f \in Loops : loop'[f] = IF HoldsActive(f) THEN Unready(loop[f]) ELSE loop[f]
  BY DEF UpsertConvergenceTask
<1>3. ASSUME NEW f \in Loops
      PROVE  /\ RowOK(loop'[f]) /\ loop'[f].active_grant = NoGrant
             /\ loop'[f].status # "grant_ready"
             /\ loop'[f].fix_generation = loop[f].fix_generation
  <2>1. CASE HoldsActive(f)
    <3>1. loop'[f] = Unready(loop[f])
      BY <1>2, <2>1
    <3>2. loop[f] \in LoopRow /\ RowOK(loop[f])
      BY RowFacts
    <3> QED BY <3>1, <3>2 DEF Unready, RowOK, LoopRow, ProbeAgrees, Statuses
  <2>2. CASE ~HoldsActive(f)
    <3>1. loop'[f] = loop[f]
      BY <1>2, <2>2
    <3>2. loop[f].active_grant = NoGrant
      BY <2>2 DEF LoopInv, GrantsMatchLoops
    <3>3. loop[f].status # "grant_ready"
      BY <3>2 DEF LoopInv, GrantsMatchLoops
    <3> QED BY <3>1, <3>2, <3>3, RowFacts
  <2> QED BY <2>1, <2>2
<1>4. RowsOK'
  BY <1>3 DEF RowsOK
<1>5. TypeOK'
  <2>1. task' \in [revision : Revisions, state : {"idle", "terminal"}]
    BY DEF UpsertConvergenceTask, LoopInv, TypeOK
  <2>2. loop' \in [Loops -> LoopRow]
    BY <1>3 DEF UpsertConvergenceTask, RowOK
  <2>3. grant' \in [Grants -> GrantRow]
    BY GrantFacts DEF UpsertConvergenceTask, Revoked, GrantRow
  <2> QED BY <2>1, <2>2, <2>3 DEF TypeOK
<1>6. GrantsMatchLoops'
  <2>1. \A g \in Grants : grant'[g].state # "active"
    BY <1>1
  <2>2. \A f \in Loops : loop'[f].active_grant = NoGrant
    BY <1>3
  <2>3. \A f \in Loops : loop'[f].status # "grant_ready"
    BY <1>3
  <2> QED BY <2>1, <2>2, <2>3 DEF GrantsMatchLoops
<1>7. SpentGrantsDiffer'
  BY <1>1, <1>3 DEF LoopInv, SpentGrantsDiffer
<1> QED BY <1>4, <1>5, <1>6, <1>7 DEF LoopInv

\* What an issue writes: the new grant, a revocation of the one that was out, and
\* the loop's two columns.  Before it, only that one was active for the loop.
LEMMA IssueEffects ==
    ASSUME LoopInv, NEW f \in Loops, NEW g \in Grants, IssueContinuationGrant(f, g)
    PROVE  /\ grant[g].state = "unused" /\ loop[f].status # "absent"
           /\ grant'[g] = [state |-> "active", loop |-> f, generation |-> loop[f].fix_generation,
                           revision |-> task.revision, basis |-> loop[f].basis,
                           expires |-> "future"]
           /\ \A h \in Grants \ {g} :
                 grant'[h] = IF grant[h].state = "active" /\ grant[h].loop = f
                             THEN Revoked(grant[h]) ELSE grant[h]
           /\ loop' = [loop EXCEPT ![f] = [loop[f] EXCEPT !.status = "grant_ready",
                                                         !.active_grant = g]]
           /\ task' = task
<1>1. /\ grant[g].state = "unused" /\ loop[f].status # "absent" /\ task' = task
      /\ loop' = [loop EXCEPT ![f] = [loop[f] EXCEPT !.status = "grant_ready",
                                                    !.active_grant = g]]
  BY DEF IssueContinuationGrant, WriteLoop, MayTurn, Exists
<1>2. grant'[g] = [state |-> "active", loop |-> f, generation |-> loop[f].fix_generation,
                   revision |-> task.revision, basis |-> loop[f].basis, expires |-> "future"]
  BY DEF IssueContinuationGrant
<1>3. ASSUME NEW h \in Grants \ {g}
      PROVE  grant'[h] = IF grant[h].state = "active" /\ grant[h].loop = f
                         THEN Revoked(grant[h]) ELSE grant[h]
  <2>1. grant'[h] = IF h = loop[f].active_grant /\ grant[h].state = "active"
                    THEN Revoked(grant[h]) ELSE grant[h]
    BY DEF IssueContinuationGrant, Superseded
  <2>2. grant[h].state = "active" => (grant[h].loop = f <=> h = loop[f].active_grant)
    <3>1. grant[h].state = "active" =>
             grant[h].loop \in Loops /\ loop[grant[h].loop].active_grant = h
      BY DEF LoopInv, GrantsMatchLoops
    <3>2. loop[f].active_grant # NoGrant => HoldsActive(f)
      BY DEF LoopInv, GrantsMatchLoops
    <3>3. h # NoGrant
      BY LoopAssumption
    <3> QED BY <3>1, <3>2, <3>3 DEF HoldsActive
  <2> QED BY <2>1, <2>2
<1> QED BY <1>1, <1>2, <1>3

\* Issuing a grant preserves the invariant.
LEMMA IssueKeeps ==
    ASSUME LoopInv, NEW f \in Loops, NEW g \in Grants, IssueContinuationGrant(f, g)
    PROVE  LoopInv'
<1> DEFINE s == [loop[f] EXCEPT !.status = "grant_ready", !.active_grant = g]
           new == [state |-> "active", loop |-> f, generation |-> loop[f].fix_generation,
                   revision |-> task.revision, basis |-> loop[f].basis, expires |-> "future"]
<1>1. /\ grant[g].state = "unused" /\ loop[f].status # "absent" /\ task' = task
      /\ grant'[g] = new /\ loop' = [loop EXCEPT ![f] = s]
  BY IssueEffects
<1>2. ASSUME NEW h \in Grants \ {g}
      PROVE  /\ grant'[h] \in GrantRow
             /\ grant'[h].state = "active" => grant'[h] = grant[h] /\ grant[h].loop # f
             /\ grant'[h].state = "consumed" => grant'[h] = grant[h]
             /\ grant[h].state = "active" /\ grant[h].loop # f => grant'[h] = grant[h]
  <2>1. grant'[h] = IF grant[h].state = "active" /\ grant[h].loop = f
                    THEN Revoked(grant[h]) ELSE grant[h]
    BY IssueEffects
  <2>2. grant[h] \in GrantRow
    BY GrantFacts
  <2> QED BY <2>1, <2>2 DEF Revoked, GrantRow
<1>3. RowOK(s) /\ s.status = "grant_ready" /\ s.active_grant = g
      /\ s.fix_generation = loop[f].fix_generation
  <2>1. RowOK(loop[f]) /\ loop[f] \in LoopRow
    BY RowFacts
  <2> QED BY <2>1 DEF RowOK, LoopRow, ProbeAgrees, Statuses
<1>4. loop' \in [Loops -> LoopRow] /\ loop'[f] = s /\ \A h \in Loops \ {f} : loop'[h] = loop[h]
  BY <1>1, <1>3 DEF LoopInv, TypeOK, RowOK
<1>5. new \in GrantRow /\ new.state = "active" /\ new.loop = f
      /\ new.generation = loop[f].fix_generation /\ new.revision = task.revision
  <2>1. loop[f] \in LoopRow /\ task.revision \in Revisions
    BY RowFacts DEF LoopInv, TypeOK
  <2> QED BY <2>1 DEF GrantRow, LoopRow, Timer
<1> HIDE DEF s, new
<1>6. TypeOK'
  <2>1. DOMAIN grant' = Grants /\ grant' = [h \in Grants |-> grant'[h]]
    BY DEF IssueContinuationGrant
  <2>2. grant' \in [Grants -> GrantRow]
    BY <1>1, <1>2, <1>5, <2>1
  <2> QED BY <1>1, <1>4, <2>2 DEF LoopInv, TypeOK
<1>7. RowsOK'
  BY <1>3, <1>4, RowFacts DEF RowsOK
<1>8. GrantsMatchLoops'
  <2>1. ASSUME NEW h \in Grants, grant'[h].state = "active"
        PROVE  /\ grant'[h].loop \in Loops /\ loop'[grant'[h].loop].active_grant = h
               /\ grant'[h].revision = task'.revision
               /\ grant'[h].generation <= loop'[grant'[h].loop].fix_generation
    <3>1. CASE h = g
      <4>1. loop[f].fix_generation \in Nat
        BY RowFacts
      <4> QED BY <1>1, <1>3, <1>4, <1>5, <3>1, <4>1
    <3>2. CASE h # g
      <4>1. grant'[h] = grant[h] /\ grant[h].state = "active" /\ grant[h].loop # f
        BY <1>2, <2>1, <3>2
      <4> QED BY <1>1, <1>4, <4>1 DEF LoopInv, GrantsMatchLoops
    <3> QED BY <3>1, <3>2
  <2>2. ASSUME NEW k \in Loops, loop'[k].active_grant # NoGrant PROVE HoldsActive(k)'
    <3>1. CASE k = f
      BY <1>1, <1>3, <1>4, <1>5, <3>1 DEF HoldsActive
    <3>2. CASE k # f
      <4>1. HoldsActive(k) /\ loop'[k] = loop[k]
        BY <1>4, <2>2, <3>2 DEF LoopInv, GrantsMatchLoops
      <4>2. PICK h \in Grants : /\ grant[h].state = "active" /\ grant[h].loop = k
                                /\ loop[k].active_grant = h
        BY <4>1 DEF HoldsActive
      <4>3. grant'[h] = grant[h]
        BY <1>1, <1>2, <3>2, <4>2
      <4> QED BY <4>1, <4>2, <4>3 DEF HoldsActive
    <3> QED BY <3>1, <3>2
  <2>3. ASSUME NEW k \in Loops, loop'[k].status = "grant_ready"
        PROVE  /\ loop'[k].active_grant # NoGrant
               /\ grant'[loop'[k].active_grant].generation = loop'[k].fix_generation
    <3>1. CASE k = f
      BY <1>1, <1>3, <1>4, <1>5, <3>1, LoopAssumption
    <3>2. CASE k # f
      <4>1. /\ loop'[k] = loop[k] /\ loop[k].active_grant # NoGrant /\ HoldsActive(k)
            /\ grant[loop[k].active_grant].generation = loop[k].fix_generation
        BY <1>4, <2>3, <3>2 DEF LoopInv, GrantsMatchLoops
      <4>2. PICK h \in Grants : /\ grant[h].state = "active" /\ grant[h].loop = k
                                /\ loop[k].active_grant = h
        BY <4>1 DEF HoldsActive
      <4>3. grant'[h] = grant[h]
        BY <1>1, <1>2, <3>2, <4>2
      <4> QED BY <4>1, <4>2, <4>3
    <3> QED BY <3>1, <3>2
  <2> QED BY <2>1, <2>2, <2>3 DEF GrantsMatchLoops
<1>9. SpentGrantsDiffer'
  <2>1. \A h \in Grants : grant'[h].state = "consumed" => grant'[h] = grant[h]
    BY <1>1, <1>2, <1>5
  <2>2. \A k \in Loops : loop'[k].fix_generation = loop[k].fix_generation
    BY <1>3, <1>4
  <2> QED BY <2>1, <2>2 DEF LoopInv, SpentGrantsDiffer
<1> QED BY <1>6, <1>7, <1>8, <1>9 DEF LoopInv

\* Consuming a grant preserves the invariant: every grant spent before it opened an
\* earlier generation.
LEMMA ConsumeKeeps ==
    ASSUME LoopInv, NEW f \in Loops, NEW g \in Grants, ConsumeContinuationGrant(f, g)
    PROVE  LoopInv'
<1> DEFINE s == Continued(loop[f], grant[g].generation + 1)
<1>1. /\ grant[g].state = "active" /\ grant[g].loop = f
      /\ grant[g].generation = loop[f].fix_generation /\ loop[f].active_grant = g
      /\ task' = task /\ loop' = [loop EXCEPT ![f] = s]
      /\ grant' = [grant EXCEPT ![g].state = "consumed"]
  BY DEF ConsumeContinuationGrant, Consumable, WriteLoop
<1>2. /\ RowOK(s) /\ s.status = "active_generation" /\ s.active_grant = NoGrant
      /\ s.fix_generation = loop[f].fix_generation + 1
  <2>1. RowOK(loop[f]) /\ loop[f] \in LoopRow /\ grant[g].generation + 1 \in Nat
    BY RowFacts, GrantFacts
  <2> HIDE DEF s
  <2>2. s = [loop[f] EXCEPT !.status = "active_generation",
                            !.fix_generation = grant[g].generation + 1, !.active_grant = NoGrant]
    BY DEF s, Continued
  <2>3. s \in LoopRow
    BY <2>1, <2>2 DEF LoopRow, Statuses
  <2>4. ProbeAgrees(s)
    BY <2>1, <2>2 DEF RowOK, ProbeAgrees, LoopRow
  <2>5. /\ s.failure_count = FailureBudget => s.current_decision # "pass"
        /\ s.status = "active_generation" /\ s.active_grant = NoGrant
        /\ s.fix_generation = loop[f].fix_generation + 1
    BY <1>1, <2>1, <2>2 DEF RowOK, LoopRow
  <2> QED BY <2>3, <2>4, <2>5 DEF RowOK
<1> HIDE DEF s
<1>3. loop' \in [Loops -> LoopRow] /\ loop'[f] = s /\ \A h \in Loops \ {f} : loop'[h] = loop[h]
  BY <1>1, <1>2 DEF LoopInv, TypeOK, RowOK
<1>4. /\ grant' \in [Grants -> GrantRow]
      /\ grant'[g].state = "consumed" /\ grant'[g].loop = f
      /\ grant'[g].generation = loop[f].fix_generation
      /\ \A h \in Grants \ {g} : grant'[h] = grant[h]
  BY <1>1 DEF LoopInv, TypeOK, GrantRow
<1>5. TypeOK' /\ RowsOK'
  BY <1>1, <1>2, <1>3, <1>4, RowFacts DEF LoopInv, TypeOK, RowsOK
<1>6. ASSUME NEW h \in Grants \ {g}, grant[h].state = "active"
      PROVE  grant[h].loop # f
  BY <1>1, <1>6 DEF LoopInv, GrantsMatchLoops
<1>7. GrantsMatchLoops'
  <2>1. ASSUME NEW h \in Grants, grant'[h].state = "active"
        PROVE  /\ grant'[h].loop \in Loops /\ loop'[grant'[h].loop].active_grant = h
               /\ grant'[h].revision = task'.revision
               /\ grant'[h].generation <= loop'[grant'[h].loop].fix_generation
    <3>1. h # g /\ grant'[h] = grant[h] /\ grant[h].loop # f
      BY <1>4, <1>6, <2>1
    <3> QED BY <1>1, <1>3, <2>1, <3>1 DEF LoopInv, GrantsMatchLoops
  <2>2. ASSUME NEW k \in Loops, k # f
        PROVE  /\ loop'[k].active_grant # NoGrant => HoldsActive(k)'
               /\ loop'[k].status = "grant_ready" =>
                     /\ loop'[k].active_grant # NoGrant
                     /\ grant'[loop'[k].active_grant].generation = loop'[k].fix_generation
    <3>1. loop'[k] = loop[k]
      BY <1>3, <2>2
    <3>2. CASE loop[k].active_grant = NoGrant
      BY <3>1, <3>2 DEF LoopInv, GrantsMatchLoops
    <3>3. CASE loop[k].active_grant # NoGrant
      <4>1. PICK h \in Grants : /\ grant[h].state = "active" /\ grant[h].loop = k
                                /\ loop[k].active_grant = h
        BY <3>3 DEF LoopInv, GrantsMatchLoops, HoldsActive
      <4>2. grant'[h] = grant[h]
        BY <1>1, <1>4, <2>2, <4>1
      <4> QED BY <3>1, <4>1, <4>2 DEF LoopInv, GrantsMatchLoops, HoldsActive
    <3> QED BY <3>2, <3>3
  <2> QED BY <1>2, <1>3, <2>1, <2>2 DEF GrantsMatchLoops
<1>8. SpentGrantsDiffer'
  <2>1. loop[f].fix_generation \in Nat
    BY RowFacts
  <2>2. ASSUME NEW h \in Grants \ {g}, grant'[h].state = "consumed"
        PROVE  /\ grant'[h].loop \in Loops
               /\ grant'[h].generation < loop[grant'[h].loop].fix_generation
               /\ grant'[h].generation < loop'[grant'[h].loop].fix_generation
               /\ grant'[h].loop = f => grant'[h].generation # grant'[g].generation
    <3>1. grant'[h] = grant[h]
      BY <1>4
    <3>2. grant[h].loop \in Loops /\ grant[h].generation < loop[grant[h].loop].fix_generation
      BY <2>2, <3>1 DEF LoopInv, SpentGrantsDiffer
    <3>3. grant[h].generation \in Nat
      BY GrantFacts
    <3> QED BY <1>2, <1>3, <1>4, <2>1, <3>1, <3>2, <3>3
  <2>3. grant'[g].loop \in Loops /\ grant'[g].generation < loop'[grant'[g].loop].fix_generation
    BY <1>2, <1>3, <1>4, <2>1
  <2>4. \A h \in Grants : grant'[h].state = "consumed" =>
           grant'[h].loop \in Loops /\ grant'[h].generation < loop'[grant'[h].loop].fix_generation
    BY <2>2, <2>3
  <2>5. ASSUME NEW h \in Grants, NEW k \in Grants, h # k,
               grant'[h].state = "consumed", grant'[k].state = "consumed",
               grant'[h].loop = grant'[k].loop
        PROVE  grant'[h].generation # grant'[k].generation
    <3>1. CASE h = g \/ k = g
      BY <1>4, <2>2, <2>5, <3>1
    <3>2. CASE h # g /\ k # g
      BY <1>4, <2>5, <3>2 DEF LoopInv, SpentGrantsDiffer
    <3> QED BY <3>1, <3>2
  <2> QED BY <2>4, <2>5 DEF SpentGrantsDiffer
<1> QED BY <1>5, <1>7, <1>8 DEF LoopInv

\* The expiry of a grant preserves the invariant, which does not look at the clock.
LEMMA ExpiryKeeps == ASSUME LoopInv, GrantExpires PROVE LoopInv'
<1> PICK g \in Grants : grant' = [grant EXCEPT ![g].expires = "past"]
  BY DEF GrantExpires
<1>1. task' = task /\ loop' = loop
  BY DEF GrantExpires
<1>2. /\ grant' \in [Grants -> GrantRow]
      /\ \A h \in Grants : /\ grant'[h].state = grant[h].state /\ grant'[h].loop = grant[h].loop
                           /\ grant'[h].generation = grant[h].generation
                           /\ grant'[h].revision = grant[h].revision
  BY DEF LoopInv, TypeOK, GrantRow, Timer
<1>3. TypeOK' /\ RowsOK'
  BY <1>1, <1>2 DEF LoopInv, TypeOK, RowsOK
<1>4. GrantsMatchLoops'
  <2>1. \A f \in Loops : loop[f].active_grant \in Grants \cup {NoGrant}
    BY RowFacts
  <2> QED BY <1>1, <1>2, <2>1 DEF LoopInv, GrantsMatchLoops, HoldsActive
<1>5. SpentGrantsDiffer'
  BY <1>1, <1>2 DEF LoopInv, SpentGrantsDiffer
<1> QED BY <1>3, <1>4, <1>5 DEF LoopInv

----------------------------------------------------------------------------
(* The theorems. *)

\* No step of the store, nor one that leaves its tables alone, breaks the invariant.
LEMMA NextKeeps == ASSUME LoopInv, [Next]_vars PROVE LoopInv'
<1>1. CASE Next
  <2>1. RowsOK
    BY DEF LoopInv
  <2> QED BY <1>1, <2>1, StepKinds, LoopStepKeeps, UpsertKeeps, IssueKeeps, ConsumeKeeps,
             ExpiryKeeps
<1>2. CASE UNCHANGED vars
  BY <1>2 DEF vars, LoopInv, TypeOK, RowsOK, GrantsMatchLoops, HoldsActive, SpentGrantsDiffer
<1> QED BY <1>1, <1>2

\* In every reachable state the rows have their types, every loop row is in order,
\* the two tables agree on the grants that are out, and spent grants differ.
THEOREM LoopInvariant == Spec => []LoopInv
<1>1. Init => LoopInv
  BY InvInit
<1>2. LoopInv /\ [Next]_vars => LoopInv'
  BY NextKeeps
<1> QED BY <1>1, <1>2, PTL DEF Spec

\* Every row keeps the shape the schema declares.
THEOREM TypesHold == Spec => []TypeOK
<1>1. LoopInv => TypeOK
  BY DEF LoopInv
<1> QED BY <1>1, LoopInvariant, PTL

\* The loops' active_grant_id and the grants' state never disagree, for any number
\* of loops and grants.
THEOREM GrantsAndLoopsAgree == Spec => []GrantsMatchLoops
<1>1. LoopInv => GrantsMatchLoops
  BY DEF LoopInv
<1> QED BY <1>1, LoopInvariant, PTL

\* No generation is opened by two grants.
THEOREM GrantsOpenOnce == Spec => []SpentGrantsDiffer
<1>1. LoopInv => SpentGrantsDiffer
  BY DEF LoopInv
<1> QED BY <1>1, LoopInvariant, PTL

\* The probe columns never contradict one another, for any number of owners and claims.
THEOREM ProbesAgree == Spec => []ProbeColumnsAgree
<1>1. LoopInv => ProbeColumnsAgree
  BY DEF LoopInv, RowsOK, RowOK, ProbeAgrees, ProbeColumnsAgree
<1> QED BY <1>1, LoopInvariant, PTL

\* A loop that failed twice never has its free pass again.
THEOREM PassIsWithheld == Spec => []RepeatedFailureWithholdsPass
<1>1. LoopInv => RepeatedFailureWithholdsPass
  BY DEF LoopInv, RowsOK, RowOK, RepeatedFailureWithholdsPass
<1> QED BY <1>1, LoopInvariant, PTL

\* The loops a grant operation does not name keep their rows; a changed projection
\* keeps every generation and every probe.
LEMMA GrantStepsKeepRows ==
    ASSUME LoopInv
    PROVE  /\ \A r \in Revisions : UpsertConvergenceTask(r) => \A f \in Loops :
                 /\ loop'[f].fix_generation = loop[f].fix_generation
                 /\ loop'[f].probe_owner = loop[f].probe_owner
                 /\ loop'[f].probe_epoch = loop[f].probe_epoch
                 /\ loop'[f].status = "absent" <=> loop[f].status = "absent"
           /\ \A h \in Loops, g \in Grants :
                 IssueContinuationGrant(h, g) => \A f \in Loops :
                    /\ loop'[f].fix_generation = loop[f].fix_generation
                    /\ loop'[f].probe_owner = loop[f].probe_owner
                    /\ loop'[f].probe_epoch = loop[f].probe_epoch
                    /\ loop'[f].status = "absent" <=> loop[f].status = "absent"
           /\ \A h \in Loops, g \in Grants :
                 ConsumeContinuationGrant(h, g) => \A f \in Loops :
                    /\ f # h => loop'[f].fix_generation = loop[f].fix_generation
                    /\ loop'[h].fix_generation = loop[h].fix_generation + 1
                    /\ loop'[f].probe_owner = loop[f].probe_owner
                    /\ loop'[f].probe_epoch = loop[f].probe_epoch
                    /\ loop'[f].status = "absent" <=> loop[f].status = "absent"
<1>1. \A f \in Loops : loop[f] \in LoopRow
  BY RowFacts
<1>2. ASSUME NEW r \in Revisions, UpsertConvergenceTask(r), NEW f \in Loops
      PROVE  /\ loop'[f].fix_generation = loop[f].fix_generation
             /\ loop'[f].probe_owner = loop[f].probe_owner
             /\ loop'[f].probe_epoch = loop[f].probe_epoch
             /\ loop'[f].status = "absent" <=> loop[f].status = "absent"
  <2>1. loop'[f] = IF HoldsActive(f) THEN Unready(loop[f]) ELSE loop[f]
    BY <1>2 DEF UpsertConvergenceTask
  <2>2. HoldsActive(f) => loop[f].status # "absent"
    BY RowFacts, LoopAssumption DEF HoldsActive
  <2> QED BY <1>1, <2>1, <2>2 DEF Unready, LoopRow
<1>3. ASSUME NEW h \in Loops, NEW g \in Grants, IssueContinuationGrant(h, g), NEW f \in Loops
      PROVE  /\ loop'[f].fix_generation = loop[f].fix_generation
             /\ loop'[f].probe_owner = loop[f].probe_owner
             /\ loop'[f].probe_epoch = loop[f].probe_epoch
             /\ loop'[f].status = "absent" <=> loop[f].status = "absent"
  <2>1. /\ loop[h].status # "absent"
        /\ loop' = [loop EXCEPT ![h] = [loop[h] EXCEPT !.status = "grant_ready",
                                                      !.active_grant = g]]
    BY <1>3, IssueEffects
  <2> QED BY <1>1, <2>1 DEF LoopInv, TypeOK, LoopRow
<1>4. ASSUME NEW h \in Loops, NEW g \in Grants, ConsumeContinuationGrant(h, g), NEW f \in Loops
      PROVE  /\ f # h => loop'[f].fix_generation = loop[f].fix_generation
             /\ loop'[h].fix_generation = loop[h].fix_generation + 1
             /\ loop'[f].probe_owner = loop[f].probe_owner
             /\ loop'[f].probe_epoch = loop[f].probe_epoch
             /\ loop'[f].status = "absent" <=> loop[f].status = "absent"
  <2>1. /\ loop[h].status # "absent" /\ grant[g].generation = loop[h].fix_generation
        /\ loop' = [loop EXCEPT ![h] = Continued(loop[h], grant[g].generation + 1)]
    BY <1>4 DEF ConsumeContinuationGrant, Consumable, WriteLoop, MayTurn, Exists
  <2> QED BY <1>1, <2>1 DEF Continued, LoopInv, TypeOK, LoopRow
<1> QED BY <1>2, <1>3, <1>4

\* A row move, seen from every loop: RowMoveKeeps for the loop it names.
LEMMA LoopStepRows ==
    ASSUME LoopInv, LoopStep
    PROVE  /\ grant' = grant
           /\ \E f \in Loops : \E s :
                 /\ loop' = [loop EXCEPT ![f] = s] /\ loop'[f] = s
                 /\ s.status # "absent"
                 /\ \/ loop[f].status = "absent" /\ s.fix_generation \in 0..MaxGeneration
                    \/ loop[f].status # "absent" /\ s.fix_generation = loop[f].fix_generation
                    \/ /\ loop[f].status # "absent"
                       /\ s.fix_generation = loop[f].fix_generation + 1
                       /\ loop[f].current_decision = "pass"
                 /\ Live(loop[f].probe_lease) =>
                       /\ s.probe_owner \in {loop[f].probe_owner, NoOwner}
                       /\ s.probe_epoch = loop[f].probe_epoch
<1>1. PICK f \in Loops : \E s : loop' = [loop EXCEPT ![f] = s] /\ RowMove(loop[f], s)
  BY DEF LoopStep
<1>2. PICK s : loop' = [loop EXCEPT ![f] = s] /\ RowMove(loop[f], s)
  BY <1>1
<1>3. RowOK(loop[f]) /\ loop'[f] = s /\ grant' = grant
  BY <1>2, RowFacts DEF LoopInv, TypeOK, LoopStep
<1>4. /\ s.status # "absent"
      /\ \/ loop[f].status = "absent" /\ s.fix_generation \in 0..MaxGeneration
         \/ loop[f].status # "absent" /\ s.fix_generation = loop[f].fix_generation
         \/ /\ loop[f].status # "absent"
            /\ s.fix_generation = loop[f].fix_generation + 1
            /\ loop[f].current_decision = "pass"
      /\ Live(loop[f].probe_lease) =>
            /\ s.probe_owner \in {loop[f].probe_owner, NoOwner}
            /\ s.probe_epoch = loop[f].probe_epoch
  BY <1>2, <1>3, RowMoveKeeps
<1> QED BY <1>2, <1>3, <1>4

\* A live lease protects its owner in every execution.
THEOREM LiveProbesAreExclusive == Spec => LiveProbeIsExclusive
<1> DEFINE Kept == \A f \in Loops : Live(loop[f].probe_lease) =>
                     /\ loop'[f].probe_owner \in {loop[f].probe_owner, NoOwner}
                     /\ loop'[f].probe_epoch = loop[f].probe_epoch
<1>1. ASSUME LoopInv, [Next]_vars PROVE Kept \/ UNCHANGED vars
  <2>1. CASE LoopStep
    <3>1. DOMAIN loop = Loops
      BY <1>1 DEF LoopInv, TypeOK
    <3> QED BY <1>1, <2>1, <3>1, LoopStepRows
  <2>2. CASE GrantExpires
    BY <2>2 DEF GrantExpires
  <2>3. RowsOK
    BY <1>1 DEF LoopInv
  <2> QED BY <1>1, <2>1, <2>2, <2>3, StepKinds, GrantStepsKeepRows
<1>2. LoopInv /\ [Next]_vars => [Kept]_vars
  BY <1>1
<1> QED BY <1>2, LoopInvariant, PTL DEF Spec, LiveProbeIsExclusive

\* Past the failure budget a generation costs a grant, in every execution.
THEOREM BudgetCostsGrant == Spec => BudgetNeedsGrant
<1> DEFINE Paid(f) == \E g \in Grants :
                         /\ grant[g].state = "active" /\ grant'[g].state = "consumed"
                         /\ grant[g].loop = f /\ grant[g].generation = loop[f].fix_generation
           Kept == \A f \in Loops :
                      /\ loop[f].failure_count = FailureBudget
                      /\ loop'[f].fix_generation # loop[f].fix_generation
                      => Paid(f)
<1>1. ASSUME LoopInv, [Next]_vars PROVE Kept \/ UNCHANGED vars
  <2>1. ASSUME LoopStep, NEW h \in Loops, loop[h].failure_count = FailureBudget
        PROVE  loop'[h].fix_generation = loop[h].fix_generation
    <3>1. RowOK(loop[h])
      BY <1>1, RowFacts
    <3>2. loop[h].status # "absent" /\ loop[h].current_decision # "pass"
      BY <2>1, <3>1 DEF RowOK, AbsentLoop, FailureBudget
    <3>3. DOMAIN loop = Loops
      BY <1>1 DEF LoopInv, TypeOK
    <3> QED BY <1>1, <2>1, <3>2, <3>3, LoopStepRows
  <2>2. ASSUME NEW f \in Loops, NEW g \in Grants, ConsumeContinuationGrant(f, g) PROVE Kept
    <3>1. grant'[g].state = "consumed"
      BY <1>1, <2>2 DEF ConsumeContinuationGrant, LoopInv, TypeOK, GrantRow
    <3>2. /\ grant[g].state = "active" /\ grant[g].loop = f
          /\ grant[g].generation = loop[f].fix_generation
      BY <2>2 DEF ConsumeContinuationGrant, Consumable
    <3>3. Paid(f)
      BY <3>1, <3>2
    <3> HIDE DEF Paid
    <3>4. \A h \in Loops : h # f => loop'[h].fix_generation = loop[h].fix_generation
      BY <1>1, <2>2, GrantStepsKeepRows
    <3> QED BY <3>3, <3>4
  <2>3. CASE GrantExpires
    BY <2>3 DEF GrantExpires
  <2>4. RowsOK
    BY <1>1 DEF LoopInv
  <2> HIDE DEF Paid
  <2>5. LoopStep => Kept
    BY <2>1
  <2> HIDE DEF Kept
  <2>6. ASSUME \A f \in Loops : loop'[f].fix_generation = loop[f].fix_generation PROVE Kept
    BY <2>6 DEF Kept
  <2> QED BY <1>1, <2>2, <2>3, <2>4, <2>5, <2>6, StepKinds, GrantStepsKeepRows DEF GrantExpires
<1>2. LoopInv /\ [Next]_vars => [Kept]_vars
  BY <1>1
<1> QED BY <1>2, LoopInvariant, PTL DEF Spec, BudgetNeedsGrant

----------------------------------------------------------------------------
(* The store implements the ledger of generations. *)

\* The ledger reads a loop's generation and a grant's state, loop and generation.
LEMMA LedgerView ==
    ASSUME LoopInv, LoopInv'
    PROVE  /\ LedgerGeneration \in [Loops -> Int] /\ LedgerGeneration' \in [Loops -> Int]
           /\ \A f \in Loops :
                 /\ LedgerGeneration[f] =
                       IF loop[f].status # "absent" THEN loop[f].fix_generation ELSE -1
                 /\ LedgerGeneration'[f] =
                       IF loop'[f].status # "absent" THEN loop'[f].fix_generation ELSE -1
                 /\ LedgerGeneration[f] = -1 <=> loop[f].status = "absent"
<1>1. \A f \in Loops : loop[f].fix_generation \in Nat /\ loop'[f].fix_generation \in Nat
  BY DEF LoopInv, TypeOK, LoopRow
<1> QED BY <1>1 DEF LedgerGeneration, Exists

\* A row move opens at most the next generation of one loop, or enters a loop.
LEMMA LoopStepImplements ==
    ASSUME LoopInv, LoopInv', LoopStep
    PROVE  Ledger!Next \/ UNCHANGED <<LedgerGeneration, LedgerPermit>>
<1>1. LedgerPermit' = LedgerPermit
  BY LoopStepRows DEF LedgerPermit
<1>2. PICK f \in Loops : \E s :
         /\ loop' = [loop EXCEPT ![f] = s] /\ loop'[f] = s /\ s.status # "absent"
         /\ \/ loop[f].status = "absent" /\ s.fix_generation \in 0..MaxGeneration
            \/ loop[f].status # "absent" /\ s.fix_generation = loop[f].fix_generation
            \/ loop[f].status # "absent" /\ s.fix_generation = loop[f].fix_generation + 1
  BY LoopStepRows
<1>3. /\ \A h \in Loops \ {f} : loop'[h] = loop[h]
      /\ loop'[f].status # "absent"
      /\ \/ loop[f].status = "absent" /\ loop'[f].fix_generation \in 0..MaxGeneration
         \/ loop[f].status # "absent" /\ loop'[f].fix_generation = loop[f].fix_generation
         \/ loop[f].status # "absent" /\ loop'[f].fix_generation = loop[f].fix_generation + 1
  BY <1>2 DEF LoopInv, TypeOK
<1>4. LedgerGeneration' = [LedgerGeneration EXCEPT ![f] = loop'[f].fix_generation]
  BY <1>3, LedgerView
<1>5. CASE loop[f].status = "absent"
  <2>1. Ledger!Enter(f)
    BY <1>1, <1>3, <1>4, <1>5, LedgerView DEF Ledger!Enter, Ledger!Unopened
  <2> QED BY <2>1 DEF Ledger!Next
<1>6. CASE loop[f].status # "absent" /\ loop'[f].fix_generation = loop[f].fix_generation
  <2>1. LedgerGeneration[f] = loop'[f].fix_generation
    BY <1>6, LedgerView
  <2>2. LedgerGeneration' = LedgerGeneration
    BY <1>4, <2>1, LedgerView
  <2> QED BY <1>1, <2>2
<1>7. CASE loop[f].status # "absent" /\ loop'[f].fix_generation = loop[f].fix_generation + 1
  <2>1. Ledger!OpenFreely(f)
    BY <1>1, <1>4, <1>7, LedgerView DEF Ledger!OpenFreely, Ledger!Unopened
  <2> QED BY <2>1 DEF Ledger!Next
<1> QED BY <1>3, <1>5, <1>6, <1>7

\* A changed projection withdraws every permit that is out and opens nothing.
LEMMA UpsertImplements ==
    ASSUME LoopInv, LoopInv', NEW r \in Revisions, UpsertConvergenceTask(r) PROVE Ledger!Next
<1>1. LedgerGeneration' = LedgerGeneration
  BY LedgerView, GrantStepsKeepRows
<1>2. LedgerPermit' = [p \in Grants |-> IF LedgerPermit[p].state = "live"
                                        THEN Ledger!Withdrawn(p) ELSE LedgerPermit[p]]
  BY GrantFacts DEF LedgerPermit, UpsertConvergenceTask, Revoked, GrantRow, PermitState,
     Ledger!Withdrawn, Ledger!Permit
<1> QED BY <1>1, <1>2 DEF Ledger!Next, Ledger!WithdrawAll

\* Issuing a grant writes a permit for the present generation and withdraws the
\* one that was out.
LEMMA IssueImplements ==
    ASSUME LoopInv, LoopInv', NEW f \in Loops, NEW g \in Grants, IssueContinuationGrant(f, g)
    PROVE  Ledger!Next
<1>1. LedgerGeneration' = LedgerGeneration
  BY LedgerView, GrantStepsKeepRows
<1>2. /\ grant[g].state = "unused" /\ loop[f].status # "absent"
      /\ grant'[g] = [state |-> "active", loop |-> f, generation |-> loop[f].fix_generation,
                      revision |-> task.revision, basis |-> loop[f].basis, expires |-> "future"]
      /\ \A h \in Grants \ {g} :
            grant'[h] = IF grant[h].state = "active" /\ grant[h].loop = f
                        THEN Revoked(grant[h]) ELSE grant[h]
  BY IssueEffects
<1>3. LedgerGeneration[f] = loop[f].fix_generation /\ LedgerGeneration[f] # -1
  BY <1>2, LedgerView
<1>4. LedgerPermit[g].state = "unused"
  BY <1>2 DEF LedgerPermit, PermitState
<1>5. ASSUME NEW q \in Grants
      PROVE  LedgerPermit'[q] =
                IF q = g THEN Ledger!Permit("live", f, LedgerGeneration[f])
                ELSE IF Ledger!Out(q, f) THEN Ledger!Withdrawn(q) ELSE LedgerPermit[q]
  <2>1. CASE q = g
    BY <1>2, <1>3, <2>1 DEF LedgerPermit, PermitState, Ledger!Permit
  <2>2. CASE q # g
    <3>1. grant[q] \in GrantRow
      BY GrantFacts
    <3>2. Ledger!Out(q, f) <=> grant[q].state = "active" /\ grant[q].loop = f
      BY <3>1 DEF LedgerPermit, PermitState, GrantRow, Ledger!Out
    <3> QED BY <1>2, <2>2, <3>1, <3>2
            DEF LedgerPermit, PermitState, GrantRow, Revoked, Ledger!Withdrawn, Ledger!Permit
  <2> QED BY <2>1, <2>2
<1>6. Ledger!Write(f, g)
  BY <1>1, <1>3, <1>4, <1>5 DEF Ledger!Write, Ledger!Unopened, LedgerPermit
<1> QED BY <1>6 DEF Ledger!Next

\* Consuming a grant spends the permit that is out and opens the next generation.
LEMMA ConsumeImplements ==
    ASSUME LoopInv, LoopInv', NEW f \in Loops, NEW g \in Grants, ConsumeContinuationGrant(f, g)
    PROVE  Ledger!Next
<1>1. /\ grant[g].state = "active" /\ grant[g].loop = f /\ loop[f].status # "absent"
      /\ grant[g].generation = loop[f].fix_generation
      /\ grant' = [grant EXCEPT ![g].state = "consumed"]
  BY DEF ConsumeContinuationGrant, Consumable, MayTurn, Exists
<1>2. LedgerGeneration[f] = loop[f].fix_generation
  BY <1>1, LedgerView
<1>3. LedgerGeneration' = [LedgerGeneration EXCEPT ![f] = LedgerGeneration[f] + 1]
  BY <1>1, LedgerView, GrantStepsKeepRows
<1>4. LedgerPermit[g] = Ledger!Permit("live", f, LedgerGeneration[f])
  BY <1>1, <1>2 DEF LedgerPermit, PermitState, Ledger!Permit
<1>5. LedgerPermit' =
         [LedgerPermit EXCEPT ![g] = Ledger!Permit("spent", f, LedgerGeneration[f])]
  <2>1. /\ grant'[g].state = "consumed" /\ grant'[g].loop = f
        /\ grant'[g].generation = loop[f].fix_generation
        /\ \A h \in Grants : h # g => grant'[h] = grant[h]
    BY <1>1 DEF LoopInv, TypeOK, GrantRow
  <2>2. LedgerPermit'[g] = Ledger!Permit("spent", f, LedgerGeneration[f])
    BY <1>2, <2>1 DEF LedgerPermit, PermitState, Ledger!Permit
  <2>3. \A h \in Grants : h # g => LedgerPermit'[h] = LedgerPermit[h]
    BY <2>1 DEF LedgerPermit
  <2> QED BY <2>2, <2>3 DEF LedgerPermit
<1>6. Ledger!Spend(f, g)
  BY <1>3, <1>4, <1>5 DEF Ledger!Spend, Ledger!Out, Ledger!Permit
<1> QED BY <1>6 DEF Ledger!Next

\* Every execution of the store is one of the ledger: generations are opened one at
\* a time, by a pass or by the one permit that is out, and no permit is used twice.
THEOREM StoreImplementsLedger == Spec => ImplementsLedger
<1>1. Init => Ledger!Init
  <2> SUFFICES ASSUME Init PROVE Ledger!Init
    OBVIOUS
  <2>1. LedgerGeneration = [f \in Loops |-> -1]
    BY DEF Init, LedgerGeneration, Exists, AbsentLoop
  <2>2. LedgerPermit = [g \in Grants |-> [state |-> "unused", loop |-> NoLoop, generation |-> 0]]
    BY DEF Init, LedgerPermit, PermitState
  <2> QED BY <2>1, <2>2 DEF Ledger!Init, Ledger!Unopened, Ledger!Blank, Ledger!Permit
<1>2. LoopInv /\ LoopInv' /\ [Next]_vars => [Ledger!Next]_<<LedgerGeneration, LedgerPermit>>
  <2> SUFFICES ASSUME LoopInv, LoopInv', [Next]_vars
               PROVE  Ledger!Next \/ UNCHANGED <<LedgerGeneration, LedgerPermit>>
    OBVIOUS
  <2>1. CASE Next
    <3>1. RowsOK
      BY DEF LoopInv
    <3>2. CASE GrantExpires
      BY <3>2 DEF GrantExpires, LoopInv, TypeOK, GrantRow, LedgerGeneration, LedgerPermit, Exists
    <3> QED BY <2>1, <3>1, <3>2, StepKinds, LoopStepImplements, UpsertImplements,
               IssueImplements, ConsumeImplements
  <2>2. CASE UNCHANGED vars
    BY <2>2 DEF vars, LedgerGeneration, LedgerPermit, Exists
  <2> QED BY <2>1, <2>2
<1> QED BY <1>1, <1>2, LoopInvariant, PTL DEF Spec, ImplementsLedger, Ledger!Spec
=============================================================================
