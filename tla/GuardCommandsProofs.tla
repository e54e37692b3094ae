------------------------ MODULE GuardCommandsProofs ------------------------
(***************************************************************************)
(* The guard's commands implement the convergence store, so what is proved *)
(* of the store for any caller holds for them: whatever a command read     *)
(* before, its writes are the store's operations on the rows as they are.  *)
(*                                                                         *)
(* What the commands add to the store are files, and decisions on what was *)
(* read before. KnowledgeInv, on top of the store's LoopInv, says that     *)
(* what a command, a probe or the log speaks of is on record, and that it  *)
(* is still true of the row if it is of the present review and generation. *)
(* DirectionInv adds what a grant that is issued, or about to be, shows of *)
(* the failures, the checkpoints and the reflections so far.               *)
(*                                                                         *)
(* A review that was followed by another, and a generation that was        *)
(* closed, do not come back: that makes stale knowledge harmless.          *)
(***************************************************************************)
EXTENDS GuardCommands, ConvergenceLoopProofs

USE DEF contextRoot

\* What a command or a probe's process holds between two steps, as far as a later
\* call to the store depends on it.
AgentOK(s) ==
    /\ s.pc = "store" => s.review \in Bases
    /\ s.pc = "decide" => s.verdict.decision \in Decisions
    /\ s.pc = "put" => /\ s.verdict.decision \in Decisions
                       /\ s.fallback.pc = "decide" /\ s.fallback.verdict.decision \in Decisions
    /\ s.pc \in {"write", "consume"} => s.grant \in Grants

RunnerOK(s) == s.pc \in {"read", "ask", "refuse"} => s.epoch \in 1..MaxClaims

ProcessesOK ==
    /\ agent = [a \in Agents |-> agent[a]] /\ \A a \in Agents : AgentOK(agent[a])
    /\ runner = [o \in Owners |-> runner[o]] /\ \A o \in Owners : RunnerOK(runner[o])
    /\ artifact = [p \in Files |-> artifact[p]]
    /\ \A p \in Files : artifact[p] # None => artifact[p].grant \in Grants \cup {None}

\* An agent that moves on to a state in order leaves all agents in order.
LEMMA AgentMoves ==
    ASSUME ProcessesOK, NEW a \in Agents, NEW s, AgentOK(s), Goto(a, s)
    PROVE  agent' = [x \in Agents |-> agent'[x]] /\ \A x \in Agents : AgentOK(agent'[x])
BY DEF ProcessesOK, Goto

\* The like for a probe's process.
LEMMA RunnerMoves ==
    ASSUME ProcessesOK, NEW o \in Owners, NEW s, RunnerOK(s), RunnerGoes(o, s)
    PROVE  runner' = [x \in Owners |-> runner'[x]] /\ \A x \in Owners : RunnerOK(runner'[x])
BY DEF ProcessesOK, RunnerGoes

LEMMA IdleOK == AgentOK(Idle) /\ RunnerOK(Idle)
BY DEF AgentOK, RunnerOK, Idle

\* The Breaker answers the commands' requests with a decision the store knows.
LEMMA GuardDecisions ==
    ASSUME NEW prior, NEW advice
    PROVE  Policy!EvaluateConvergence(GuardRequest(prior, advice)).decision \in Decisions
<1> DEFINE q == GuardRequest(prior, advice)
<1>1. q.verified /\ ~q.audit /\ ~q.explore /\ ~q.architecture /\ ~q.oscillation /\ ~q.exclusion
  BY DEF GuardRequest
<1> HIDE DEF q
<1>2. Policy!Matched(q).decision \in Decisions
  BY <1>1 DEF Decisions, Policy!Matched, Policy!FailureTrigger, Policy!DirectionTrigger,
     Policy!DirectionOf, Policy!ExpansionTrigger, Policy!BudgetTrigger, Policy!Trigger
<1>3. Policy!EvaluateConvergence(q).decision = Policy!Matched(q).decision
  BY <1>1 DEF Policy!EvaluateConvergence, Policy!Requested, Policy!Clamp
<1> QED BY <1>2, <1>3 DEF q

----------------------------------------------------------------------------
(* A command's step. *)

\* What an agent does to the store, if anything, is an operation of the store.
LEMMA AgentCallsStore ==
    ASSUME LoopInv, ProcessesOK, NEW a \in Agents, AgentStep(a)
    PROVE  [Next]_vars
<1>1. F \in Loops /\ AgentOK(agent[a])
  BY GuardAssumption DEF ProcessesOK
<1>2. CASE StoreReview(a)
  <2> DEFINE r == agent[a].review
             n == IF Exists(F) THEN row.fix_generation ELSE 0
  <2>1. r \in Bases /\ r \in Evidence
    BY <1>1, <1>2, GuardAssumption DEF StoreReview, At, AgentOK
  <2>2. n \in Reported(F) /\ Counted(r) \in BOOLEAN /\ Directional(r) \in BOOLEAN
    BY LoopAssumption DEF Reported, row, Counted, Directional
  <2>3. CASE RecordConvergenceReview(F, n, Counted(r), Directional(r), r, r)
    <3>1. ReviewOperation(F)
      BY <2>1, <2>2, <2>3 DEF ReviewOperation
    <3> QED BY <1>1, <3>1 DEF Next
  <2>4. CASE UNCHANGED vars
    BY <2>4
  <2> QED BY <1>2, <2>3, <2>4 DEF StoreReview
<1>3. CASE RecordHardDecision(a)
  <2>1. CASE RecordConvergenceDecision(F, agent[a].verdict.decision)
    <3>1. agent[a].verdict.decision \in Decisions
      BY <1>1, <1>3 DEF RecordHardDecision, At, AgentOK
    <3>2. DecisionOperation(F)
      BY <2>1, <3>1 DEF DecisionOperation
    <3> QED BY <1>1, <3>2 DEF Next
  <2>2. CASE UNCHANGED vars
    BY <2>2
  <2> QED BY <1>3, <2>1, <2>2 DEF RecordHardDecision
<1>4. CASE RequestProbe(a)
  <2>1. CASE RequestConvergenceProbe(F, "past")
    BY <1>1, <2>1 DEF ProbeOperation, Next
  <2>2. CASE UNCHANGED vars
    BY <2>2
  <2> QED BY <1>4, <2>1, <2>2 DEF RequestProbe
<1>5. CASE IssueAuthorizedContinuation(a)
  BY <1>1, <1>5 DEF IssueAuthorizedContinuation, GrantOperation, Next
<1>6. CASE ConsumeGrant(a)
  <2>1. agent[a].grant \in Grants
    BY <1>1, <1>6 DEF ConsumeGrant, At, AgentOK
  <2>2. CASE ConsumeContinuationGrant(F, agent[a].grant)
    BY <1>1, <2>1, <2>2 DEF GrantOperation, Next
  <2>3. CASE UNCHANGED vars
    BY <2>3
  <2> QED BY <1>6, <2>2, <2>3 DEF ConsumeGrant
<1>7. CASE Stored
  BY <1>7 DEF Stored
<1> QED BY <1>2, <1>3, <1>4, <1>5, <1>6, <1>7 DEF AgentStep, BeginReview, Evaluate, PutContext,
      DiscardContext, RemoveContext, BeginLocalFix, BeginArchitectureFix, OpenArtifact,
      AuthorizeContinuation, ResumeAfterProbe, WriteArtifact, Neutralize, Crash

\* An agent's step leaves every agent and every grant file in order.
LEMMA AgentStaysOK ==
    ASSUME ProcessesOK, NEW a \in Agents, AgentStep(a)
    PROVE  /\ agent' = [x \in Agents |-> agent'[x]] /\ \A x \in Agents : AgentOK(agent'[x])
           /\ artifact' = [p \in Files |-> artifact'[p]]
           /\ \A p \in Files : artifact'[p] # None => artifact'[p].grant \in Grants \cup {None}
<1>1. AgentOK(agent[a]) /\ AgentOK(Idle)
  BY IdleOK DEF ProcessesOK
<1> DEFINE Moves == \E s : AgentOK(s) /\ Goto(a, s)
<1>2. Moves => agent' = [x \in Agents |-> agent'[x]] /\ \A x \in Agents : AgentOK(agent'[x])
  BY AgentMoves
<1>3. UNCHANGED artifact =>
          /\ artifact' = [p \in Files |-> artifact'[p]]
          /\ \A p \in Files : artifact'[p] # None => artifact'[p].grant \in Grants \cup {None}
  BY DEF ProcessesOK
<1>4. ASSUME NEW r \in Reviews, BeginReview(a, r) PROVE Moves /\ UNCHANGED artifact
  BY <1>4 DEF BeginReview, AgentOK, Reviews
<1>5. CASE StoreReview(a)
  <2>1. agent[a].review \in Bases
    BY <1>1, <1>5 DEF StoreReview, At, AgentOK
  <2>2. AgentOK(AfterReview(a, agent[a].review))
    BY <1>1 DEF AfterReview, AgentOK
  <2> QED BY <1>1, <1>2, <1>3, <1>5, <2>2 DEF StoreReview
<1>6. CASE Evaluate(a)
  <2> DEFINE v == Policy!EvaluateConvergence(GuardRequest(agent[a].prior, "none"))
  <2>1. v.decision \in Decisions
    BY GuardDecisions
  <2>2. \A w, c, b : w.decision \in Decisions => AgentOK(ToDecide(w, c, b))
    BY DEF ToDecide, AgentOK
  <2>3. \A d \in Decisions : \A reason :
            Verdict(agent[a].prior, "none", d, reason).decision \in Decisions
    BY DEF Verdict
  <2> DEFINE fallback == ToDecide(Verdict(agent[a].prior, "none", "checkpoint_required",
                                          "probe_context"), None, FALSE)
  <2>4. AgentOK(fallback)
    BY DEF ToDecide, Verdict, AgentOK, Decisions
  <2>5. fallback.pc = "decide" /\ fallback.verdict.decision \in Decisions
    BY DEF ToDecide, Verdict, Decisions
  <2>6. ASSUME NEW c, NEW w, w.decision \in Decisions
        PROVE  AgentOK([pc |-> "put", fallback |-> fallback, verdict |-> w, context |-> c])
    BY <2>5, <2>6 DEF AgentOK
  <2>7. AgentOK(ToDecide(Verdict(agent[a].prior, "none", v.decision, v.reason), None, FALSE))
    BY <2>1, <2>2, <2>3
  <2>8. Moves
    <3> HIDE DEF fallback, v
    <3> QED BY <1>1, <1>6, <2>1, <2>3, <2>4, <2>6, <2>7 DEF Evaluate, fallback, v
  <2> QED BY <1>2, <1>3, <1>6, <2>8 DEF Evaluate
<1>7. CASE PutContext(a)
  <2>1. AgentOK(agent[a].fallback)
    BY <1>1, <1>7 DEF PutContext, At, AgentOK
  <2>2. \A c, b : AgentOK(ToDecide(agent[a].verdict, c, b))
    BY <1>1, <1>7 DEF PutContext, At, AgentOK, ToDecide
  <2> QED BY <1>2, <1>3, <1>7, <2>1, <2>2 DEF PutContext
<1>8. CASE RecordHardDecision(a)
  <2>1. AgentOK(AfterDecision(agent[a])) /\ AgentOK(AfterRefusal(agent[a]))
    BY <1>1 DEF AfterDecision, AfterRefusal, AgentOK
  <2> QED BY <1>2, <1>3, <1>8, <2>1 DEF RecordHardDecision
<1>9. CASE RequestProbe(a)
  <2>1. AgentOK(AfterRefusal(agent[a]))
    BY <1>1 DEF AfterRefusal, AgentOK
  <2> QED BY <1>1, <1>2, <1>3, <1>9, <2>1 DEF RequestProbe
<1>10. CASE DiscardContext(a)
  <2>1. AgentOK([pc |-> "remove", context |-> agent[a].context])
    BY DEF AgentOK
  <2> QED BY <1>1, <1>2, <1>3, <1>10, <2>1 DEF DiscardContext
<1>11. CASE RemoveContext(a) \/ Crash(a)
  BY <1>1, <1>2, <1>3, <1>11 DEF RemoveContext, Crash
<1>12. \A p, action, e : AgentOK(ToIssue(p, action, e))
  BY DEF ToIssue, AgentOK
<1>13. ASSUME NEW p \in Files, BeginLocalFix(a, p) \/ BeginArchitectureFix(a, p)
       PROVE  Moves /\ UNCHANGED artifact
  <2>1. AgentOK([pc |-> "resume", file |-> p]) /\ AgentOK([pc |-> "authorize", file |-> p])
    BY DEF AgentOK
  <2> QED BY <1>12, <1>13, <2>1 DEF BeginLocalFix, BeginArchitectureFix
<1>14. CASE AuthorizeContinuation(a)
  BY <1>1, <1>2, <1>3, <1>12, <1>14 DEF AuthorizeContinuation
<1>15. CASE ResumeAfterProbe(a)
  <2> DEFINE v == Policy!EvaluateConvergence(GuardRequest(NoBasis, log.completed.action))
  <2>1. v.decision \in Decisions
    BY GuardDecisions
  <2>2. AgentOK(ToDecide(Verdict(NoBasis, log.completed.action, v.decision, v.reason),
                         None, FALSE))
    BY <2>1 DEF ToDecide, Verdict, AgentOK
  <2>3. Moves
    <3> HIDE DEF v
    <3> QED BY <1>1, <1>12, <1>15, <2>2 DEF ResumeAfterProbe, v
  <2> QED BY <1>2, <1>3, <1>15, <2>3 DEF ResumeAfterProbe
<1>16. CASE IssueAuthorizedContinuation(a)
  <2>1. \A p, g : g \in Grants => AgentOK([pc |-> "write", file |-> p, grant |-> g])
    BY DEF AgentOK
  <2> QED BY <1>1, <1>2, <1>3, <1>16, <2>1 DEF IssueAuthorizedContinuation
<1>17. CASE WriteArtifact(a)
  <2>1. agent[a].grant \in Grants
    BY <1>1, <1>17 DEF WriteArtifact, At, AgentOK
  <2> QED BY <1>1, <1>2, <1>17, <2>1 DEF WriteArtifact, ProcessesOK
<1>18. ASSUME NEW p \in Files, OpenArtifact(a, p) PROVE Moves /\ UNCHANGED artifact
  <2>1. artifact[p].grant \in Grants
    BY <1>18 DEF OpenArtifact, ProcessesOK
  <2>2. AgentOK([pc |-> "consume", file |-> p, grant |-> artifact[p].grant])
    BY <2>1 DEF AgentOK
  <2> QED BY <1>18, <2>2 DEF OpenArtifact
<1>19. CASE ConsumeGrant(a)
  <2>1. AgentOK([pc |-> "neutralize", file |-> agent[a].file])
    BY DEF AgentOK
  <2> QED BY <1>1, <1>2, <1>3, <1>19, <2>1 DEF ConsumeGrant
<1>20. CASE Neutralize(a)
  BY <1>1, <1>2, <1>20 DEF Neutralize, ProcessesOK
<1>21. CASE (\E r \in Reviews : BeginReview(a, r))
            \/ \E p \in Files : BeginLocalFix(a, p) \/ BeginArchitectureFix(a, p) \/ OpenArtifact(a, p)
  <2>1. Moves /\ UNCHANGED artifact
    BY <1>4, <1>13, <1>18, <1>21
  <2> QED BY <1>2, <1>3, <2>1
<1> QED
  BY <1>5, <1>6, <1>7, <1>8, <1>9, <1>10, <1>11, <1>14, <1>15, <1>16, <1>17, <1>19, <1>20, <1>21
  DEF AgentStep

----------------------------------------------------------------------------
(* A probe's process. *)

\* Claims, completions and failures are the store's, with an epoch it handed out.
LEMMA RunnerCallsStore ==
    ASSUME LoopInv, ProcessesOK, NEW o \in Owners, RunnerStep(o)
    PROVE  [Next]_vars
<1>1. F \in Loops /\ RunnerOK(runner[o])
  BY GuardAssumption DEF ProcessesOK
<1>2. CASE ClaimProbe(o)
  BY <1>1, <1>2 DEF ClaimProbe, ProbeOperation, Next
<1>3. CASE ProviderAnswers(o)
  <2>1. runner[o].epoch \in 1..MaxClaims
    BY <1>1, <1>3 DEF ProviderAnswers, RunnerOK
  <2>2. CompleteConvergenceProbe(F, o, runner[o].epoch)
    BY <1>3 DEF ProviderAnswers
  <2> QED BY <1>1, <2>1, <2>2 DEF ProbeOperation, Next
<1>4. CASE ProbeFails(o)
  <2>1. runner[o].epoch \in 1..MaxClaims
    BY <1>1, <1>4 DEF ProbeFails, RunnerOK
  <2>2. \E retryable \in BOOLEAN : FailConvergenceProbe(F, o, runner[o].epoch, retryable)
    BY <1>4 DEF ProbeFails
  <2> QED BY <1>1, <2>1, <2>2 DEF ProbeOperation, Next
<1>5. CASE Stored
  BY <1>5 DEF Stored
<1> QED BY <1>2, <1>3, <1>4, <1>5 DEF RunnerStep, ReadContext, CleanContext, RunnerDies

LEMMA RunnerStaysOK ==
    ASSUME LoopInv, ProcessesOK, NEW o \in Owners, RunnerStep(o)
    PROVE  runner' = [x \in Owners |-> runner'[x]] /\ \A x \in Owners : RunnerOK(runner'[x])
<1>1. RunnerOK(runner[o]) /\ RunnerOK(Idle)
  BY IdleOK DEF ProcessesOK
<1>2. CASE ClaimProbe(o)
  <2>1. row \in LoopRow /\ loop = [f \in Loops |-> loop[f]] /\ F \in Loops
    BY GuardAssumption DEF LoopInv, TypeOK, row
  <2>2. row'.probe_state = "running" => row'.probe_epoch \in 1..MaxClaims
    <3>1. ClaimConvergenceProbe(F, o)
      BY <1>2 DEF ClaimProbe
    <3>2. CASE ProbeExhausted(row)
      <4>1. row' = ProbeEnded(row, "checkpoint_required", "failed", "null")
        BY <2>1, <3>1, <3>2 DEF ClaimConvergenceProbe, WriteLoop, row
      <4> QED BY <4>1, <2>1 DEF ProbeEnded, LoopRow
    <3>3. CASE ~ProbeExhausted(row)
      <4>1. row' = ProbeClaimed(row, o) /\ row.probe_epoch < MaxClaims
        BY <2>1, <3>1, <3>3 DEF ClaimConvergenceProbe, WriteLoop, row
      <4>2. row'.probe_epoch = row.probe_epoch + 1
        BY <4>1, <2>1 DEF ProbeClaimed, LoopRow
      <4> QED BY <4>1, <4>2, <2>1, LoopAssumption DEF LoopRow
    <3> QED BY <3>2, <3>3
  <2>3. row'.probe_state = "running" => RunnerOK([pc |-> "read", epoch |-> row'.probe_epoch])
    BY <2>2 DEF RunnerOK
  <2>4. \E s : RunnerOK(s) /\ RunnerGoes(o, s)
    BY <1>1, <1>2, <2>3 DEF ClaimProbe
  <2> QED BY <2>4, RunnerMoves
<1>3. CASE ReadContext(o)
  <2>1. runner[o].epoch \in 1..MaxClaims
    BY <1>1, <1>3 DEF ReadContext, RunnerOK
  <2>2. \A pc, c : RunnerOK([epoch |-> runner[o].epoch, pc |-> pc, context |-> c])
    BY <2>1 DEF RunnerOK
  <2> QED BY <1>3, <2>2, RunnerMoves DEF ReadContext
<1>4. CASE ProviderAnswers(o) \/ ProbeFails(o) \/ CleanContext(o) \/ RunnerDies(o)
  <2>1. RunnerOK([pc |-> "clean", context |-> runner[o].context])
    BY DEF RunnerOK
  <2> QED BY <1>1, <1>4, <2>1, RunnerMoves DEF ProviderAnswers, ProbeFails, CleanContext, RunnerDies
<1> QED BY <1>2, <1>3, <1>4 DEF RunnerStep

----------------------------------------------------------------------------

\* Whatever a command read before it wrote, and whichever processes stepped in
\* between, a step of the guard is a step of the store or leaves its tables alone.
LEMMA GuardStep ==
    ASSUME LoopInv, ProcessesOK, [GuardNext]_allVars
    PROVE  [Next]_vars /\ ProcessesOK'
<1>1. ASSUME NEW a \in Agents, AgentStep(a) PROVE [Next]_vars /\ ProcessesOK'
  <2>1. [Next]_vars
    BY <1>1, AgentCallsStore
  <2>2. runner' = [x \in Owners |-> runner'[x]] /\ \A x \in Owners : RunnerOK(runner'[x])
    <3>1. CASE RequestProbe(a)
      <4>1. RunnerOK([pc |-> "started"])
        BY DEF RunnerOK
      <4>2. CASE UNCHANGED runner
        BY <4>2 DEF ProcessesOK
      <4>3. CASE \E o \in Owners : runner' = [runner EXCEPT ![o] = [pc |-> "started"]]
        BY <4>1, <4>3 DEF ProcessesOK
      <4> QED BY <3>1, <4>2, <4>3 DEF RequestProbe, Launch
    <3>2. CASE UNCHANGED runner
      BY <3>2 DEF ProcessesOK
    <3> QED BY <1>1, <3>1, <3>2 DEF AgentStep, BeginReview, StoreReview, Evaluate, PutContext,
          RecordHardDecision, DiscardContext, RemoveContext, BeginLocalFix, BeginArchitectureFix,
          OpenArtifact, AuthorizeContinuation, ResumeAfterProbe, IssueAuthorizedContinuation,
          WriteArtifact, ConsumeGrant, Neutralize, Crash
  <2> QED BY <1>1, <2>1, <2>2, AgentStaysOK DEF ProcessesOK
<1>2. ASSUME NEW o \in Owners, RunnerStep(o) PROVE [Next]_vars /\ ProcessesOK'
  <2>1. UNCHANGED <<agent, artifact>>
    BY <1>2 DEF RunnerStep, ClaimProbe, ReadContext, ProviderAnswers, ProbeFails, CleanContext,
      RunnerDies
  <2> QED BY <1>2, <2>1, RunnerCallsStore, RunnerStaysOK DEF ProcessesOK
<1>3. ASSUME NEW k \in Checkpoints, Checkpoint(k) PROVE [Next]_vars /\ ProcessesOK'
  <2>1. Next
    BY <1>3, GuardAssumption DEF Checkpoint, DecisionOperation, Next
  <2> QED BY <1>3, <2>1 DEF Checkpoint, ProcessesOK
<1>4. CASE Resolve
  <2>1. Next
    BY <1>4, GuardAssumption DEF Resolve, DecisionOperation, Next
  <2> QED BY <1>4, <2>1 DEF Resolve, guard, ProcessesOK
<1>5. CASE PruneOrphans
  BY <1>5 DEF PruneOrphans, ListOrphan, PruneOrphan, Stored, ProcessesOK
<1>6. CASE TimePasses /\ UNCHANGED <<kind, guard>>
  BY <1>6 DEF Next, guard, ProcessesOK
<1>7. CASE UNCHANGED allVars
  BY <1>7 DEF allVars, guard, ProcessesOK
<1> QED BY <1>1, <1>2, <1>3, <1>4, <1>5, <1>6, <1>7 DEF GuardNext

LEMMA GuardStart == ASSUME GuardInit PROVE Init /\ LoopInv /\ ProcessesOK
BY IdleOK, InvInit DEF GuardInit, ProcessesOK

LEMMA GuardInvariant == GuardSpec => [](LoopInv /\ ProcessesOK)
<1>1. GuardInit => LoopInv /\ ProcessesOK
  BY GuardStart
<1>2. LoopInv /\ ProcessesOK /\ [GuardNext]_allVars => (LoopInv /\ ProcessesOK)'
  BY GuardStep, NextKeeps
<1> QED BY <1>1, <1>2, PTL DEF GuardSpec

\* The guard's commands, run by any number of processes that crash and overtake one
\* another, do to the store what its operations do, one at a time.
THEOREM GuardImplementsStore == GuardSpec => ImplementsStore
<1>1. GuardInit => Init
  BY GuardStart
<1>2. LoopInv /\ ProcessesOK /\ [GuardNext]_allVars => [Next]_vars
  BY GuardStep
<1> QED BY <1>1, <1>2, GuardInvariant, PTL DEF GuardSpec, ImplementsStore, Spec

\* So a grant a command spends is active, of the present contract, and opens a
\* generation no other grant has opened.
THEOREM GuardKeepsGrants == GuardSpec => [](GrantsMatchLoops /\ SpentGrantsDiffer)
<1>1. LoopInv => GrantsMatchLoops /\ SpentGrantsDiffer
  BY DEF LoopInv
<1> QED BY <1>1, GuardInvariant, PTL

\* And after two failures no command opens a generation but by spending a grant
\* written for the present one.
THEOREM GuardBudgetCostsGrant == GuardSpec => BudgetNeedsGrant
<1>1. GuardSpec => Spec
  BY GuardImplementsStore DEF ImplementsStore
<1> QED BY <1>1, BudgetCostsGrant

----------------------------------------------------------------------------
(* What a step does to the row of the loop and to the log: ten calls of the *)
(* store that change them, and steps that let them be.                      *)

Reviewing(r) ==
    /\ ~Recorded(r) /\ grant' = grant
    /\ row' = Reviewed(row, Counted(r), Directional(r), r, r)
    /\ \E n \in Nat :
          /\ n <= row.fix_generation
          /\ log' = [log EXCEPT !.generation[r] = n, !.failures = FailuresAfter(r),
                                !.reviewDecision = row'.current_decision, !.directed = FALSE]

Deciding(v) ==
    /\ SnapshotHolds(v) /\ grant' = grant
    /\ \/ row.status \in Working
       \/ row.status = "reflection_resolved" /\ DecisionTarget(v.decision) \in Stops
    /\ row' = [row EXCEPT !.status = DecisionTarget(v.decision), !.current_decision = v.decision]
    /\ log' = [log EXCEPT !.decided = log.decided \cup {v}]

Requesting(c) ==
    /\ c \notin log.requested /\ ~LiveProbe(row) /\ row.status = "reflection_required"
    /\ row' = ProbeRequested(row, "past") /\ grant' = grant
    /\ log' = [log EXCEPT !.requested = log.requested \cup {c}, !.context = c,
                          !.orphaned = c \in orphans]
    /\ UNCHANGED contextRoot

Issuing(g) ==
    /\ grant[g].state = "unused" /\ log' = log
    /\ row.status \in {"generation_closed", "reflection_resolved", "direction_approved"}
    /\ g.action = "architecture_fix" => row.status = "direction_approved"
    /\ row' = [row EXCEPT !.status = "grant_ready", !.active_grant = g]
    /\ grant'[g].state = "active"
    /\ \A h \in Grants \ {g} :
          \/ grant'[h].state = grant[h].state
          \/ grant[h].state = "active" /\ grant'[h].state = "revoked"

Consuming(g) ==
    /\ grant[g].state = "active" /\ row.status = "grant_ready" /\ row.active_grant = g
    /\ row' = Continued(row, row.fix_generation + 1)
    /\ grant'[g].state = "consumed" /\ \A h \in Grants \ {g} : grant'[h] = grant[h]
    /\ log' = [log EXCEPT !.lastPurpose = Purpose(g.action)]

Claiming ==
    /\ LiveProbe(row) /\ log' = log /\ grant' = grant
    /\ \/ \E o \in Owners : row' = ProbeClaimed(row, o)
       \/ /\ row.status \in {"probe_pending", "probe_running"}
          /\ row' = ProbeEnded(row, "checkpoint_required", "failed", "null")

Answering ==
    /\ row.status = "probe_running" /\ row.probe_state = "running" /\ grant' = grant
    /\ \E o \in Owners : runner[o].pc = "ask" /\ runner[o].epoch = row.probe_epoch
    /\ row' = ProbeEnded(row, "reflection_resolved", "completed", "null")
    /\ \E action \in Advice :
          log' = [log EXCEPT !.completed = [generation |-> row.fix_generation, action |-> action]]

Failing ==
    /\ row.status \in {"probe_pending", "probe_running"} /\ row.probe_state = "running"
    /\ \/ row' = ProbeEnded(row, "reflection_required", "retryable", "future")
       \/ row' = ProbeEnded(row, "checkpoint_required", "failed", "null")
    /\ log' = log /\ grant' = grant

Directing ==
    /\ row.status = "checkpoint_required" /\ grant' = grant
    /\ row' = [row EXCEPT !.status = "direction_approved"]
    /\ \E k \in Checkpoints :
          log' = [log EXCEPT !.checkpoints = log.checkpoints \cup {k}, !.checkpoint = k,
                             !.directed = TRUE]

\* A resolution, the clock, or no call at all.
Passing ==
    /\ log' = log
    /\ \/ row' = row
       \/ row' = [row EXCEPT !.probe_lease = "past"] \/ row' = [row EXCEPT !.probe_next = "past"]
       \/ Exists(F) /\ row' = [row EXCEPT !.status = "terminal", !.current_decision = "finish"]
    /\ \A g \in Grants : grant'[g].state = grant[g].state

Calls ==
    \/ \E r \in Reviews : Reviewing(r)
    \/ \E a \in Agents : agent[a].pc = "decide" /\ Deciding(agent[a].verdict)
    \/ \E a \in Agents : agent[a].pc = "request" /\ Requesting(agent[a].context)
    \/ \E a \in Agents, g \in Grants :
          agent[a].pc = "issue" /\ g.action = agent[a].action /\ Issuing(g)
    \/ \E g \in Grants : Consuming(g)
    \/ Claiming \/ Answering \/ Failing \/ Directing \/ Passing

\* The row of the loop is a good one, and blank until it is inserted.
LEMMA RowHere ==
    ASSUME LoopInv
    PROVE  /\ F \in Loops /\ row \in LoopRow /\ ProbeAgrees(row)
           /\ ~Exists(F) => row = AbsentLoop
           /\ loop = [f \in Loops |-> loop[f]] /\ grant = [g \in Grants |-> grant[g]]
BY GuardAssumption, RowFacts DEF LoopInv, TypeOK, RowOK, Exists, row

\* What is written is what is there.
LEMMA Written == ASSUME LoopInv, NEW s, WriteLoop(F, s) PROVE row' = s
BY RowHere DEF WriteLoop, row

\* The transition table, read backwards for the events of the guard's calls.
LEMMA TableRead ==
    ASSUME NEW s, NEW t
    PROVE  /\ ValidTransition(s, "breaker_triggered", t) =>
                 s \in Working \/ (s = "reflection_resolved" /\ t \in Stops)
           /\ ValidTransition(s, "reflection_requested", t) => s = "reflection_required"
           /\ ValidTransition(s, "grant_issued", t) =>
                 s \in {"generation_closed", "reflection_resolved", "direction_approved"}
           /\ ValidTransition(s, "grant_consumed", t) => s = "grant_ready"
           /\ ValidTransition(s, "reflection_completed", t) => s = "probe_running"
           /\ ValidTransition(s, "reflection_failed", t) => s \in {"probe_pending", "probe_running"}
           /\ ValidTransition(s, "checkpoint_recorded", t) => s = "checkpoint_required"
<1>1. ValidTransition(s, "breaker_triggered", t) =>
          s \in Working \/ (s = "reflection_resolved" /\ t \in Stops)
  BY SMTT(30) DEF ValidTransition, PreservingEvents, Edges
<1>2. ValidTransition(s, "reflection_requested", t) => s = "reflection_required"
  BY SMTT(30) DEF ValidTransition, PreservingEvents, Edges
<1>3. ValidTransition(s, "grant_issued", t) =>
          s \in {"generation_closed", "reflection_resolved", "direction_approved"}
  BY SMTT(30) DEF ValidTransition, PreservingEvents, Edges
<1>4. ValidTransition(s, "grant_consumed", t) => s = "grant_ready"
  BY SMTT(30) DEF ValidTransition, PreservingEvents, Edges
<1>5. ValidTransition(s, "reflection_completed", t) => s = "probe_running"
  BY SMTT(30) DEF ValidTransition, PreservingEvents, Edges
<1>6. ValidTransition(s, "reflection_failed", t) => s \in {"probe_pending", "probe_running"}
  BY SMTT(30) DEF ValidTransition, PreservingEvents, Edges
<1>7. ValidTransition(s, "checkpoint_recorded", t) => s = "checkpoint_required"
  BY SMTT(30) DEF ValidTransition, PreservingEvents, Edges
<1> QED BY <1>1, <1>2, <1>3, <1>4, <1>5, <1>6, <1>7

----------------------------------------------------------------------------
(* What the processes and the log know of the row.  A command or a file may *)
(* be behind the loop, but never ahead of it: what it speaks of is on       *)
(* record, and a generation or a review that is over does not come back.    *)

\* The row stands at review b and generation n; it has stood there, or does.
Present(b, n) == b = row.basis /\ n = row.fix_generation
Past(b, n) == b \in Reviews /\ n \in Nat /\ Recorded(b) /\ n <= row.fix_generation

Fits(c) == Present(c.basis, c.generation)
Known(c) == c \in [basis : Reviews, text : Texts, generation : Nat] /\ Past(c.basis, c.generation)

\* A probe may still be asked for the review and the generation the row stands at.
Receptive == row.status \in Working \/ (row.status = "reflection_required" /\ ~LiveProbe(row))

\* The only verdict that asks for a reflection.
Asking(b, n, k) ==
    [prior |-> b, advice |-> "none", basis |-> b, generation |-> n, failures |-> k,
     decision |-> "reflection_required", reason |-> "unchanged_basis_repeated_mutation"]

VerdictOK(v) ==
    /\ v.decision # "pass" /\ Past(v.basis, v.generation)
    /\ Present(v.basis, v.generation) => v.failures = row.failure_count
    /\ v.decision = "reflection_required" => v = Asking(v.basis, v.generation, v.failures)

AsksFor(v, c) == v = Asking(c.basis, c.generation, v.failures)

\* A command that has a probe's context at hand: before the request, or after a refusal.
Submits(s) == s.pc = "request" \/ (s.pc = "decide" /\ s.context # None)
Withdraws(s) == s.pc \in {"discard", "remove"}

AgentKnows(s) ==
    /\ s.pc = "store" => s.generation \in Nat /\ s.generation <= row.fix_generation
    /\ s.pc = "evaluate" => log.failures >= 1
    /\ s.pc = "put" \/ Submits(s) \/ Withdraws(s) =>
          "context" \in DOMAIN s /\ Known(s.context) /\ log.failures >= 1
    /\ s.pc = "put" => /\ VerdictOK(s.verdict) /\ AsksFor(s.verdict, s.context)
                       /\ s.fallback.context = None /\ VerdictOK(s.fallback.verdict)
    /\ s.pc = "decide" => VerdictOK(s.verdict) /\ (s.context # None => AsksFor(s.verdict, s.context))
    /\ s.pc = "request" => (Fits(s.context) => row.status \notin Working)
    /\ Submits(s) => (Fits(s.context) /\ Receptive => s.context \in contexts \cup orphans)
    /\ Withdraws(s) => (Fits(s.context) => ~Receptive)
    /\ s.pc = "remove" => (Fits(s.context) => ~(LiveProbe(row) /\ log.context = s.context))
    /\ s.pc \in {"write", "consume"} => grant[s.grant].state # "unused"

AgentsKnow == \A a \in Agents : AgentKnows(agent[a])

LogShape ==
    log = [failures |-> log.failures, reviewDecision |-> log.reviewDecision,
           generation |-> log.generation, decided |-> log.decided, requested |-> log.requested,
           context |-> log.context, orphaned |-> log.orphaned, completed |-> log.completed,
           lastPurpose |-> log.lastPurpose, checkpoints |-> log.checkpoints,
           checkpoint |-> log.checkpoint, directed |-> log.directed]

\* What is counted in the log is counted in the row.
CountsOK ==
    /\ LogShape
    /\ log.failures \in 0..3
    /\ log.generation \in [Reviews -> Int]
    /\ \A r \in Reviews : log.generation[r] <= row.fix_generation
    /\ \A r \in Reviews : Recorded(r) /\ Counted(r) => log.failures >= 1
    /\ row.evidence = {r \in Reviews : Recorded(r)}
    /\ row.failure_count = IF log.failures > 2 THEN 2 ELSE log.failures
    /\ Exists(F) => row.basis \in Reviews /\ Recorded(row.basis)
    /\ contexts \subseteq [basis : Reviews, text : Texts, generation : Nat]
    /\ \A p \in Files : artifact[p] # None /\ artifact[p].grant # None
                         => grant[artifact[p].grant].state # "unused"

\* A grant a command can name is one of the store's, in the terms of its facts.
LEMMA GrantNamed ==
    ASSUME NEW g \in Grants
    PROVE  g.action \in {"local_fix", "continue_once", "architecture_fix"} /\ g # NoGrant
BY GuardAssumption, LoopAssumption DEF GrantNames

\* An agent's step is one of the calls.
LEMMA AgentCalls ==
    ASSUME LoopInv, ProcessesOK, CountsOK, AgentsKnow, NEW a \in Agents, AgentStep(a)
    PROVE  Calls
<1>1. /\ AgentOK(agent[a]) /\ AgentKnows(agent[a]) /\ F \in Loops /\ row \in LoopRow
      /\ \A s : WriteLoop(F, s) => row' = s
  BY RowHere, Written DEF ProcessesOK, AgentsKnow
<1>2. vars' = vars /\ log' = log => Calls
  BY DEF vars, row, Calls, Passing
<1>3. CASE StoreReview(a)
  <2> DEFINE r == agent[a].review
  <2>1. r \in Reviews /\ agent[a].generation \in Nat /\ agent[a].generation <= row.fix_generation
    BY <1>1, <1>3 DEF StoreReview, At, AgentOK, AgentKnows, Reviews
  <2>2. CASE ~Recorded(r)
    <3>1. WriteLoop(F, Reviewed(IF Exists(F) THEN loop[F] ELSE [AbsentLoop EXCEPT !.fix_generation = 0],
                                Counted(r), Directional(r), r, r)) /\ grant' = grant
      BY <1>3, <2>2 DEF StoreReview, RecordConvergenceReview
    <3>2. (IF Exists(F) THEN loop[F] ELSE [AbsentLoop EXCEPT !.fix_generation = 0]) = row
      BY RowHere DEF row, AbsentLoop
    <3>3. row' = Reviewed(row, Counted(r), Directional(r), r, r)
      BY <1>1, <3>1, <3>2
    <3>4. log' = [log EXCEPT !.generation[r] = agent[a].generation, !.failures = FailuresAfter(r),
                             !.reviewDecision = row'.current_decision, !.directed = FALSE]
      BY <1>3, <2>2 DEF StoreReview, row
    <3> HIDE DEF r
    <3> QED BY <2>1, <2>2, <3>1, <3>3, <3>4 DEF Calls, Reviewing
  <2> QED BY <1>2, <1>3, <2>2 DEF StoreReview
<1>4. CASE RecordHardDecision(a)
  <2> DEFINE v == agent[a].verdict
  <2>1. CASE /\ SnapshotHolds(v) /\ MayTurn(F, "breaker_triggered", DecisionTarget(v.decision))
             /\ RecordConvergenceDecision(F, v.decision)
             /\ log' = [log EXCEPT !.decided = @ \cup {v}]
    <3>1. /\ row' = [row EXCEPT !.status = DecisionTarget(v.decision), !.current_decision = v.decision]
          /\ grant' = grant
      BY <1>1, <2>1 DEF RecordConvergenceDecision, row
    <3>2. \/ row.status \in Working
          \/ row.status = "reflection_resolved" /\ DecisionTarget(v.decision) \in Stops
      BY <2>1, TableRead DEF MayTurn, row
    <3>3. Deciding(v)
      BY <2>1, <3>1, <3>2 DEF Deciding
    <3> QED BY <1>4, <3>3 DEF Calls, RecordHardDecision, At
  <2> QED BY <1>2, <1>4, <2>1 DEF RecordHardDecision
<1>5. CASE RequestProbe(a)
  <2> DEFINE c == agent[a].context
  <2>1. CASE /\ c \notin log.requested /\ ~LiveProbe(row)
             /\ MayTurn(F, "reflection_requested", "probe_pending")
             /\ RequestConvergenceProbe(F, "past")
             /\ log' = [log EXCEPT !.requested = @ \cup {c}, !.context = c,
                                   !.orphaned = c \in orphans]
    <3>1. row' = ProbeRequested(row, "past") /\ grant' = grant
      BY <1>1, <2>1 DEF RequestConvergenceProbe, row
    <3>2. row.status = "reflection_required"
      BY <2>1, TableRead DEF MayTurn, row
    <3>3. Requesting(c)
      BY <1>5, <2>1, <3>1, <3>2 DEF Requesting, RequestProbe
    <3> QED BY <1>5, <3>3 DEF Calls, RequestProbe, At
  <2> QED BY <1>2, <1>5, <2>1 DEF RequestProbe
<1>6. CASE IssueAuthorizedContinuation(a)
  <2> DEFINE g == Facts(agent[a])
  <2>1. g \in Grants /\ g.action = agent[a].action
    BY <1>6 DEF IssueAuthorizedContinuation, Facts
  <2>2. CASE IssueContinuationGrant(F, g) /\ log' = log /\ MayIssue(agent[a])
    <3> HIDE DEF g
    <3>1. /\ grant[g].state = "unused" /\ grant'[g].state = "active"
          /\ row' = [row EXCEPT !.status = "grant_ready", !.active_grant = g]
          /\ \A h \in Grants \ {g} : \/ grant'[h].state = grant[h].state
                                     \/ grant[h].state = "active" /\ grant'[h].state = "revoked"
      <4>1. \A h \in Grants : grant[h] \in GrantRow
        BY GrantFacts
      <4>2. WriteLoop(F, [loop[F] EXCEPT !.status = "grant_ready", !.active_grant = g])
        BY <2>2 DEF IssueContinuationGrant
      <4>3. row' = [row EXCEPT !.status = "grant_ready", !.active_grant = g]
        BY <1>1, <4>2 DEF row
      <4>4. \A h \in Grants \ {g} : grant'[h] = IF grant[h].state = "active" /\ grant[h].loop = F
                                                THEN Revoked(grant[h]) ELSE grant[h]
        BY <1>1, <2>1, <2>2, IssueEffects
      <4>5. grant[g].state = "unused" /\ grant'[g].state = "active"
        BY <2>1, <2>2 DEF IssueContinuationGrant
      <4> QED BY <4>1, <4>3, <4>4, <4>5 DEF Revoked, GrantRow
    <3>2. row.status \in {"generation_closed", "reflection_resolved", "direction_approved"}
      BY <2>2, TableRead DEF IssueContinuationGrant, MayTurn, row
    <3>3. g.action = "architecture_fix" => row.status = "direction_approved"
      BY <2>1, <2>2, <3>2 DEF MayIssue
    <3>4. Issuing(g)
      BY <2>2, <3>1, <3>2, <3>3 DEF Issuing
    <3> QED BY <1>6, <2>1, <3>4 DEF Calls, IssueAuthorizedContinuation, At
  <2> QED BY <1>2, <1>6, <2>2 DEF IssueAuthorizedContinuation
<1>7. CASE ConsumeGrant(a)
  <2> DEFINE g == agent[a].grant
  <2>1. g \in Grants
    BY <1>1, <1>7 DEF ConsumeGrant, At, AgentOK
  <2>2. CASE /\ ConsumeContinuationGrant(F, g)
             /\ log' = [log EXCEPT !.lastPurpose = Purpose(g.action)]
    <3> HIDE DEF g
    <3>1. /\ grant[g].state = "active" /\ grant[g].generation = row.fix_generation
          /\ row.active_grant = g /\ grant' = [grant EXCEPT ![g].state = "consumed"]
          /\ WriteLoop(F, Continued(loop[F], grant[g].generation + 1))
          /\ MayTurn(F, "grant_consumed", "active_generation")
      BY <2>2 DEF ConsumeContinuationGrant, Consumable, row
    <3>2. row' = Continued(row, row.fix_generation + 1)
      BY <1>1, <3>1 DEF row
    <3>3. grant'[g].state = "consumed" /\ \A h \in Grants \ {g} : grant'[h] = grant[h]
      BY <2>1, <3>1, RowHere, GrantFacts DEF GrantRow
    <3>4. row.status = "grant_ready"
      BY <3>1, TableRead DEF MayTurn, row
    <3>5. Consuming(g)
      BY <2>2, <3>1, <3>2, <3>3, <3>4 DEF Consuming
    <3> QED BY <2>1, <3>5 DEF Calls
  <2> QED BY <1>2, <1>7, <2>2 DEF ConsumeGrant
<1>8. CASE Stored
  BY <1>2, <1>8 DEF Stored
<1> QED BY <1>3, <1>4, <1>5, <1>6, <1>7, <1>8 DEF AgentStep, BeginReview, Evaluate, PutContext,
      DiscardContext, RemoveContext, BeginLocalFix, BeginArchitectureFix, OpenArtifact,
      AuthorizeContinuation, ResumeAfterProbe, WriteArtifact, Neutralize, Crash

\* So is a step of a probe's process.
LEMMA RunnerCalls ==
    ASSUME LoopInv, NEW o \in Owners, RunnerStep(o)
    PROVE  Calls
<1>1. \A s : WriteLoop(F, s) => row' = s
  BY Written
<1>2. CASE ClaimProbe(o)
  <2>1. ClaimConvergenceProbe(F, o) /\ log' = log /\ grant' = grant
    BY <1>2 DEF ClaimProbe, ClaimConvergenceProbe
  <2>2. CASE ProbeExhausted(row)
    <3>1. row' = ProbeEnded(row, "checkpoint_required", "failed", "null")
      BY <1>1, <2>1, <2>2 DEF ClaimConvergenceProbe, row
    <3>2. row.status \in {"probe_pending", "probe_running"}
      BY <2>1, <2>2, TableRead DEF ClaimConvergenceProbe, MayTurn, row
    <3> QED BY <2>1, <2>2, <3>1, <3>2 DEF Calls, Claiming, LiveProbe, ProbeExhausted, ProbeExpired
  <2>3. CASE ~ProbeExhausted(row)
    <3>1. row' = ProbeClaimed(row, o) /\ LiveProbe(row)
      BY <1>1, <2>1, <2>3 DEF ClaimConvergenceProbe, row, ProbeDue, ProbeExpired, LiveProbe
    <3> QED BY <2>1, <3>1 DEF Calls, Claiming
  <2> QED BY <2>2, <2>3
<1>3. CASE ProviderAnswers(o)
  <2>1. /\ CompleteConvergenceProbe(F, o, runner[o].epoch) /\ grant' = grant
        /\ \E action \in Advice :
              log' = [log EXCEPT !.completed = [generation |-> row.fix_generation, action |-> action]]
    BY <1>3 DEF ProviderAnswers, CompleteConvergenceProbe
  <2>2. row' = ProbeEnded(row, "reflection_resolved", "completed", "null")
    BY <1>1, <2>1 DEF CompleteConvergenceProbe, row
  <2>3. /\ row.status = "probe_running" /\ row.probe_state = "running"
        /\ runner[o].pc = "ask" /\ runner[o].epoch = row.probe_epoch
    BY <1>3, <2>1, TableRead DEF ProviderAnswers, CompleteConvergenceProbe, MayTurn, HoldsProbe, row
  <2> QED BY <2>1, <2>2, <2>3 DEF Calls, Answering
<1>4. CASE ProbeFails(o)
  <2>1. PICK retryable \in BOOLEAN : FailConvergenceProbe(F, o, runner[o].epoch, retryable)
    BY <1>4 DEF ProbeFails
  <2>2. grant' = grant /\ log' = log
    BY <1>4, <2>1 DEF ProbeFails, FailConvergenceProbe
  <2>3. \/ row' = ProbeEnded(row, "reflection_required", "retryable", "future")
        \/ row' = ProbeEnded(row, "checkpoint_required", "failed", "null")
    BY <1>1, <2>1 DEF FailConvergenceProbe, row
  <2>4. row.status \in {"probe_pending", "probe_running"} /\ row.probe_state = "running"
    BY <2>1, TableRead DEF FailConvergenceProbe, MayTurn, HoldsProbe, row
  <2> QED BY <2>2, <2>3, <2>4 DEF Calls, Failing
<1>5. CASE Stored
  BY <1>5 DEF Stored, vars, row, Calls, Passing
<1> QED BY <1>2, <1>3, <1>4, <1>5 DEF RunnerStep, ReadContext, CleanContext, RunnerDies

\* And every other step.
LEMMA GuardCalls ==
    ASSUME LoopInv, ProcessesOK, CountsOK, AgentsKnow, [GuardNext]_allVars
    PROVE  Calls
<1>1. \A s : WriteLoop(F, s) => row' = s
  BY Written
<1>2. ASSUME NEW k \in Checkpoints, Checkpoint(k) PROVE Calls
  <2>1. row' = [row EXCEPT !.status = "direction_approved"] /\ grant' = grant
    BY <1>1, <1>2 DEF Checkpoint, RecordConvergenceCheckpoint, row
  <2>2. row.status = "checkpoint_required"
    BY <1>2, TableRead DEF Checkpoint, RecordConvergenceCheckpoint, MayTurn, row
  <2> QED BY <1>2, <2>1, <2>2 DEF Checkpoint, Calls, Directing
<1>3. CASE Resolve
  <2>1. /\ row' = [row EXCEPT !.status = "terminal", !.current_decision = "finish"]
        /\ Exists(F) /\ grant' = grant /\ log' = log
    BY <1>1, <1>3 DEF Resolve, ResolveConvergenceLoop, MayTurn, guard, row
  <2> QED BY <2>1 DEF Calls, Passing
<1>4. CASE PruneOrphans \/ UNCHANGED allVars
  BY <1>4 DEF PruneOrphans, ListOrphan, PruneOrphan, Stored, allVars, guard, vars, row, Calls, Passing
<1>5. CASE TimePasses /\ UNCHANGED <<kind, guard>>
  <2>1. log' = log
    BY <1>5 DEF guard
  <2>2. ASSUME NEW f \in Loops, UNCHANGED <<task, grant>>,
               \/ WriteLoop(f, [loop[f] EXCEPT !.probe_lease = "past"])
               \/ WriteLoop(f, [loop[f] EXCEPT !.probe_next = "past"])
        PROVE  Calls
    <3>1. CASE f = F
      BY <1>1, <2>1, <2>2, <3>1 DEF Calls, Passing, row
    <3>2. CASE f # F
      BY <2>1, <2>2, <3>2, RowHere DEF Calls, Passing, row, WriteLoop
    <3> QED BY <3>1, <3>2
  <2>3. ASSUME NEW g \in Grants, grant' = [grant EXCEPT ![g].expires = "past"], loop' = loop
        PROVE  Calls
    <3>1. \A h \in Grants : grant'[h].state = grant[h].state
      BY <2>3, RowHere, GrantFacts DEF GrantRow
    <3> QED BY <2>1, <2>3, <3>1 DEF Calls, Passing, row
  <2> QED BY <1>5, <2>2, <2>3 DEF TimePasses
<1> QED BY <1>2, <1>3, <1>4, <1>5, AgentCalls, RunnerCalls DEF GuardNext

----------------------------------------------------------------------------
(* A call leaves the loop at its review and generation, or moves it on to   *)
(* a review or a generation that nothing speaks of yet.                     *)

\* The loop stays where it is, and gets no nearer to another probe.
Steady ==
    /\ row'.basis = row.basis /\ row'.fix_generation = row.fix_generation
    /\ row'.failure_count = row.failure_count /\ row'.evidence = row.evidence
    /\ log'.generation = log.generation /\ log'.failures = log.failures
    /\ row'.status # "absent" <=> row.status # "absent"
    /\ Receptive' => Receptive
    /\ row'.status \in Working => row.status \in Working

\* What a new review changes.
LEMMA ReviewEffects ==
    ASSUME LoopInv, CountsOK, NEW r \in Reviews, Reviewing(r)
    PROVE  /\ row'.basis = r /\ row'.fix_generation = row.fix_generation
           /\ row'.status = "generation_closed" /\ row'.evidence = row.evidence \cup {r}
           /\ row'.failure_count = IF Counted(r) /\ row.failure_count < 2
                                   THEN row.failure_count + 1 ELSE row.failure_count
           /\ row'.probe_state = row.probe_state /\ row'.probe_epoch = row.probe_epoch
           /\ row'.active_grant = row.active_grant
           /\ \E n \in Nat : n <= row.fix_generation
                             /\ log'.generation = [log.generation EXCEPT ![r] = n]
           /\ log'.failures = FailuresAfter(r) /\ log'.directed = FALSE
           /\ log'.decided = log.decided /\ log'.requested = log.requested
           /\ log'.context = log.context /\ log'.completed = log.completed
           /\ log'.orphaned = log.orphaned
<1>1. row \in LoopRow /\ r \notin row.evidence
  BY RowHere DEF CountsOK, Reviewing
<1>2. row' = Reviewed(row, Counted(r), Directional(r), r, r)
  BY DEF Reviewing
<1>3. PICK n \in Nat :
         /\ n <= row.fix_generation
         /\ log' = [log EXCEPT !.generation[r] = n, !.failures = FailuresAfter(r),
                               !.reviewDecision = row'.current_decision, !.directed = FALSE]
  BY DEF Reviewing
<1>4. /\ log'.generation = [log.generation EXCEPT ![r] = n] /\ log'.failures = FailuresAfter(r)
      /\ log'.directed = FALSE /\ log'.decided = log.decided /\ log'.requested = log.requested
      /\ log'.context = log.context /\ log'.completed = log.completed
      /\ log'.orphaned = log.orphaned
  BY <1>3 DEF CountsOK, LogShape
<1>5. /\ row'.basis = r /\ row'.fix_generation = row.fix_generation
      /\ row'.status = "generation_closed" /\ row'.evidence = row.evidence \cup {r}
      /\ row'.failure_count = IF Counted(r) /\ row.failure_count < 2
                              THEN row.failure_count + 1 ELSE row.failure_count
      /\ row'.probe_state = row.probe_state /\ row'.probe_epoch = row.probe_epoch
      /\ row'.active_grant = row.active_grant
  BY <1>1, <1>2 DEF Reviewed, LoopRow, FailureBudget
<1> QED BY <1>3, <1>4, <1>5

\* The fields of the log that count survive every other call.
LEMMA CountsStay ==
    ASSUME CountsOK, Calls, \A r \in Reviews : ~Reviewing(r)
    PROVE  log'.generation = log.generation /\ log'.failures = log.failures
<1>1. LogShape
  BY DEF CountsOK
<1>2. ASSUME NEW v, Deciding(v)
      PROVE  log'.generation = log.generation /\ log'.failures = log.failures
  BY <1>1, <1>2 DEF Deciding, LogShape
<1>3. ASSUME NEW c, Requesting(c)
      PROVE  log'.generation = log.generation /\ log'.failures = log.failures
  BY <1>1, <1>3 DEF Requesting, LogShape
<1>4. ASSUME NEW g, Consuming(g)
      PROVE  log'.generation = log.generation /\ log'.failures = log.failures
  BY <1>1, <1>4 DEF Consuming, LogShape
<1>5. CASE Answering
  BY <1>1, <1>5 DEF Answering, LogShape
<1>6. CASE Directing
  BY <1>1, <1>6 DEF Directing, LogShape
<1>7. CASE log' = log
  BY <1>7
<1> QED
  BY <1>2, <1>3, <1>4, <1>5, <1>6, <1>7 DEF Calls, Issuing, Claiming, Failing, Passing

\* A decision stops the loop or asks for a reflection: none of the guard's is a pass.
LEMMA DecidedStatus ==
    ASSUME NEW v, v.decision \in Decisions \ {"pass"}
    PROVE  DecisionTarget(v.decision) \in Stops \cup {"reflection_required"}
           /\ (DecisionTarget(v.decision) = "reflection_required"
                 => v.decision = "reflection_required")
BY DEF Decisions, DecisionTarget, Stops

\* What a row can be after a call that neither reviews nor opens a generation.
LEMMA RowStays ==
    ASSUME LoopInv, ProcessesOK, AgentsKnow, Calls,
           \A r \in Reviews : ~Reviewing(r), \A g \in Grants : ~Consuming(g)
    PROVE  /\ row'.basis = row.basis /\ row'.fix_generation = row.fix_generation
           /\ row'.failure_count = row.failure_count /\ row'.evidence = row.evidence
           /\ row'.status # "absent" <=> row.status # "absent"
           /\ row'.status \in Working => row.status \in Working
           /\ row'.status = "reflection_required" /\ ~LiveProbe(row)' =>
                 row.status \in Working \/ (row.status = "reflection_required" /\ ~LiveProbe(row))
<1> USE DEF LoopRow, Working, LiveProbe
<1>1. row \in LoopRow /\ (~Exists(F) => row = AbsentLoop) /\ ProbeAgrees(row)
  BY RowHere
<1>2. ASSUME NEW a \in Agents, agent[a].pc = "decide", Deciding(agent[a].verdict)
      PROVE  row.status # "absent" /\ \E t \in Stops \cup {"reflection_required"}, d \in Decisions :
                /\ row' = [row EXCEPT !.status = t, !.current_decision = d]
                /\ row.status \in Working \/ (row.status = "reflection_resolved" /\ t \in Stops)
  <2>1. agent[a].verdict.decision \in Decisions \ {"pass"}
    BY <1>2 DEF ProcessesOK, AgentsKnow, AgentOK, AgentKnows, VerdictOK
  <2> QED BY <1>2, <2>1, DecidedStatus DEF Deciding
<1>3. CASE \E t \in Stops \cup {"reflection_required"}, d \in Decisions :
              /\ row' = [row EXCEPT !.status = t, !.current_decision = d]
              /\ row.status \in Working \/ (row.status = "reflection_resolved" /\ t \in Stops)
  BY <1>1, <1>3 DEF Stops
<1>4. ASSUME NEW c, Requesting(c)
      PROVE  row.status = "reflection_required" /\ ~LiveProbe(row) /\ row' = ProbeRequested(row, "past")
  BY <1>4 DEF Requesting
<1>5. CASE /\ row.status = "reflection_required" /\ ~LiveProbe(row)
           /\ row' = ProbeRequested(row, "past")
  BY <1>1, <1>5 DEF ProbeRequested
<1>6. ASSUME NEW g \in Grants, Issuing(g)
      PROVE  /\ row' = [row EXCEPT !.status = "grant_ready", !.active_grant = g]
             /\ row.status # "absent"
  BY <1>6 DEF Issuing
<1>7. CASE \E g \in Grants : /\ row' = [row EXCEPT !.status = "grant_ready", !.active_grant = g]
                             /\ row.status # "absent"
  BY <1>1, <1>7
<1>8. CASE Claiming
  <2>1. row.status # "absent"
    BY <1>1, <1>8 DEF Claiming, Exists, row, AbsentLoop
  <2> QED BY <1>1, <1>8, <2>1 DEF Claiming, ProbeClaimed, ProbeEnded
<1>9. CASE Answering \/ Failing
  BY <1>1, <1>9 DEF Answering, Failing, ProbeEnded
<1>10. CASE Directing
  BY <1>1, <1>10 DEF Directing
<1>11. CASE Passing
  BY <1>1, <1>11 DEF Passing, Exists, row
<1> QED BY <1>2, <1>3, <1>4, <1>5, <1>6, <1>7, <1>8, <1>9, <1>10, <1>11 DEF Calls

LEMMA QuietCalls ==
    ASSUME LoopInv, ProcessesOK, CountsOK, AgentsKnow, Calls,
           \A r \in Reviews : ~Reviewing(r), \A g \in Grants : ~Consuming(g)
    PROVE  Steady
BY CountsStay, RowStays DEF Steady, Receptive

\* What the spending of a grant changes.
LEMMA ConsumeEffects ==
    ASSUME LoopInv, CountsOK, NEW g \in Grants, Consuming(g)
    PROVE  /\ row'.basis = row.basis /\ row'.fix_generation = row.fix_generation + 1
           /\ row'.status = "active_generation" /\ row'.evidence = row.evidence
           /\ row'.failure_count = row.failure_count
           /\ row'.probe_state = row.probe_state /\ row'.probe_epoch = row.probe_epoch
           /\ log'.generation = log.generation /\ log'.failures = log.failures
           /\ log'.directed = log.directed /\ log'.completed = log.completed
           /\ log'.decided = log.decided /\ log'.requested = log.requested
           /\ log'.context = log.context
           /\ log'.orphaned = log.orphaned
<1>1. row \in LoopRow
  BY RowHere
<1>2. /\ row'.basis = row.basis /\ row'.fix_generation = row.fix_generation + 1
      /\ row'.status = "active_generation" /\ row'.evidence = row.evidence
      /\ row'.failure_count = row.failure_count
      /\ row'.probe_state = row.probe_state /\ row'.probe_epoch = row.probe_epoch
  BY <1>1 DEF Consuming, Continued, LoopRow
<1> QED BY <1>2 DEF Consuming, CountsOK, LogShape

\* Failures are counted up, to three.
LEMMA FailuresRise ==
    ASSUME LoopInv, CountsOK, Calls
    PROVE  log'.failures \in 0..3 /\ log'.failures >= log.failures
<1>1. log.failures \in 0..3
  BY DEF CountsOK
<1>2. ASSUME NEW r \in Reviews, Reviewing(r)
      PROVE  log'.failures \in 0..3 /\ log'.failures >= log.failures
  <2>1. log'.failures = FailuresAfter(r)
    BY <1>2, ReviewEffects
  <2> QED BY <1>1, <2>1 DEF FailuresAfter
<1> QED BY <1>1, <1>2, CountsStay

\* What a process speaks of stays on record, and is the present of the loop afterwards
\* only if it was before and the loop stays where it is.
LEMMA PastStays ==
    ASSUME LoopInv, ProcessesOK, CountsOK, AgentsKnow, Calls
    PROVE  \A b \in Reviews, n \in Nat :
              Past(b, n) =>
                 /\ log'.generation[b] >= 0 /\ n <= row'.fix_generation
                 /\ b = row'.basis /\ n = row'.fix_generation => Present(b, n) /\ Steady
<1> SUFFICES ASSUME NEW b \in Reviews, NEW n \in Nat, Past(b, n)
             PROVE  /\ log'.generation[b] >= 0 /\ n <= row'.fix_generation
                    /\ b = row'.basis /\ n = row'.fix_generation => Present(b, n) /\ Steady
  OBVIOUS
<1>1. log.generation \in [Reviews -> Int] /\ log.generation[b] >= 0 /\ n <= row.fix_generation
  BY DEF CountsOK, Past, Recorded
<1>2. row.fix_generation \in Nat
  BY RowHere DEF LoopRow
<1>3. ASSUME NEW r \in Reviews, Reviewing(r)
      PROVE  /\ log'.generation[b] >= 0 /\ n <= row'.fix_generation
             /\ b # row'.basis
  <2>1. b # r
    BY <1>3 DEF Reviewing, Past
  <2> QED BY <1>1, <1>3, <2>1, ReviewEffects
<1>4. ASSUME NEW g \in Grants, Consuming(g)
      PROVE  /\ log'.generation[b] >= 0 /\ n <= row'.fix_generation
             /\ n # row'.fix_generation
  BY <1>1, <1>2, <1>4, ConsumeEffects
<1>5. CASE Steady
  BY <1>1, <1>5 DEF Steady, Present
<1> QED BY <1>3, <1>4, <1>5, QuietCalls

\* Only a request binds a probe to a context.
LEMMA BindingStays ==
    ASSUME LoopInv, CountsOK, Calls,
           \A a \in Agents : ~(agent[a].pc = "request" /\ Requesting(agent[a].context))
    PROVE  /\ log'.context = log.context /\ log'.requested = log.requested
           /\ log'.orphaned = log.orphaned
           /\ LiveProbe(row)' => LiveProbe(row)
<1>1. row \in LoopRow /\ LogShape
  BY RowHere DEF CountsOK
<1>2. ASSUME NEW r \in Reviews, Reviewing(r)
      PROVE  /\ log'.context = log.context /\ log'.requested = log.requested
             /\ log'.orphaned = log.orphaned
             /\ row'.probe_state = row.probe_state
  BY <1>2, ReviewEffects
<1>3. ASSUME NEW v, Deciding(v)
      PROVE  /\ log'.context = log.context /\ log'.requested = log.requested
             /\ log'.orphaned = log.orphaned
             /\ row'.probe_state = row.probe_state
  BY <1>1, <1>3 DEF Deciding, LogShape, LoopRow
<1>4. ASSUME NEW g \in Grants, Issuing(g) \/ Consuming(g)
      PROVE  /\ log'.context = log.context /\ log'.requested = log.requested
             /\ log'.orphaned = log.orphaned
             /\ row'.probe_state = row.probe_state
  BY <1>1, <1>4, ConsumeEffects DEF Issuing, LoopRow
<1>5. CASE Claiming \/ Failing
  BY <1>1, <1>5 DEF Claiming, Failing, LoopRow, LiveProbe
<1>6. CASE Answering
  BY <1>1, <1>6 DEF Answering, LogShape, LoopRow, LiveProbe, ProbeEnded
<1>7. CASE Directing
  BY <1>1, <1>7 DEF Directing, LogShape, LoopRow, LiveProbe
<1>8. CASE Passing
  BY <1>1, <1>8 DEF Passing, LoopRow, LiveProbe
<1> QED BY <1>2, <1>3, <1>4, <1>5, <1>6, <1>7, <1>8 DEF Calls, LiveProbe

\* What a request changes.
LEMMA RequestEffects ==
    ASSUME LoopInv, CountsOK, NEW c, Requesting(c)
    PROVE  /\ row'.status = "probe_pending" /\ row'.probe_state = "pending"
           /\ row'.probe_epoch = row.probe_epoch
           /\ log'.context = c /\ log'.requested = log.requested \cup {c}
           /\ log'.decided = log.decided /\ log'.completed = log.completed
           /\ log'.directed = log.directed
           /\ Receptive /\ ~Receptive'
           /\ ~log'.orphaned => c \notin orphans'
<1>1. row \in LoopRow /\ LogShape
  BY RowHere DEF CountsOK
<1>2. /\ row'.status = "probe_pending" /\ row'.probe_state = "pending"
      /\ row'.probe_epoch = row.probe_epoch
  BY <1>1 DEF Requesting, ProbeRequested, LoopRow
<1>3. /\ log'.context = c /\ log'.requested = log.requested \cup {c}
      /\ log'.decided = log.decided /\ log'.completed = log.completed
      /\ log'.directed = log.directed
  BY <1>1 DEF Requesting, LogShape
<1>4. Receptive /\ ~Receptive'
  BY <1>2 DEF Requesting, Receptive, Working
<1>5. ~log'.orphaned => c \notin orphans'
  BY <1>1 DEF Requesting, LogShape
<1> QED BY <1>2, <1>3, <1>4, <1>5

\* A grant that has been issued stays so.
LEMMA IssuedStays ==
    ASSUME LoopInv, Calls
    PROVE  \A g \in Grants : grant[g].state # "unused" => grant'[g].state # "unused"
<1>1. ASSUME NEW g \in Grants, Issuing(g) \/ Consuming(g)
      PROVE  \A h \in Grants : grant[h].state # "unused" => grant'[h].state # "unused"
  BY <1>1 DEF Issuing, Consuming
<1>2. grant' = grant \/ Passing => \A h \in Grants : grant[h].state # "unused" => grant'[h].state # "unused"
  BY DEF Passing
<1> QED BY <1>1, <1>2 DEF Calls, Reviewing, Deciding, Requesting, Claiming, Answering, Failing,
      Directing

\* An agent that does not move knows what it knew, if its context was not removed while
\* it could still be used.
LEMMA AgentStays ==
    ASSUME LoopInv, ProcessesOK, CountsOK, AgentsKnow, Calls,
           NEW a \in Agents, agent'[a] = agent[a],
           /\ Submits(agent[a]) /\ Fits(agent[a].context) /\ Receptive
           /\ agent[a].context \in contexts \cup orphans
           => agent[a].context \in contexts' \cup orphans'
    PROVE  AgentKnows(agent[a])'
<1> DEFINE s == agent[a]
<1>1. AgentKnows(s) /\ AgentOK(s)
  BY DEF AgentsKnow, ProcessesOK
<1>2. /\ log'.failures >= log.failures /\ log'.failures \in 0..3 /\ log.failures \in 0..3
      /\ row.fix_generation \in Nat /\ row'.fix_generation \in Nat
      /\ row'.fix_generation >= row.fix_generation
  <2>1. row.fix_generation \in Nat
    BY RowHere DEF LoopRow
  <2>2. \/ row'.fix_generation = row.fix_generation
        \/ row'.fix_generation = row.fix_generation + 1
    <3>1. ASSUME NEW r \in Reviews, Reviewing(r) PROVE row'.fix_generation = row.fix_generation
      BY <3>1, ReviewEffects
    <3>2. ASSUME NEW g \in Grants, Consuming(g)
          PROVE  row'.fix_generation = row.fix_generation + 1
      BY <3>2, ConsumeEffects
    <3> QED BY <3>1, <3>2, QuietCalls DEF Steady
  <2> QED BY <2>1, <2>2, FailuresRise DEF CountsOK
<1>3. ASSUME NEW c, Known(c)
      PROVE  /\ Known(c)'
             /\ Fits(c)' => Fits(c) /\ Steady
  BY <1>3, PastStays DEF Known, Past, Fits, Present, Recorded
<1>4. ASSUME NEW v, VerdictOK(v) PROVE VerdictOK(v)'
  BY <1>4, PastStays DEF VerdictOK, Past, Present, Recorded, Steady, Asking
<1>5. s.pc = "store" => s.generation \in Nat /\ s.generation <= row'.fix_generation
  BY <1>1, <1>2 DEF AgentKnows
<1>6. s.pc = "evaluate" => log'.failures >= 1
  BY <1>1, <1>2 DEF AgentKnows
<1>7. s.pc = "put" \/ Submits(s) \/ Withdraws(s) =>
         /\ "context" \in DOMAIN s /\ Known(s.context)' /\ log'.failures >= 1
         /\ Known(s.context) /\ (Fits(s.context)' => Fits(s.context) /\ Steady)
  <2>1. s.pc = "put" \/ Submits(s) \/ Withdraws(s) =>
           "context" \in DOMAIN s /\ Known(s.context) /\ log.failures >= 1
    BY <1>1 DEF AgentKnows
  <2> QED BY <1>2, <1>3, <2>1
<1>8. s.pc = "put" => /\ VerdictOK(s.verdict)' /\ AsksFor(s.verdict, s.context)
                      /\ s.fallback.context = None /\ VerdictOK(s.fallback.verdict)'
  BY <1>1, <1>4 DEF AgentKnows
<1>9. s.pc = "decide" =>
         VerdictOK(s.verdict)' /\ (s.context # None => AsksFor(s.verdict, s.context))
  BY <1>1, <1>4 DEF AgentKnows
<1>10. s.pc = "request" => (Fits(s.context)' => row'.status \notin Working)
  <2>1. s.pc = "request" => Submits(s) /\ (Fits(s.context) => row.status \notin Working)
    BY <1>1 DEF AgentKnows, Submits
  <2> QED BY <1>7, <2>1 DEF Steady
<1>11. Submits(s) => (Fits(s.context)' /\ Receptive' => s.context \in contexts' \cup orphans')
  <2>1. Submits(s) => (Fits(s.context) /\ Receptive => s.context \in contexts \cup orphans)
    BY <1>1 DEF AgentKnows
  <2> QED BY <1>7, <2>1 DEF Steady
<1>12. Withdraws(s) => (Fits(s.context)' => ~Receptive')
  <2>1. Withdraws(s) => (Fits(s.context) => ~Receptive)
    BY <1>1 DEF AgentKnows
  <2> QED BY <1>7, <2>1 DEF Steady
<1>13. s.pc = "remove" => (Fits(s.context)' => ~(LiveProbe(row)' /\ log'.context = s.context))
  <2>1. s.pc = "remove" => /\ Withdraws(s)
                           /\ Fits(s.context) => ~(LiveProbe(row) /\ log.context = s.context)
                           /\ Fits(s.context) => ~Receptive
    BY <1>1 DEF AgentKnows, Withdraws
  <2>2. \/ Receptive
        \/ log'.context = log.context /\ (LiveProbe(row)' => LiveProbe(row))
    BY BindingStays, RequestEffects
  <2> QED BY <1>7, <2>1, <2>2
<1>14. s.pc \in {"write", "consume"} => grant'[s.grant].state # "unused"
  BY <1>1, IssuedStays DEF AgentKnows, AgentOK
<1>15. agent'[a] = s
  OBVIOUS
<1> QED
  BY <1>5, <1>6, <1>7, <1>8, <1>9, <1>10, <1>11, <1>12, <1>13, <1>14, <1>15
  DEF AgentKnows, Submits, Withdraws, AsksFor, Asking

----------------------------------------------------------------------------
(* What the log and the probe's processes know. *)

LogKnows ==
    /\ \A v \in log.decided :
          /\ Past(v.basis, v.generation)
          /\ Present(v.basis, v.generation) => row.status \notin Working
    /\ row.status = "reflection_required" /\ ~LiveProbe(row) =>
          Asking(row.basis, row.fix_generation, row.failure_count) \in log.decided
    /\ \A c \in log.requested : Known(c) /\ (Fits(c) => ~Receptive)
    /\ LiveProbe(row) => log.context \in log.requested /\ log.failures >= 1
    /\ LiveProbe(row) /\ ~log.orphaned =>
          log.context \notin orphans /\ (Fits(log.context) => log.context \in contexts)
    /\ row.status = "reflection_resolved" => Fits(log.context)

\* The epoch of a claim is never ahead of the row's, and a process that still holds
\* its claim was shown a context of the present review.
RunnerKnows(s) ==
    /\ s.pc \in {"read", "ask", "refuse"} => s.epoch <= row.probe_epoch
    /\ s.pc \in {"ask", "clean"} => s.context \in log.requested
    /\ s.pc = "refuse" => s.context \in log.requested \cup {None}
    /\ s.pc = "clean" => ~(LiveProbe(row) /\ log.context = s.context)
    /\ s.pc = "ask" /\ row.status = "probe_running" /\ row.probe_state = "running"
       /\ row.probe_epoch = s.epoch
       => Fits(log.context)

RunnersKnow == \A o \in Owners : RunnerKnows(runner[o])

KnowledgeInv ==
    LoopInv /\ ProcessesOK /\ CountsOK /\ AgentsKnow /\ LogKnows /\ RunnersKnow

\* No file of a probe that may still be asked for is taken away but by a prune: who
\* removes one was refused, or has ended its probe.
LEMMA ContextsStay ==
    ASSUME KnowledgeInv, [GuardNext]_allVars, NEW a \in Agents,
           Submits(agent[a]), Fits(agent[a].context), Receptive,
           agent[a].context \in contexts \cup orphans
    PROVE  agent[a].context \in contexts' \cup orphans'
<1> DEFINE c == agent[a].context
           Kept == contexts \cup orphans \subseteq contexts' \cup orphans'
<1>1. ASSUME NEW b \in Agents, RemoveContext(b) PROVE c \in contexts' \cup orphans'
  <2>1. Fits(agent[b].context) => ~Receptive
    BY <1>1 DEF KnowledgeInv, AgentsKnow, AgentKnows, Withdraws, RemoveContext, At
  <2> QED BY <1>1, <2>1 DEF RemoveContext, Fits
<1>2. ASSUME NEW o \in Owners, CleanContext(o) PROVE c \in contexts' \cup orphans'
  <2>1. runner[o].context \in log.requested
    BY <1>2 DEF KnowledgeInv, RunnersKnow, RunnerKnows, CleanContext
  <2>2. Fits(runner[o].context) => ~Receptive
    BY <2>1 DEF KnowledgeInv, LogKnows
  <2> QED BY <1>2, <2>2 DEF CleanContext, Fits
<1>3. ASSUME PruneOrphans \/ \E b \in Agents : PutContext(b) PROVE Kept
  BY <1>3 DEF PruneOrphans, ListOrphan, PruneOrphan, PutContext
<1>4. ASSUME NEW b \in Agents, AgentStep(b), ~RemoveContext(b), ~PutContext(b) PROVE Kept
  BY <1>4 DEF AgentStep, BeginReview, StoreReview, Evaluate, RecordHardDecision,
     RequestProbe, DiscardContext, BeginLocalFix, BeginArchitectureFix, OpenArtifact,
     AuthorizeContinuation, ResumeAfterProbe, IssueAuthorizedContinuation, WriteArtifact,
     ConsumeGrant, Neutralize, Crash
<1>5. ASSUME NEW o \in Owners, RunnerStep(o), ~CleanContext(o) PROVE Kept
  BY <1>5 DEF RunnerStep, ClaimProbe, ReadContext, ProviderAnswers, ProbeFails, RunnerDies
<1>6. ASSUME \/ \E k \in Checkpoints : Checkpoint(k)
             \/ Resolve \/ (TimePasses /\ UNCHANGED <<kind, guard>>) \/ UNCHANGED allVars
      PROVE  Kept
  BY <1>6 DEF Checkpoint, Resolve, guard, allVars
<1> QED BY <1>1, <1>2, <1>3, <1>4, <1>5, <1>6 DEF GuardNext

\* An agent that does nothing has nothing to know.
LEMMA IdleKnows == ASSUME NEW a \in Agents, agent'[a] = Idle PROVE AgentKnows(agent[a])'
BY DEF AgentKnows, Idle, Submits, Withdraws

\* An agent at a step that holds nothing of the loop's.
LEMMA FreeKnows ==
    ASSUME NEW a \in Agents,
           agent'[a].pc \in {"resume", "authorize", "issue", "neutralize"}
    PROVE  AgentKnows(agent[a])'
BY DEF AgentKnows, Submits, Withdraws

\* An agent's own move.
LEMMA Mover ==
    ASSUME ProcessesOK, NEW a \in Agents, NEW s, Goto(a, s)
    PROVE  agent'[a] = s /\ \A b \in Agents \ {a} : agent'[b] = agent[b]
BY DEF ProcessesOK, Goto

\* Where nothing is written, what is past stays so.
LEMMA StoredStays ==
    ASSUME Stored
    PROVE  row' = row /\ log' = log /\ grant' = grant /\ (Receptive <=> Receptive')
           /\ (LiveProbe(row) <=> LiveProbe(row)')
BY DEF Stored, vars, row, Receptive, LiveProbe

LEMMA ReviewBegun ==
    ASSUME KnowledgeInv, NEW a \in Agents, NEW r \in Reviews, BeginReview(a, r)
    PROVE  AgentKnows(agent[a])'
<1>1. agent'[a] = [pc |-> "store", review |-> r, prior |-> row.basis,
                   generation |-> row.fix_generation]
  BY Mover DEF BeginReview, KnowledgeInv
<1>2. row' = row /\ row.fix_generation \in Nat
  BY StoredStays, RowHere DEF BeginReview, KnowledgeInv, LoopRow
<1> QED BY <1>1, <1>2 DEF AgentKnows, Submits, Withdraws

LEMMA ReviewStored ==
    ASSUME KnowledgeInv, NEW a \in Agents, StoreReview(a)
    PROVE  AgentKnows(agent[a])'
<1> DEFINE r == agent[a].review
<1>1. agent'[a] = Idle \/ agent'[a] = AfterReview(a, r)
  BY Mover DEF StoreReview, KnowledgeInv
<1>2. CASE agent'[a] = Idle
  BY <1>2, IdleKnows
<1>3. CASE agent'[a] = AfterReview(a, r) /\ agent'[a] # Idle
  <2>1. Counted(r) /\ (log'.failures >= 2 \/ Directional(r)) /\ agent'[a].pc = "evaluate"
    BY <1>3 DEF AfterReview
  <2>2. log'.failures >= 1
    <3>1. log.failures \in 0..3
      BY DEF KnowledgeInv, CountsOK
    <3>2. r \in Reviews
      BY DEF KnowledgeInv, ProcessesOK, AgentOK, StoreReview, At, Reviews
    <3>3. CASE Recorded(r)
      <4>1. log' = log /\ log.failures >= 1
        BY <2>1, <3>2, <3>3 DEF StoreReview, KnowledgeInv, CountsOK
      <4> QED BY <4>1
    <3>4. CASE ~Recorded(r)
      <4>1. log'.failures = FailuresAfter(r)
        BY <3>4 DEF StoreReview, KnowledgeInv, CountsOK, LogShape
      <4> QED BY <2>1, <3>1, <4>1 DEF FailuresAfter
    <3> QED BY <3>3, <3>4
  <2> QED BY <2>1, <2>2 DEF AgentKnows, Submits, Withdraws
<1> QED BY <1>1, <1>2, <1>3

\* The decision falls on the loop as it is read.
LEMMA VerdictsOK ==
    ASSUME KnowledgeInv, Stored, Exists(F), NEW prior, NEW advice, NEW decision, NEW reason,
           decision # "pass",
           decision = "reflection_required" =>
              /\ prior = row.basis /\ advice = "none"
              /\ reason = "unchanged_basis_repeated_mutation"
    PROVE  LET v == Verdict(prior, advice, decision, reason) IN
           /\ v.decision = decision /\ v.basis = row.basis /\ v.generation = row.fix_generation
           /\ VerdictOK(v)
           /\ decision = "reflection_required" => v = Asking(row.basis, row.fix_generation, v.failures)
           /\ decision \in Decisions => v.decision \in Decisions
<1> DEFINE v == Verdict(prior, advice, decision, reason)
<1>1. v = [prior |-> prior, advice |-> advice, basis |-> row.basis,
           generation |-> row.fix_generation, failures |-> row.failure_count,
           decision |-> decision, reason |-> reason]
  BY DEF Verdict
<1>2. Past(row.basis, row.fix_generation)
  <2>1. row \in LoopRow
    BY RowHere DEF KnowledgeInv
  <2> QED BY <2>1 DEF Past, KnowledgeInv, CountsOK, LoopRow
<1> HIDE DEF v
<1> QED BY <1>1, <1>2 DEF v, VerdictOK, Asking

\* The request of a command asks for a reflection only if its basis has not changed.
LEMMA ReflectionAsked ==
    ASSUME NEW prior, NEW advice
    PROVE  LET v == Policy!EvaluateConvergence(GuardRequest(prior, advice)) IN
           /\ v.decision = "reflection_required" =>
                 prior = row.basis /\ v.reason = "unchanged_basis_repeated_mutation"
           /\ v.decision = "pass" =>
                 ~(log.failures >= 2) /\ advice \notin {"direction_checkpoint", "human_decision"}
<1> DEFINE q == GuardRequest(prior, advice)
           m == Policy!Matched(q)
<1>1. /\ q.verified /\ ~q.audit /\ ~q.explore /\ ~q.architecture /\ ~q.oscillation /\ ~q.exclusion
      /\ ~q.acceptance /\ q.failures = log.failures /\ q.probeAction = advice
      /\ q.changed <=> prior # row.basis
  BY DEF GuardRequest
<1>2. Policy!EvaluateConvergence(q).decision = m.decision
      /\ Policy!EvaluateConvergence(q).reason = m.reason
  BY <1>1 DEF Policy!EvaluateConvergence, Policy!Requested, Policy!Clamp
<1> HIDE DEF q
<1>3. m.decision = "reflection_required" =>
         prior = row.basis /\ m.reason = "unchanged_basis_repeated_mutation"
  BY <1>1 DEF Policy!Matched, Policy!FailureTrigger, Policy!DirectionTrigger,
     Policy!DirectionOf, Policy!ExpansionTrigger, Policy!BudgetTrigger, Policy!Trigger
<1>4. m.decision = "pass" =>
         ~(log.failures >= 2) /\ advice \notin {"direction_checkpoint", "human_decision"}
  BY <1>1 DEF Policy!Matched, Policy!FailureTrigger, Policy!DirectionTrigger,
     Policy!DirectionOf, Policy!ExpansionTrigger, Policy!BudgetTrigger, Policy!Trigger
<1> QED BY <1>2, <1>3, <1>4 DEF q

\* A review that asked for an evaluation, or a completed probe, is of a loop that exists.
LEMMA FailedExists == ASSUME LoopInv, CountsOK, log.failures >= 1 PROVE Exists(F)
<1>1. row.failure_count # 0
  BY DEF CountsOK
<1> QED BY <1>1, RowHere DEF AbsentLoop

\* A command that is to record a decision it has just taken, without a context.
LEMMA DecideKnows ==
    ASSUME Stored, NEW a \in Agents, NEW w, VerdictOK(w), agent'[a] = ToDecide(w, None, FALSE)
    PROVE  AgentKnows(agent[a])'
<1>1. agent'[a].pc = "decide" /\ agent'[a].verdict = w /\ agent'[a].context = None
  BY DEF ToDecide
<1>2. row' = row /\ log' = log
  BY StoredStays
<1>3. VerdictOK(agent[a].verdict)'
  BY <1>1, <1>2 DEF VerdictOK, Past, Present, Recorded, Asking
<1> QED BY <1>1, <1>3 DEF AgentKnows, Submits, Withdraws

LEMMA Evaluated ==
    ASSUME KnowledgeInv, NEW a \in Agents, Evaluate(a)
    PROVE  AgentKnows(agent[a])'
<1> DEFINE prior == agent[a].prior
           v == Policy!EvaluateConvergence(GuardRequest(prior, "none"))
           own == Verdict(prior, "none", v.decision, v.reason)
           back == Verdict(prior, "none", "checkpoint_required", "probe_context")
           fallback == ToDecide(back, None, FALSE)
           c(t) == [basis |-> row.basis, text |-> t, generation |-> row.fix_generation]
           put(t) == [pc |-> "put", fallback |-> fallback, verdict |-> own, context |-> c(t)]
<1>1. /\ log.failures >= 1 /\ Exists(F) /\ Stored /\ v.decision \in Decisions
      /\ log.failures \in 0..3 /\ row \in LoopRow
  <2>1. log.failures >= 1
    BY DEF Evaluate, At, KnowledgeInv, AgentsKnow, AgentKnows
  <2> QED BY <2>1, FailedExists, GuardDecisions, RowHere DEF KnowledgeInv, Evaluate, CountsOK
<1>2. /\ v.decision # "pass" => VerdictOK(own)
      /\ v.decision = "reflection_required" =>
            own = Asking(row.basis, row.fix_generation, own.failures)
  BY <1>1, VerdictsOK, ReflectionAsked
<1>3. VerdictOK(back)
  <2>1. "checkpoint_required" # "pass" /\ "checkpoint_required" # "reflection_required"
    OBVIOUS
  <2> QED BY <1>1, <2>1, VerdictsOK
<1>4. row' = row /\ log' = log
  BY <1>1, StoredStays
<1>5. \/ agent'[a] = Idle
      \/ agent'[a] = fallback
      \/ v.decision # "pass" /\ agent'[a] = ToDecide(own, None, FALSE)
      \/ v.decision = "reflection_required" /\ \E t \in Texts : agent'[a] = put(t)
  <2> HIDE DEF fallback, own, v, c
  <2>1. \A x : Goto(a, x) => agent'[a] = x
    BY Mover DEF KnowledgeInv
  <2> QED BY <2>1 DEF Evaluate, fallback, back, own, v, c
<1> HIDE DEF v, own, back
<1>6. ASSUME NEW t \in Texts, v.decision = "reflection_required", agent'[a] = put(t)
      PROVE  AgentKnows(agent[a])'
  <2>1. /\ agent'[a].pc = "put" /\ agent'[a].verdict = own
        /\ agent'[a].context = c(t) /\ "context" \in DOMAIN agent'[a]
        /\ agent'[a].fallback.context = None /\ agent'[a].fallback.verdict = back
    BY <1>6 DEF ToDecide
  <2>2. Known(agent[a].context)'
    BY <1>1, <1>4, <2>1 DEF Known, Past, Recorded, KnowledgeInv, CountsOK, LoopRow
  <2>3. VerdictOK(agent[a].verdict)' /\ VerdictOK(agent[a].fallback.verdict)'
    BY <1>2, <1>3, <1>4, <1>6, <2>1 DEF VerdictOK, Past, Present, Recorded, Asking
  <2>4. AsksFor(agent[a].verdict, agent[a].context)'
    BY <1>2, <1>6, <2>1 DEF AsksFor, Asking
  <2> QED BY <1>1, <1>4, <2>1, <2>2, <2>3, <2>4 DEF AgentKnows, Submits, Withdraws
<1> QED BY <1>1, <1>2, <1>3, <1>5, <1>6, IdleKnows, DecideKnows

LEMMA ContextPut ==
    ASSUME KnowledgeInv, NEW a \in Agents, PutContext(a)
    PROVE  AgentKnows(agent[a])'
<1> DEFINE s == agent[a]
<1>1. /\ Known(s.context) /\ log.failures >= 1 /\ VerdictOK(s.verdict)
      /\ AsksFor(s.verdict, s.context) /\ s.fallback.context = None
      /\ VerdictOK(s.fallback.verdict) /\ s.fallback.pc = "decide"
  BY DEF PutContext, At, KnowledgeInv, AgentsKnow, AgentKnows, ProcessesOK, AgentOK
<1>2. row' = row /\ log' = log
  BY StoredStays DEF PutContext
<1>3. CASE contexts' = contexts \cup {s.context} /\ Goto(a, ToDecide(s.verdict, s.context, s.context \notin contexts))
  <2>1. agent'[a] = ToDecide(s.verdict, s.context, s.context \notin contexts)
    BY <1>3, Mover DEF KnowledgeInv
  <2>2. /\ agent'[a].pc = "decide" /\ agent'[a].verdict = s.verdict
        /\ agent'[a].context = s.context /\ "context" \in DOMAIN agent'[a]
    BY <2>1 DEF ToDecide
  <2>3. Known(agent[a].context)' /\ VerdictOK(agent[a].verdict)'
    BY <1>1, <1>2, <2>2 DEF Known, VerdictOK, Past, Present, Recorded, Asking
  <2>4. AsksFor(agent[a].verdict, agent[a].context)' /\ agent'[a].context \in contexts' \cup orphans'
    BY <1>1, <1>3, <2>2 DEF AsksFor, Asking
  <2> QED BY <1>1, <1>2, <2>2, <2>3, <2>4 DEF AgentKnows, Submits, Withdraws
<1>4. CASE Goto(a, s.fallback)
  <2>1. agent'[a].pc = "decide" /\ agent'[a].context = None
        /\ agent'[a].verdict = s.fallback.verdict
    BY <1>1, <1>4, Mover DEF KnowledgeInv
  <2>2. VerdictOK(agent[a].verdict)'
    BY <1>1, <1>2, <2>1 DEF VerdictOK, Past, Present, Recorded, Asking
  <2> QED BY <2>1, <2>2 DEF AgentKnows, Submits, Withdraws
<1> QED BY <1>3, <1>4 DEF PutContext

\* A loop that works may be stopped for a reflection.
LEMMA ReflectionAllowed ==
    /\ row.status \in Working => MayTurn(F, "breaker_triggered", "reflection_required")
    /\ row.status = "reflection_required" => MayTurn(F, "reflection_requested", "probe_pending")
<1>1. ASSUME NEW s \in Working
      PROVE  s # "absent" /\ ValidTransition(s, "breaker_triggered", "reflection_required")
  BY <1>1, SMTT(30) DEF ValidTransition, PreservingEvents, Edges, Working
<1>2. ValidTransition("reflection_required", "reflection_requested", "probe_pending")
  BY SMTT(30) DEF ValidTransition, PreservingEvents, Edges, Working
<1> QED BY <1>1, <1>2 DEF MayTurn, Exists, row

\* A command that goes on to ask for its probe: the loop is not at work any more.
LEMMA RequestKnows ==
    ASSUME NEW a \in Agents, NEW c, Known(c)', log'.failures >= 1,
           Fits(c)' => row'.status \notin Working,
           Fits(c)' /\ Receptive' => c \in contexts' \cup orphans',
           NEW b, agent'[a] = [pc |-> "request", context |-> c, created |-> b]
    PROVE  AgentKnows(agent[a])'
<1>1. agent'[a].pc = "request" /\ agent'[a].context = c /\ "context" \in DOMAIN agent'[a]
  OBVIOUS
<1> QED BY <1>1 DEF AgentKnows, Submits, Withdraws, Known, Past, Fits, Present, Recorded

\* A command that withdraws its context: no probe is asked for with it any more.
LEMMA WithdrawalKnows ==
    ASSUME NEW a \in Agents, NEW c, Known(c)', log'.failures >= 1,
           Fits(c)' => ~Receptive',
           NEW pc \in {"discard", "remove"}, agent'[a] = [pc |-> pc, context |-> c],
           pc = "remove" => ~(LiveProbe(row)' /\ log'.context = c)
    PROVE  AgentKnows(agent[a])'
<1>1. agent'[a].pc = pc /\ agent'[a].context = c /\ "context" \in DOMAIN agent'[a]
  OBVIOUS
<1> QED BY <1>1 DEF AgentKnows, Submits, Withdraws, Known, Past, Fits, Present, Recorded

LEMMA DecisionRecorded ==
    ASSUME KnowledgeInv, NEW a \in Agents, RecordHardDecision(a)
    PROVE  AgentKnows(agent[a])'
<1> SUFFICES ASSUME NEW v, v = agent[a].verdict, NEW c, c = agent[a].context
             PROVE  AgentKnows(agent[a])'
  OBVIOUS
<1>1. /\ VerdictOK(v) /\ v.decision \in Decisions
      /\ c # None => /\ Known(c) /\ log.failures >= 1 /\ AsksFor(v, c)
                     /\ Fits(c) /\ Receptive => c \in contexts \cup orphans
  BY DEF RecordHardDecision, At, KnowledgeInv, AgentsKnow, AgentKnows, ProcessesOK, AgentOK, Submits
<1>2. contextRoot' = contextRoot /\ Calls /\ log'.failures >= log.failures /\ log'.failures \in 0..3
      /\ log.failures \in 0..3
  BY AgentCalls, FailuresRise DEF RecordHardDecision, AgentStep, KnowledgeInv, CountsOK
<1>3. \A x : Goto(a, x) => agent'[a] = x
  BY Mover DEF KnowledgeInv
<1>4. c # None => Known(c)' /\ log'.failures >= 1 /\ (Fits(c)' => Fits(c) /\ Steady)
  BY <1>1, <1>2, PastStays DEF Known, Past, Fits, Present, Recorded, KnowledgeInv
<1>5. c # None => /\ v.decision = "reflection_required" /\ v.basis = c.basis
                  /\ v.generation = c.generation
                  /\ v = Asking(c.basis, c.generation, v.failures)
  BY <1>1 DEF AsksFor, Asking
<1>6. c # None => (Fits(c)' /\ Receptive' => c \in contexts' \cup orphans')
  BY <1>1, <1>2, <1>4 DEF Steady
<1>7. ASSUME agent'[a] = AfterDecision(agent[a]), c # None => (Fits(c)' => row'.status \notin Working)
      PROVE  AgentKnows(agent[a])'
  BY <1>4, <1>6, <1>7, RequestKnows, IdleKnows DEF AfterDecision
<1>8. CASE v \in log.decided
  <2>1. agent'[a] = AfterDecision(agent[a]) /\ row' = row
    BY <1>3, <1>8 DEF RecordHardDecision, vars, row
  <2>2. c # None /\ Fits(c) => row.status \notin Working
    BY <1>5, <1>8 DEF KnowledgeInv, LogKnows, Fits
  <2> QED BY <1>4, <1>7, <2>1, <2>2
<1>9. CASE /\ RecordConvergenceDecision(F, v.decision) /\ Goto(a, AfterDecision(agent[a]))
  <2>1. agent'[a] = AfterDecision(agent[a])
    BY <1>3, <1>9
  <2>2. row' = [row EXCEPT !.status = DecisionTarget(v.decision), !.current_decision = v.decision]
    BY <1>9, Written DEF RecordConvergenceDecision, row, KnowledgeInv
  <2>3. c # None => row'.status = "reflection_required"
    BY <1>5, <2>2, RowHere DEF LoopRow, DecisionTarget, KnowledgeInv
  <2> QED BY <1>7, <2>1, <2>3 DEF Working
<1>10. CASE /\ v \notin log.decided
            /\ ~(SnapshotHolds(v) /\ MayTurn(F, "breaker_triggered", DecisionTarget(v.decision)))
            /\ UNCHANGED <<vars, log>> /\ Goto(a, AfterRefusal(agent[a]))
  <2>1. agent'[a] = AfterRefusal(agent[a]) /\ row' = row
    BY <1>3, <1>10 DEF vars, row
  <2>2. ASSUME c # None, Fits(c) PROVE ~Receptive
    <3>1. SnapshotHolds(v)
      BY <1>1, <1>5, <2>2 DEF VerdictOK, SnapshotHolds, Fits, Present
    <3>2. row.status \notin Working
      BY <1>5, <1>10, <2>2, <3>1, ReflectionAllowed DEF DecisionTarget
    <3>3. v = Asking(row.basis, row.fix_generation, row.failure_count)
      BY <1>5, <2>2, <3>1 DEF SnapshotHolds, Fits, Present
    <3> QED BY <1>10, <3>2, <3>3 DEF KnowledgeInv, LogKnows, Receptive
  <2>3. c # None => (Fits(c)' => ~Receptive')
    BY <1>4, <2>1, <2>2 DEF Steady
  <2>4. agent'[a] = Idle \/ (c # None /\ agent'[a] = [pc |-> "discard", context |-> c])
    BY <2>1 DEF AfterRefusal
  <2> QED BY <1>4, <2>3, <2>4, WithdrawalKnows, IdleKnows
<1> QED BY <1>8, <1>9, <1>10 DEF RecordHardDecision
LEMMA ProbeRequestMade ==
    ASSUME KnowledgeInv, NEW a \in Agents, RequestProbe(a)
    PROVE  AgentKnows(agent[a])'
<1> SUFFICES ASSUME NEW c, c = agent[a].context PROVE AgentKnows(agent[a])'
  OBVIOUS
<1>1. Known(c) /\ log.failures >= 1 /\ (Fits(c) => row.status \notin Working)
  BY DEF RequestProbe, At, KnowledgeInv, AgentsKnow, AgentKnows, Submits
<1>2. \A x : Goto(a, x) => agent'[a] = x
  BY Mover DEF KnowledgeInv
<1>3. CASE /\ ~(c \in log.requested /\ c.generation = row.fix_generation)
           /\ ~(/\ c \notin log.requested /\ ~LiveProbe(row)
                /\ MayTurn(F, "reflection_requested", "probe_pending"))
           /\ UNCHANGED <<vars, log, runner>> /\ Goto(a, AfterRefusal(agent[a]))
  <2>1. row' = row /\ log' = log
    BY <1>3 DEF vars, row
  <2>2. Fits(c) => ~Receptive
    BY <1>1, <1>3, ReflectionAllowed DEF Receptive, Fits, Present
  <2>3. Known(c)' /\ log'.failures >= 1 /\ (Fits(c)' => ~Receptive')
    BY <1>1, <2>1, <2>2 DEF Known, Past, Recorded, Fits, Present, Receptive, LiveProbe
  <2>4. agent'[a] = Idle \/ agent'[a] = [pc |-> "discard", context |-> c]
    BY <1>2, <1>3 DEF AfterRefusal
  <2> QED BY <2>3, <2>4, WithdrawalKnows, IdleKnows
<1>4. CASE Goto(a, Idle)
  BY <1>2, <1>4, IdleKnows
<1> QED BY <1>3, <1>4 DEF RequestProbe

LEMMA ContextDiscarded ==
    ASSUME KnowledgeInv, NEW a \in Agents, DiscardContext(a)
    PROVE  AgentKnows(agent[a])'
<1> SUFFICES ASSUME NEW c, c = agent[a].context PROVE AgentKnows(agent[a])'
  OBVIOUS
<1>1. Known(c) /\ log.failures >= 1 /\ (Fits(c) => ~Receptive)
  BY DEF DiscardContext, At, KnowledgeInv, AgentsKnow, AgentKnows, Withdraws
<1>2. row' = row /\ log' = log
  BY StoredStays DEF DiscardContext
<1>3. Known(c)' /\ log'.failures >= 1 /\ (Fits(c)' => ~Receptive')
  BY <1>1, <1>2 DEF Known, Past, Recorded, Fits, Present, Receptive, LiveProbe
<1>4. agent'[a] = Idle \/ (c \notin LiveContexts /\ agent'[a] = [pc |-> "remove", context |-> c])
  <2>1. \A x : Goto(a, x) => agent'[a] = x
    BY Mover DEF KnowledgeInv
  <2> QED BY <2>1 DEF DiscardContext
<1>5. c \notin LiveContexts => ~(LiveProbe(row)' /\ log'.context = c)
  BY <1>2 DEF LiveContexts, LiveProbe
<1> QED BY <1>3, <1>4, <1>5, WithdrawalKnows, IdleKnows

\* A completed probe's advice is taken up: it asks for no other probe.
LEMMA Resumed ==
    ASSUME KnowledgeInv, NEW a \in Agents, ResumeAfterProbe(a)
    PROVE  AgentKnows(agent[a])'
<1> DEFINE advice == log.completed.action
           v == Policy!EvaluateConvergence(GuardRequest(NoBasis, advice))
           own == Verdict(NoBasis, advice, v.decision, v.reason)
<1>1. \A x : Goto(a, x) => agent'[a] = x
  BY Mover DEF KnowledgeInv
<1>2. \/ agent'[a] = Idle
      \/ PostProbe /\ v.decision # "pass" /\ agent'[a] = ToDecide(own, None, FALSE)
      \/ agent'[a] = ToIssue(agent[a].file, "continue_once", row.basis)
  <2> HIDE DEF own, v
  <2> QED BY <1>1 DEF ResumeAfterProbe, own, v
<1>3. CASE agent'[a] = ToIssue(agent[a].file, "continue_once", row.basis)
  BY <1>3, FreeKnows DEF ToIssue
<1>4. CASE PostProbe /\ v.decision # "pass" /\ agent'[a] = ToDecide(own, None, FALSE)
  <2>1. Exists(F) /\ row.basis # NoBasis
    <3>1. Exists(F)
      BY <1>4 DEF PostProbe, AfterProbeStatuses, Exists, row
    <3> QED BY <3>1, LoopAssumption DEF KnowledgeInv, CountsOK, Reviews
  <2>2. v.decision # "reflection_required"
    BY <2>1, ReflectionAsked
  <2>3. Stored /\ KnowledgeInv
    BY DEF ResumeAfterProbe
  <2> HIDE DEF v
  <2>4. VerdictOK(own)
    BY <1>4, <2>1, <2>2, <2>3, VerdictsOK
  <2> HIDE DEF own
  <2> QED BY <1>4, <2>3, <2>4, DecideKnows
<1> QED BY <1>2, <1>3, <1>4, IdleKnows

LEMMA ContinuationIssued ==
    ASSUME KnowledgeInv, NEW a \in Agents, IssueAuthorizedContinuation(a)
    PROVE  AgentKnows(agent[a])'
<1> DEFINE g == Facts(agent[a])
<1>1. \A x : Goto(a, x) => agent'[a] = x
  BY Mover DEF KnowledgeInv
<1>2. \/ agent'[a] = Idle
      \/ /\ agent'[a] = [pc |-> "write", file |-> agent[a].file, grant |-> g]
         /\ IssueContinuationGrant(F, g) /\ g \in Grants
  <2> HIDE DEF g
  <2> QED BY <1>1 DEF IssueAuthorizedContinuation, g
<1>3. CASE /\ agent'[a] = [pc |-> "write", file |-> agent[a].file, grant |-> g]
           /\ IssueContinuationGrant(F, g) /\ g \in Grants
  <2> HIDE DEF g
  <2>1. grant'[g].state # "unused"
    BY <1>3 DEF IssueContinuationGrant
  <2>2. agent'[a].pc = "write" /\ agent'[a].grant = g
    BY <1>3
  <2> QED BY <2>1, <2>2 DEF AgentKnows, Submits, Withdraws
<1> QED BY <1>2, <1>3, IdleKnows

LEMMA ArtifactOpened ==
    ASSUME KnowledgeInv, NEW a \in Agents, NEW p \in Files, OpenArtifact(a, p)
    PROVE  AgentKnows(agent[a])'
<1>1. agent'[a] = [pc |-> "consume", file |-> p, grant |-> artifact[p].grant]
  BY Mover DEF OpenArtifact, KnowledgeInv
<1>2. grant'[artifact[p].grant].state # "unused"
  BY StoredStays DEF OpenArtifact, KnowledgeInv, CountsOK
<1> QED BY <1>1, <1>2 DEF AgentKnows, Submits, Withdraws

\* An agent knows, after its own step, what it needs for the next one.
LEMMA AgentMoved ==
    ASSUME KnowledgeInv, NEW a \in Agents, AgentStep(a)
    PROVE  AgentKnows(agent[a])'
<1>1. \A x : Goto(a, x) => agent'[a] = x
  BY Mover DEF KnowledgeInv
<1>2. ASSUME NEW p \in Files, BeginLocalFix(a, p) \/ BeginArchitectureFix(a, p)
      PROVE  AgentKnows(agent[a])'
  BY <1>1, <1>2, FreeKnows DEF BeginLocalFix, BeginArchitectureFix, ToIssue
<1>3. CASE AuthorizeContinuation(a)
  BY <1>1, <1>3, FreeKnows, IdleKnows DEF AuthorizeContinuation, ToIssue
<1>4. CASE ConsumeGrant(a)
  BY <1>1, <1>4, FreeKnows, IdleKnows DEF ConsumeGrant
<1>5. CASE RemoveContext(a) \/ WriteArtifact(a) \/ Neutralize(a) \/ Crash(a)
  BY <1>1, <1>5, IdleKnows DEF RemoveContext, WriteArtifact, Neutralize, Crash
<1> QED
  BY <1>2, <1>3, <1>4, <1>5, ReviewBegun, ReviewStored, Evaluated, ContextPut, DecisionRecorded,
     ProbeRequestMade, ContextDiscarded, Resumed, ContinuationIssued, ArtifactOpened
  DEF AgentStep

LEMMA AgentsStayKnowing ==
    ASSUME KnowledgeInv, [GuardNext]_allVars
    PROVE  AgentsKnow'
<1>1. Calls
  BY GuardCalls DEF KnowledgeInv
<1>2. ASSUME NEW a \in Agents, agent'[a] = agent[a] PROVE AgentKnows(agent[a])'
  <2>1. /\ Submits(agent[a]) /\ Fits(agent[a].context) /\ Receptive
        /\ agent[a].context \in contexts \cup orphans
        => agent[a].context \in contexts' \cup orphans'
    BY ContextsStay
  <2>2. LoopInv /\ ProcessesOK /\ CountsOK /\ AgentsKnow
    BY DEF KnowledgeInv
  <2> QED BY <1>1, <1>2, <2>1, <2>2, AgentStays
<1>3. ASSUME NEW a \in Agents, AgentStep(a), NEW b \in Agents \ {a} PROVE agent'[b] = agent[b]
  <2>1. \A x : Goto(a, x) => agent'[b] = agent[b]
    BY Mover DEF KnowledgeInv
  <2> QED
    BY <1>3, <2>1 DEF AgentStep, BeginReview, StoreReview, Evaluate, PutContext,
       RecordHardDecision, RequestProbe, DiscardContext, RemoveContext, BeginLocalFix,
       BeginArchitectureFix, OpenArtifact, AuthorizeContinuation, ResumeAfterProbe,
       IssueAuthorizedContinuation, WriteArtifact, ConsumeGrant, Neutralize, Crash
<1>4. ASSUME NEW o \in Owners, RunnerStep(o) PROVE agent' = agent
  BY <1>4 DEF RunnerStep, ClaimProbe, ReadContext, ProviderAnswers, ProbeFails, CleanContext,
     RunnerDies
<1>5. ASSUME \/ \E k \in Checkpoints : Checkpoint(k)
             \/ Resolve \/ PruneOrphans \/ (TimePasses /\ UNCHANGED <<kind, guard>>)
             \/ UNCHANGED allVars
      PROVE  agent' = agent
  BY <1>5 DEF Checkpoint, Resolve, PruneOrphans, ListOrphan, PruneOrphan, guard, allVars
<1>6. ASSUME NEW a \in Agents PROVE AgentKnows(agent[a])'
  BY <1>2, <1>3, <1>4, <1>5, AgentMoved DEF GuardNext
<1> QED BY <1>6 DEF AgentsKnow
----------------------------------------------------------------------------
(* The counts of the log and the rows are kept in step. *)

LEMMA KindStays == ASSUME [GuardNext]_allVars PROVE kind' = kind
BY DEF GuardNext, allVars, guard, AgentStep, RunnerStep, Stored, BeginReview, StoreReview, Evaluate,
   PutContext, RecordHardDecision, RequestProbe, DiscardContext, RemoveContext, BeginLocalFix,
   BeginArchitectureFix, OpenArtifact, AuthorizeContinuation, ResumeAfterProbe,
   IssueAuthorizedContinuation, WriteArtifact, ConsumeGrant, Neutralize, Crash, ClaimProbe,
   ReadContext, ProviderAnswers, ProbeFails, CleanContext, RunnerDies, Checkpoint, Resolve,
   PruneOrphans, ListOrphan, PruneOrphan

\* The log keeps its fields.
LEMMA ShapeStays == ASSUME LogShape, Calls PROVE LogShape'
<1>1. ASSUME NEW r \in Reviews, Reviewing(r) PROVE LogShape'
  <2>1. PICK n \in Nat :
           log' = [log EXCEPT !.generation[r] = n, !.failures = FailuresAfter(r),
                              !.reviewDecision = row'.current_decision, !.directed = FALSE]
    BY <1>1 DEF Reviewing
  <2> QED BY <2>1 DEF LogShape
<1>2. ASSUME NEW v, Deciding(v) PROVE LogShape'
  BY <1>2 DEF Deciding, LogShape
<1>3. ASSUME NEW c, Requesting(c) PROVE LogShape'
  BY <1>3 DEF Requesting, LogShape
<1>4. ASSUME NEW g \in Grants, Consuming(g) PROVE LogShape'
  BY <1>4 DEF Consuming, LogShape
<1>5. CASE Answering
  BY <1>5 DEF Answering, LogShape
<1>6. CASE Directing
  BY <1>6 DEF Directing, LogShape
<1>7. CASE log' = log
  BY <1>7 DEF LogShape
<1> QED
  BY <1>1, <1>2, <1>3, <1>4, <1>5, <1>6, <1>7 DEF Calls, Issuing, Claiming, Failing, Passing

\* A context file is one that a command put there; a file's grant has been issued.
LEMMA FilesStay ==
    ASSUME KnowledgeInv, [GuardNext]_allVars
    PROVE  /\ contexts' \subseteq [basis : Reviews, text : Texts, generation : Nat]
           /\ \A p \in Files : artifact'[p] # None /\ artifact'[p].grant # None
                               => grant'[artifact'[p].grant].state # "unused"
<1>1. /\ contexts \subseteq [basis : Reviews, text : Texts, generation : Nat]
      /\ \A p \in Files : artifact[p] # None /\ artifact[p].grant # None
                          => grant[artifact[p].grant].state # "unused"
      /\ artifact = [p \in Files |-> artifact[p]]
      /\ \A p \in Files : artifact[p] # None => artifact[p].grant \in Grants \cup {None}
  BY DEF KnowledgeInv, CountsOK, ProcessesOK
<1>2. \A g \in Grants : grant[g].state # "unused" => grant'[g].state # "unused"
  BY GuardCalls, IssuedStays DEF KnowledgeInv
<1>3. \/ contexts' \subseteq contexts
      \/ \E a \in Agents : PutContext(a) /\ contexts' = contexts \cup {agent[a].context}
  BY DEF GuardNext, allVars, guard, AgentStep, RunnerStep, BeginReview, StoreReview, Evaluate,
     PutContext, RecordHardDecision, RequestProbe, DiscardContext, RemoveContext, BeginLocalFix,
     BeginArchitectureFix, OpenArtifact, AuthorizeContinuation, ResumeAfterProbe,
     IssueAuthorizedContinuation, WriteArtifact, ConsumeGrant, Neutralize, Crash, ClaimProbe,
     ReadContext, ProviderAnswers, ProbeFails, CleanContext, RunnerDies, Checkpoint, Resolve,
     PruneOrphans, ListOrphan, PruneOrphan
<1>4. ASSUME NEW a \in Agents, PutContext(a)
      PROVE  agent[a].context \in [basis : Reviews, text : Texts, generation : Nat]
  BY <1>4 DEF PutContext, At, KnowledgeInv, AgentsKnow, AgentKnows, Known
<1>5. \/ artifact' = artifact
      \/ \E a \in Agents : WriteArtifact(a) \/ Neutralize(a)
  BY DEF GuardNext, allVars, guard, AgentStep, RunnerStep, BeginReview, StoreReview, Evaluate,
     PutContext, RecordHardDecision, RequestProbe, DiscardContext, RemoveContext, BeginLocalFix,
     BeginArchitectureFix, OpenArtifact, AuthorizeContinuation, ResumeAfterProbe,
     IssueAuthorizedContinuation, ConsumeGrant, Crash, ClaimProbe,
     ReadContext, ProviderAnswers, ProbeFails, CleanContext, RunnerDies, Checkpoint, Resolve,
     PruneOrphans, ListOrphan, PruneOrphan
<1>6. ASSUME NEW a \in Agents, WriteArtifact(a) \/ Neutralize(a), NEW p \in Files,
             artifact'[p] # None, artifact'[p].grant # None
      PROVE  grant'[artifact'[p].grant].state # "unused"
  <2>1. \/ artifact'[p] = artifact[p]
        \/ artifact'[p] = [grant |-> None]
        \/ agent[a].pc = "write" /\ artifact'[p] = [grant |-> agent[a].grant]
    BY <1>1, <1>6 DEF WriteArtifact, Neutralize, At
  <2>2. agent[a].pc = "write" => agent[a].grant \in Grants /\ grant[agent[a].grant].state # "unused"
    BY DEF KnowledgeInv, ProcessesOK, AgentOK, AgentsKnow, AgentKnows
  <2> QED BY <1>1, <1>2, <1>6, <2>1, <2>2
<1>7. ASSUME artifact' = artifact, NEW p \in Files,
             artifact'[p] # None, artifact'[p].grant # None
      PROVE  grant'[artifact'[p].grant].state # "unused"
  BY <1>1, <1>2, <1>7
<1> QED BY <1>1, <1>3, <1>4, <1>5, <1>6, <1>7

LEMMA CountsKept ==
    ASSUME KnowledgeInv, [GuardNext]_allVars
    PROVE  CountsOK'
<1>1. Calls /\ kind' = kind /\ LogShape' /\ log'.failures \in 0..3 /\ log'.failures >= log.failures
  BY GuardCalls, KindStays, ShapeStays, FailuresRise DEF KnowledgeInv, CountsOK
<1> DEFINE Sound(l, r) ==
             /\ l.generation \in [Reviews -> Int]
             /\ \A x \in Reviews : l.generation[x] <= r.fix_generation
             /\ \A x \in Reviews : l.generation[x] >= 0 /\ Counted(x) => l.failures >= 1
             /\ r.evidence = {x \in Reviews : l.generation[x] >= 0}
             /\ r.failure_count = IF l.failures > 2 THEN 2 ELSE l.failures
             /\ r.status # "absent" => r.basis \in Reviews /\ l.generation[r.basis] >= 0
<1>2. Sound(log, row) /\ row.fix_generation \in Nat /\ log.failures \in 0..3
  BY RowHere DEF KnowledgeInv, CountsOK, Recorded, Exists, row, LoopRow
<1>3. ASSUME NEW r \in Reviews, Reviewing(r) PROVE Sound(log', row')
  <2>1. PICK n \in Nat : n <= row.fix_generation
                         /\ log'.generation = [log.generation EXCEPT ![r] = n]
    BY <1>3, ReviewEffects DEF KnowledgeInv
  <2>2. /\ row'.basis = r /\ row'.fix_generation = row.fix_generation
        /\ row'.evidence = row.evidence \cup {r}
        /\ row'.failure_count = IF Counted(r) /\ row.failure_count < 2
                                THEN row.failure_count + 1 ELSE row.failure_count
        /\ log'.failures = FailuresAfter(r)
    BY <1>3, ReviewEffects DEF KnowledgeInv
  <2>3. /\ log'.generation \in [Reviews -> Int]
        /\ \A x \in Reviews : log'.generation[x] = IF x = r THEN n ELSE log.generation[x]
    BY <1>2, <2>1
  <2>4. row'.failure_count = IF log'.failures > 2 THEN 2 ELSE log'.failures
    BY <1>2, <2>2 DEF FailuresAfter
  <2>5. Counted(r) => log'.failures >= 1
    BY <1>2, <2>2 DEF FailuresAfter
  <2> QED BY <1>1, <1>2, <2>1, <2>2, <2>3, <2>4, <2>5
<1>4. ASSUME NEW g \in Grants, Consuming(g) PROVE Sound(log', row')
  <2>1. /\ row'.basis = row.basis /\ row'.fix_generation = row.fix_generation + 1
        /\ row'.evidence = row.evidence /\ row'.failure_count = row.failure_count
        /\ log'.generation = log.generation /\ log'.failures = log.failures
        /\ row.status # "absent"
    BY <1>4, ConsumeEffects DEF KnowledgeInv, Consuming
  <2> QED BY <1>2, <2>1
<1>5. ASSUME Steady PROVE Sound(log', row')
  BY <1>2, <1>5 DEF Steady
<1>6. Sound(log', row')
  BY <1>1, <1>3, <1>4, <1>5, QuietCalls DEF KnowledgeInv
<1> QED BY <1>1, <1>6, FilesStay DEF CountsOK, Recorded, Counted, Exists, row
----------------------------------------------------------------------------
(* What the log knows is kept. *)

\* What is recorded, requested or decided is not taken back.
LEMMA LogGrows ==
    ASSUME LoopInv, CountsOK, Calls
    PROVE  /\ log.requested \subseteq log'.requested /\ log.decided \subseteq log'.decided
           /\ \/ log'.decided = log.decided
              \/ \E a \in Agents : /\ agent[a].pc = "decide" /\ Deciding(agent[a].verdict)
                                   /\ log'.decided = log.decided \cup {agent[a].verdict}
           /\ \/ log'.requested = log.requested
              \/ \E a \in Agents : /\ agent[a].pc = "request" /\ Requesting(agent[a].context)
                                   /\ log'.requested = log.requested \cup {agent[a].context}
<1>1. LogShape
  BY DEF CountsOK
<1>2. ASSUME NEW r \in Reviews, Reviewing(r)
      PROVE  log'.decided = log.decided /\ log'.requested = log.requested
  BY <1>2, ReviewEffects
<1>3. ASSUME NEW v, Deciding(v)
      PROVE  log'.decided = log.decided \cup {v} /\ log'.requested = log.requested
  BY <1>1, <1>3 DEF Deciding, LogShape
<1>4. ASSUME NEW c, Requesting(c)
      PROVE  log'.decided = log.decided /\ log'.requested = log.requested \cup {c}
  BY <1>4, RequestEffects
<1>5. ASSUME NEW g \in Grants, Consuming(g)
      PROVE  log'.decided = log.decided /\ log'.requested = log.requested
  BY <1>5, ConsumeEffects
<1>6. CASE Answering \/ Directing
  BY <1>1, <1>6 DEF Answering, Directing, LogShape
<1>7. CASE log' = log
  BY <1>7
<1>8. log' = log \/ Answering \/ Directing
      \/ (\E r \in Reviews : Reviewing(r)) \/ (\E g \in Grants : Consuming(g))
      \/ (\E a \in Agents : agent[a].pc = "decide" /\ Deciding(agent[a].verdict))
      \/ (\E a \in Agents : agent[a].pc = "request" /\ Requesting(agent[a].context))
  BY DEF Calls, Issuing, Claiming, Failing, Passing
<1> QED BY <1>2, <1>3, <1>4, <1>5, <1>6, <1>7, <1>8

\* A prune lists no file that a live probe is bound to.
LEMMA UnlistedStays ==
    ASSUME KnowledgeInv, [GuardNext]_allVars, LiveProbe(row), ~log.orphaned
    PROVE  log.context \notin orphans'
<1>1. log.context \notin orphans
  BY DEF KnowledgeInv, LogKnows
<1>2. ASSUME PruneOrphans \/ \E b \in Agents : PutContext(b) PROVE log.context \notin orphans'
  BY <1>1, <1>2 DEF PruneOrphans, ListOrphan, PruneOrphan, PutContext, LiveContexts
<1>3. ASSUME NEW b \in Agents, AgentStep(b), ~PutContext(b) PROVE orphans' = orphans
  BY <1>3 DEF AgentStep, BeginReview, StoreReview, Evaluate, RecordHardDecision,
     RequestProbe, DiscardContext, RemoveContext, BeginLocalFix, BeginArchitectureFix,
     OpenArtifact, AuthorizeContinuation, ResumeAfterProbe, IssueAuthorizedContinuation,
     WriteArtifact, ConsumeGrant, Neutralize, Crash
<1>4. ASSUME NEW o \in Owners, RunnerStep(o) PROVE orphans' = orphans
  BY <1>4 DEF RunnerStep, ClaimProbe, ReadContext, ProviderAnswers, ProbeFails, CleanContext,
     RunnerDies
<1>5. ASSUME \/ \E k \in Checkpoints : Checkpoint(k)
             \/ Resolve \/ (TimePasses /\ UNCHANGED <<kind, guard>>) \/ UNCHANGED allVars
      PROVE  orphans' = orphans
  BY <1>5 DEF Checkpoint, Resolve, guard, allVars
<1> QED BY <1>1, <1>2, <1>3, <1>4, <1>5 DEF GuardNext

\* The context a live probe is bound to is taken away by no one, unless a prune had
\* listed it before.
LEMMA BoundStays ==
    ASSUME KnowledgeInv, [GuardNext]_allVars, LiveProbe(row), ~log.orphaned, Fits(log.context)
    PROVE  log.context \in contexts'
<1>1. log.context \in contexts /\ log.context \notin orphans
  BY DEF KnowledgeInv, LogKnows
<1>2. CASE contexts \subseteq contexts'
  BY <1>1, <1>2
<1>3. ASSUME NEW b \in Agents, RemoveContext(b) PROVE log.context \in contexts'
  <2>1. Fits(agent[b].context) => log.context # agent[b].context
    BY <1>3 DEF KnowledgeInv, AgentsKnow, AgentKnows, RemoveContext, At
  <2> QED BY <1>1, <1>3, <2>1 DEF RemoveContext, Fits
<1>4. ASSUME NEW o \in Owners, CleanContext(o) PROVE log.context \in contexts'
  <2>1. log.context # runner[o].context
    BY <1>4 DEF KnowledgeInv, RunnersKnow, RunnerKnows, CleanContext
  <2> QED BY <1>1, <1>4, <2>1 DEF CleanContext
<1>5. CASE PruneOrphans
  BY <1>1, <1>5 DEF PruneOrphans, ListOrphan, PruneOrphan
<1>6. ASSUME NEW b \in Agents, AgentStep(b), ~RemoveContext(b) PROVE contexts \subseteq contexts'
  BY <1>6 DEF AgentStep, BeginReview, StoreReview, Evaluate, PutContext, RecordHardDecision,
     RequestProbe, DiscardContext, BeginLocalFix, BeginArchitectureFix, OpenArtifact,
     AuthorizeContinuation, ResumeAfterProbe, IssueAuthorizedContinuation, WriteArtifact,
     ConsumeGrant, Neutralize, Crash
<1>7. ASSUME NEW o \in Owners, RunnerStep(o), ~CleanContext(o) PROVE contexts \subseteq contexts'
  BY <1>7 DEF RunnerStep, ClaimProbe, ReadContext, ProviderAnswers, ProbeFails, RunnerDies
<1>8. ASSUME \/ \E k \in Checkpoints : Checkpoint(k)
             \/ Resolve \/ (TimePasses /\ UNCHANGED <<kind, guard>>) \/ UNCHANGED allVars
      PROVE  contexts \subseteq contexts'
  BY <1>8 DEF Checkpoint, Resolve, guard, allVars
<1> QED BY <1>2, <1>3, <1>4, <1>5, <1>6, <1>7, <1>8 DEF GuardNext

\* Of the events of the loop, an answer resolves a reflection, and a decision that asks
\* for one requires it.
LEMMA StatusComes ==
    ASSUME LoopInv, ProcessesOK, CountsOK, AgentsKnow, Calls
    PROVE  /\ row'.status = "reflection_resolved" =>
                 Answering \/ (row.status = "reflection_resolved" /\ Steady)
           /\ row'.status = "reflection_required" /\ ~LiveProbe(row)' =>
                 \/ row.status = "reflection_required" /\ ~LiveProbe(row) /\ Steady
                 \/ \E a \in Agents : /\ agent[a].pc = "decide" /\ Deciding(agent[a].verdict)
                                      /\ agent[a].verdict.decision = "reflection_required"
           /\ row'.status = "probe_running" => Claiming \/ (row.status = "probe_running" /\ Steady)
<1> DEFINE Goal ==
           /\ row'.status = "reflection_resolved" =>
                 Answering \/ (row.status = "reflection_resolved" /\ Steady)
           /\ row'.status = "reflection_required" /\ ~LiveProbe(row)' =>
                 \/ row.status = "reflection_required" /\ ~LiveProbe(row) /\ Steady
                 \/ \E a \in Agents : /\ agent[a].pc = "decide" /\ Deciding(agent[a].verdict)
                                      /\ agent[a].verdict.decision = "reflection_required"
           /\ row'.status = "probe_running" => Claiming \/ (row.status = "probe_running" /\ Steady)
<1> SUFFICES Goal
  OBVIOUS
<1>1. row \in LoopRow
  BY RowHere
<1>2. ASSUME NEW r \in Reviews, Reviewing(r) PROVE row'.status = "generation_closed"
  BY <1>2, ReviewEffects
<1>3. ASSUME NEW g \in Grants, Consuming(g) PROVE row'.status = "active_generation"
  BY <1>3, ConsumeEffects
<1>4. ASSUME NEW a \in Agents, agent[a].pc = "decide", Deciding(agent[a].verdict)
      PROVE  Goal
  <2>1. agent[a].verdict.decision \in Decisions \ {"pass"}
    BY <1>4 DEF ProcessesOK, AgentsKnow, AgentOK, AgentKnows, VerdictOK
  <2>2. row'.status = DecisionTarget(agent[a].verdict.decision)
    BY <1>1, <1>4 DEF Deciding, LoopRow
  <2>3. /\ row'.status # "reflection_resolved" /\ row'.status # "probe_running"
        /\ row'.status = "reflection_required" => agent[a].verdict.decision = "reflection_required"
    BY <2>1, <2>2, DecidedStatus DEF Stops
  <2> QED BY <1>4, <2>3
<1>5. ASSUME NEW c, Requesting(c) PROVE row'.status = "probe_pending"
  BY <1>5, RequestEffects
<1>6. ASSUME NEW g \in Grants, Issuing(g) PROVE row'.status = "grant_ready"
  BY <1>1, <1>6 DEF Issuing, LoopRow
<1>7. CASE Claiming
  BY <1>1, <1>7 DEF Claiming, ProbeClaimed, ProbeEnded, LoopRow
<1>8. CASE Answering
  BY <1>1, <1>8 DEF Answering, ProbeEnded, LoopRow
<1>9. CASE Failing
  BY <1>1, <1>9 DEF Failing, ProbeEnded, LoopRow, LiveProbe
<1>10. CASE Directing
  BY <1>1, <1>10 DEF Directing, LoopRow
<1>11. CASE Passing /\ Steady
  BY <1>1, <1>11 DEF Passing, LoopRow, LiveProbe
<1> HIDE DEF Goal
<1>12. ASSUME row'.status \in {"generation_closed", "active_generation", "probe_pending", "grant_ready"}
       PROVE  Goal
  BY <1>12 DEF Goal
<1>13. Steady \/ (\E r \in Reviews : Reviewing(r)) \/ (\E g \in Grants : Consuming(g))
  BY QuietCalls
<1> QED
  BY <1>2, <1>3, <1>4, <1>5, <1>6, <1>7, <1>8, <1>9, <1>10, <1>11, <1>12, <1>13 DEF Calls
\* What has been decided lies behind: the review and generation it was taken on are on
\* record, and the loop does not work on them any more.
LEMMA DecidedKept ==
    ASSUME KnowledgeInv, Calls
    PROVE  \A v \in log'.decided :
              /\ Past(v.basis, v.generation)'
              /\ Present(v.basis, v.generation)' => row'.status \notin Working
<1> SUFFICES ASSUME NEW v \in log'.decided
             PROVE  /\ Past(v.basis, v.generation)'
                    /\ Present(v.basis, v.generation)' => row'.status \notin Working
  OBVIOUS
<1>1. ASSUME Past(v.basis, v.generation)
      PROVE  /\ Past(v.basis, v.generation)'
             /\ Present(v.basis, v.generation)' => Present(v.basis, v.generation) /\ Steady
  BY <1>1, PastStays DEF Past, Present, Recorded, KnowledgeInv
<1>2. CASE v \in log.decided
  <2>1. /\ Past(v.basis, v.generation)
        /\ Present(v.basis, v.generation) => row.status \notin Working
    BY <1>2 DEF KnowledgeInv, LogKnows
  <2> QED BY <1>1, <2>1 DEF Steady
<1>3. ASSUME NEW a \in Agents, agent[a].pc = "decide", Deciding(agent[a].verdict),
             v = agent[a].verdict
      PROVE  /\ Past(v.basis, v.generation)'
             /\ Present(v.basis, v.generation)' => row'.status \notin Working
  <2>1. /\ v.decision \in Decisions \ {"pass"}
        /\ Past(v.basis, v.generation)
    BY <1>3 DEF KnowledgeInv, ProcessesOK, AgentsKnow, AgentOK, AgentKnows, VerdictOK
  <2>2. row'.status = DecisionTarget(v.decision)
    BY <1>3, RowHere DEF Deciding, LoopRow, KnowledgeInv
  <2> QED BY <1>1, <2>1, <2>2, DecidedStatus DEF Stops, Working
<1> QED BY <1>2, <1>3, LogGrows DEF KnowledgeInv

\* A loop that waits for a probe to be asked for has recorded that it is to be.
LEMMA AskingKept ==
    ASSUME KnowledgeInv, Calls, row'.status = "reflection_required", ~LiveProbe(row)'
    PROVE  Asking(row'.basis, row'.fix_generation, row'.failure_count) \in log'.decided
<1>1. CASE row.status = "reflection_required" /\ ~LiveProbe(row) /\ Steady
  BY <1>1, LogGrows DEF KnowledgeInv, LogKnows, Steady
<1>2. ASSUME NEW a \in Agents, agent[a].pc = "decide", Deciding(agent[a].verdict),
             agent[a].verdict.decision = "reflection_required"
      PROVE  Asking(row'.basis, row'.fix_generation, row'.failure_count) \in log'.decided
  <2> DEFINE v == agent[a].verdict
  <2>1. v = Asking(v.basis, v.generation, v.failures)
    BY <1>2 DEF KnowledgeInv, AgentsKnow, AgentKnows, VerdictOK
  <2>2. /\ row'.basis = v.basis /\ row'.fix_generation = v.generation
        /\ row'.failure_count = v.failures
    BY <1>2, RowHere DEF Deciding, SnapshotHolds, LoopRow, KnowledgeInv
  <2>3. v \in log'.decided
    BY <1>2 DEF Deciding, KnowledgeInv, CountsOK, LogShape
  <2> HIDE DEF v
  <2> QED BY <2>1, <2>2, <2>3
<1> QED BY <1>1, <1>2, StatusComes DEF KnowledgeInv

\* A context a probe was asked for with is one of the past, and of the present only as
\* long as no other probe can be asked for.
LEMMA RequestedKept ==
    ASSUME KnowledgeInv, Calls
    PROVE  \A c \in log'.requested : Known(c)' /\ (Fits(c)' => ~Receptive')
<1> SUFFICES ASSUME NEW c \in log'.requested PROVE Known(c)' /\ (Fits(c)' => ~Receptive')
  OBVIOUS
<1>1. ASSUME Known(c) PROVE Known(c)' /\ (Fits(c)' => Fits(c) /\ Steady)
  BY <1>1, PastStays DEF Known, Past, Fits, Present, Recorded, KnowledgeInv
<1>2. CASE c \in log.requested
  BY <1>1, <1>2 DEF KnowledgeInv, LogKnows, Steady
<1>3. ASSUME NEW a \in Agents, agent[a].pc = "request", Requesting(agent[a].context),
             c = agent[a].context
      PROVE  Known(c)' /\ (Fits(c)' => ~Receptive')
  <2>1. Known(c)
    BY <1>3 DEF KnowledgeInv, AgentsKnow, AgentKnows, Submits
  <2> QED BY <1>1, <1>3, <2>1, RequestEffects DEF KnowledgeInv
<1> QED BY <1>2, <1>3, LogGrows DEF KnowledgeInv

\* A live probe is bound to a context it was asked for with, and finds its file there
\* unless a prune was ahead of the request.
LEMMA BindingKept ==
    ASSUME KnowledgeInv, [GuardNext]_allVars
    PROVE  /\ LiveProbe(row)' => log'.context \in log'.requested /\ log'.failures >= 1
           /\ LiveProbe(row)' /\ ~log'.orphaned =>
                 /\ log'.context \notin orphans'
                 /\ Fits(log.context)' => log'.context \in contexts'
<1>1. Calls /\ log'.failures >= log.failures /\ log.failures \in 0..3 /\ log'.failures \in 0..3
  BY GuardCalls, FailuresRise DEF KnowledgeInv, CountsOK
<1>2. ASSUME NEW c, Known(c)
      PROVE  c.basis = row'.basis /\ c.generation = row'.fix_generation => Fits(c)
  BY <1>1, <1>2, PastStays DEF Known, Past, Fits, KnowledgeInv
<1>3. Fits(log.context)' <=> log'.context.basis = row'.basis
                             /\ log'.context.generation = row'.fix_generation
  BY DEF Fits, Present
<1>4. ASSUME NEW a \in Agents, agent[a].pc = "request", Requesting(agent[a].context)
      PROVE  /\ log'.context \in log'.requested /\ log'.failures >= 1
             /\ ~log'.orphaned => /\ log'.context \notin orphans'
                                  /\ Fits(log.context)' => log'.context \in contexts'
  <2>1. /\ log'.context = agent[a].context /\ log'.context \in log'.requested /\ Receptive
        /\ log.failures >= 1 /\ Known(agent[a].context) /\ Submits(agent[a])
        /\ ~log'.orphaned => log'.context \notin orphans'
    BY <1>4, RequestEffects DEF KnowledgeInv, AgentsKnow, AgentKnows, Submits
  <2>2. Fits(log.context)' => Fits(agent[a].context)
    BY <1>2, <1>3, <2>1
  <2>3. Fits(agent[a].context) => agent[a].context \in contexts \cup orphans
    BY <2>1 DEF KnowledgeInv, AgentsKnow, AgentKnows
  <2>4. Fits(agent[a].context) => agent[a].context \in contexts' \cup orphans'
    BY <2>1, <2>3, ContextsStay
  <2> QED BY <1>1, <2>1, <2>2, <2>4
<1>5. ASSUME log'.context = log.context, log'.requested = log.requested,
             log'.orphaned = log.orphaned, LiveProbe(row)' => LiveProbe(row)
      PROVE  /\ LiveProbe(row)' => log'.context \in log'.requested /\ log'.failures >= 1
             /\ LiveProbe(row)' /\ ~log'.orphaned =>
                   /\ log'.context \notin orphans'
                   /\ Fits(log.context)' => log'.context \in contexts'
  <2>1. LiveProbe(row)' => /\ LiveProbe(row) /\ log.context \in log.requested
                           /\ log.failures >= 1 /\ Known(log.context)
    BY <1>5 DEF KnowledgeInv, LogKnows
  <2>2. LiveProbe(row)' /\ Fits(log.context)' => Fits(log.context)
    BY <1>2, <1>3, <1>5, <2>1
  <2> QED BY <1>1, <1>5, <2>1, <2>2, UnlistedStays, BoundStays
<1> QED BY <1>1, <1>4, <1>5, BindingStays DEF KnowledgeInv

\* A reflection is resolved only while the loop stands where its probe was asked for.
LEMMA AdviceKept ==
    ASSUME KnowledgeInv, Calls, row'.status = "reflection_resolved"
    PROVE  Fits(log.context)'
<1>1. row'.status # "probe_pending"
  OBVIOUS
<1>2. log'.context = log.context
  BY <1>1, BindingStays, RequestEffects DEF KnowledgeInv
<1>3. CASE Answering
  <2>1. PICK o \in Owners : runner[o].pc = "ask" /\ runner[o].epoch = row.probe_epoch
    BY <1>3 DEF Answering
  <2>2. Fits(log.context)
    BY <1>3, <2>1 DEF KnowledgeInv, RunnersKnow, RunnerKnows, Answering
  <2>3. row'.basis = row.basis /\ row'.fix_generation = row.fix_generation
    BY <1>3, RowHere DEF Answering, ProbeEnded, LoopRow, KnowledgeInv
  <2> QED BY <1>2, <2>2, <2>3 DEF Fits, Present
<1>4. CASE row.status = "reflection_resolved" /\ Steady
  BY <1>2, <1>4 DEF KnowledgeInv, LogKnows, Fits, Present, Steady
<1> QED BY <1>3, <1>4, StatusComes DEF KnowledgeInv

LEMMA LogKept ==
    ASSUME KnowledgeInv, [GuardNext]_allVars
    PROVE  LogKnows'
<1>1. Calls
  BY GuardCalls DEF KnowledgeInv
<1>2. /\ \A v \in log'.decided :
            /\ Past(v.basis, v.generation)'
            /\ Present(v.basis, v.generation)' => row'.status \notin Working
      /\ \A c \in log'.requested : Known(c)' /\ (Fits(c)' => ~Receptive')
      /\ row'.status = "reflection_resolved" => Fits(log.context)'
      /\ row'.status = "reflection_required" /\ ~LiveProbe(row)' =>
            Asking(row'.basis, row'.fix_generation, row'.failure_count) \in log'.decided
  BY <1>1, DecidedKept, RequestedKept, AdviceKept, AskingKept
<1> QED BY <1>2, BindingKept DEF LogKnows, Asking
----------------------------------------------------------------------------
(* So is what the probe's processes know. *)

\* The epochs of claims rise; a row that runs a probe of an epoch did so before.
LEMMA EpochStays ==
    ASSUME LoopInv, ProcessesOK, CountsOK, AgentsKnow, Calls
    PROVE  /\ row.probe_epoch \in Nat /\ row'.probe_epoch \in Nat
           /\ row'.probe_epoch >= row.probe_epoch
           /\ row'.status = "probe_running" /\ row'.probe_state = "running" =>
                 \/ row'.probe_epoch > row.probe_epoch
                 \/ /\ row.status = "probe_running" /\ row.probe_state = "running"
                    /\ row'.probe_epoch = row.probe_epoch /\ Steady
<1>1. row \in LoopRow
  BY RowHere
<1> DEFINE Kept == row'.probe_epoch = row.probe_epoch /\ row'.probe_state = row.probe_state
<1>2. ASSUME NEW r \in Reviews, Reviewing(r) PROVE Kept
  BY <1>2, ReviewEffects
<1>3. ASSUME NEW v, Deciding(v) PROVE Kept
  BY <1>1, <1>3 DEF Deciding, LoopRow
<1>4. ASSUME NEW g \in Grants, Issuing(g) \/ Consuming(g) PROVE Kept
  BY <1>1, <1>4, ConsumeEffects DEF Issuing, LoopRow
<1>5. ASSUME NEW c, Requesting(c)
      PROVE  row'.probe_epoch = row.probe_epoch /\ row'.status = "probe_pending"
  BY <1>5, RequestEffects
<1>6. ASSUME Claiming
      PROVE  \/ row'.probe_epoch = row.probe_epoch + 1
             \/ row'.probe_epoch = row.probe_epoch /\ row'.status = "checkpoint_required"
  <2>1. CASE \E o \in Owners : row' = ProbeClaimed(row, o)
    BY <1>1, <2>1 DEF ProbeClaimed, LoopRow
  <2>2. CASE row' = ProbeEnded(row, "checkpoint_required", "failed", "null")
    BY <1>1, <2>2 DEF ProbeEnded, LoopRow
  <2> QED BY <1>6, <2>1, <2>2 DEF Claiming
<1>7. ASSUME Answering \/ Failing
      PROVE  row'.probe_epoch = row.probe_epoch /\ row'.status # "probe_running"
  BY <1>1, <1>7 DEF Answering, Failing, ProbeEnded, LoopRow
<1>8. ASSUME Directing \/ Passing PROVE Kept
  BY <1>1, <1>8 DEF Directing, Passing, LoopRow
<1>9. row.probe_epoch \in Nat
  BY <1>1 DEF LoopRow
<1>10. Claiming
       \/ (row'.probe_epoch = row.probe_epoch /\ row'.status \in {"probe_pending"})
       \/ (row'.probe_epoch = row.probe_epoch /\ row'.status # "probe_running")
       \/ Kept
  BY <1>2, <1>3, <1>4, <1>5, <1>7, <1>8 DEF Calls
<1>11. row'.status = "probe_running" => Claiming \/ (row.status = "probe_running" /\ Steady)
  BY StatusComes
<1> QED BY <1>6, <1>9, <1>10, <1>11

\* A process that does not move knows what it knew.
LEMMA RunnerStays ==
    ASSUME KnowledgeInv, Calls, NEW o \in Owners, runner'[o] = runner[o]
    PROVE  RunnerKnows(runner[o])'
<1> DEFINE s == runner[o]
<1>1. RunnerKnows(s) /\ (s.pc \in {"read", "ask", "refuse"} => s.epoch \in Nat)
  BY DEF KnowledgeInv, RunnersKnow, ProcessesOK, RunnerOK
<1>2. log.requested \subseteq log'.requested
  BY LogGrows DEF KnowledgeInv
<1>3. s.pc \in {"read", "ask", "refuse"} => s.epoch <= row'.probe_epoch
  BY <1>1, EpochStays DEF KnowledgeInv, RunnerKnows
<1>4. s.pc \in {"ask", "clean"} => s.context \in log'.requested
  BY <1>1, <1>2 DEF RunnerKnows
<1>5. s.pc = "refuse" => s.context \in log'.requested \cup {None}
  BY <1>1, <1>2 DEF RunnerKnows
<1>6. s.pc = "clean" => ~(LiveProbe(row)' /\ log'.context = s.context)
  <2>1. s.pc = "clean" =>
           s.context \in log.requested /\ ~(LiveProbe(row) /\ log.context = s.context)
    BY <1>1 DEF RunnerKnows
  <2>2. ASSUME NEW c, Requesting(c), s.pc = "clean" PROVE log'.context # s.context
    BY <2>1, <2>2, RequestEffects DEF Requesting, KnowledgeInv
  <2>3. \/ log'.context = log.context /\ (LiveProbe(row)' => LiveProbe(row))
        \/ \E a \in Agents : Requesting(agent[a].context)
    BY BindingStays DEF KnowledgeInv
  <2> QED BY <2>1, <2>2, <2>3
<1>7. s.pc = "ask" /\ row'.status = "probe_running" /\ row'.probe_state = "running"
      /\ row'.probe_epoch = s.epoch
      => log'.context.basis = row'.basis /\ log'.context.generation = row'.fix_generation
  <2> SUFFICES ASSUME s.pc = "ask", row'.status = "probe_running", row'.probe_state = "running",
                      row'.probe_epoch = s.epoch
               PROVE  /\ log'.context.basis = row'.basis
                      /\ log'.context.generation = row'.fix_generation
    OBVIOUS
  <2>1. s.epoch <= row.probe_epoch
    BY <1>1 DEF RunnerKnows
  <2>2. /\ row.status = "probe_running" /\ row.probe_state = "running"
        /\ row.probe_epoch = s.epoch /\ Steady
    BY <1>1, <2>1, EpochStays DEF KnowledgeInv
  <2>3. Fits(log.context)
    BY <1>1, <2>2 DEF RunnerKnows
  <2>4. log'.context = log.context
    BY BindingStays, RequestEffects DEF KnowledgeInv
  <2> QED BY <2>2, <2>3, <2>4 DEF Fits, Present, Steady
<1>8. runner'[o] = s
  OBVIOUS
<1> QED BY <1>3, <1>4, <1>5, <1>6, <1>7, <1>8 DEF RunnerKnows, Fits, Present

LEMMA RunnerAt ==
    ASSUME ProcessesOK, NEW o \in Owners, NEW s, RunnerGoes(o, s)
    PROVE  runner'[o] = s /\ \A p \in Owners \ {o} : runner'[p] = runner[p]
BY DEF ProcessesOK, RunnerGoes

\* A process that holds nothing.
LEMMA RunnerFree ==
    ASSUME NEW o \in Owners, runner'[o] = Idle \/ runner'[o] = [pc |-> "started"]
    PROVE  RunnerKnows(runner[o])'
BY DEF RunnerKnows, Idle

\* A process that is about to remove the file of a probe that has ended.
LEMMA CleanKnows ==
    ASSUME NEW o \in Owners, NEW c, runner'[o] = [pc |-> "clean", context |-> c],
           c \in log'.requested, ~LiveProbe(row)'
    PROVE  RunnerKnows(runner[o])'
BY DEF RunnerKnows

LEMMA RunnerMoved ==
    ASSUME KnowledgeInv, NEW o \in Owners, RunnerStep(o)
    PROVE  RunnerKnows(runner[o])'
<1>1. \A s : RunnerGoes(o, s) => runner'[o] = s
  BY RunnerAt DEF KnowledgeInv
<1>2. RunnerKnows(runner[o]) /\ row \in LoopRow /\ (\A s : WriteLoop(F, s) => row' = s)
  BY RowHere, Written DEF KnowledgeInv, RunnersKnow
<1>3. CASE ClaimProbe(o)
  <2>1. runner'[o] = Idle \/ runner'[o] = [pc |-> "read", epoch |-> row'.probe_epoch]
    BY <1>1, <1>3 DEF ClaimProbe
  <2>2. row'.probe_epoch \in Nat
    BY <1>3, RunnerCalls, EpochStays DEF KnowledgeInv, RunnerStep
  <2> QED BY <2>1, <2>2, RunnerFree DEF RunnerKnows
<1>4. CASE ReadContext(o)
  <2>1. row' = row /\ log' = log
    BY <1>4, StoredStays DEF ReadContext
  <2>2. PICK pc, c :
           /\ runner'[o] = [epoch |-> runner[o].epoch, pc |-> pc, context |-> c]
           /\ pc = IF LiveProbe(row) /\ ContextFits(log.context) THEN "ask" ELSE "refuse"
           /\ c = IF LiveProbe(row) THEN log.context ELSE None
    BY <1>1, <1>4 DEF ReadContext
  <2>3. runner[o].epoch <= row.probe_epoch
    BY <1>2, <1>4 DEF ReadContext, RunnerKnows
  <2>4. LiveProbe(row) => log.context \in log.requested
    BY DEF KnowledgeInv, LogKnows
  <2>5. /\ runner'[o].pc = pc /\ runner'[o].context = c /\ runner'[o].epoch = runner[o].epoch
        /\ pc \in {"ask", "refuse"}
        /\ pc = "ask" => LiveProbe(row) /\ ContextFits(log.context) /\ c = log.context
    BY <2>2
  <2>6. pc = "ask" => Fits(log.context)'
    BY <2>1, <2>5 DEF ContextFits, Fits, Present
  <2>7. pc = "ask" => c \in log'.requested
    BY <2>1, <2>4, <2>5
  <2>8. c \in log'.requested \cup {None}
    BY <2>1, <2>2, <2>4
  <2> QED BY <2>1, <2>3, <2>5, <2>6, <2>7, <2>8 DEF RunnerKnows
<1>5. CASE ProviderAnswers(o)
  <2>1. runner'[o] = [pc |-> "clean", context |-> runner[o].context] /\ runner[o].pc = "ask"
    BY <1>1, <1>5 DEF ProviderAnswers
  <2>2. runner[o].context \in log'.requested
    BY <1>2, <1>5, <2>1 DEF ProviderAnswers, RunnerKnows, KnowledgeInv, CountsOK, LogShape
  <2>3. ~LiveProbe(row)'
    BY <1>2, <1>5 DEF ProviderAnswers, CompleteConvergenceProbe, ProbeEnded, LoopRow, LiveProbe, row
  <2> QED BY <2>1, <2>2, <2>3, CleanKnows
<1>6. CASE ProbeFails(o)
  <2>1. PICK retryable \in BOOLEAN :
           /\ runner[o].pc \in {"ask", "refuse"}
           /\ FailConvergenceProbe(F, o, runner[o].epoch, retryable)
    BY <1>6 DEF ProbeFails
  <2>2. \/ runner'[o] = Idle
        \/ /\ row'.probe_state # "retryable" /\ runner[o].context # None
           /\ runner'[o] = [pc |-> "clean", context |-> runner[o].context]
    BY <1>1, <1>6 DEF ProbeFails
  <2>3. runner[o].context # None => runner[o].context \in log'.requested
    BY <1>2, <1>6, <2>1 DEF ProbeFails, RunnerKnows
  <2>4. row'.probe_state # "retryable" => ~LiveProbe(row)'
    BY <1>2, <2>1 DEF FailConvergenceProbe, ProbeEnded, LoopRow, LiveProbe, row
  <2> QED BY <2>2, <2>3, <2>4, RunnerFree, CleanKnows
<1>7. CASE CleanContext(o) \/ RunnerDies(o)
  BY <1>1, <1>7, RunnerFree DEF CleanContext, RunnerDies
<1> QED BY <1>3, <1>4, <1>5, <1>6, <1>7 DEF RunnerStep

LEMMA RunnersKept ==
    ASSUME KnowledgeInv, [GuardNext]_allVars
    PROVE  RunnersKnow'
<1>1. Calls
  BY GuardCalls DEF KnowledgeInv
<1>2. ASSUME NEW o \in Owners, runner'[o] = runner[o] PROVE RunnerKnows(runner[o])'
  BY <1>1, <1>2, RunnerStays
<1>3. ASSUME NEW o \in Owners, RunnerStep(o), NEW p \in Owners PROVE RunnerKnows(runner[p])'
  <2>1. p # o => runner'[p] = runner[p]
    <3>1. p # o => \A s : RunnerGoes(o, s) => runner'[p] = runner[p]
      BY RunnerAt DEF KnowledgeInv
    <3> QED BY <1>3, <3>1 DEF RunnerStep, ClaimProbe, ReadContext, ProviderAnswers, ProbeFails,
              CleanContext, RunnerDies
  <2> QED BY <1>2, <1>3, <2>1, RunnerMoved
<1>4. ASSUME NEW a \in Agents, RequestProbe(a), NEW o \in Owners PROVE RunnerKnows(runner[o])'
  <2>1. runner'[o] = runner[o] \/ runner'[o] = [pc |-> "started"]
    BY <1>4 DEF RequestProbe, Launch, KnowledgeInv, ProcessesOK
  <2> QED BY <1>2, <2>1, RunnerFree
<1>5. ASSUME NEW a \in Agents, AgentStep(a), ~RequestProbe(a) PROVE runner' = runner
  BY <1>5 DEF AgentStep, BeginReview, StoreReview, Evaluate, PutContext, RecordHardDecision,
     DiscardContext, RemoveContext, BeginLocalFix, BeginArchitectureFix, OpenArtifact,
     AuthorizeContinuation, ResumeAfterProbe, IssueAuthorizedContinuation, WriteArtifact,
     ConsumeGrant, Neutralize, Crash
<1>6. ASSUME \/ \E k \in Checkpoints : Checkpoint(k)
             \/ Resolve \/ PruneOrphans \/ (TimePasses /\ UNCHANGED <<kind, guard>>)
             \/ UNCHANGED allVars
      PROVE  runner' = runner
  BY <1>6 DEF Checkpoint, Resolve, PruneOrphans, ListOrphan, PruneOrphan, guard, allVars
<1>7. ASSUME NEW o \in Owners PROVE RunnerKnows(runner[o])'
  BY <1>2, <1>3, <1>4, <1>5, <1>6 DEF GuardNext
<1> QED BY <1>7 DEF RunnersKnow

LEMMA KnowledgeStart == ASSUME GuardInit PROVE KnowledgeInv
<1>1. LoopInv /\ ProcessesOK /\ row = AbsentLoop /\ log = NoLog
  BY GuardStart, GuardAssumption DEF GuardInit, Init, row
<1>2. contexts = {} /\ \A p \in Files : artifact[p] = None
  BY DEF GuardInit
<1>3. /\ \A a \in Agents : agent[a] = Idle
      /\ \A o \in Owners : runner[o] = Idle
  BY DEF GuardInit
<1>4. CountsOK
  <2>1. /\ LogShape /\ log.failures = 0 /\ log.generation = [r \in Reviews |-> -1]
    BY <1>1 DEF LogShape, NoLog
  <2> QED BY <1>1, <1>2, <2>1 DEF CountsOK, AbsentLoop, Recorded, Exists, row
<1>5. AgentsKnow
  BY <1>3 DEF AgentsKnow, AgentKnows, Idle, Submits, Withdraws
<1>6. LogKnows
  <2>1. log.decided = {} /\ log.requested = {}
    BY <1>1 DEF NoLog
  <2> QED BY <1>1, <2>1 DEF LogKnows, AbsentLoop, LiveProbe
<1>7. RunnersKnow
  BY <1>3 DEF RunnersKnow, RunnerKnows, Idle
<1> QED BY <1>1, <1>4, <1>5, <1>6, <1>7 DEF KnowledgeInv

LEMMA KnowledgeKept ==
    ASSUME KnowledgeInv, [GuardNext]_allVars
    PROVE  KnowledgeInv'
BY GuardStep, NextKeeps, CountsKept, AgentsStayKnowing, LogKept, RunnersKept DEF KnowledgeInv

LEMMA KnowledgeInvariant == GuardSpec => []KnowledgeInv
BY KnowledgeStart, KnowledgeKept, PTL DEF GuardSpec
\* The commands' state has its shape: the counts of the log are those of the row, and a
\* grant that is named in a file has been issued.
THEOREM GuardTypeCorrect == GuardSpec => []GuardTypeOK
<1>1. KnowledgeInv => GuardTypeOK
  BY DEF KnowledgeInv, CountsOK, GuardTypeOK
<1> QED BY <1>1, KnowledgeInvariant, PTL

\* A probe that may still run on the review and the generation it was asked for finds
\* its context file, unless a prune had found it old and unbound before the probe was
\* reserved: no command, no other probe's clean-up and no later prune takes it away.
THEOREM ProbeContextsKept == GuardSpec => []ProbeContextKept
<1>1. KnowledgeInv => ProbeContextKept
  BY DEF KnowledgeInv, LogKnows, ProbeContextKept, Fits, Present
<1> QED BY <1>1, KnowledgeInvariant, PTL

\* A grant issued on a reflection is issued for the review the probe was shown.
THEOREM AdviceFitsReview == GuardSpec => AdviceIsForItsReview
<1>1. KnowledgeInv /\ [GuardNext]_allVars =>
         [\A g \in Grants :
             /\ grant[g].state = "unused" /\ grant'[g].state = "active"
             /\ row.status = "reflection_resolved"
             => log.context.basis = row.basis]_allVars
  BY DEF KnowledgeInv, LogKnows, Fits, Present
<1> QED BY <1>1, KnowledgeInvariant, PTL DEF GuardSpec, AdviceIsForItsReview

----------------------------------------------------------------------------
(* Directions: what has to come before a grant, and what a grant that is    *)
(* held, or about to be issued, shows of the loop.                          *)

Completion == [generation : Nat, action : Advice]

\* The latest review asked for a direction, in the generation that stands.
Asked ==
    /\ log.failures < 2 /\ Exists(F) /\ Directional(row.basis)
    /\ log.generation[row.basis] = row.fix_generation
Answered ==
    \/ log.directed
    \/ /\ log.completed # None /\ log.completed.action = "continue_once"
       /\ log.completed.generation = row.fix_generation

\* A grant for the action is active, or a command has made up its mind to issue one.
Held(action) ==
    \/ \E a \in Agents : agent[a].pc = "issue" /\ agent[a].action = action
    \/ \E g \in Grants : grant[g].state = "active" /\ g.action = action

CompletionOK ==
    /\ row.probe_state = "completed" => log.completed # None
    /\ log.completed # None =>
          /\ log.completed \in Completion /\ log.failures >= 1
          /\ log.completed.generation <= row.fix_generation
    /\ Asked /\ log.completed # None /\ log.completed.generation = row.fix_generation =>
          ~Receptive /\ ~LiveProbe(row)

DirectedOK ==
    /\ row.status = "direction_approved" => log.directed
    /\ row.status = "grant_ready" /\ row.active_grant.action = "architecture_fix" => log.directed

HeldOK ==
    /\ Held("local_fix") => log.failures >= 1 /\ (Directional(row.basis) => log.failures >= 2)
    /\ Held("continue_once") => log.failures >= 1 /\ (Asked => Answered)

DirectionInv == KnowledgeInv /\ CompletionOK /\ DirectedOK /\ HeldOK

\* What completes a probe in the log, and what directs the loop.
LEMMA DirectionEffects ==
    ASSUME LoopInv, CountsOK, Calls
    PROVE  /\ Answering \/ (log'.completed = log.completed
                            /\ (row'.probe_state = "completed" => row.probe_state = "completed"))
           /\ \/ log'.directed = log.directed
              \/ Directing /\ log'.directed
              \/ \E r \in Reviews : Reviewing(r)
<1>1. LogShape /\ row \in LoopRow
  BY RowHere DEF CountsOK
<1> DEFINE Kept == log'.completed = log.completed
                   /\ (row'.probe_state = "completed" => row.probe_state = "completed")
<1>2. ASSUME NEW r \in Reviews, Reviewing(r) PROVE Kept
  BY <1>2, ReviewEffects
<1>3. ASSUME NEW v, Deciding(v) PROVE Kept /\ log'.directed = log.directed
  BY <1>1, <1>3 DEF Deciding, LogShape, LoopRow
<1>4. ASSUME NEW c, Requesting(c) PROVE Kept /\ log'.directed = log.directed
  BY <1>4, RequestEffects
<1>5. ASSUME NEW g \in Grants, Issuing(g) \/ Consuming(g)
      PROVE  Kept /\ log'.directed = log.directed
  BY <1>1, <1>5, ConsumeEffects DEF Issuing, LoopRow
<1>6. ASSUME Claiming \/ Failing PROVE Kept /\ log'.directed = log.directed
  BY <1>1, <1>6 DEF Claiming, Failing, ProbeClaimed, ProbeEnded, LoopRow
<1>7. ASSUME Answering PROVE log'.directed = log.directed
  BY <1>1, <1>7 DEF Answering, LogShape
<1>8. ASSUME Directing PROVE Kept /\ log'.directed
  BY <1>1, <1>8 DEF Directing, LogShape, LoopRow
<1>9. ASSUME Passing PROVE Kept /\ log'.directed = log.directed
  BY <1>1, <1>9 DEF Passing, LoopRow
<1> QED BY <1>2, <1>3, <1>4, <1>5, <1>6, <1>7, <1>8, <1>9 DEF Calls

\* A review that asks for a direction after a failure exhausts the budget, and a new
\* generation is none that a review was made in.
LEMMA AskedStays ==
    ASSUME KnowledgeInv, Calls, kind' = kind, Asked', log.failures >= 1
    PROVE  Asked /\ Steady
<1>1. /\ log.failures \in 0..3 /\ row.fix_generation \in Nat
      /\ \A b \in Reviews : log.generation[b] \in Int /\ log.generation[b] <= row.fix_generation
  BY RowHere DEF KnowledgeInv, CountsOK, LoopRow
<1>2. /\ log'.failures < 2 /\ Directional(row'.basis) /\ row'.status # "absent"
      /\ log'.generation[row'.basis] = row'.fix_generation
  BY DEF Asked, Directional, Exists, row
<1>3. ASSUME NEW r \in Reviews, Reviewing(r) PROVE FALSE
  <2>1. row'.basis = r /\ log'.failures = FailuresAfter(r)
    BY <1>3, ReviewEffects DEF KnowledgeInv
  <2> QED BY <1>1, <1>2, <2>1 DEF FailuresAfter, Directional, Counted
<1>4. ASSUME NEW g \in Grants, Consuming(g) PROVE FALSE
  <2>1. /\ row'.basis = row.basis /\ row'.fix_generation = row.fix_generation + 1
        /\ log'.generation = log.generation /\ row.status = "grant_ready"
    BY <1>4, ConsumeEffects DEF KnowledgeInv, Consuming
  <2>2. row.basis \in Reviews
    BY <2>1 DEF KnowledgeInv, CountsOK, Exists, row
  <2> QED BY <1>1, <1>2, <2>1, <2>2
<1>5. Steady
  BY <1>3, <1>4, QuietCalls DEF KnowledgeInv
<1> QED BY <1>2, <1>5 DEF Steady, Asked, Exists, row

LEMMA CompletionKept ==
    ASSUME DirectionInv, [GuardNext]_allVars
    PROVE  CompletionOK'
<1>1. /\ Calls /\ kind' = kind /\ log'.failures >= log.failures
      /\ log.failures \in 0..3 /\ log'.failures \in 0..3 /\ row \in LoopRow
      /\ KnowledgeInv /\ CompletionOK
  BY GuardCalls, KindStays, FailuresRise, RowHere DEF DirectionInv, KnowledgeInv, CountsOK
<1>2. /\ row.fix_generation \in Nat /\ row'.fix_generation \in Nat
      /\ row'.fix_generation >= row.fix_generation
      /\ (\E g \in Grants : Consuming(g)) => row'.fix_generation = row.fix_generation + 1
  <2>1. ASSUME NEW r \in Reviews, Reviewing(r) PROVE row'.fix_generation = row.fix_generation
    BY <2>1, ReviewEffects DEF KnowledgeInv, DirectionInv
  <2>2. ASSUME NEW g \in Grants, Consuming(g)
        PROVE  row'.fix_generation = row.fix_generation + 1
    BY <2>2, ConsumeEffects DEF KnowledgeInv, DirectionInv
  <2>3. Steady => row'.fix_generation = row.fix_generation
    BY DEF Steady
  <2> QED BY <1>1, <2>1, <2>2, <2>3, QuietCalls DEF KnowledgeInv, LoopRow
<1>3. CASE Answering
  <2>1. /\ row'.status = "reflection_resolved" /\ row'.probe_state = "completed"
        /\ row'.fix_generation = row.fix_generation /\ LiveProbe(row)
    BY <1>1, <1>3 DEF Answering, ProbeEnded, LoopRow, LiveProbe
  <2>2. log'.completed \in Completion /\ log'.completed.generation = row.fix_generation
    <3>1. PICK action \in Advice :
             log' = [log EXCEPT !.completed = [generation |-> row.fix_generation, action |-> action]]
      BY <1>3 DEF Answering
    <3>2. log'.completed = [generation |-> row.fix_generation, action |-> action]
      BY <1>1, <3>1 DEF KnowledgeInv, CountsOK, LogShape
    <3> QED BY <1>2, <3>2 DEF Completion
  <2>3. log'.completed # None
    BY <2>2, GuardAssumption DEF Completion
  <2>4. log'.failures >= 1
    BY <1>1, <2>1 DEF KnowledgeInv, LogKnows
  <2>5. ~Receptive' /\ ~LiveProbe(row)'
    BY <2>1 DEF Receptive, LiveProbe, Working
  <2> QED BY <1>2, <2>1, <2>2, <2>3, <2>4, <2>5 DEF CompletionOK
<1>4. CASE /\ log'.completed = log.completed
           /\ row'.probe_state = "completed" => row.probe_state = "completed"
  <2>1. log.completed # None =>
           /\ log.completed \in Completion /\ log.failures >= 1
           /\ log.completed.generation <= row.fix_generation
           /\ log.completed.generation \in Nat
    BY <1>1 DEF CompletionOK, Completion
  <2>2. ASSUME Asked', log.completed # None, log.completed.generation = row'.fix_generation
        PROVE  ~Receptive' /\ ~LiveProbe(row)'
    <3>1. Asked /\ Steady
      BY <1>1, <2>1, <2>2, AskedStays
    <3>2. ~Receptive /\ ~LiveProbe(row)
      BY <1>1, <2>2, <3>1 DEF CompletionOK, Steady
    <3>3. ~LiveProbe(row)'
      BY <1>1, <3>2, BindingStays, RequestEffects DEF KnowledgeInv
    <3> QED BY <3>1, <3>2, <3>3 DEF Steady
  <2>3. row'.probe_state = "completed" => log'.completed # None
    BY <1>1, <1>4 DEF CompletionOK
  <2> QED BY <1>1, <1>2, <1>4, <2>1, <2>2, <2>3 DEF CompletionOK
<1> QED BY <1>1, <1>3, <1>4, DirectionEffects DEF KnowledgeInv
LEMMA DirectedKept ==
    ASSUME DirectionInv, [GuardNext]_allVars
    PROVE  DirectedOK'
<1>1. Calls /\ row \in LoopRow /\ DirectedOK
  BY GuardCalls, RowHere DEF DirectionInv, KnowledgeInv
<1>2. ASSUME NEW r \in Reviews, Reviewing(r) PROVE row'.status = "generation_closed"
  BY <1>2, ReviewEffects DEF DirectionInv, KnowledgeInv
<1>3. ASSUME NEW g \in Grants, Consuming(g) PROVE row'.status = "active_generation"
  BY <1>3, ConsumeEffects DEF DirectionInv, KnowledgeInv
<1>4. ASSUME NEW a \in Agents, agent[a].pc = "decide", Deciding(agent[a].verdict)
      PROVE  row'.status \notin {"direction_approved", "grant_ready"}
  <2>1. agent[a].verdict.decision \in Decisions \ {"pass"}
    BY <1>4 DEF DirectionInv, KnowledgeInv, ProcessesOK, AgentsKnow, AgentOK, AgentKnows, VerdictOK
  <2>2. row'.status = DecisionTarget(agent[a].verdict.decision)
    BY <1>1, <1>4 DEF Deciding, LoopRow
  <2> QED BY <2>1, <2>2, DecidedStatus DEF Stops
<1>5. ASSUME NEW c, Requesting(c) PROVE row'.status = "probe_pending"
  BY <1>5, RequestEffects DEF DirectionInv, KnowledgeInv
<1>6. ASSUME NEW g \in Grants, Issuing(g) PROVE DirectedOK'
  <2>1. row'.status = "grant_ready" /\ row'.active_grant = g /\ log'.directed = log.directed
    BY <1>1, <1>6 DEF Issuing, LoopRow
  <2>2. g.action = "architecture_fix" => log.directed
    BY <1>1, <1>6 DEF Issuing, DirectedOK
  <2> QED BY <2>1, <2>2 DEF DirectedOK
<1>7. ASSUME Claiming \/ Answering \/ Failing
      PROVE  row'.status \notin {"direction_approved", "grant_ready"}
  BY <1>1, <1>7 DEF Claiming, Answering, Failing, ProbeClaimed, ProbeEnded, LoopRow
<1>8. CASE Directing
  <2>1. row'.status = "direction_approved" /\ log'.directed
    BY <1>1, <1>8 DEF Directing, LoopRow, DirectionInv, KnowledgeInv, CountsOK, LogShape
  <2> QED BY <2>1 DEF DirectedOK
<1>9. CASE Passing
  <2>1. /\ row'.status \in {"direction_approved", "grant_ready"} =>
              row'.status = row.status /\ row'.active_grant = row.active_grant
        /\ log'.directed = log.directed
    BY <1>1, <1>9 DEF Passing, LoopRow
  <2> QED BY <1>1, <2>1 DEF DirectedOK
<1>10. ASSUME row'.status \notin {"direction_approved", "grant_ready"} PROVE DirectedOK'
  BY <1>10 DEF DirectedOK
<1> QED BY <1>1, <1>2, <1>3, <1>4, <1>5, <1>6, <1>7, <1>8, <1>9, <1>10 DEF Calls

\* A grant that is active was so before, or a command was about to issue it.
LEMMA ActiveComes ==
    ASSUME Calls
    PROVE  \A g \in Grants :
              grant'[g].state = "active" =>
                 \/ grant[g].state = "active"
                 \/ \E a \in Agents : agent[a].pc = "issue" /\ agent[a].action = g.action
<1>1. ASSUME NEW a \in Agents, NEW h \in Grants, agent[a].pc = "issue", h.action = agent[a].action,
             Issuing(h), NEW g \in Grants, grant'[g].state = "active"
      PROVE  g = h \/ grant[g].state = "active"
  BY <1>1 DEF Issuing
<1>2. ASSUME NEW h \in Grants, Consuming(h), NEW g \in Grants, grant'[g].state = "active"
      PROVE  grant[g].state = "active"
  BY <1>2 DEF Consuming
<1>3. grant' = grant \/ Passing =>
         \A g \in Grants : grant'[g].state = "active" => grant[g].state = "active"
  BY DEF Passing
<1> QED BY <1>1, <1>2, <1>3 DEF Calls, Reviewing, Deciding, Requesting, Claiming, Answering,
      Failing, Directing

\* A command makes up its mind to issue a local fix or a continuation in two places.
LEMMA MindMade ==
    ASSUME KnowledgeInv, [GuardNext]_allVars, NEW a \in Agents, agent'[a].pc = "issue"
    PROVE  \/ agent'[a] = agent[a]
           \/ agent'[a].action = "architecture_fix"
           \/ AuthorizeContinuation(a) /\ MayFixLocally /\ agent'[a].action = "local_fix"
           \/ /\ ResumeAfterProbe(a) /\ agent'[a].action = "continue_once" /\ PostProbe
              /\ log.completed.generation = row.fix_generation
              /\ log.completed.action # "finish_now"
              /\ Policy!EvaluateConvergence(GuardRequest(NoBasis, log.completed.action)).decision
                    = "pass"
<1> DEFINE Goal ==
           \/ agent'[a] = agent[a]
           \/ agent'[a].action = "architecture_fix"
           \/ AuthorizeContinuation(a) /\ MayFixLocally /\ agent'[a].action = "local_fix"
           \/ /\ ResumeAfterProbe(a) /\ agent'[a].action = "continue_once" /\ PostProbe
              /\ log.completed.generation = row.fix_generation
              /\ log.completed.action # "finish_now"
              /\ Policy!EvaluateConvergence(GuardRequest(NoBasis, log.completed.action)).decision
                    = "pass"
<1> SUFFICES Goal
  OBVIOUS
<1>1. \A x : Goto(a, x) => agent'[a] = x
  BY Mover DEF KnowledgeInv
<1>2. ASSUME NEW p \in Files, BeginArchitectureFix(a, p)
      PROVE  agent'[a].action = "architecture_fix"
  BY <1>1, <1>2 DEF BeginArchitectureFix, ToIssue
<1>3. CASE AuthorizeContinuation(a)
  <2>1. agent'[a] = IF MayFixLocally THEN ToIssue(agent[a].file, "local_fix", row.basis) ELSE Idle
    BY <1>1, <1>3 DEF AuthorizeContinuation
  <2> QED BY <1>3, <2>1 DEF ToIssue, Idle
<1>4. CASE ResumeAfterProbe(a)
  <2> DEFINE v == Policy!EvaluateConvergence(GuardRequest(NoBasis, log.completed.action))
             own == Verdict(NoBasis, log.completed.action, v.decision, v.reason)
  <2> HIDE DEF v, own
  <2>1. \/ agent'[a] = Idle
        \/ agent'[a] = ToDecide(own, None, FALSE)
        \/ /\ PostProbe /\ log.completed.generation = row.fix_generation
           /\ log.completed.action # "finish_now" /\ v.decision = "pass"
           /\ agent'[a] = ToIssue(agent[a].file, "continue_once", row.basis)
    BY <1>1, <1>4 DEF ResumeAfterProbe, v, own
  <2> QED BY <1>4, <2>1 DEF Idle, ToDecide, ToIssue, v
<1>5. ASSUME NEW p \in Files, BeginLocalFix(a, p) \/ OpenArtifact(a, p)
      PROVE  agent'[a].pc # "issue"
  BY <1>1, <1>5 DEF BeginLocalFix, OpenArtifact
<1>6. CASE StoreReview(a)
  <2>1. agent'[a] = Idle \/ agent'[a] = AfterReview(a, agent[a].review)
    BY <1>1, <1>6 DEF StoreReview
  <2> QED BY <2>1 DEF AfterReview, Idle
<1>7. ASSUME Evaluate(a) PROVE agent'[a].pc # "issue"
  <2> DEFINE v == Policy!EvaluateConvergence(GuardRequest(agent[a].prior, "none"))
             own == Verdict(agent[a].prior, "none", v.decision, v.reason)
             fallback == ToDecide(Verdict(agent[a].prior, "none", "checkpoint_required",
                                          "probe_context"), None, FALSE)
             put(t) == [pc |-> "put", fallback |-> fallback, verdict |-> own,
                        context |-> [basis |-> row.basis, text |-> t,
                                     generation |-> row.fix_generation]]
  <2> HIDE DEF v, own, fallback
  <2>1. \/ agent'[a] = Idle \/ agent'[a] = fallback \/ agent'[a] = ToDecide(own, None, FALSE)
        \/ \E t \in Texts : agent'[a] = put(t)
    BY <1>1, <1>7 DEF Evaluate, v, own, fallback
  <2>2. fallback.pc = "decide" /\ ToDecide(own, None, FALSE).pc = "decide" /\ Idle.pc = "idle"
    BY DEF Idle, ToDecide, fallback
  <2>3. \A t \in Texts : put(t).pc = "put"
    OBVIOUS
  <2> HIDE DEF put
  <2> QED BY <2>1, <2>2, <2>3
<1>8. CASE PutContext(a)
  <2>1. /\ agent[a].fallback.pc = "decide"
        /\ \/ agent'[a] = ToDecide(agent[a].verdict, agent[a].context, agent[a].context \notin contexts)
           \/ agent'[a] = agent[a].fallback
    BY <1>1, <1>8 DEF PutContext, At, KnowledgeInv, ProcessesOK, AgentOK
  <2> QED BY <2>1 DEF ToDecide
<1>9. CASE RecordHardDecision(a) \/ RequestProbe(a)
  <2>1. \/ agent'[a] = Idle \/ agent'[a] = AfterDecision(agent[a])
        \/ agent'[a] = AfterRefusal(agent[a])
    BY <1>1, <1>9 DEF RecordHardDecision, RequestProbe
  <2> QED BY <2>1 DEF AfterDecision, AfterRefusal, Idle
<1>10. CASE DiscardContext(a) \/ RemoveContext(a) \/ WriteArtifact(a) \/ Neutralize(a) \/ Crash(a)
  BY <1>1, <1>10 DEF DiscardContext, RemoveContext, WriteArtifact, Neutralize, Crash, Idle
<1>11. ASSUME ConsumeGrant(a) PROVE agent'[a].pc # "issue"
  <2>1. agent'[a] = Idle \/ agent'[a] = [pc |-> "neutralize", file |-> agent[a].file]
    BY <1>1, <1>11 DEF ConsumeGrant
  <2> QED BY <2>1 DEF Idle
<1>12. ASSUME NEW r \in Reviews, BeginReview(a, r) PROVE agent'[a].pc # "issue"
  BY <1>1, <1>12 DEF BeginReview
<1>13. ASSUME IssueAuthorizedContinuation(a) PROVE agent'[a].pc # "issue"
  <2> DEFINE g == Facts(agent[a])
  <2> HIDE DEF g
  <2>1. \/ agent'[a] = [pc |-> "write", file |-> agent[a].file, grant |-> g]
        \/ agent'[a] = Idle
    BY <1>1, <1>13 DEF IssueAuthorizedContinuation, g
  <2> QED BY <2>1 DEF Idle
<1>14. ASSUME NEW b \in Agents \ {a}, AgentStep(b) PROVE agent'[a] = agent[a]
  <2>1. \A x : Goto(b, x) => agent'[a] = agent[a]
    BY Mover DEF KnowledgeInv
  <2> QED
    BY <1>14, <2>1 DEF AgentStep, BeginReview, StoreReview, Evaluate, PutContext,
       RecordHardDecision, RequestProbe, DiscardContext, RemoveContext, BeginLocalFix,
       BeginArchitectureFix, OpenArtifact, AuthorizeContinuation, ResumeAfterProbe,
       IssueAuthorizedContinuation, WriteArtifact, ConsumeGrant, Neutralize, Crash
<1>15. ASSUME NEW o \in Owners, RunnerStep(o) PROVE agent' = agent
  BY <1>15 DEF RunnerStep, ClaimProbe, ReadContext, ProviderAnswers, ProbeFails, CleanContext,
     RunnerDies
<1>16. ASSUME \/ \E k \in Checkpoints : Checkpoint(k)
              \/ Resolve \/ PruneOrphans \/ (TimePasses /\ UNCHANGED <<kind, guard>>)
              \/ UNCHANGED allVars
       PROVE  agent' = agent
  BY <1>16 DEF Checkpoint, Resolve, PruneOrphans, ListOrphan, PruneOrphan, guard, allVars
<1>17. AgentStep(a) => Goal
  <2> HIDE DEF Goal
  <2>1. agent'[a].pc # "issue" => Goal
    OBVIOUS
  <2>2. agent'[a].action = "architecture_fix" => Goal
    BY DEF Goal
  <2> QED BY <1>2, <1>3, <1>4, <1>5, <1>6, <1>7, <1>8, <1>9, <1>10, <1>11, <1>12, <1>13, <2>1, <2>2
          DEF AgentStep
<1> QED BY <1>14, <1>15, <1>16, <1>17 DEF GuardNext

\* Whoever holds a grant afterwards held it before, or has just decided on the loop as
\* it stands.
LEMMA HeldFrom ==
    ASSUME DirectionInv, [GuardNext]_allVars
    PROVE  /\ Held("local_fix")' =>
                 \/ Held("local_fix")
                 \/ row' = row /\ log' = log /\ log.failures = 1 /\ ~Directional(row.basis)
           /\ Held("continue_once")' =>
                 \/ Held("continue_once")
                 \/ row' = row /\ log' = log /\ log.failures >= 1 /\ Answered
<1>1. KnowledgeInv /\ Calls /\ CompletionOK
  BY GuardCalls DEF DirectionInv, KnowledgeInv
<1>2. ASSUME NEW g \in Grants, NEW act, grant'[g].state = "active", g.action = act
      PROVE  Held(act)
  BY <1>1, <1>2, ActiveComes DEF Held
<1>3. ASSUME NEW a \in Agents, agent'[a].pc = "issue", agent'[a].action = "local_fix"
      PROVE  \/ Held("local_fix")
             \/ row' = row /\ log' = log /\ log.failures = 1 /\ ~Directional(row.basis)
  <2>1. agent'[a] = agent[a] \/ (AuthorizeContinuation(a) /\ MayFixLocally)
    BY <1>1, <1>3, MindMade
  <2>2. agent'[a] = agent[a] => Held("local_fix")
    BY <1>3 DEF Held
  <2>3. AuthorizeContinuation(a) => row' = row /\ log' = log
    BY StoredStays DEF AuthorizeContinuation
  <2> QED BY <2>1, <2>2, <2>3 DEF MayFixLocally
<1>4. ASSUME NEW a \in Agents, agent'[a].pc = "issue", agent'[a].action = "continue_once"
      PROVE  \/ Held("continue_once")
             \/ row' = row /\ log' = log /\ log.failures >= 1 /\ Answered
  <2>1. agent'[a] = agent[a] => Held("continue_once")
    BY <1>4 DEF Held
  <2>2. CASE /\ ResumeAfterProbe(a) /\ PostProbe
             /\ log.completed.generation = row.fix_generation
             /\ log.completed.action # "finish_now"
             /\ Policy!EvaluateConvergence(GuardRequest(NoBasis, log.completed.action)).decision
                   = "pass"
    <3>1. row' = row /\ log' = log
      BY <2>2, StoredStays DEF ResumeAfterProbe
    <3>2. /\ log.completed # None /\ log.completed \in Completion /\ log.failures >= 1
      BY <1>1, <2>2 DEF PostProbe, CompletionOK
    <3>3. log.completed.action \notin {"direction_checkpoint", "human_decision"}
      BY <2>2, ReflectionAsked
    <3>4. log.completed.action = "continue_once"
      BY <2>2, <3>2, <3>3 DEF Completion, Advice
    <3> QED BY <2>2, <3>1, <3>2, <3>4 DEF Answered
  <2> QED BY <1>1, <1>4, <2>1, <2>2, MindMade
<1>5. ASSUME NEW act, Held(act)'
      PROVE  Held(act) \/ \E a \in Agents : agent'[a].pc = "issue" /\ agent'[a].action = act
  BY <1>2, <1>5 DEF Held
<1> QED BY <1>3, <1>4, <1>5
LEMMA HeldKept ==
    ASSUME DirectionInv, [GuardNext]_allVars
    PROVE  HeldOK'
<1>1. /\ Calls /\ kind' = kind /\ log'.failures >= log.failures
      /\ log.failures \in 0..3 /\ log'.failures \in 0..3
      /\ KnowledgeInv /\ CompletionOK /\ HeldOK
  BY GuardCalls, KindStays, FailuresRise DEF DirectionInv, KnowledgeInv, CountsOK
<1>2. ASSUME Held("local_fix")'
      PROVE  log'.failures >= 1 /\ (Directional(row.basis)' => log'.failures >= 2)
  <2>1. CASE row' = row /\ log' = log /\ log.failures = 1 /\ ~Directional(row.basis)
    BY <1>1, <2>1 DEF Directional
  <2>2. CASE Held("local_fix")
    <3>1. log.failures >= 1 /\ (Directional(row.basis) => log.failures >= 2)
      BY <1>1, <2>2 DEF HeldOK
    <3>2. ASSUME NEW r \in Reviews, Reviewing(r), Directional(row.basis)'
          PROVE  log'.failures >= 2
      <4>1. row'.basis = r /\ log'.failures = FailuresAfter(r)
        BY <3>2, ReviewEffects DEF DirectionInv, KnowledgeInv
      <4>2. Counted(r)
        BY <1>1, <3>2, <4>1 DEF Directional, Counted
      <4> QED BY <1>1, <3>1, <4>1, <4>2 DEF FailuresAfter
    <3>3. ASSUME NEW g \in Grants, Consuming(g) PROVE row'.basis = row.basis
      BY <3>3, ConsumeEffects DEF DirectionInv, KnowledgeInv
    <3>4. Steady => row'.basis = row.basis
      BY DEF Steady
    <3>5. row'.basis = row.basis => (Directional(row.basis)' => log'.failures >= 2)
      BY <1>1, <3>1 DEF Directional
    <3> QED BY <1>1, <3>1, <3>2, <3>3, <3>4, <3>5, QuietCalls DEF KnowledgeInv
  <2> QED BY <1>2, <2>1, <2>2, HeldFrom
<1>3. ASSUME Held("continue_once")'
      PROVE  log'.failures >= 1 /\ (Asked' => Answered')
  <2>1. CASE row' = row /\ log' = log /\ log.failures >= 1 /\ Answered
    BY <2>1 DEF Answered
  <2>2. CASE Held("continue_once")
    <3>1. log.failures >= 1 /\ (Asked => Answered)
      BY <1>1, <2>2 DEF HeldOK
    <3>2. ASSUME Asked' PROVE Answered'
      <4>1. Asked /\ Steady /\ Answered
        BY <1>1, <3>1, <3>2, AskedStays
      <4>2. Recorded(row.basis) /\ row'.basis = row.basis
        BY <1>1, <4>1, RowHere DEF Asked, Recorded, Steady, KnowledgeInv, LoopRow
      <4>3. \A r \in Reviews : ~Reviewing(r)
        BY <1>1, <4>2, ReviewEffects DEF KnowledgeInv, Reviewing
      <4>4. log'.directed = log.directed \/ log'.directed
        BY <1>1, <4>3, DirectionEffects DEF KnowledgeInv
      <4>5. CASE log.directed
        BY <4>4, <4>5 DEF Answered
      <4>6. CASE /\ log.completed # None /\ log.completed.action = "continue_once"
                 /\ log.completed.generation = row.fix_generation
        <5>1. ~Answering
          BY <1>1, <4>1, <4>6 DEF CompletionOK, Answering, LiveProbe
        <5>2. log'.completed = log.completed
          BY <1>1, <5>1, DirectionEffects DEF KnowledgeInv
        <5> QED BY <4>1, <4>6, <5>2 DEF Answered, Steady
      <4> QED BY <4>1, <4>5, <4>6 DEF Answered
    <3> QED BY <1>1, <3>1, <3>2
  <2> QED BY <1>3, <2>1, <2>2, HeldFrom
<1> QED BY <1>2, <1>3 DEF HeldOK

LEMMA DirectionStart == ASSUME GuardInit PROVE DirectionInv
<1>1. /\ KnowledgeInv /\ row = AbsentLoop /\ log = NoLog
      /\ \A g \in Grants : grant[g].state = "unused"
  BY KnowledgeStart, GuardAssumption DEF GuardInit, Init, row
<1>2. log.completed = None /\ ~LiveProbe(row) /\ row.probe_state # "completed"
  BY <1>1 DEF NoLog, AbsentLoop, LiveProbe
<1>3. row.status = "absent"
  BY <1>1 DEF AbsentLoop
<1>4. \A act : ~Held(act)
  BY <1>1 DEF Held, GuardInit, Idle
<1> QED BY <1>1, <1>2, <1>3, <1>4 DEF DirectionInv, CompletionOK, DirectedOK, HeldOK

LEMMA DirectionInvariant == GuardSpec => []DirectionInv
<1>1. DirectionInv /\ [GuardNext]_allVars => DirectionInv'
  BY KnowledgeKept, CompletionKept, DirectedKept, HeldKept DEF DirectionInv
<1> QED BY <1>1, DirectionStart, PTL DEF GuardSpec

\* A grant that is spent is the one its loop is ready for.
LEMMA SpendingConsumes ==
    ASSUME Calls, NEW g \in Grants, grant[g].state = "active", grant'[g].state = "consumed"
    PROVE  Consuming(g)
<1>1. ASSUME NEW h \in Grants, Issuing(h) PROVE FALSE
  BY <1>1 DEF Issuing
<1>2. ASSUME NEW h \in Grants, Consuming(h) PROVE h = g
  BY <1>2 DEF Consuming
<1>3. grant' # grant /\ ~Passing
  BY DEF Passing
<1> QED BY <1>1, <1>2, <1>3 DEF Calls, Reviewing, Deciding, Requesting, Claiming, Answering,
      Failing, Directing

\* A generation is opened for an architecture fix only after a checkpoint that followed
\* the latest review, whatever the command had read when the fix was authorized.
THEOREM DirectionBeforeArchitecture == GuardSpec => DirectionPrecedesArchitecture
<1>1. DirectionInv /\ [GuardNext]_allVars =>
         [\A g \in Grants :
             /\ g.action = "architecture_fix"
             /\ grant[g].state = "active" /\ grant'[g].state = "consumed"
             => log.directed]_allVars
  <2> SUFFICES ASSUME DirectionInv, [GuardNext]_allVars, NEW g \in Grants,
                      g.action = "architecture_fix",
                      grant[g].state = "active", grant'[g].state = "consumed"
               PROVE  log.directed
    OBVIOUS
  <2>1. Consuming(g)
    BY GuardCalls, SpendingConsumes DEF DirectionInv, KnowledgeInv
  <2> QED BY <2>1 DEF Consuming, DirectionInv, DirectedOK
<1> QED BY <1>1, DirectionInvariant, PTL DEF GuardSpec, DirectionPrecedesArchitecture

\* A review that asked for a direction is not worked around: the loop leaves the
\* generation it was made in after a checkpoint, or after a reflection on it that said
\* to continue.
THEOREM DirectionsAreAnswered == GuardSpec => DirectionIsAnswered
<1>1. DirectionInv /\ [GuardNext]_allVars =>
         [/\ Opens /\ log.failures < 2 /\ Directional(row.basis)
          /\ log.generation[row.basis] = row.fix_generation
          => \/ log.directed
             \/ /\ log.completed # None /\ log.completed.action = "continue_once"
                /\ log.completed.generation = row.fix_generation]_allVars
  <2> SUFFICES ASSUME DirectionInv, [GuardNext]_allVars, Opens, log.failures < 2,
                      Directional(row.basis), log.generation[row.basis] = row.fix_generation
               PROVE  Answered
    BY DEF Answered
  <2>1. KnowledgeInv /\ Calls /\ DirectedOK /\ HeldOK /\ Asked
    BY GuardCalls DEF DirectionInv, KnowledgeInv, Opens, Asked
  <2>2. PICK g \in Grants : Consuming(g)
    <3>1. ASSUME NEW r \in Reviews, Reviewing(r) PROVE row'.fix_generation = row.fix_generation
      BY <2>1, <3>1, ReviewEffects DEF KnowledgeInv
    <3> QED BY <2>1, <3>1, QuietCalls DEF KnowledgeInv, Opens, Steady
  <2>3. g.action \in {"local_fix", "continue_once", "architecture_fix"} /\ Held(g.action)
    BY <2>2, GrantNamed DEF Consuming, Held
  <2>4. CASE g.action = "local_fix"
    BY <2>1, <2>3, <2>4 DEF HeldOK, KnowledgeInv, CountsOK
  <2>5. CASE g.action = "continue_once"
    BY <2>1, <2>3, <2>5 DEF HeldOK
  <2>6. CASE g.action = "architecture_fix"
    BY <2>1, <2>2, <2>6 DEF DirectedOK, Consuming, Answered
  <2> QED BY <2>3, <2>4, <2>5, <2>6
<1> QED BY <1>1, DirectionInvariant, PTL DEF GuardSpec, DirectionIsAnswered
=============================================================================
