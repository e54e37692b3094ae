------------------------- MODULE FamilyReviewsProofs -------------------------
(***************************************************************************)
(* Every lesson the code wrote itself is earned (EscalationIsEarned), and  *)
(* no excuse is accepted without end (SameExcuseRunsOut,                   *)
(* FreshExcusesRunOut), for any number of complaints, reviewers, families, *)
(* days and records kept.                                                  *)
(*                                                                         *)
(* What was earned when the reviewer weighed its verdict is still earned   *)
(* when it is published, because declines are only ever added; and what    *)
(* the ring holds, or a reviewer has seen of it, are declines.             *)
(*                                                                         *)
(* The bounds count the declines given together with those that reviewers  *)
(* are about to give: settling moves one from the second to the first, and *)
(* only weighing adds one, after it has asked the store.                   *)
(***************************************************************************)
EXTENDS FamilyReviews, FiniteSetTheorems, SequenceTheorems, TLAPS

\* The records of the store W, F, as constants: Declines and what is earned by them.
DeclinedIn(W) == {j \in Jobs : W[j].stage = "reviewed_no_lesson"}
DeclinesIn(W, F, f) == {j \in DeclinedIn(W) : F[j].family = f}
RepeatsIn(W, F, f, r) == {j \in DeclinesIn(W, F, f) : F[j].reason = r}

Earned(W, F, f, r) ==
    \/ Cardinality(RepeatsIn(W, F, f, r)) >= RepeatLimit /\ r \notin NonFault
    \/ Cardinality(DeclinesIn(W, F, f)) >= Threshold

Rows ==
    /\ work = [j \in Jobs |-> work[j]] /\ filed = [j \in Jobs |-> filed[j]]
    /\ proc = [w \in Reviewers |-> proc[w]]

RingOfDeclines == ring \in Seq(Jobs) /\ \A i \in DOMAIN ring : ring[i] \in DeclinedIn(work)

Weighed(W, F, p) ==
    /\ p.pc # "idle" => p.job \in Jobs
    /\ p.seen \subseteq DeclinedIn(W)
    /\ p.pc = "escalating" => Earned(W, F, p.family, p.reason)

Lessons(W, F) ==
    \A j \in Jobs : W[j].stage = "published" /\ F[j].escalated => Earned(W, F, F[j].family, F[j].reason)

FamilyInv ==
    /\ Rows /\ RingOfDeclines
    /\ \A w \in Reviewers : Weighed(work, filed, proc[w])
    /\ Lessons(work, filed)

\* From one store to the next no decline is lost, and no other row becomes an escalated lesson.
DeclinesStay(W, F, X, G) == \A j \in DeclinedIn(W) : j \in DeclinedIn(X) /\ G[j] = F[j]
NoEscalation(W, F, X, G) ==
    \A j \in Jobs : X[j].stage = "published" /\ G[j].escalated =>
        W[j].stage = "published" /\ G[j] = F[j]

LessonsStay(W, F, X, G) ==
    \A j \in Jobs : W[j].stage = "published" => X[j].stage = "published" /\ G[j] = F[j]

LEMMA SameRecords ==
    ASSUME NEW f, NEW r
    PROVE  Declines(f) = DeclinesIn(work, filed, f) /\ ReasonDeclines(f, r) = RepeatsIn(work, filed, f, r)
BY DEF Declines, ReasonDeclines, DeclinesIn, RepeatsIn, DeclinedIn

LEMMA DeclinesAreFinite ==
    ASSUME NEW W, NEW F, NEW f, NEW r
    PROVE  /\ IsFiniteSet(DeclinesIn(W, F, f)) /\ Cardinality(DeclinesIn(W, F, f)) \in Nat
           /\ IsFiniteSet(RepeatsIn(W, F, f, r)) /\ Cardinality(RepeatsIn(W, F, f, r)) \in Nat
<1>1. DeclinesIn(W, F, f) \subseteq Jobs /\ RepeatsIn(W, F, f, r) \subseteq Jobs
  BY DEF DeclinesIn, RepeatsIn, DeclinedIn
<1>2. IsFiniteSet(Jobs)
  BY FamilyAssumption
<1> QED BY <1>1, <1>2, FS_Subset, FS_CardinalityType

LEMMA EarnedStays ==
    ASSUME NEW W, NEW F, NEW X, NEW G, DeclinesStay(W, F, X, G), NEW f, NEW r, Earned(W, F, f, r)
    PROVE  Earned(X, G, f, r)
<1>1. /\ DeclinesIn(W, F, f) \subseteq DeclinesIn(X, G, f)
      /\ RepeatsIn(W, F, f, r) \subseteq RepeatsIn(X, G, f, r)
  BY DEF DeclinesStay, DeclinesIn, RepeatsIn
<1>2. /\ Cardinality(DeclinesIn(W, F, f)) <= Cardinality(DeclinesIn(X, G, f))
      /\ Cardinality(RepeatsIn(W, F, f, r)) <= Cardinality(RepeatsIn(X, G, f, r))
  BY <1>1, DeclinesAreFinite, FS_Subset
<1> QED BY <1>2, DeclinesAreFinite, FamilyAssumption DEF Earned

\* What the count or the ring bears out is earned.
LEMMA EscalatesIsEarned ==
    ASSUME NEW seen, seen \subseteq DeclinedIn(work), NEW f, NEW r, Escalates(seen, f, r)
    PROVE  Earned(work, filed, f, r)
<1>1. CASE Cardinality(RingDeclines(seen, f)) >= Threshold
  <2>1. RingDeclines(seen, f) \subseteq DeclinesIn(work, filed, f)
    BY DEF RingDeclines, DeclinesIn
  <2>2. /\ Cardinality(RingDeclines(seen, f)) <= Cardinality(DeclinesIn(work, filed, f))
        /\ Cardinality(RingDeclines(seen, f)) \in Nat
    BY <2>1, DeclinesAreFinite, FS_Subset, FS_CardinalityType
  <2> QED BY <1>1, <2>2, DeclinesAreFinite, FamilyAssumption DEF Earned
<1>2. CASE Cardinality(Declines(f)) >= Threshold \/ (Repeated(f, r) /\ r \notin NonFault)
  BY <1>2, SameRecords DEF Earned, Repeated
<1> QED BY <1>1, <1>2 DEF Escalates, OftenDeclined

\* A step of the queue that enters no verdict.
LEMMA QueueSteps ==
    ASSUME Rows, NEW j \in Jobs, Enter(j) \/ Grant(j) \/ Return(j) \/ GiveUp(j), filed' = filed
    PROVE  /\ work' = [k \in Jobs |-> work'[k]] /\ filed' = [k \in Jobs |-> filed'[k]]
           /\ DeclinesStay(work, filed, work', filed')
           /\ NoEscalation(work, filed, work', filed')
           /\ DeclinedIn(work') = DeclinedIn(work)
           /\ LessonsStay(work, filed, work', filed')
           /\ \A k \in Jobs : k = j \/ work'[k] = work[k]
           /\ work[j].stage \in {"none", "triage", "review"}
<1>1. PICK e : work' = [work EXCEPT ![j] = e] /\ e.stage \in {"triage", "review", "failed"}
  <2>1. CASE Enter(j)
    <3> PICK s \in Open : work' = [work EXCEPT ![j] = Entry(s, 0, FALSE)]
      BY <2>1 DEF Enter
    <3>1. Entry(s, 0, FALSE).stage \in Open
      BY DEF Entry
    <3> QED BY <3>1 DEF Open
  <2>2. CASE Grant(j)
    <3>1. Entry(work[j].stage, work[j].token + 1, TRUE).stage \in Open
      BY <2>2 DEF Grant, Entry
    <3> QED BY <2>2, <3>1 DEF Grant, Open
  <2>3. CASE Return(j)
    <3>1. Entry(work[j].stage, work[j].token, FALSE).stage \in Open
      BY <2>3 DEF Return, Entry
    <3> QED BY <2>3, <3>1 DEF Return, Open
  <2>4. CASE GiveUp(j)
    <3>1. Entry("failed", work[j].token, FALSE).stage = "failed"
      BY DEF Entry
    <3> QED BY <2>4, <3>1 DEF GiveUp
  <2> QED BY <2>1, <2>2, <2>3, <2>4
<1>2. work[j].stage \in {"none", "triage", "review"}
  BY DEF Enter, Grant, Return, GiveUp, Open
<1>3. \A k \in Jobs : work'[k] = IF k = j THEN e ELSE work[k]
  BY <1>1 DEF Rows
<1>4. DeclinedIn(work') = DeclinedIn(work)
  BY <1>1, <1>2, <1>3 DEF DeclinedIn
<1>5. work' = [k \in Jobs |-> work'[k]]
  BY <1>1 DEF Rows
<1>6. NoEscalation(work, filed, work', filed') /\ LessonsStay(work, filed, work', filed')
  BY <1>1, <1>2, <1>3 DEF NoEscalation, LessonsStay
<1> QED BY <1>2, <1>3, <1>4, <1>5, <1>6 DEF Rows, DeclinesStay

\* A step that loses no decline and escalates nothing keeps what is not its own.
LEMMA OthersKeep ==
    ASSUME FamilyInv, DeclinesStay(work, filed, work', filed')
    PROVE  /\ \A p : Weighed(work, filed, p) => Weighed(work', filed', p)
           /\ ring' = ring => RingOfDeclines'
           /\ NoEscalation(work, filed, work', filed') => Lessons(work', filed')
<1>1. \A p : Weighed(work, filed, p) => Weighed(work', filed', p)
  BY EarnedStays DEF Weighed, DeclinesStay
<1>2. ring' = ring => RingOfDeclines'
  BY DEF FamilyInv, RingOfDeclines, DeclinesStay
<1>3. ASSUME NoEscalation(work, filed, work', filed')
      PROVE  Lessons(work', filed')
  BY <1>3, EarnedStays DEF NoEscalation, Lessons, FamilyInv
<1> QED BY <1>1, <1>2, <1>3

\* The same for a step of at most one reviewer, which ends with a record p.
LEMMA ReviewerMoves ==
    ASSUME FamilyInv, DeclinesStay(work, filed, work', filed'),
           work' = [k \in Jobs |-> work'[k]], filed' = [k \in Jobs |-> filed'[k]],
           RingOfDeclines', Lessons(work', filed'),
           NEW w \in Reviewers, NEW p, Weighed(work', filed', p), proc' = [proc EXCEPT ![w] = p]
    PROVE  FamilyInv'
<1>1. proc' = [v \in Reviewers |-> proc'[v]]
  BY DEF FamilyInv, Rows
<1>2. \A v \in Reviewers : proc'[v] = IF v = w THEN p ELSE proc[v]
  BY DEF FamilyInv, Rows
<1>3. \A v \in Reviewers : Weighed(work', filed', proc'[v])
  BY <1>2, OthersKeep DEF FamilyInv
<1> QED BY <1>1, <1>3 DEF FamilyInv, Rows

LEMMA IdleIsWeighed ==
    ASSUME NEW W, NEW F PROVE Weighed(W, F, IdleReviewer)
BY DEF Weighed, IdleReviewer

\* A step of no reviewer that leaves filed and ring alone.
LEMMA NobodyMoves ==
    ASSUME FamilyInv, DeclinesStay(work, filed, work', filed'),
           NoEscalation(work, filed, work', filed'),
           work' = [k \in Jobs |-> work'[k]], UNCHANGED <<filed, ring, proc>>
    PROVE  FamilyInv'
BY OthersKeep DEF FamilyInv, Rows

\* A step of a reviewer that leaves the store alone.
LEMMA StoreStays ==
    ASSUME FamilyInv, StoreKeeps, NEW w \in Reviewers, NEW p, Weighed(work, filed, p),
           proc' = [proc EXCEPT ![w] = p]
    PROVE  FamilyInv'
<1>1. DeclinesStay(work, filed, work', filed') /\ NoEscalation(work, filed, work', filed')
  BY DEF StoreKeeps, DeclinesStay, NoEscalation
<1>2. Weighed(work', filed', p) /\ RingOfDeclines' /\ Lessons(work', filed')
  BY <1>1, OthersKeep DEF StoreKeeps
<1>3. work' = [k \in Jobs |-> work'[k]] /\ filed' = [k \in Jobs |-> filed'[k]]
  BY DEF FamilyInv, Rows, StoreKeeps
<1> QED BY <1>1, <1>2, <1>3, ReviewerMoves

\* A verdict: nothing but the row of w's job changes, which was open.
LEMMA SettleSteps ==
    ASSUME FamilyInv, NEW w \in Reviewers, proc[w].job \in Jobs, NEW stage, Settle(w, stage)
    PROVE  LET j == proc[w].job IN
           /\ work' = [k \in Jobs |-> work'[k]] /\ filed' = [k \in Jobs |-> filed'[k]]
           /\ work'[j].stage = stage
           /\ filed'[j].family = proc[w].family /\ filed'[j].reason = proc[w].reason
           /\ filed'[j].escalated = At(w, "escalating")
           /\ \A k \in Jobs : k # j => work'[k] = work[k] /\ filed'[k] = filed[k]
           /\ work[j].stage \in Open
           /\ DeclinesStay(work, filed, work', filed') /\ LessonsStay(work, filed, work', filed')
<1> DEFINE j == proc[w].job
<1>1. PICK e : work' = [work EXCEPT ![j] = e]
  BY DEF Settle, Verdict
<1>2. work[j].stage \in {"triage", "review"} /\ work'[j].stage = stage
  BY DEF Settle, Verdict, Open
<1>3. /\ filed' = [k \in Jobs |-> filed'[k]]
      /\ filed'[j] = [family |-> proc[w].family, reason |-> proc[w].reason, on |-> day,
                      escalated |-> At(w, "escalating")]
      /\ \A k \in Jobs : k # j => filed'[k] = filed[k]
  BY DEF Settle, FamilyInv, Rows
<1>4. /\ work' = [k \in Jobs |-> work'[k]]
      /\ \A k \in Jobs : k # j => work'[k] = work[k]
  BY <1>1 DEF FamilyInv, Rows
<1>5. DeclinesStay(work, filed, work', filed') /\ LessonsStay(work, filed, work', filed')
  BY <1>2, <1>3, <1>4 DEF DeclinesStay, DeclinedIn, LessonsStay
<1> QED BY <1>2, <1>3, <1>4, <1>5 DEF Open

LEMMA ReviewerKeeps ==
    ASSUME FamilyInv, NEW w \in Reviewers, ReviewerStep(w)
    PROVE  FamilyInv'
<1>0. Weighed(work, filed, proc[w]) /\ Weighed(work, filed, IdleReviewer)
  BY IdleIsWeighed DEF FamilyInv
<1>1. CASE \E j \in Jobs : ClaimReviewJob(w, j)
  <2> PICK j \in Jobs : ClaimReviewJob(w, j)
    BY <1>1
  <2> DEFINE p == [IdleReviewer EXCEPT !.pc = "claimed", !.job = j, !.token = work'[j].token]
  <2>1. Grant(j) /\ UNCHANGED <<filed, ring>> /\ proc' = [proc EXCEPT ![w] = p]
    BY DEF ClaimReviewJob
  <2>2. /\ work' = [k \in Jobs |-> work'[k]] /\ filed' = [k \in Jobs |-> filed'[k]]
        /\ DeclinesStay(work, filed, work', filed') /\ NoEscalation(work, filed, work', filed')
    BY <2>1, QueueSteps DEF FamilyInv
  <2>3. Weighed(work', filed', p)
    BY DEF Weighed, IdleReviewer
  <2> HIDE DEF p
  <2> QED BY <2>1, <2>2, <2>3, OthersKeep, ReviewerMoves
<1>2. CASE BuildReviewContext(w)
  <2> DEFINE p == [proc[w] EXCEPT !.pc = "asking", !.seen = {ring[i] : i \in DOMAIN ring}]
  <2>1. StoreKeeps /\ proc' = [proc EXCEPT ![w] = p] /\ proc[w].job \in Jobs
    BY <1>0, <1>2 DEF BuildReviewContext, At, Weighed
  <2>2. Weighed(work, filed, p)
    <3>1. {ring[i] : i \in DOMAIN ring} \subseteq DeclinedIn(work)
      BY DEF FamilyInv, RingOfDeclines
    <3>2. p.pc = "asking" \/ p.pc = proc[w].pc
      OBVIOUS
    <3> QED BY <1>0, <1>2, <2>1, <3>1 DEF Weighed, BuildReviewContext, At
  <2> HIDE DEF p
  <2> QED BY <2>1, <2>2, StoreStays
<1>3. CASE Answers(w)
  <2> PICK f \in Families \cup {NoFamily}, r \in Reasons \cup {NoReason} :
          proc' = [proc EXCEPT ![w] =
              [pc |-> Outcome(proc[w].seen, f, r), job |-> proc[w].job,
               token |-> proc[w].token, seen |-> {}, family |-> f, reason |-> r]]
    BY <1>3 DEF Answers
  <2> DEFINE p == [pc |-> Outcome(proc[w].seen, f, r), job |-> proc[w].job,
                   token |-> proc[w].token, seen |-> {}, family |-> f, reason |-> r]
  <2>1. proc[w].job \in Jobs /\ proc[w].seen \subseteq DeclinedIn(work) /\ StoreKeeps
    BY <1>0, <1>3 DEF Answers, At, Weighed
  <2>2. Outcome(proc[w].seen, f, r) = "escalating" => Earned(work, filed, f, r)
    BY <2>1, EscalatesIsEarned DEF Outcome
  <2>3. Weighed(work, filed, p)
    BY <2>1, <2>2 DEF Weighed
  <2>4. proc' = [proc EXCEPT ![w] = p]
    OBVIOUS
  <2> HIDE DEF p
  <2> QED BY <2>1, <2>3, <2>4, StoreStays
<1>4. CASE Fails(w)
  <2>1. proc[w].job \in Jobs /\ UNCHANGED <<filed, ring>>
        /\ proc' = [proc EXCEPT ![w] = IdleReviewer]
    BY <1>0, <1>4 DEF Fails, Weighed, Exit
  <2>2. CASE UNCHANGED work
    BY <1>0, <2>1, <2>2, StoreStays DEF StoreKeeps
  <2>3. CASE GiveUp(proc[w].job) \/ Return(proc[w].job)
    <3>1. /\ work' = [k \in Jobs |-> work'[k]] /\ filed' = [k \in Jobs |-> filed'[k]]
          /\ DeclinesStay(work, filed, work', filed') /\ NoEscalation(work, filed, work', filed')
      BY <2>1, <2>3, QueueSteps DEF FamilyInv
    <3> QED BY <2>1, <3>1, IdleIsWeighed, OthersKeep, ReviewerMoves
  <2> QED BY <1>4, <2>2, <2>3 DEF Fails
<1>5. CASE CompleteReviewNoLesson(w)
  <2> DEFINE j == proc[w].job
  <2>1. /\ j \in Jobs /\ Settle(w, "reviewed_no_lesson")
        /\ ring' = Evicted(Append(ring, j)) /\ proc' = [proc EXCEPT ![w] = IdleReviewer]
        /\ ~At(w, "escalating")
    BY <1>0, <1>5 DEF CompleteReviewNoLesson, At, Weighed, Exit
  <2>2. /\ work' = [k \in Jobs |-> work'[k]] /\ filed' = [k \in Jobs |-> filed'[k]]
        /\ work'[j].stage = "reviewed_no_lesson" /\ DeclinesStay(work, filed, work', filed')
        /\ NoEscalation(work, filed, work', filed')
    BY <2>1, SettleSteps DEF NoEscalation
  <2>3. RingOfDeclines'
    <3>1. ring \in Seq(Jobs) /\ \A i \in DOMAIN ring : ring[i] \in DeclinedIn(work')
      BY <2>2 DEF FamilyInv, RingOfDeclines, DeclinesStay
    <3>2. j \in DeclinedIn(work')
      BY <2>1, <2>2 DEF DeclinedIn
    <3> DEFINE s == Append(ring, j)
    <3>3. s \in Seq(Jobs) /\ Len(s) = Len(ring) + 1 /\ \A i \in 1..Len(s) : s[i] \in DeclinedIn(work')
      BY <2>1, <3>1, <3>2
    <3>4. Tail(s) \in Seq(Jobs) /\ \A i \in 1..Len(Tail(s)) : Tail(s)[i] \in DeclinedIn(work')
      <4>1. s # <<>>
        BY <3>1, <3>3
      <4>2. Tail(s) \in Seq(Jobs) /\ Len(Tail(s)) = Len(s) - 1
            /\ \A i \in 1..Len(Tail(s)) : Tail(s)[i] = s[i + 1]
        BY <3>3, <4>1, HeadTailProperties
      <4> QED BY <3>3, <4>2
    <3> HIDE DEF s
    <3>5. ring' = s \/ ring' = Tail(s)
      BY <2>1 DEF Evicted, s
    <3>6. ring' \in Seq(Jobs) /\ \A i \in 1..Len(ring') : ring'[i] \in DeclinedIn(work')
      BY <3>3, <3>4, <3>5
    <3>7. DOMAIN ring' = 1..Len(ring')
      BY <3>6
    <3> QED BY <3>6, <3>7 DEF RingOfDeclines
  <2> QED BY <2>1, <2>2, <2>3, IdleIsWeighed, OthersKeep, ReviewerMoves
<1>6. CASE CompleteReviewPublished(w)
  <2> DEFINE j == proc[w].job
  <2>1. /\ j \in Jobs /\ Settle(w, "published")
        /\ ring' = ring /\ proc' = [proc EXCEPT ![w] = IdleReviewer]
    BY <1>0, <1>6 DEF CompleteReviewPublished, At, Weighed, Exit
  <2>2. /\ work' = [k \in Jobs |-> work'[k]] /\ filed' = [k \in Jobs |-> filed'[k]]
        /\ filed'[j].family = proc[w].family /\ filed'[j].reason = proc[w].reason
        /\ filed'[j].escalated = At(w, "escalating")
        /\ \A k \in Jobs : k # j => work'[k] = work[k] /\ filed'[k] = filed[k]
        /\ DeclinesStay(work, filed, work', filed')
    BY <2>1, SettleSteps
  <2>3. Lessons(work', filed')
    <3> SUFFICES ASSUME NEW k \in Jobs, work'[k].stage = "published", filed'[k].escalated
                 PROVE  Earned(work', filed', filed'[k].family, filed'[k].reason)
      BY DEF Lessons
    <3>1. Earned(work, filed, filed'[k].family, filed'[k].reason)
      <4>1. CASE k = j
        BY <1>0, <2>2, <4>1 DEF At, Weighed
      <4>2. CASE k # j
        BY <2>2, <4>2 DEF FamilyInv, Lessons
      <4> QED BY <4>1, <4>2
    <3> QED BY <2>2, <3>1, EarnedStays
  <2> QED BY <2>1, <2>2, <2>3, IdleIsWeighed, OthersKeep, ReviewerMoves
<1>7. CASE Leaves(w)
  BY <1>0, <1>7, StoreStays DEF Leaves, Exit
<1> QED BY <1>1, <1>2, <1>3, <1>4, <1>5, <1>6, <1>7 DEF ReviewerStep

LEMMA FamilyNextKeeps == FamilyInv /\ [FamilyNext]_vars => FamilyInv'
<1> SUFFICES ASSUME FamilyInv, [FamilyNext]_vars PROVE FamilyInv'
  OBVIOUS
<1>1. CASE \E j \in Jobs : Capture(j) \/ LeaseExpires(j) \/ AttemptsSpent(j)
  <2> PICK j \in Jobs : Capture(j) \/ LeaseExpires(j) \/ AttemptsSpent(j)
    BY <1>1
  <2>1. (Enter(j) \/ Return(j) \/ GiveUp(j)) /\ UNCHANGED <<filed, ring, proc>>
    BY DEF Capture, LeaseExpires, AttemptsSpent
  <2> QED BY <2>1, QueueSteps, NobodyMoves DEF FamilyInv
<1>2. CASE \E w \in Reviewers : ReviewerStep(w)
  BY <1>2, ReviewerKeeps
<1>3. CASE DayPasses \/ UNCHANGED vars
  <2>1. UNCHANGED <<work, filed, ring, proc>>
    BY <1>3 DEF DayPasses, StoreKeeps, vars
  <2>2. DeclinesStay(work, filed, work', filed') /\ NoEscalation(work, filed, work', filed')
    BY <2>1 DEF DeclinesStay, NoEscalation
  <2> QED BY <2>1, <2>2, NobodyMoves DEF FamilyInv, Rows
<1> QED BY <1>1, <1>2, <1>3 DEF FamilyNext

LEMMA FamilyStart == FamilyInit => FamilyInv
<1> SUFFICES ASSUME FamilyInit PROVE FamilyInv
  OBVIOUS
<1>1. /\ \A j \in Jobs : work[j].stage = "none"
      /\ work = [j \in Jobs |-> work[j]] /\ filed = [j \in Jobs |-> filed[j]]
      /\ proc = [w \in Reviewers |-> proc[w]]
  BY DEF FamilyInit, Init, Entry
<1>2. RingOfDeclines
  BY DEF FamilyInit, RingOfDeclines
<1>3. \A w \in Reviewers : Weighed(work, filed, proc[w])
  BY IdleIsWeighed DEF FamilyInit
<1> QED BY <1>1, <1>2, <1>3 DEF FamilyInv, Rows, Lessons

\* A lesson the code wrote itself rests on Threshold recorded declines of its family, or on
\* an earlier one for the same reason, which blames the agent (EscalationIsEarned).
THEOREM EscalationsAreEarned == FamilySpec => []EscalationIsEarned
<1>1. FamilyInv => EscalationIsEarned
  BY SameRecords DEF FamilyInv, Lessons, Earned, EscalationIsEarned, Repeated
<1> QED BY <1>1, FamilyStart, FamilyNextKeeps, PTL DEF FamilySpec

----------------------------------------------------------------------------
(* How often a family may be declined.  A decline counts for a class of     *)
(* families and reasons from when a reviewer has weighed it: it is coming   *)
(* until it is entered, and given from then on.  Only weighing adds to the  *)
(* sum of the two, and it asks the store first.                             *)

\* A class C is a set of pairs <<family, reason>>.
Given(C) == {j \in DeclinedIn(work) : <<filed[j].family, filed[j].reason>> \in C}
Coming(C) == {w \in Reviewers : At(w, "declining") /\ <<proc[w].family, proc[w].reason>> \in C}
Sum(C) == Cardinality(Given(C)) + Cardinality(Coming(C))

Same(f, r) == {<<f, r>>}
Fresh(f) == {f} \X (Reasons \ NonFault)

\* The family's declines are in the window and no lesson has been published for it.
Unheard(f) == ~HasLesson(f) /\ \A j \in Declines(f) : Recent(created[j])

\* What is declined, or about to be, has one of the reasons; days are counted.
DeclinesOK ==
    /\ \A j \in DeclinedIn(work) : filed[j].reason \in Reasons
    /\ \A w \in Reviewers : At(w, "declining") => proc[w].reason \in Reasons
    /\ \A j \in Jobs : created[j] \in Nat
    /\ created = [j \in Jobs |-> created[j]] /\ day \in Nat

BoundInv ==
    /\ FamilyInv /\ DeclinesOK
    /\ \A f \in Families, r \in Reasons \ NonFault :
          Sum(Same(f, r)) <= RepeatLimit - 1 + Cardinality(Reviewers)
    /\ \A f \in Families :
          Unheard(f) => Sum(Fresh(f)) <= Threshold - 1 + Cardinality(Reviewers)

LEMMA SumsAreFinite ==
    ASSUME NEW C
    PROVE  /\ IsFiniteSet(Given(C)) /\ Cardinality(Given(C)) \in Nat
           /\ IsFiniteSet(Coming(C)) /\ Cardinality(Coming(C)) \in Nat
           /\ Cardinality(Coming(C)) <= Cardinality(Reviewers) /\ Cardinality(Reviewers) \in Nat
<1>1. Given(C) \subseteq Jobs /\ Coming(C) \subseteq Reviewers
  BY DEF Given, Coming, DeclinedIn
<1>2. IsFiniteSet(Jobs) /\ IsFiniteSet(Reviewers)
  BY FamilyAssumption
<1> QED BY <1>1, <1>2, FS_Subset, FS_CardinalityType

\* Records that do not change and reviewers that only go leave no larger sum.
LEMMA SumFalls ==
    ASSUME NEW C, Given(C)' = Given(C), Coming(C)' \subseteq Coming(C)
    PROVE  Sum(C)' <= Sum(C)
<1>1. Cardinality(Coming(C)') <= Cardinality(Coming(C)) /\ Cardinality(Coming(C)') \in Nat
  BY SumsAreFinite, FS_Subset, FS_CardinalityType
<1>2. Cardinality(Given(C)') = Cardinality(Given(C))
  OBVIOUS
<1> QED BY <1>1, <1>2, SumsAreFinite DEF Sum

\* A decline that is entered was coming.
LEMMA SumMoves ==
    ASSUME NEW C, NEW j, NEW w, j \notin Given(C), w \in Coming(C),
           Given(C)' = Given(C) \cup {j}, Coming(C)' \subseteq Coming(C) \ {w}
    PROVE  Sum(C)' <= Sum(C)
<1>1. Cardinality(Given(C)') = Cardinality(Given(C)) + 1
  BY SumsAreFinite, FS_AddElement
<1>2. /\ Cardinality(Coming(C) \ {w}) = Cardinality(Coming(C)) - 1
      /\ IsFiniteSet(Coming(C) \ {w})
  BY SumsAreFinite, FS_RemoveElement
<1>3. Cardinality(Coming(C)') <= Cardinality(Coming(C)) - 1 /\ Cardinality(Coming(C)') \in Nat
  BY <1>2, FS_Subset, FS_CardinalityType
<1> QED BY <1>1, <1>3, SumsAreFinite DEF Sum

\* A step that enters no decline and after which nobody has newly weighed one.
SameDeclines ==
    /\ DeclinedIn(work') = DeclinedIn(work) /\ \A j \in DeclinedIn(work) : filed'[j] = filed[j]
NobodyWeighs == \A w \in Reviewers : proc'[w].pc = "declining" => proc'[w] = proc[w]

\* What no step undoes: declines, lessons, the day a complaint was captured.
RecordsStay ==
    /\ DeclinesStay(work, filed, work', filed') /\ LessonsStay(work, filed, work', filed')
    /\ created' = [j \in Jobs |-> created'[j]] /\ day' \in Nat /\ day' >= day
    /\ \A j \in Jobs : created'[j] \in Nat
    /\ \A j \in DeclinedIn(work) : created'[j] = created[j]

\* A reviewer that leaves, or moves on to another step, has weighed no decline.
LEMMA MovesOn ==
    ASSUME Rows, NEW w \in Reviewers, NEW p, p.pc # "declining", proc' = [proc EXCEPT ![w] = p]
    PROVE  NobodyWeighs
BY DEF Rows, NobodyWeighs

LEMMA TimeStands ==
    ASSUME DeclinesOK, TimeKeeps, DeclinesStay(work, filed, work', filed'),
           LessonsStay(work, filed, work', filed')
    PROVE  RecordsStay
BY DEF DeclinesOK, TimeKeeps, RecordsStay

\* Only an answer weighs a decline, and only its settlement enters it.
LEMMA DeclineSteps ==
    ASSUME FamilyInv, DeclinesOK, [FamilyNext]_vars
    PROVE  /\ RecordsStay
           /\ \/ SameDeclines /\ NobodyWeighs
              \/ \E w \in Reviewers : Answers(w) \/ CompleteReviewNoLesson(w)
<1>0. /\ Rows /\ IdleReviewer.pc = "idle"
      /\ \A w \in Reviewers : proc[w].pc # "idle" => proc[w].job \in Jobs
  BY DEF FamilyInv, Weighed, IdleReviewer
<1>1. ASSUME UNCHANGED <<work, filed>>
      PROVE  SameDeclines /\ DeclinesStay(work, filed, work', filed')
             /\ LessonsStay(work, filed, work', filed')
  BY <1>1 DEF SameDeclines, DeclinesStay, LessonsStay
<1>2. ASSUME NEW j \in Jobs, Enter(j) \/ Grant(j) \/ Return(j) \/ GiveUp(j), filed' = filed
      PROVE  SameDeclines /\ DeclinesStay(work, filed, work', filed')
             /\ LessonsStay(work, filed, work', filed')
  BY <1>0, <1>2, QueueSteps DEF SameDeclines
<1>3. proc' = proc => NobodyWeighs
  BY DEF NobodyWeighs
<1>4. ASSUME NEW j \in Jobs, Capture(j) PROVE SameDeclines /\ NobodyWeighs /\ RecordsStay
  <2>1. Enter(j) /\ filed' = filed /\ proc' = proc /\ day' = day
        /\ created' = [created EXCEPT ![j] = day]
    BY <1>4 DEF Capture
  <2>2. j \notin DeclinedIn(work)
    BY <2>1 DEF Enter, DeclinedIn
  <2>3. /\ created' = [k \in Jobs |-> created'[k]] /\ \A k \in Jobs : created'[k] \in Nat
        /\ \A k \in DeclinedIn(work) : created'[k] = created[k]
    BY <2>1, <2>2 DEF DeclinesOK, DeclinedIn
  <2> QED BY <1>2, <1>3, <2>1, <2>3 DEF RecordsStay, DeclinesOK
<1>5. ASSUME NEW j \in Jobs, LeaseExpires(j) \/ AttemptsSpent(j)
      PROVE  SameDeclines /\ NobodyWeighs /\ RecordsStay
  <2>1. (Return(j) \/ GiveUp(j)) /\ UNCHANGED <<filed, created, proc, day>>
    BY <1>5 DEF LeaseExpires, AttemptsSpent
  <2> QED BY <1>2, <1>3, <2>1, TimeStands DEF TimeKeeps
<1>6. CASE DayPasses
  <2>1. UNCHANGED <<work, filed, created, proc>> /\ day' \in Nat /\ day' >= day
    BY <1>6 DEF DayPasses, StoreKeeps, DeclinesOK
  <2> QED BY <1>1, <1>3, <2>1 DEF RecordsStay, DeclinesOK
<1>7. CASE UNCHANGED vars
  <2>1. UNCHANGED <<work, filed, created, proc, day>>
    BY <1>7 DEF vars
  <2> QED BY <1>1, <1>3, <2>1, TimeStands DEF TimeKeeps
<1>8. ASSUME NEW w \in Reviewers, NEW j \in Jobs, ClaimReviewJob(w, j)
      PROVE  SameDeclines /\ NobodyWeighs /\ RecordsStay
  <2> DEFINE p == [IdleReviewer EXCEPT !.pc = "claimed", !.job = j, !.token = work'[j].token]
  <2>1. Grant(j) /\ filed' = filed /\ TimeKeeps /\ proc' = [proc EXCEPT ![w] = p]
    BY <1>8 DEF ClaimReviewJob
  <2>2. p.pc # "declining"
    BY DEF IdleReviewer
  <2> HIDE DEF p
  <2> QED BY <1>0, <1>2, <2>1, <2>2, MovesOn, TimeStands
<1>9. ASSUME NEW w \in Reviewers, BuildReviewContext(w)
      PROVE  SameDeclines /\ NobodyWeighs /\ RecordsStay
  <2> DEFINE p == [proc[w] EXCEPT !.pc = "asking", !.seen = {ring[i] : i \in DOMAIN ring}]
  <2>1. StoreKeeps /\ TimeKeeps /\ proc' = [proc EXCEPT ![w] = p] /\ proc[w].pc = "claimed"
    BY <1>9 DEF BuildReviewContext, At
  <2>2. p.pc = "asking" \/ p.pc = proc[w].pc
    OBVIOUS
  <2> HIDE DEF p
  <2> QED BY <1>0, <1>1, <2>1, <2>2, MovesOn, TimeStands DEF StoreKeeps
<1>10. ASSUME NEW w \in Reviewers, Answers(w) PROVE RecordsStay
  BY <1>1, <1>10, TimeStands DEF Answers, StoreKeeps
<1>11. ASSUME NEW w \in Reviewers, Fails(w) PROVE SameDeclines /\ NobodyWeighs /\ RecordsStay
  <2>1. /\ proc[w].job \in Jobs /\ filed' = filed /\ TimeKeeps
        /\ proc' = [proc EXCEPT ![w] = IdleReviewer]
    BY <1>0, <1>11 DEF Fails, Exit
  <2>2. GiveUp(proc[w].job) \/ Return(proc[w].job) \/ work' = work
    BY <1>11 DEF Fails
  <2>3. SameDeclines /\ DeclinesStay(work, filed, work', filed')
        /\ LessonsStay(work, filed, work', filed')
    BY <1>1, <1>2, <2>1, <2>2
  <2> QED BY <1>0, <2>1, <2>3, MovesOn, TimeStands
<1>12. ASSUME NEW w \in Reviewers, CompleteReviewNoLesson(w) PROVE RecordsStay
  <2>1. proc[w].job \in Jobs /\ Settle(w, "reviewed_no_lesson") /\ TimeKeeps
    BY <1>0, <1>12 DEF CompleteReviewNoLesson, At
  <2> QED BY <2>1, SettleSteps, TimeStands
<1>13. ASSUME NEW w \in Reviewers, CompleteReviewPublished(w)
       PROVE  SameDeclines /\ NobodyWeighs /\ RecordsStay
  <2> DEFINE j == proc[w].job
  <2>1. /\ j \in Jobs /\ Settle(w, "published") /\ TimeKeeps
        /\ proc' = [proc EXCEPT ![w] = IdleReviewer]
    BY <1>0, <1>13 DEF CompleteReviewPublished, At, Exit
  <2>2. /\ DeclinesStay(work, filed, work', filed') /\ LessonsStay(work, filed, work', filed')
        /\ work'[j].stage = "published" /\ work[j].stage \in Open
        /\ \A k \in Jobs : k # j => work'[k] = work[k] /\ filed'[k] = filed[k]
    BY <2>1, SettleSteps
  <2>3. SameDeclines
    BY <2>1, <2>2 DEF SameDeclines, DeclinedIn, Open
  <2> QED BY <1>0, <2>1, <2>2, <2>3, MovesOn, TimeStands
<1>14. ASSUME NEW w \in Reviewers, Leaves(w) PROVE SameDeclines /\ NobodyWeighs /\ RecordsStay
  BY <1>0, <1>1, <1>14, MovesOn, TimeStands DEF Leaves, Exit, StoreKeeps
<1> QED
  BY <1>4, <1>5, <1>6, <1>7, <1>8, <1>9, <1>10, <1>11, <1>12, <1>13, <1>14
  DEF FamilyNext, ReviewerStep

\* An answer adds to a class only what the store, as it is then, does not escalate.
LEMMA AnswerAdds ==
    ASSUME FamilyInv, NEW w \in Reviewers, Answers(w), NEW C
    PROVE  /\ Given(C)' = Given(C)
           /\ \/ Sum(C)' <= Sum(C)
              \/ \E f \in Families, r \in Reasons :
                    <<f, r>> \in C /\ ~Escalates(proc[w].seen, f, r)
<1>1. PICK f \in Families \cup {NoFamily}, r \in Reasons \cup {NoReason} :
          /\ f = NoFamily => r = NoReason
          /\ proc' = [proc EXCEPT ![w] =
                [pc |-> Outcome(proc[w].seen, f, r), job |-> proc[w].job,
                 token |-> proc[w].token, seen |-> {}, family |-> f, reason |-> r]]
  BY DEF Answers
<1> DEFINE p == [pc |-> Outcome(proc[w].seen, f, r), job |-> proc[w].job,
                 token |-> proc[w].token, seen |-> {}, family |-> f, reason |-> r]
<1>2. Given(C)' = Given(C)
  BY DEF Answers, StoreKeeps, Given
<1>3. \A v \in Reviewers : proc'[v] = IF v = w THEN p ELSE proc[v]
  BY <1>1 DEF FamilyInv, Rows
<1>4. CASE p.pc = "declining" /\ <<f, r>> \in C
  <2>1. r # NoReason /\ ~Escalates(proc[w].seen, f, r)
    BY <1>4 DEF Outcome
  <2> QED BY <1>1, <1>2, <1>4, <2>1
<1>5. CASE ~(p.pc = "declining" /\ <<f, r>> \in C)
  <2>1. Coming(C)' \subseteq Coming(C)
    BY <1>3, <1>5 DEF Coming, At
  <2> QED BY <1>2, <2>1, SumFalls
<1> QED BY <1>4, <1>5

\* Entering a decline adds to no class.
LEMMA SettlementMoves ==
    ASSUME FamilyInv, NEW w \in Reviewers, CompleteReviewNoLesson(w), NEW C
    PROVE  Sum(C)' <= Sum(C)
<1> DEFINE j == proc[w].job
<1>1. /\ j \in Jobs /\ Settle(w, "reviewed_no_lesson") /\ At(w, "declining")
      /\ proc' = [proc EXCEPT ![w] = IdleReviewer]
  BY DEF CompleteReviewNoLesson, At, FamilyInv, Weighed, Exit
<1>2. /\ work'[j].stage = "reviewed_no_lesson" /\ work[j].stage \in Open
      /\ filed'[j].family = proc[w].family /\ filed'[j].reason = proc[w].reason
      /\ \A k \in Jobs : k # j => work'[k] = work[k] /\ filed'[k] = filed[k]
  BY <1>1, SettleSteps
<1>3. \A v \in Reviewers : proc'[v] = IF v = w THEN IdleReviewer ELSE proc[v]
  BY <1>1 DEF FamilyInv, Rows
<1>4. Coming(C)' \subseteq Coming(C) \ {w}
  BY <1>3 DEF Coming, At, IdleReviewer
<1>5. j \notin Given(C)
  BY <1>2 DEF Given, DeclinedIn, Open
<1>6. CASE <<proc[w].family, proc[w].reason>> \in C
  <2>1. Given(C)' = Given(C) \cup {j} /\ w \in Coming(C)
    BY <1>1, <1>2, <1>6 DEF Given, DeclinedIn, Coming, Open
  <2> QED BY <1>4, <1>5, <2>1, SumMoves
<1>7. CASE <<proc[w].family, proc[w].reason>> \notin C
  <2>1. Given(C)' = Given(C)
    BY <1>1, <1>2, <1>7 DEF Given, DeclinedIn, Open
  <2> QED BY <1>4, <2>1, SumFalls
<1> QED BY <1>6, <1>7

\* So only an answer the store does not escalate enlarges a class.
LEMMA OnlyWeighingAdds ==
    ASSUME FamilyInv, DeclinesOK, [FamilyNext]_vars, NEW C
    PROVE  \/ Sum(C)' <= Sum(C)
           \/ /\ Given(C)' = Given(C)
              /\ \E w \in Reviewers, f \in Families, r \in Reasons :
                    <<f, r>> \in C /\ ~Escalates(proc[w].seen, f, r)
              /\ UNCHANGED <<work, filed>>
<1>1. CASE SameDeclines /\ NobodyWeighs
  <2>1. Given(C)' = Given(C) /\ Coming(C)' \subseteq Coming(C)
    BY <1>1 DEF SameDeclines, NobodyWeighs, Given, Coming, At
  <2> QED BY <2>1, SumFalls
<1>2. ASSUME NEW w \in Reviewers, Answers(w)
      PROVE  \/ Sum(C)' <= Sum(C)
             \/ /\ Given(C)' = Given(C)
                /\ \E f \in Families, r \in Reasons :
                      <<f, r>> \in C /\ ~Escalates(proc[w].seen, f, r)
                /\ UNCHANGED <<work, filed>>
  BY <1>2, AnswerAdds DEF Answers, StoreKeeps
<1> QED BY <1>1, <1>2, SettlementMoves, DeclineSteps

\* What is unheard after a step was unheard before it.
LEMMA UnheardBefore ==
    ASSUME DeclinesOK, RecordsStay, NEW f, Unheard(f)'
    PROVE  Unheard(f)
<1>1. ~HasLesson(f)
  BY DEF Unheard, HasLesson, RecordsStay, LessonsStay
<1>2. ASSUME NEW j \in Declines(f) PROVE Recent(created[j])
  <2>1. j \in Jobs /\ j \in DeclinedIn(work) /\ j \in Declines(f)'
    BY <1>2 DEF Declines, DeclinedIn, RecordsStay, DeclinesStay
  <2>2. created'[j] + Window >= day' /\ created'[j] = created[j]
    BY <2>1 DEF Unheard, Recent, RecordsStay
  <2> QED BY <2>1, <2>2, FamilyAssumption DEF DeclinesOK, RecordsStay, Recent
<1> QED BY <1>1, <1>2 DEF Unheard

LEMMA DeclinesStayOK ==
    ASSUME FamilyInv, DeclinesOK, [FamilyNext]_vars
    PROVE  DeclinesOK'
<1>1. RecordsStay
  BY DeclineSteps
<1>2. CASE SameDeclines /\ NobodyWeighs
  <2>1. \A j \in DeclinedIn(work)' : filed'[j].reason \in Reasons
    BY <1>2 DEF SameDeclines, DeclinesOK
  <2>2. \A w \in Reviewers : At(w, "declining")' => proc'[w].reason \in Reasons
    BY <1>2 DEF NobodyWeighs, DeclinesOK, At
  <2> QED BY <1>1, <2>1, <2>2 DEF DeclinesOK, RecordsStay
<1>3. ASSUME NEW w \in Reviewers, Answers(w) PROVE DeclinesOK'
  <2> PICK f \in Families \cup {NoFamily}, r \in Reasons \cup {NoReason} :
          proc' = [proc EXCEPT ![w] =
                [pc |-> Outcome(proc[w].seen, f, r), job |-> proc[w].job,
                 token |-> proc[w].token, seen |-> {}, family |-> f, reason |-> r]]
    BY <1>3 DEF Answers
  <2> DEFINE p == [pc |-> Outcome(proc[w].seen, f, r), job |-> proc[w].job,
                   token |-> proc[w].token, seen |-> {}, family |-> f, reason |-> r]
  <2>1. p.pc = "declining" => p.reason \in Reasons
    BY DEF Outcome
  <2>2. \A v \in Reviewers : proc'[v] = IF v = w THEN p ELSE proc[v]
    BY DEF FamilyInv, Rows
  <2> HIDE DEF p
  <2>3. \A v \in Reviewers : At(v, "declining")' => proc'[v].reason \in Reasons
    BY <2>1, <2>2 DEF DeclinesOK, At
  <2>4. \A j \in DeclinedIn(work)' : filed'[j].reason \in Reasons
    BY <1>3 DEF Answers, StoreKeeps, DeclinesOK
  <2> QED BY <1>1, <2>3, <2>4 DEF DeclinesOK, RecordsStay
<1>4. ASSUME NEW w \in Reviewers, CompleteReviewNoLesson(w) PROVE DeclinesOK'
  <2> DEFINE j == proc[w].job
  <2>1. /\ j \in Jobs /\ Settle(w, "reviewed_no_lesson") /\ At(w, "declining")
        /\ proc' = [proc EXCEPT ![w] = IdleReviewer]
    BY <1>4 DEF CompleteReviewNoLesson, At, FamilyInv, Weighed, Exit
  <2>2. /\ filed'[j].reason = proc[w].reason
        /\ \A k \in Jobs : k # j => work'[k] = work[k] /\ filed'[k] = filed[k]
    BY <2>1, SettleSteps
  <2>3. \A k \in DeclinedIn(work)' : filed'[k].reason \in Reasons
    BY <2>1, <2>2 DEF DeclinesOK, DeclinedIn
  <2>4. \A v \in Reviewers : At(v, "declining")' => proc'[v].reason \in Reasons
    BY <2>1 DEF DeclinesOK, At, IdleReviewer, FamilyInv, Rows
  <2> QED BY <1>1, <2>3, <2>4 DEF DeclinesOK, RecordsStay
<1> QED BY <1>2, <1>3, <1>4, DeclineSteps

LEMMA BoundKept == BoundInv /\ [FamilyNext]_vars => BoundInv'
<1> SUFFICES ASSUME BoundInv, [FamilyNext]_vars PROVE BoundInv'
  OBVIOUS
<1>1. FamilyInv' /\ DeclinesOK' /\ RecordsStay
  BY FamilyNextKeeps, DeclinesStayOK, DeclineSteps DEF BoundInv
<1> DEFINE R == Cardinality(Reviewers)
<1>2. R \in Nat /\ RepeatLimit \in Nat /\ Threshold \in Nat
  BY SumsAreFinite, FamilyAssumption
<1>3. \A C : Sum(C) \in Nat /\ Cardinality(Given(C)) \in Nat
              /\ Cardinality(Coming(C)') \in Nat /\ Cardinality(Coming(C)') <= R
              /\ Sum(C)' \in Nat
  <2> TAKE C
  <2>1. Given(C)' \subseteq Jobs /\ Coming(C)' \subseteq Reviewers
    BY DEF Given, Coming, DeclinedIn
  <2>2. IsFiniteSet(Jobs) /\ IsFiniteSet(Reviewers)
    BY FamilyAssumption
  <2>3. /\ Cardinality(Given(C)') \in Nat /\ Cardinality(Coming(C)') \in Nat
        /\ Cardinality(Coming(C)') <= R
    BY <2>1, <2>2, FS_Subset, FS_CardinalityType
  <2> QED BY <2>3, SumsAreFinite DEF Sum
<1>4. ASSUME NEW f \in Families, NEW r \in Reasons \ NonFault
      PROVE  Sum(Same(f, r))' <= RepeatLimit - 1 + R
  <2> DEFINE C == Same(f, r)
  <2>1. Sum(C) <= RepeatLimit - 1 + R
    BY <1>4 DEF BoundInv
  <2>2. CASE Sum(C)' <= Sum(C)
    BY <1>2, <1>3, <2>1, <2>2
  <2>3. ASSUME Given(C)' = Given(C), NEW w \in Reviewers, ~Escalates(proc[w].seen, f, r)
        PROVE  Sum(C)' <= RepeatLimit - 1 + R
    <3>1. Given(C) = ReasonDeclines(f, r)
      BY DEF Given, Same, ReasonDeclines, Declines, DeclinedIn
    <3>2. Cardinality(Given(C)) < RepeatLimit
      BY <1>2, <1>3, <1>4, <2>3, <3>1 DEF Escalates, Repeated
    <3> HIDE DEF C
    <3> QED BY <1>2, <1>3, <2>3, <3>2 DEF Sum
  <2>4. \/ Sum(C)' <= Sum(C)
        \/ Given(C)' = Given(C) /\ \E w \in Reviewers : ~Escalates(proc[w].seen, f, r)
    <3>1. \/ Sum(C)' <= Sum(C)
          \/ /\ Given(C)' = Given(C)
             /\ \E w \in Reviewers, g \in Families, q \in Reasons :
                   <<g, q>> \in C /\ ~Escalates(proc[w].seen, g, q)
      <4> HIDE DEF C
      <4> QED BY OnlyWeighingAdds DEF BoundInv
    <3>2. \A g, q : <<g, q>> \in C => g = f /\ q = r
      BY DEF Same
    <3> QED BY <3>1, <3>2
  <2> QED BY <2>2, <2>3, <2>4
<1>5. ASSUME NEW f \in Families, Unheard(f)'
      PROVE  Sum(Fresh(f))' <= Threshold - 1 + R
  <2> DEFINE C == Fresh(f)
  <2>1. Unheard(f) /\ Sum(C) <= Threshold - 1 + R
    BY <1>1, <1>5, UnheardBefore DEF BoundInv
  <2>2. CASE Sum(C)' <= Sum(C)
    BY <1>2, <1>3, <2>1, <2>2
  <2>3. ASSUME Given(C)' = Given(C), NEW w \in Reviewers, NEW r \in Reasons \ NonFault,
               ~Escalates(proc[w].seen, f, r)
        PROVE  Sum(C)' <= Threshold - 1 + R
    <3>1. Given(C) \subseteq Declines(f)
      BY DEF Given, Fresh, Declines, DeclinedIn
    <3>2. IsFiniteSet(Declines(f)) /\ Cardinality(Declines(f)) \in Nat
      BY SameRecords, DeclinesAreFinite
    <3>3. Cardinality(Declines(f)) < Threshold
      BY <1>2, <2>1, <2>3, <3>2 DEF Escalates, OftenDeclined, Unheard
    <3>4. Cardinality(Given(C)) <= Cardinality(Declines(f))
      BY <3>1, <3>2, FS_Subset
    <3> HIDE DEF C
    <3> QED BY <1>2, <1>3, <2>3, <3>2, <3>3, <3>4 DEF Sum
  <2>4. \/ Sum(C)' <= Sum(C)
        \/ /\ Given(C)' = Given(C)
           /\ \E w \in Reviewers, r \in Reasons \ NonFault : ~Escalates(proc[w].seen, f, r)
    <3>1. \/ Sum(C)' <= Sum(C)
          \/ /\ Given(C)' = Given(C)
             /\ \E w \in Reviewers, g \in Families, q \in Reasons :
                   <<g, q>> \in C /\ ~Escalates(proc[w].seen, g, q)
      <4> HIDE DEF C
      <4> QED BY OnlyWeighingAdds DEF BoundInv
    <3>2. \A g, q : <<g, q>> \in C => g = f /\ q \in Reasons \ NonFault
      BY DEF Fresh
    <3> QED BY <3>1, <3>2
  <2> QED BY <2>2, <2>3, <2>4
<1> QED BY <1>1, <1>4, <1>5 DEF BoundInv

LEMMA BoundInvariant == FamilySpec => []BoundInv
<1>1. FamilyInit => BoundInv
  <2> SUFFICES ASSUME FamilyInit PROVE BoundInv
    OBVIOUS
  <2>1. FamilyInv
    BY FamilyStart
  <2>2. DeclinedIn(work) = {} /\ \A w \in Reviewers : ~At(w, "declining")
    BY DEF FamilyInit, Init, Entry, DeclinedIn, At, IdleReviewer
  <2>3. DeclinesOK
    BY <2>2 DEF FamilyInit, DeclinesOK
  <2>4. \A C : Sum(C) = 0
    <3> TAKE C
    <3>1. Given(C) = {} /\ Coming(C) = {}
      BY <2>2 DEF Given, Coming
    <3> QED BY <3>1, FS_EmptySet DEF Sum
  <2> QED BY <2>1, <2>3, <2>4, SumsAreFinite, FamilyAssumption DEF BoundInv
<1> QED BY <1>1, BoundKept, PTL DEF FamilySpec

\* However many complaints are retried and however long a reviewer carries its verdict, one
\* reason that blames the agent is accepted for a family at most once per reviewer beyond
\* the limit (SameExcuseRunsOut).
THEOREM SameExcuseEnds == FamilySpec => []SameExcuseRunsOut
<1>1. ASSUME BoundInv, NEW f \in Families, NEW r \in Reasons \ NonFault
      PROVE  Cardinality(ReasonDeclines(f, r)) <= RepeatLimit - 1 + Cardinality(Reviewers)
  <2>1. Given(Same(f, r)) = ReasonDeclines(f, r)
    BY DEF Given, Same, ReasonDeclines, Declines, DeclinedIn
  <2>2. Sum(Same(f, r)) <= RepeatLimit - 1 + Cardinality(Reviewers)
    BY <1>1 DEF BoundInv
  <2> QED BY <2>1, <2>2, SumsAreFinite, FamilyAssumption DEF Sum
<1>2. BoundInv => SameExcuseRunsOut
  BY <1>1 DEF SameExcuseRunsOut
<1> QED BY <1>2, BoundInvariant, PTL

\* While a family has no lesson and its declines are in the window, fresh excuses run out
\* as well, whatever the ring of recent declines has lost (FreshExcusesRunOut).
THEOREM FreshExcusesEnd == FamilySpec => []FreshExcusesRunOut
<1>1. ASSUME BoundInv, NEW f \in Families, Unheard(f)
      PROVE  Cardinality({j \in Declines(f) : filed[j].reason \notin NonFault})
               <= Threshold - 1 + Cardinality(Reviewers)
  <2>1. Given(Fresh(f)) = {j \in Declines(f) : filed[j].reason \notin NonFault}
    BY <1>1 DEF BoundInv, DeclinesOK, Given, Fresh, Declines, DeclinedIn
  <2>2. Sum(Fresh(f)) <= Threshold - 1 + Cardinality(Reviewers)
    BY <1>1 DEF BoundInv
  <2>3. Cardinality(Given(Fresh(f))) <= Threshold - 1 + Cardinality(Reviewers)
    BY <2>2, SumsAreFinite, FamilyAssumption DEF Sum
  <2> QED BY <2>1, <2>3
<1>2. BoundInv => FreshExcusesRunOut
  BY <1>1 DEF FreshExcusesRunOut, Unheard
<1> QED BY <1>2, BoundInvariant, PTL
=============================================================================
