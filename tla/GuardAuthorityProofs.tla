------------------------ MODULE GuardAuthorityProofs ------------------------
(***************************************************************************)
(* Theorems about the migration commands, for any number of processes and  *)
(* any contents of the legacy file.  The argument is mutual exclusion: a   *)
(* process at one of the steps Inside holds both locks, so nobody else     *)
(* touches the file or the snapshot, and what it checked still holds when  *)
(* it records the transition.                                              *)
(***************************************************************************)
EXTENDS GuardAuthority, TLAPS

HoldsLocks(o) ==
    /\ op[o].pc \in Locking \cup Inside => lock.authority = o
    /\ op[o].pc \in Inside => lock.legacy = o

\* What a process inside knows of the file and the snapshot.
Knows(o) ==
    /\ op[o].pc = "seal" => snapshot = "torn"
    /\ op[o].pc \in {"verify", "snapshot", "seal", "recheck", "record"} =>
          op[o].event = None /\ op[o].source \in Versions
    /\ op[o].pc = "record" => file = op[o].source /\ snapshot = op[o].source
    /\ op[o].event # None => op[o].event \in CutoverEvents /\ op[o].source = op[o].event.source
    /\ op[o].pc \in {"compare", "restore", "restored", "record_rollback"} => op[o].event # None
    /\ op[o].pc \in {"restore", "restored", "record_rollback"} => snapshot = op[o].source
    /\ op[o].pc = "record_rollback" => file = op[o].source
    /\ op[o].pc = "transition" /\ op[o].event = None => op[o].source \in Versions
    /\ op[o].pc = "locking" /\ op[o].event = None => op[o].source \in Versions
    /\ op[o].pc \in {"import"} => op[o].source \in Versions
    /\ op[o].pc = "shadow" => op[o].set \in ParitySets /\ op[o].field \in 1..Fields
    /\ op[o].pc \in {"transition"} \cup Locking \cup Inside => op[o].ref \in DecisionRefs

AuthorityInv ==
    /\ AuthorityTypeOK
    /\ \A o \in Operators : HoldsLocks(o) /\ Knows(o)
    /\ RollbackStaysPossible

LEMMA PlannedOK ==
    ASSUME NEW pc \in Outside, NEW source \in Versions \cup {None},
           NEW set \in ParitySets \cup {None}, NEW event \in CutoverEvents \cup {None},
           NEW ref \in DecisionRefs \cup {None}
    PROVE  Planned(pc, source, set, event, ref) \in Command
<1>1. 1 \in 1..Fields
  BY AuthorityAssumption
<1> QED BY <1>1 DEF Planned, Command

LEMMA IdleOK == Idle \in Command /\ Idle.pc = "idle" /\ Idle.event = None
<1>1. Idle \in Command
  BY PlannedOK DEF Idle, Outside
<1> QED BY <1>1 DEF Idle, Planned

LEMMA AuthorityStart == AuthorityInit => AuthorityInv
<1> SUFFICES ASSUME AuthorityInit PROVE AuthorityInv
  OBVIOUS
<1>1. Idle \in Command
  BY IdleOK
<1>2. AuthorityTypeOK
  <2>1. lock \in [{"authority", "legacy"} -> Operators \cup {"legacy", "orphan", None}]
    BY DEF AuthorityInit
  <2>2. log \in Seq(CutoverEvents \cup RollbackEvents)
    BY DEF AuthorityInit
  <2>3. op \in [Operators -> Command] /\ compared \in [ParitySets -> 0..Fields]
    BY <1>1, AuthorityAssumption DEF AuthorityInit
  <2> QED BY <2>1, <2>2, <2>3 DEF AuthorityInit, AuthorityTypeOK
<1>3. \A o \in Operators : HoldsLocks(o) /\ Knows(o)
  BY IdleOK DEF AuthorityInit, HoldsLocks, Knows, Locking, Inside
<1> QED BY <1>2, <1>3 DEF AuthorityInv, AuthorityInit, RollbackStaysPossible, CutOver

\* A process moves on: nobody else does, and its command stays what it is.
LEMMA Moves ==
    ASSUME AuthorityTypeOK, NEW o \in Operators, NEW s \in Command, Goto(o, s)
    PROVE  /\ op' \in [Operators -> Command] /\ op'[o] = s
           /\ \A x \in Operators \ {o} : op'[x] = op[x]
BY DEF AuthorityTypeOK, Goto

LEMMA Continues ==
    ASSUME AuthorityTypeOK, NEW o \in Operators, NEW pc \in Outside \cup Locking \cup Inside,
           Continue(o, pc)
    PROVE  /\ op' \in [Operators -> Command]
           /\ op'[o].pc = pc /\ op'[o].source = op[o].source /\ op'[o].event = op[o].event
           /\ op'[o].set = op[o].set /\ op'[o].field = op[o].field /\ op'[o].ref = op[o].ref
           /\ \A x \in Operators \ {o} : op'[x] = op[x]
<1>1. op[o] \in Command
  BY DEF AuthorityTypeOK
<1>2. [op[o] EXCEPT !.pc = pc] \in Command
  BY <1>1 DEF Command
<1> QED BY <1>1, <1>2, Moves DEF Continue, Command

\* What a process that did not move knows stays true while the locks it holds, the
\* file and the snapshot stay.
Calm(o) ==
    /\ AuthorityTypeOK'
    /\ HoldsLocks(o)' /\ Knows(o)'
    /\ \A x \in Operators \ {o} : op'[x] = op[x]

LEMMA QuietStep ==
    ASSUME AuthorityInv, NEW o \in Operators, Calm(o), UNCHANGED <<file, lock, snapshot, log>>
    PROVE  AuthorityInv'
<1>1. \A x \in Operators : HoldsLocks(x)' /\ Knows(x)'
  BY DEF AuthorityInv, HoldsLocks, Knows, Calm
<1> QED BY <1>1 DEF AuthorityInv, RollbackStaysPossible, CutOver, Latest, Calm

\* A process inside is alone there, so it may also change the file or the snapshot.
LEMMA InsideStep ==
    ASSUME AuthorityInv, NEW o \in Operators, Calm(o), op[o].pc \in Inside,
           UNCHANGED <<lock, log>>, CutOver => UNCHANGED snapshot
    PROVE  AuthorityInv'
<1>1. \A x \in Operators \ {o} : op[x].pc \notin Inside
  BY DEF AuthorityInv, HoldsLocks
<1>2. \A x \in Operators \ {o} : HoldsLocks(x)' /\ Knows(x)'
  BY <1>1 DEF AuthorityInv, HoldsLocks, Knows, Calm, Inside
<1> QED BY <1>2 DEF AuthorityInv, RollbackStaysPossible, CutOver, Latest, Calm

\* Taking a free lock or giving up one's own disturbs nobody.
LEMMA LockStep ==
    ASSUME AuthorityInv, NEW o \in Operators, Calm(o), UNCHANGED <<file, snapshot, log>>,
           \A l \in {"authority", "legacy"} :
              lock'[l] # lock[l] => lock[l] \in {None, o}
    PROVE  AuthorityInv'
<1>1. \A x \in Operators \ {o} : HoldsLocks(x)' /\ Knows(x)'
  BY AuthorityAssumption DEF AuthorityInv, HoldsLocks, Knows, Calm
<1> QED BY <1>1 DEF AuthorityInv, RollbackStaysPossible, CutOver, Latest, Calm

LEMMA ImportsKeep ==
    ASSUME AuthorityInv, NEW o \in Operators,
           \/ BeginImport(o) \/ ApplyGuardImport(o)
           \/ \E p \in ParitySets : BeginShadow(o, p)
           \/ RecordGuardShadowComparison(o)
    PROVE  AuthorityInv'
<1>1. AuthorityTypeOK /\ op[o] \in Command
  BY DEF AuthorityInv, AuthorityTypeOK
<1>2. Idle \in Command /\ Idle.pc = "idle" /\ Idle.event = None
  BY IdleOK
<1>3. CASE BeginImport(o)
  <2> DEFINE s == Planned("import", file, None, None, None)
  <2>1. s \in Command /\ s.pc = "import" /\ s.event = None /\ s.source \in Versions
    BY <1>1, <1>3, PlannedOK DEF BeginImport, AuthorityTypeOK, Outside, Planned
  <2>2. Goto(o, s)
    BY <1>3 DEF BeginImport
  <2> HIDE DEF s
  <2>3. Calm(o)
    BY <1>1, <1>3, <2>1, <2>2, Moves DEF BeginImport, store, AuthorityTypeOK, Calm, HoldsLocks,
      Knows, Locking, Inside
  <2> QED BY <1>3, <2>3, QuietStep DEF BeginImport, store
<1>4. CASE ApplyGuardImport(o)
  <2>1. op[o].source \in Versions
    BY <1>4 DEF ApplyGuardImport, At, AuthorityInv, Knows
  <2>2. Calm(o)
    BY <1>1, <1>2, <1>4, <2>1, Moves DEF ApplyGuardImport, AuthorityTypeOK, Calm, HoldsLocks,
      Knows, Locking, Inside
  <2> QED BY <1>4, <2>2, QuietStep DEF ApplyGuardImport
<1>5. ASSUME NEW p \in ParitySets, BeginShadow(o, p) PROVE AuthorityInv'
  <2> DEFINE s == Planned("shadow", file, p, None, None)
  <2>1. /\ s \in Command /\ s.pc = "shadow" /\ s.event = None
        /\ s.set \in ParitySets /\ s.field \in 1..Fields
    <3>1. s \in Command
      BY <1>1, PlannedOK DEF AuthorityTypeOK, Outside
    <3>2. 1 \in 1..Fields
      BY AuthorityAssumption
    <3> QED BY <3>1, <3>2 DEF Planned
  <2>2. Goto(o, s)
    BY <1>5 DEF BeginShadow
  <2> HIDE DEF s
  <2>3. Calm(o)
    BY <1>1, <1>5, <2>1, <2>2, Moves DEF BeginShadow, store, AuthorityTypeOK, Calm, HoldsLocks,
      Knows, Locking, Inside
  <2> QED BY <1>5, <2>3, QuietStep DEF BeginShadow, store
<1>6. CASE RecordGuardShadowComparison(o)
  <2> DEFINE n == op[o].field
             s == [op[o] EXCEPT !.field = n + 1]
  <2>1. n \in 1..Fields /\ op[o].set \in ParitySets /\ op[o].pc = "shadow"
    BY <1>6 DEF RecordGuardShadowComparison, AllCompared, At, AuthorityInv, Knows
  <2>2. compared' \in [ParitySets -> 0..Fields]
    <3>1. compared \in [ParitySets -> 0..Fields] /\ n \in 0..Fields
      BY <1>1, <2>1, AuthorityAssumption DEF AuthorityTypeOK
    <3> DEFINE m == IF n > compared[op[o].set] THEN n ELSE compared[op[o].set]
    <3>2. compared' = compared \/ compared' = [compared EXCEPT ![op[o].set] = m]
      <4>1. CASE op[o].set.source \notin imported
        BY <1>6, <4>1 DEF RecordGuardShadowComparison, AllCompared
      <4>2. CASE op[o].set.source \in imported
        BY <1>6, <3>1, <2>1, <4>2 DEF RecordGuardShadowComparison, AllCompared
      <4> QED BY <4>1, <4>2
    <3>3. m \in 0..Fields
      BY <3>1, <2>1
    <3> HIDE DEF m
    <3> QED BY <3>1, <3>2, <3>3
  <2>3. CASE Goto(o, Idle)
    <3>1. Calm(o)
      BY <1>1, <1>2, <1>6, <2>2, <2>3, Moves DEF RecordGuardShadowComparison, AllCompared, AuthorityTypeOK,
        Calm, HoldsLocks, Knows, Locking, Inside
    <3> QED BY <1>6, <3>1, QuietStep DEF RecordGuardShadowComparison, AllCompared
  <2>4. CASE Goto(o, s) /\ n # Fields
    <3>1. n + 1 \in 1..Fields
      BY <2>1, <2>4, AuthorityAssumption
    <3>2. /\ s \in Command /\ s.pc = "shadow" /\ s.event = op[o].event /\ s.set \in ParitySets
          /\ s.field \in 1..Fields /\ s.source = op[o].source
      BY <1>1, <2>1, <3>1 DEF Command
    <3>3. op[o].event # None => op[o].event \in CutoverEvents /\ op[o].source = op[o].event.source
      BY DEF AuthorityInv, Knows
    <3> HIDE DEF s
    <3>4. Calm(o)
      BY <1>1, <1>6, <2>2, <2>4, <3>2, <3>3, Moves DEF RecordGuardShadowComparison, AllCompared,
        AuthorityTypeOK, Calm, HoldsLocks, Knows, Locking, Inside
    <3> QED BY <1>6, <3>4, QuietStep DEF RecordGuardShadowComparison, AllCompared
  <2> QED BY <1>6, <2>3, <2>4 DEF RecordGuardShadowComparison, AllCompared
<1> QED BY <1>3, <1>4, <1>5, <1>6

LEMMA LocksKeep ==
    ASSUME AuthorityInv, NEW o \in Operators,
           LockAuthority(o) \/ LockLegacy(o) \/ UnlockLegacy(o) \/ UnlockAuthority(o)
    PROVE  AuthorityInv'
<1>1. AuthorityTypeOK /\ op[o] \in Command /\ HoldsLocks(o) /\ Knows(o)
  BY DEF AuthorityInv, AuthorityTypeOK
<1>2. Idle \in Command /\ Idle.pc = "idle" /\ Idle.event = None
  BY IdleOK
<1>3. CASE LockAuthority(o)
  <2>1. CASE Goto(o, Idle) /\ UNCHANGED lock
    <3>1. Calm(o)
      BY <1>1, <1>2, <1>3, <2>1, Moves DEF LockAuthority, store, AuthorityTypeOK, Calm,
        HoldsLocks, Knows, Locking, Inside
    <3> QED BY <1>3, <2>1, <3>1, QuietStep DEF LockAuthority, store
  <2>2. CASE /\ lock.authority = None /\ lock' = [lock EXCEPT !.authority = o]
             /\ Continue(o, "locking")
    <3>1. Calm(o)
      BY <1>1, <1>3, <2>2, Continues DEF LockAuthority, store, At, AuthorityTypeOK, Calm,
        HoldsLocks, Knows, Locking, Inside
    <3> QED BY <1>1, <1>3, <2>2, <3>1, LockStep DEF LockAuthority, store, AuthorityTypeOK
  <2> QED BY <1>3, <2>1, <2>2 DEF LockAuthority
<1>4. CASE LockLegacy(o)
  <2>1. CASE Continue(o, "unlocking") /\ UNCHANGED lock
    <3>1. Calm(o)
      BY <1>1, <1>4, <2>1, Continues DEF LockLegacy, store, At, AuthorityTypeOK, Calm,
        HoldsLocks, Knows, Locking, Inside
    <3> QED BY <1>4, <2>1, <3>1, QuietStep DEF LockLegacy, store
  <2>2. CASE /\ lock.legacy = None /\ lock' = [lock EXCEPT !.legacy = o]
             /\ Continue(o, First(o))
    <3>1. First(o) \in Inside
      BY DEF First, Inside
    <3>2. Calm(o)
      BY <1>1, <1>4, <2>2, <3>1, Continues DEF LockLegacy, store, At, AuthorityTypeOK, Calm,
        HoldsLocks, Knows, Locking, Inside, First
    <3> QED BY <1>1, <1>4, <2>2, <3>2, LockStep DEF LockLegacy, store, AuthorityTypeOK
  <2> QED BY <1>4, <2>1, <2>2 DEF LockLegacy
<1>5. CASE UnlockLegacy(o)
  <2>1. lock.legacy = o /\ lock.authority = o
    BY <1>1, <1>5 DEF UnlockLegacy, At, HoldsLocks, Inside
  <2>2. Calm(o)
    BY <1>1, <1>5, <2>1, Continues DEF UnlockLegacy, Release, store, At, AuthorityTypeOK, Calm,
      HoldsLocks, Knows, Locking, Inside
  <2> QED BY <1>1, <1>5, <2>1, <2>2, LockStep DEF UnlockLegacy, Release, store, AuthorityTypeOK
<1>6. CASE UnlockAuthority(o)
  <2>1. lock.authority = o
    BY <1>1, <1>6 DEF UnlockAuthority, At, HoldsLocks, Locking
  <2>2. Calm(o)
    BY <1>1, <1>2, <1>6, Moves DEF UnlockAuthority, Release, store, At, AuthorityTypeOK, Calm,
      HoldsLocks, Knows, Locking, Inside
  <2> QED BY <1>1, <1>6, <2>1, <2>2, LockStep DEF UnlockAuthority, Release, store, AuthorityTypeOK
<1> QED BY <1>3, <1>4, <1>5, <1>6

\* Cutovers start from the file, rollbacks from the latest cutover.
LEMMA TransitionsStart ==
    ASSUME AuthorityInv, NEW o \in Operators,
           \/ \E p \in ParitySets, d \in DecisionRefs : BeginCutover(o, p, d)
           \/ \E d \in DecisionRefs : BeginRollback(o, d)
    PROVE  AuthorityInv'
<1>1. AuthorityTypeOK
  BY DEF AuthorityInv
<1>2. ASSUME NEW p \in ParitySets, NEW d \in DecisionRefs, BeginCutover(o, p, d)
      PROVE  AuthorityInv'
  <2> DEFINE s == Planned("transition", file, p, None, d)
  <2>1. /\ s \in Command /\ s.pc = "transition" /\ s.event = None /\ s.source \in Versions
        /\ s.ref = d
    BY <1>1, <1>2, PlannedOK DEF BeginCutover, AuthorityTypeOK, Outside, Planned
  <2>2. Goto(o, s)
    BY <1>2 DEF BeginCutover
  <2> HIDE DEF s
  <2>3. Calm(o)
    BY <1>1, <1>2, <2>1, <2>2, Moves DEF BeginCutover, store, AuthorityTypeOK, Calm, HoldsLocks,
      Knows, Locking, Inside
  <2> QED BY <1>2, <2>3, QuietStep DEF BeginCutover, store
<1>3. ASSUME NEW d \in DecisionRefs, BeginRollback(o, d) PROVE AuthorityInv'
  <2>1. Latest \in CutoverEvents
    <3>1. log # <<>> /\ Latest.type = "cutover"
      BY <1>3 DEF BeginRollback, CutOver
    <3>2. Latest \in CutoverEvents \cup RollbackEvents
      BY <1>1, <3>1 DEF AuthorityTypeOK, Latest
    <3> QED BY <3>1, <3>2 DEF CutoverEvents, RollbackEvents
  <2> DEFINE s == Planned("transition", Latest.source, None, Latest, d)
  <2>2. Latest.source \in Versions
    BY <2>1 DEF CutoverEvents
  <2>3. s \in Command
    BY <2>1, <2>2, PlannedOK DEF Outside
  <2>4. /\ s.pc = "transition" /\ s.event \in CutoverEvents /\ s.source = s.event.source
        /\ s.source \in Versions /\ s.ref = d
    BY <2>1, <2>2 DEF Planned
  <2>5. Goto(o, s)
    BY <1>3 DEF BeginRollback
  <2> HIDE DEF s
  <2>6. Calm(o)
    BY <1>1, <1>3, <2>3, <2>4, <2>5, Moves DEF BeginRollback, store, AuthorityTypeOK, Calm,
      HoldsLocks, Knows, Locking, Inside
  <2> QED BY <1>3, <2>6, QuietStep DEF BeginRollback, store
<1> QED BY <1>2, <1>3

\* The steps inside, but for the two that append to the log.
LEMMA InsideKeeps ==
    ASSUME AuthorityInv, NEW o \in Operators,
           \/ VerifySource(o) \/ WriteSnapshot(o) \/ SealSnapshot(o) \/ RecheckSource(o)
           \/ CompareSnapshot(o) \/ RestoreFile(o) \/ RecheckRestored(o)
    PROVE  AuthorityInv'
<1>1. AuthorityTypeOK /\ op[o] \in Command /\ HoldsLocks(o) /\ Knows(o) /\ RollbackStaysPossible
  BY DEF AuthorityInv, AuthorityTypeOK
<1>2. op[o].pc \in Inside
  BY DEF VerifySource, WriteSnapshot, SealSnapshot, RecheckSource, CompareSnapshot, RestoreFile,
    RecheckRestored, At, Inside
<1>3. CutOver => Latest.source \in Versions
  <2>1. CutOver => Latest \in CutoverEvents \cup RollbackEvents
    BY <1>1 DEF AuthorityTypeOK, Latest, CutOver
  <2> QED BY <2>1 DEF CutOver, CutoverEvents, RollbackEvents
<1> DEFINE Quiet == /\ UNCHANGED <<lock, log>> /\ (CutOver => UNCHANGED snapshot)
<1>4. CASE VerifySource(o) \/ RecheckSource(o)
  <2>1. Calm(o)
    BY <1>1, <1>4, Continues DEF VerifySource, RecheckSource, store, At, AuthorityTypeOK, Calm,
      HoldsLocks, Knows, Locking, Inside
  <2> QED BY <1>2, <1>4, <2>1, InsideStep DEF VerifySource, RecheckSource, store
<1>5. CASE WriteSnapshot(o)
  <2>1. Calm(o)
    BY <1>1, <1>5, Continues DEF WriteSnapshot, store, At, AuthorityTypeOK, Calm, HoldsLocks,
      Knows, Locking, Inside
  <2>2. CutOver => UNCHANGED snapshot
    BY <1>1, <1>3, <1>5, AuthorityAssumption DEF WriteSnapshot, RollbackStaysPossible
  <2> QED BY <1>2, <1>5, <2>1, <2>2, InsideStep DEF WriteSnapshot, store
<1>6. CASE SealSnapshot(o)
  <2>1. Calm(o)
    BY <1>1, <1>6, Continues DEF SealSnapshot, store, At, AuthorityTypeOK, Calm, HoldsLocks,
      Knows, Locking, Inside
  <2>2. CutOver => UNCHANGED snapshot
    BY <1>1, <1>3, <1>6, AuthorityAssumption DEF SealSnapshot, At, Knows, RollbackStaysPossible
  <2> QED BY <1>2, <1>6, <2>1, <2>2, InsideStep DEF SealSnapshot, store
<1>7. CASE CompareSnapshot(o) \/ RecheckRestored(o)
  <2>1. Calm(o)
    BY <1>1, <1>7, Continues DEF CompareSnapshot, RecheckRestored, store, At, AuthorityTypeOK,
      Calm, HoldsLocks, Knows, Locking, Inside
  <2> QED BY <1>2, <1>7, <2>1, InsideStep DEF CompareSnapshot, RecheckRestored, store
<1>8. CASE RestoreFile(o)
  <2>1. op[o].source \in Versions
    BY <1>1, <1>8 DEF RestoreFile, At, Knows, CutoverEvents
  <2>2. Calm(o)
    BY <1>1, <1>8, <2>1, Continues DEF RestoreFile, store, At, AuthorityTypeOK, Calm, HoldsLocks,
      Knows, Locking, Inside
  <2> QED BY <1>2, <1>8, <2>2, InsideStep DEF RestoreFile, store
<1> QED BY <1>4, <1>5, <1>6, <1>7, <1>8

\* A recorded transition: nobody but its own process is at the locks, the file and
\* the snapshot, and those do not change.
LEMMA LogStep ==
    ASSUME AuthorityInv, NEW o \in Operators, Calm(o), UNCHANGED <<file, lock, snapshot>>,
           RollbackStaysPossible'
    PROVE  AuthorityInv'
<1>1. \A x \in Operators : HoldsLocks(x)' /\ Knows(x)'
  BY DEF AuthorityInv, HoldsLocks, Knows, Calm
<1> QED BY <1>1 DEF AuthorityInv, Calm

\* What an append leaves: the log, or the log with e at its end.
LEMMA AppendsType ==
    ASSUME AuthorityTypeOK, NEW e \in CutoverEvents \cup RollbackEvents, Appends(e)
    PROVE  /\ log' \in Seq(CutoverEvents \cup RollbackEvents)
           /\ log' = log \/ (log' # <<>> /\ Latest' = e)
BY DEF AuthorityTypeOK, Appends, Latest

LEMMA RecordsKeep ==
    ASSUME AuthorityInv, NEW o \in Operators, RecordGuardCutover(o) \/ RecordGuardRollback(o)
    PROVE  AuthorityInv'
<1>1. AuthorityTypeOK /\ op[o] \in Command /\ HoldsLocks(o) /\ Knows(o) /\ RollbackStaysPossible
  BY DEF AuthorityInv, AuthorityTypeOK
<1>2. CASE RecordGuardCutover(o)
  <2> DEFINE e == [type |-> "cutover", source |-> op[o].source, ref |-> op[o].ref]
  <2>1. /\ op[o].event = None /\ op[o].source \in Versions /\ op[o].ref \in DecisionRefs
        /\ snapshot = op[o].source
    BY <1>1, <1>2 DEF RecordGuardCutover, At, Knows, Inside
  <2>2. e \in CutoverEvents \cup RollbackEvents /\ e.source = op[o].source
    BY <2>1 DEF CutoverEvents
  <2>3. log' = log \/ Appends(e)
    BY <1>2 DEF RecordGuardCutover
  <2> HIDE DEF e
  <2>4. /\ log' \in Seq(CutoverEvents \cup RollbackEvents)
        /\ log' = log \/ (log' # <<>> /\ Latest' = e)
    BY <1>1, <2>2, <2>3, AppendsType DEF AuthorityTypeOK
  <2>5. Calm(o)
    BY <1>1, <1>2, <2>1, <2>4, Continues DEF RecordGuardCutover, At, AuthorityTypeOK, Calm,
      HoldsLocks, Knows, Locking, Inside
  <2>6. RollbackStaysPossible'
    BY <1>1, <1>2, <2>1, <2>2, <2>4 DEF RecordGuardCutover, RollbackStaysPossible, CutOver, Latest
  <2> QED BY <1>2, <2>5, <2>6, LogStep DEF RecordGuardCutover
<1>3. CASE RecordGuardRollback(o)
  <2> DEFINE e == [type |-> "rollback", cutover |-> op[o].event, ref |-> op[o].ref]
  <2>1. op[o].event \in CutoverEvents /\ op[o].ref \in DecisionRefs
    BY <1>1, <1>3 DEF RecordGuardRollback, At, Knows, Inside
  <2>2. e \in CutoverEvents \cup RollbackEvents /\ e.type = "rollback"
    BY <2>1 DEF RollbackEvents
  <2>3. log' = log \/ Appends(e)
    BY <1>3 DEF RecordGuardRollback
  <2> HIDE DEF e
  <2>4. /\ log' \in Seq(CutoverEvents \cup RollbackEvents)
        /\ log' = log \/ (log' # <<>> /\ Latest' = e)
    BY <1>1, <2>2, <2>3, AppendsType DEF AuthorityTypeOK
  <2>5. Calm(o)
    BY <1>1, <1>3, <2>1, <2>4, Continues DEF RecordGuardRollback, At, AuthorityTypeOK, Calm,
      HoldsLocks, Knows, Locking, Inside
  <2>6. RollbackStaysPossible'
    BY <1>1, <1>3, <2>2, <2>4 DEF RecordGuardRollback, RollbackStaysPossible, CutOver, Latest
  <2> QED BY <1>3, <2>5, <2>6, LogStep DEF RecordGuardRollback
<1> QED BY <1>2, <1>3

\* A process that dies leaves its own locks to nobody.
LEMMA CrashKeeps ==
    ASSUME AuthorityInv, NEW o \in Operators, Crash(o)
    PROVE  AuthorityInv'
<1>1. AuthorityTypeOK
  BY DEF AuthorityInv
<1>2. Idle \in Command /\ Idle.pc = "idle" /\ Idle.event = None
  BY IdleOK
<1>3. DOMAIN lock = {"authority", "legacy"}
  BY <1>1 DEF AuthorityTypeOK
<1>4. lock' \in [{"authority", "legacy"} -> Operators \cup {"legacy", "orphan", None}]
  BY <1>1, <1>3 DEF Crash, AuthorityTypeOK
<1>5. \A l \in {"authority", "legacy"} : lock'[l] # lock[l] => lock[l] \in {None, o}
  BY <1>3 DEF Crash
<1>6. Calm(o)
  BY <1>1, <1>2, <1>4, Moves DEF Crash, store, AuthorityTypeOK, Calm, HoldsLocks, Knows, Locking,
    Inside
<1> QED BY <1>5, <1>6, LockStep DEF Crash, store

\* The legacy guard and this one's commands: the file changes only while no process
\* is inside.
LEMMA OthersKeep ==
    ASSUME AuthorityInv, LegacyLocks \/ LegacyWrites \/ Preflight \/ KernelWrites
    PROVE  AuthorityInv'
<1>1. AuthorityTypeOK /\ RollbackStaysPossible
  BY DEF AuthorityInv
<1>2. lock.legacy \in {None, "legacy"} => \A x \in Operators : op[x].pc \notin Inside
  BY AuthorityAssumption DEF AuthorityInv, HoldsLocks
<1>3. CASE LegacyLocks
  <2>1. AuthorityTypeOK'
    BY <1>1, <1>3 DEF LegacyLocks, AuthorityTypeOK, store
  <2>2. \A x \in Operators : HoldsLocks(x)' /\ Knows(x)'
    BY <1>1, <1>2, <1>3 DEF LegacyLocks, AuthorityInv, AuthorityTypeOK, HoldsLocks, Knows, store
  <2> QED BY <1>1, <1>3, <2>1, <2>2 DEF AuthorityInv, LegacyLocks, RollbackStaysPossible, CutOver,
    Latest, store
<1>4. CASE LegacyWrites
  <2>1. AuthorityTypeOK'
    BY <1>1, <1>4 DEF LegacyWrites, AuthorityTypeOK, store
  <2>2. \A x \in Operators : HoldsLocks(x)' /\ Knows(x)'
    BY <1>1, <1>2, <1>4 DEF LegacyWrites, AuthorityInv, AuthorityTypeOK, HoldsLocks, Knows, Inside,
      store
  <2> QED BY <1>1, <1>4, <2>1, <2>2 DEF AuthorityInv, LegacyWrites, RollbackStaysPossible, CutOver,
    Latest, store
<1>5. CASE Preflight \/ KernelWrites
  <2>1. AuthorityTypeOK'
    BY <1>1, <1>5 DEF Preflight, KernelWrites, AuthorityTypeOK, store
  <2>2. UNCHANGED <<file, lock, snapshot, log, op>>
    BY <1>5 DEF Preflight, KernelWrites, store
  <2> QED BY <2>1, <2>2 DEF AuthorityInv, HoldsLocks, Knows, RollbackStaysPossible, CutOver, Latest
<1> QED BY <1>3, <1>4, <1>5

LEMMA AuthorityStep == AuthorityInv /\ [AuthorityNext]_vars => AuthorityInv'
<1> SUFFICES ASSUME AuthorityInv, [AuthorityNext]_vars PROVE AuthorityInv'
  OBVIOUS
<1>1. CASE UNCHANGED vars
  BY <1>1 DEF AuthorityInv, AuthorityTypeOK, HoldsLocks, Knows, RollbackStaysPossible, CutOver,
    Latest, vars, store
<1>2. ASSUME NEW o \in Operators, Transition(o) PROVE AuthorityInv'
  BY <1>2, LocksKeep, TransitionsStart, InsideKeeps, RecordsKeep DEF Transition
<1>3. CASE AuthorityNext
  BY <1>2, <1>3, ImportsKeep, CrashKeeps, OthersKeep DEF AuthorityNext
<1> QED BY <1>1, <1>3

LEMMA AuthorityInvariant == AuthoritySpec => []AuthorityInv
<1> QED BY AuthorityStart, AuthorityStep, PTL DEF AuthoritySpec

\* The state of the migration is of its types: the commands, the locks and the log.
THEOREM AuthorityType == AuthoritySpec => []AuthorityTypeOK
<1>1. AuthorityInv => AuthorityTypeOK
  BY DEF AuthorityInv
<1> QED BY <1>1, AuthorityInvariant, PTL

\* As long as this guard rules an imported repository, cutoverGuard's snapshot of it
\* is whole and the one rollbackGuardCutover will look for.
THEOREM WayBack == AuthoritySpec => []RollbackStaysPossible
<1>1. AuthorityInv => RollbackStaysPossible
  BY DEF AuthorityInv
<1> QED BY <1>1, AuthorityInvariant, PTL

\* However many commands run at once, and whatever the legacy guard does between
\* their steps, a transition is recorded only of the file and the snapshot it names.
THEOREM ExactTransitions == AuthoritySpec => TransitionsAreExact
<1> DEFINE Exact == log' # log =>
             LET e == log'[Len(log')]
                 s == IF e.type = "cutover" THEN e.source ELSE e.cutover.source
             IN  file = s /\ snapshot = s /\ (e.type = "rollback" => e.cutover = Latest)
<1>1. ASSUME AuthorityInv, [AuthorityNext]_vars PROVE Exact
  <2>1. CASE log' = log
    BY <2>1
  <2>2. ASSUME NEW o \in Operators, RecordGuardCutover(o), log' # log PROVE Exact
    <3> DEFINE e == [type |-> "cutover", source |-> op[o].source, ref |-> op[o].ref]
    <3>1. file = op[o].source /\ snapshot = op[o].source
      BY <1>1, <2>2 DEF RecordGuardCutover, At, AuthorityInv, Knows
    <3>2. log' = Append(log, e)
      BY <2>2 DEF RecordGuardCutover, Appends
    <3>3. log \in Seq(CutoverEvents \cup RollbackEvents)
      BY <1>1 DEF AuthorityInv, AuthorityTypeOK
    <3>4. log'[Len(log')] = e
      BY <3>2, <3>3
    <3> QED BY <3>1, <3>4
  <2>3. ASSUME NEW o \in Operators, RecordGuardRollback(o), log' # log PROVE Exact
    <3> DEFINE e == [type |-> "rollback", cutover |-> op[o].event, ref |-> op[o].ref]
    <3>1. file = op[o].event.source /\ snapshot = op[o].event.source
      BY <1>1, <2>3 DEF RecordGuardRollback, At, AuthorityInv, Knows
    <3>2. log' = Append(log, e) /\ op[o].event = Latest
      BY <2>3 DEF RecordGuardRollback, Appends, IsLatest
    <3>3. log \in Seq(CutoverEvents \cup RollbackEvents)
      BY <1>1 DEF AuthorityInv, AuthorityTypeOK
    <3>4. log'[Len(log')] = e
      BY <3>2, <3>3
    <3> QED BY <3>1, <3>2, <3>4
  <2>4. log' = log \/ \E o \in Operators : RecordGuardCutover(o) \/ RecordGuardRollback(o)
    BY <1>1 DEF AuthorityNext, Transition, BeginImport, ApplyGuardImport, BeginShadow,
      RecordGuardShadowComparison, AllCompared, LockAuthority, LockLegacy, UnlockLegacy, UnlockAuthority,
      BeginCutover, VerifySource, WriteSnapshot, SealSnapshot, RecheckSource, BeginRollback,
      CompareSnapshot, RestoreFile, RecheckRestored, Crash, LegacyLocks, LegacyWrites, Preflight,
      KernelWrites, vars, store
  <2> QED BY <2>1, <2>2, <2>3, <2>4
<1>2. AuthorityInv /\ [AuthorityNext]_vars => [Exact]_vars
  BY <1>1
<1> QED BY <1>2, AuthorityInvariant, PTL DEF AuthoritySpec, TransitionsAreExact
=============================================================================
