--------------------------- MODULE GuardAuthority ---------------------------
(***************************************************************************)
(* Which guard a repository obeys: the legacy one, which keeps its state   *)
(* in a file, or this one, which keeps it in the store.  The migration     *)
(* commands (src/src/convergence-migration.mjs, the guard transactions of  *)
(* convergence-store.mjs) import the file, compare the two guards, cut     *)
(* over and roll back.                                                     *)
(*                                                                         *)
(* Each command is a process; a step is one transaction or one access to   *)
(* the file, the snapshot or a lock directory, and a process may die at    *)
(* any of them: its locks then stay, for nothing in the code removes them. *)
(* The legacy guard is another program.  All that is assumed of it is that *)
(* it writes its file under its own lock.                                  *)
(***************************************************************************)
EXTENDS Integers, Sequences, FiniteSets

CONSTANTS
    Operators,     \* processes running a migration command
    Versions,      \* contents of the legacy state file
    LiveVersions,  \* those with an unspent receipt
    LoopsIn,       \* LoopsIn[v]: the loops of v
    DecisionRefs,  \* digests of --decision-ref
    ParitySets,    \* sets of comparisons of the two guards on a source, matched or not
    Fields,        \* number of fields a parity set compares
    MaxTransitions,  \* bound on recorded cutovers and rollbacks
    None           \* no file, no lock holder

ASSUME AuthorityAssumption ==
    /\ None \notin Versions /\ "torn" \notin Versions
    /\ {None, "legacy", "orphan"} \cap Operators = {} /\ None # "legacy" /\ None # "torn"
    /\ ParitySets \subseteq [source : Versions, matched : BOOLEAN]
    /\ Fields \in Nat \ {0} /\ MaxTransitions \in Nat

VARIABLES
    file,      \* review-loop-state.json
    lock,      \* the two lock directories: a process, "legacy", "orphan" or None
    snapshot,  \* the cutover snapshot: None, "torn" (mode 0600) or what it was sealed with
    imported,  \* the sources of legacy_imported events
    loops,     \* fingerprints in convergence_loops
    compared,  \* compared[p]: shadow_compared events of parity set p
    log,       \* guard_cutover and guard_rollback events
    live,      \* a grant is active or a probe live in the lineage
    op,        \* op[o]: the migration command o
    agent      \* a guard command: "idle", or "admitted" by its preflight

store == <<imported, loops, compared, log, live>>
vars == <<file, lock, snapshot, store, op, agent>>

CutoverEvents == [type : {"cutover"}, source : Versions, ref : DecisionRefs]
RollbackEvents == [type : {"rollback"}, cutover : CutoverEvents, ref : DecisionRefs]

Locking == {"locking", "unlocking"}       \* the authority lock is held
Inside == {"verify", "snapshot", "seal", "recheck", "record",
           "compare", "restore", "restored", "record_rollback", "unlock"}   \* both are
Outside == {"idle", "import", "shadow", "transition"}

Command == [pc : Outside \cup Locking \cup Inside, source : Versions \cup {None},
            set : ParitySets \cup {None}, field : 1..Fields,
            event : CutoverEvents \cup {None}, ref : DecisionRefs \cup {None}]
Planned(pc, source, set, event, ref) ==
    [pc |-> pc, source |-> source, set |-> set, field |-> 1, event |-> event, ref |-> ref]
Idle == Planned("idle", None, None, None, None)
At(o, pc) == op[o].pc = pc
Goto(o, s) == op' = [op EXCEPT ![o] = s]
Continue(o, pc) == Goto(o, [op[o] EXCEPT !.pc = pc])

Latest == log[Len(log)]
CutOver == log # <<>> /\ Latest.type = "cutover"
\* inspectGuardRepository: a legacy file rules until it is cut over.
KernelRules == file = None \/ CutOver

AuthorityInit ==
    /\ file \in Versions \cup {None}
    /\ lock = [authority |-> None, legacy |-> None]
    /\ snapshot = None
    /\ imported = {} /\ loops = {} /\ live = FALSE
    /\ compared = [p \in ParitySets |-> 0]
    /\ log = <<>>
    /\ op = [o \in Operators |-> Idle]
    /\ agent = "idle"

----------------------------------------------------------------------------
(* import and shadow.  A command's plan is what it read from the file. *)

BeginImport(o) ==
    /\ At(o, "idle") /\ lock.authority = None /\ file # None
    /\ Goto(o, Planned("import", file, None, None, None))
    /\ UNCHANGED <<file, lock, snapshot, store, agent>>

\* The file is read again, and imported if it is still the same.  Loops are inserted
\* as they are: a second import with a loop the store has is refused as a whole.
ApplyGuardImport(o) ==
    LET s == op[o].source IN
    /\ At(o, "import")
    /\ IF file = s /\ s \notin imported /\ LoopsIn[s] \cap loops = {}
       THEN /\ imported' = imported \cup {s}
            /\ loops' = loops \cup LoopsIn[s]
            /\ live' = (live \/ s \in LiveVersions)
       ELSE UNCHANGED <<imported, loops, live>>
    /\ Goto(o, Idle)
    /\ UNCHANGED <<file, lock, snapshot, compared, log, agent>>

BeginShadow(o, p) ==
    /\ At(o, "idle") /\ lock.authority = None /\ p.source = file
    /\ Goto(o, Planned("shadow", file, p, None, None))
    /\ UNCHANGED <<file, lock, snapshot, store, agent>>

\* Mutant: one field too many.
AllCompared_OffByOne(n) == n > Fields
AllCompared(n) == n = Fields

\* One transaction per field; a field that is recorded is answered from the log.
RecordGuardShadowComparison(o) ==
    LET p == op[o].set  n == op[o].field IN
    /\ At(o, "shadow")
    /\ IF p.source \notin imported THEN Goto(o, Idle) /\ UNCHANGED compared
       ELSE /\ compared' = [compared EXCEPT ![p] = IF n > @ THEN n ELSE @]
            /\ Goto(o, IF AllCompared(n) THEN Idle ELSE [op[o] EXCEPT !.field = n + 1])
    /\ UNCHANGED <<file, lock, snapshot, imported, loops, log, live, agent>>

----------------------------------------------------------------------------
(* The locks of a transition: mkdir, or the command fails. *)

Release(o, l) == lock' = [lock EXCEPT ![l] = None]

LockAuthority(o) ==
    /\ At(o, "transition")
    /\ IF lock.authority # None THEN Goto(o, Idle) /\ UNCHANGED lock
       ELSE /\ lock' = [lock EXCEPT !.authority = o]
            /\ Continue(o, "locking")
    /\ UNCHANGED <<file, snapshot, store, agent>>

First(o) == IF op[o].event = None THEN "verify" ELSE "compare"

\* Mutant: the legacy guard's own lock is not taken.
LockLegacy_Skipped(o) ==
    /\ At(o, "locking")
    /\ Continue(o, First(o))
    /\ UNCHANGED <<file, lock, snapshot, store, agent>>

LockLegacy(o) ==
    /\ At(o, "locking")
    /\ IF lock.legacy # None THEN Continue(o, "unlocking") /\ UNCHANGED lock
       ELSE /\ lock' = [lock EXCEPT !.legacy = o]
            /\ Continue(o, First(o))
    /\ UNCHANGED <<file, snapshot, store, agent>>

UnlockLegacy(o) ==
    /\ At(o, "unlock")
    /\ Release(o, "legacy") /\ Continue(o, "unlocking")
    /\ UNCHANGED <<file, snapshot, store, agent>>

UnlockAuthority(o) ==
    /\ At(o, "unlocking")
    /\ Release(o, "authority") /\ Goto(o, Idle)
    /\ UNCHANGED <<file, snapshot, store, agent>>

----------------------------------------------------------------------------
(* cutover *)

BeginCutover(o, p, d) ==
    /\ At(o, "idle") /\ lock.authority = None /\ file # None
    /\ Goto(o, Planned("transition", file, p, None, d))
    /\ UNCHANGED <<file, lock, snapshot, store, agent>>

VerifySource(o) ==
    /\ At(o, "verify")
    /\ Continue(o, IF file = op[o].source /\ file \notin LiveVersions THEN "snapshot" ELSE "unlock")
    /\ UNCHANGED <<file, lock, snapshot, store, agent>>

\* Mutant: the snapshot of another cutover is written anew.
WriteSnapshot_Replaced(o) ==
    /\ At(o, "snapshot")
    /\ IF snapshot = op[o].source THEN Continue(o, "recheck") /\ UNCHANGED snapshot
       ELSE snapshot' = "torn" /\ Continue(o, "seal")
    /\ UNCHANGED <<file, lock, store, agent>>

\* A snapshot that is there has to be the sealed one of this source; the new one is
\* created, written and only then sealed.
WriteSnapshot(o) ==
    /\ At(o, "snapshot")
    /\ \/ /\ snapshot = None
          /\ snapshot' = "torn" /\ Continue(o, "seal")
       \/ /\ snapshot # None
          /\ Continue(o, IF snapshot = op[o].source THEN "recheck" ELSE "unlock")
          /\ UNCHANGED snapshot
    /\ UNCHANGED <<file, lock, store, agent>>

SealSnapshot(o) ==
    /\ At(o, "seal")
    /\ snapshot' = op[o].source /\ Continue(o, "recheck")
    /\ UNCHANGED <<file, lock, store, agent>>

RecheckSource(o) ==
    /\ At(o, "recheck")
    /\ Continue(o, IF file = op[o].source /\ snapshot = op[o].source THEN "record" ELSE "unlock")
    /\ UNCHANGED <<file, lock, snapshot, store, agent>>

ParityHolds(p, s) == p.source = s /\ p.matched /\ compared[p] = Fields

\* An event uid that is known is answered, or refused, from the log.
Appends(e) == log' = IF e \in {log[i] : i \in 1..Len(log)} THEN log ELSE Append(log, e)

RecordGuardCutover(o) ==
    LET s == op[o].source
        e == [type |-> "cutover", source |-> s, ref |-> op[o].ref]
        legal == s \in imported /\ ~CutOver /\ ParityHolds(op[o].set, s) /\ ~live
    IN
    /\ At(o, "record")
    /\ legal => Len(log) < MaxTransitions
    /\ IF legal THEN Appends(e) ELSE UNCHANGED log
    /\ Continue(o, "unlock")
    /\ UNCHANGED <<file, lock, snapshot, imported, loops, compared, live, agent>>

----------------------------------------------------------------------------
(* rollback *)

\* The authority is read before the locks are taken.
BeginRollback(o, d) ==
    /\ At(o, "idle") /\ lock.authority = None /\ CutOver
    /\ Goto(o, Planned("transition", Latest.source, None, Latest, d))
    /\ UNCHANGED <<file, lock, snapshot, store, agent>>

CompareSnapshot(o) ==
    LET s == op[o].source IN
    /\ At(o, "compare")
    /\ Continue(o, IF snapshot # s \/ file = None THEN "unlock"
                   ELSE IF file = s THEN "restored" ELSE "restore")
    /\ UNCHANGED <<file, lock, snapshot, store, agent>>

\* The file is replaced by rename().
RestoreFile(o) ==
    /\ At(o, "restore")
    /\ file' = op[o].source /\ Continue(o, "restored")
    /\ UNCHANGED <<lock, snapshot, store, agent>>

RecheckRestored(o) ==
    /\ At(o, "restored")
    /\ Continue(o, IF file = op[o].source THEN "record_rollback" ELSE "unlock")
    /\ UNCHANGED <<file, lock, snapshot, store, agent>>

IsLatest(e) == CutOver /\ Latest = e

RecordGuardRollback(o) ==
    LET c == op[o].event
        e == [type |-> "rollback", cutover |-> c, ref |-> op[o].ref]
    IN
    /\ At(o, "record_rollback")
    /\ IsLatest(c) => Len(log) < MaxTransitions
    /\ IF IsLatest(c) THEN Appends(e) ELSE UNCHANGED log
    /\ Continue(o, "unlock")
    /\ UNCHANGED <<file, lock, snapshot, imported, loops, compared, live, agent>>

----------------------------------------------------------------------------

Crash(o) ==
    /\ ~At(o, "idle")
    /\ lock' = [l \in DOMAIN lock |-> IF lock[l] = o THEN "orphan" ELSE lock[l]]
    /\ Goto(o, Idle)
    /\ UNCHANGED <<file, snapshot, store, agent>>

\* The legacy guard.
LegacyLocks ==
    /\ lock.legacy = None
    /\ lock' = [lock EXCEPT !.legacy = "legacy"]
    /\ UNCHANGED <<file, snapshot, store, op, agent>>

LegacyWrites ==
    /\ lock.legacy = "legacy"
    /\ file' \in Versions
    /\ lock' = [lock EXCEPT !.legacy = None]
    /\ UNCHANGED <<snapshot, store, op, agent>>

\* A guard command is admitted by its preflight and writes some time later.
Preflight ==
    /\ agent = "idle" /\ lock.authority = None /\ KernelRules
    /\ agent' = "admitted"
    /\ UNCHANGED <<file, lock, snapshot, store, op>>

KernelWrites ==
    /\ agent = "admitted"
    /\ live' \in BOOLEAN
    /\ \E v \in Versions : loops' \in {loops, loops \cup LoopsIn[v]}
    /\ agent' = "idle"
    /\ UNCHANGED <<file, lock, snapshot, imported, compared, log, op>>

Transition(o) ==
    \/ LockAuthority(o) \/ LockLegacy(o) \/ UnlockLegacy(o) \/ UnlockAuthority(o)
    \/ \E p \in ParitySets, d \in DecisionRefs : BeginCutover(o, p, d)
    \/ VerifySource(o) \/ WriteSnapshot(o) \/ SealSnapshot(o) \/ RecheckSource(o)
    \/ RecordGuardCutover(o)
    \/ \E d \in DecisionRefs : BeginRollback(o, d)
    \/ CompareSnapshot(o) \/ RestoreFile(o) \/ RecheckRestored(o) \/ RecordGuardRollback(o)

AuthorityNext ==
    \/ \E o \in Operators :
          \/ BeginImport(o) \/ ApplyGuardImport(o)
          \/ \E p \in ParitySets : BeginShadow(o, p)
          \/ RecordGuardShadowComparison(o)
          \/ Transition(o) \/ Crash(o)
    \/ LegacyLocks \/ LegacyWrites \/ Preflight \/ KernelWrites

AuthoritySpec == AuthorityInit /\ [][AuthorityNext]_vars

----------------------------------------------------------------------------
(* Properties. *)

AuthorityTypeOK ==
    /\ file \in Versions \cup {None}
    /\ lock \in [{"authority", "legacy"} -> Operators \cup {"legacy", "orphan", None}]
    /\ snapshot \in Versions \cup {"torn", None}
    /\ imported \subseteq Versions
    /\ compared \in [ParitySets -> 0..Fields]
    /\ log \in Seq(CutoverEvents \cup RollbackEvents)
    /\ live \in BOOLEAN /\ agent \in {"idle", "admitted"}
    /\ op \in [Operators -> Command]

\* A transition is exact, whoever else is at work: what is cut over is what the
\* legacy guard wrote last and what the snapshot holds, and a rollback leaves the
\* file as it was at that cutover (the "exact rollback" of templates/rules).
TransitionsAreExact ==
    [][log' # log =>
          LET e == log'[Len(log')]
              s == IF e.type = "cutover" THEN e.source ELSE e.cutover.source
          IN  file = s /\ snapshot = s /\ (e.type = "rollback" => e.cutover = Latest)]_vars

\* While this guard rules an imported repository the way back is there: no crash, no
\* refused transition and no later cutover damages the snapshot.
RollbackStaysPossible == CutOver => snapshot = Latest.source

\* A rollback is for a repository that is cut over (guard_not_cut_over of
\* rollbackGuardCutover): at no other time is the legacy guard's file replaced.
RestoreNeedsCutover ==
    [][\A o \in Operators : At(o, "restore") /\ op'[o].pc = "restored" => CutOver]_vars
=============================================================================
