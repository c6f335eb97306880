----------------------- MODULE IdentityImporterProofs -----------------------
(***************************************************************************)
(* Theorems about IdentityImporter, for every set of files, revisions,     *)
(* bundles and processes and every number of faults and edits.             *)
(***************************************************************************)
EXTENDS IdentityImporter, TLAPS

-----------------------------------------------------------------------------
(* The inductive invariant.  Between the lock and its release the importer *)
(* relates what it has written so far to its journal, pc by pc.            *)

Pending(op) == journal # None /\ journal.op = op /\ journal.rev = task.rev

StateIsNew ==
  /\ state # None /\ state.rev = task.rev /\ state.restart = TRUE
  /\ InstalledMatches(task.rev)

\* apply_bundle, between its journal and its commit.
ApplyInv ==
  /\ pc \in {"mkdir", "payload", "metadata", "phase_complete", "phase_installing",
             "install", "write_state", "phase_state", "verify"} => Pending("apply")
  /\ pc \in {"mkdir", "payload", "metadata", "phase_complete"} =>
       journal.phase = "backup_pending"
  /\ pc = "phase_installing" => journal.phase # "backup_pending" /\ Untouched(journal)
  /\ pc \in {"install", "write_state", "phase_state", "verify"} =>
       journal.phase # "backup_pending"
  /\ pc = "payload" =>
       /\ backup[task.rev] # None /\ backup[task.rev].meta = None
       /\ backup[task.rev].saved =
            [f \in Files |-> IF f \in todo THEN None ELSE journal.base[f]]
  /\ pc = "metadata" =>
       backup[task.rev] # None /\ backup[task.rev].saved = journal.base
  /\ pc = "phase_complete" =>
       /\ Complete(backup[task.rev])
       /\ backup[task.rev].meta.prev = journal.prev
       /\ backup[task.rev].meta.base = journal.base
  /\ pc \in {"phase_installing", "install", "write_state", "phase_state", "verify"} =>
       BackupHolds(journal)
  /\ pc = "install" =>
       /\ todo \subseteq Covered(task.rev)
       /\ \A f \in Covered(task.rev) \ todo : files[f] = Payload[task.rev][f]
  /\ pc = "write_state" => InstalledMatches(task.rev)
  /\ pc \in {"phase_state", "verify"} => StateIsNew

\* rollback_bundle, between its journal and its commit.
RollbackInv ==
  /\ pc \in {"phase_restoring", "rb_files", "rb_state", "phase_rb_state", "rb_verify"} =>
       Pending("rollback")
  /\ pc = "rb_files" =>
       /\ todo \subseteq Covered(task.rev)
       /\ \A f \in Covered(task.rev) \ todo : files[f] = journal.base[f]
  /\ pc = "rb_state" => BaselineMatches(journal.rev, journal.base)
  /\ pc \in {"phase_rb_state", "rb_verify"} => Untouched(journal)

\* _recover_pending, once it has decided what to do.
RecoveryInv ==
  /\ pc \in {"restore", "restore_state", "check"} =>
       /\ journal # None /\ BackupHolds(journal)
       /\ ~(journal.op = "apply" /\ journal.phase = "backup_pending")
  /\ pc = "restore" =>
       /\ todo \subseteq Covered(journal.rev)
       /\ \A f \in Covered(journal.rev) \ todo : files[f] = journal.base[f]
  /\ pc = "restore_state" => BaselineMatches(journal.rev, journal.base)
  /\ pc = "rmtree" => journal # None /\ journal.op = "apply" /\ Untouched(journal)
  /\ pc = "unlink" =>
       /\ journal # None /\ Untouched(journal)
       /\ journal.op = "apply" => backup[journal.rev] = None

\* The journal, wherever the importer is (or if there is none).
JournalInv ==
  /\ PendingIsRecoverable
  /\ journal # None =>
       /\ \A f \in Files \ Covered(journal.rev) : journal.base[f] = None
       /\ journal.op = "rollback" => BackupHolds(journal)
       /\ journal.op = "apply" /\ journal.phase = "backup_pending" => Untouched(journal)
       /\ journal.op = "apply" => ~(journal.prev # None /\ journal.prev.rev = journal.rev)
  /\ pc \in {"body", "synced"} => journal = None

\* Backup metadata records nothing outside its bundle.
BackupInv ==
  \A r \in Revs : backup[r] # None /\ backup[r].meta # None =>
    \A f \in Files \ Covered(r) : backup[r].meta.base[f] = None

IInv ==
  /\ TypeOK
  /\ pc # "idle" => task # None
  /\ ApplyInv /\ RollbackInv /\ RecoveryInv /\ JournalInv /\ BackupInv

-----------------------------------------------------------------------------
(* Typing of the records the actions build.                                *)

LEMMA CapturedType ==
  ASSUME TypeOK, NEW r \in Revs
  PROVE  Captured(r) \in Baseline
  BY DEF TypeOK, Captured, Baseline, Slot

LEMMA EmptyDirType == EmptyDir \in BackupRec
  BY DEF EmptyDir, BackupRec, Baseline, Slot

LEMMA InitInv == Init => IInv
  <1> SUFFICES ASSUME Init PROVE IInv
    OBVIOUS
  <1>1. TypeOK
    BY FactoryAssumption DEF Init, TypeOK, Pcs
  <1>2. BackupInv
    BY DEF Init, BackupInv
  <1>3. QED
    BY <1>1, <1>2 DEF Init, IInv, ApplyInv, RollbackInv, RecoveryInv, JournalInv,
       PendingIsRecoverable

-----------------------------------------------------------------------------
(* Every step preserves the invariant.                                     *)

LEMMA RequestInv ==
  ASSUME IInv, NEW p \in Procs, Start(p) \/ Acquire(p) \/ Busy(p)
  PROVE  IInv'
  <1>1. CASE Start(p)
    BY <1>1 DEF Start, RequestApply, RequestMark, RequestRollback, Ask, IInv, TypeOK,
       TaskRec, device, locals, Complete, ApplyInv, RollbackInv, RecoveryInv, JournalInv,
       BackupInv, Pending, Untouched, BackupHolds, BaselineMatches, StateIsNew,
       InstalledMatches, BackupMatchesJournal, PendingIsRecoverable
  <1>2. CASE Acquire(p)
    BY <1>2, NoneAssumption DEF Acquire, IInv, TypeOK, device, Complete, Pcs, RecoveryPcs,
       ApplyInv, RollbackInv, RecoveryInv, JournalInv, BackupInv, Untouched, BackupHolds,
       BaselineMatches, BackupMatchesJournal, PendingIsRecoverable
  <1>3. CASE Busy(p)
    BY <1>3 DEF Busy, IInv, TypeOK, device, locals, Complete, ApplyInv, RollbackInv,
       RecoveryInv, JournalInv, BackupInv, Pending, Untouched, BackupHolds, BaselineMatches,
       StateIsNew, InstalledMatches, BackupMatchesJournal, PendingIsRecoverable
  <1>4. QED
    BY <1>1, <1>2, <1>3

LEMMA RecoverDecideInv ==
  ASSUME IInv, RecoverDecide
  PROVE  IInv'
  <1>1. TypeOK'
    BY NoneAssumption DEF RecoverDecide, TypeOK, RecoveryInv, Pcs, TryPcs, RecoveryPcs,
       Recovered, Covered, IInv, Untouched, BackupHolds, Complete, BackupMatchesJournal,
       BaselineMatches, device, world, Release, Goto
  <1>2. (pc # "idle" => task # None)'
    BY DEF RecoverDecide, Recovered, IInv, Release, Goto
  <1>3. ApplyInv'
    BY DEF RecoverDecide, ApplyInv, Recovered, Release, Goto
  <1>4. RollbackInv'
    BY DEF RecoverDecide, RollbackInv, Recovered, Release, Goto
  <1>5. RecoveryInv'
    BY DEF RecoverDecide, RecoveryInv, Recovered, Untouched, BackupHolds, BaselineMatches,
       device, Release, Goto
  <1>6. JournalInv'
    BY DEF RecoverDecide, JournalInv, IInv, Untouched, BackupHolds, BaselineMatches,
       PendingIsRecoverable, device, Release, Goto
  <1>7. BackupInv'
    BY DEF RecoverDecide, BackupInv, IInv, device
  <1>8. QED
    BY <1>1, <1>2, <1>3, <1>4, <1>5, <1>6, <1>7 DEF IInv

LEMMA RecoverFileInv ==
  ASSUME IInv, RecoverFile
  PROVE  IInv'
  <1>1. TypeOK'
    BY DEF RecoverFile, TypeOK, RecoveryInv, Pcs, RecoveryPcs, JournalRec, Baseline,
       RestoreFile, IInv, world, Goto
  <1>2. (pc # "idle" => task # None)'
    BY DEF RecoverFile, RestoreFile, IInv, Goto
  <1>3. ApplyInv'
    BY DEF RecoverFile, ApplyInv, RestoreFile, Goto
  <1>4. RollbackInv'
    BY DEF RecoverFile, RollbackInv, RestoreFile, Goto
  <1>5. RecoveryInv'
    BY DEF RecoverFile, TypeOK, RecoveryInv, RestoreFile, Covered, IInv, BackupHolds,
       BaselineMatches, Goto
  <1>6. JournalInv'
    BY DEF RecoverFile, TypeOK, JournalInv, RestoreFile, Covered, IInv, Untouched,
       BackupHolds, BaselineMatches, PendingIsRecoverable, Goto
  <1>7. BackupInv'
    BY DEF RecoverFile, BackupInv, RestoreFile, IInv
  <1>8. QED
    BY <1>1, <1>2, <1>3, <1>4, <1>5, <1>6, <1>7 DEF IInv

LEMMA RecoverStateInv ==
  ASSUME IInv, RecoverState
  PROVE  IInv'
  <1>1. TypeOK'
    BY DEF RecoverState, TypeOK, RecoveryInv, Pcs, RecoveryPcs, JournalRec, RestoreState,
       IInv, world, Goto
  <1>2. (pc # "idle" => task # None)'
    BY DEF RecoverState, RestoreState, IInv, Goto
  <1>3. ApplyInv'
    BY DEF RecoverState, ApplyInv, RestoreState, Goto
  <1>4. RollbackInv'
    BY DEF RecoverState, RollbackInv, RestoreState, Goto
  <1>5. RecoveryInv'
    BY DEF RecoverState, RecoveryInv, RestoreState, IInv, BackupHolds, Goto
  <1>6. JournalInv'
    BY DEF RecoverState, JournalInv, RestoreState, IInv, Untouched, BackupHolds,
       BaselineMatches, PendingIsRecoverable, Goto
  <1>7. BackupInv'
    BY DEF RecoverState, BackupInv, RestoreState, IInv
  <1>8. QED
    BY <1>1, <1>2, <1>3, <1>4, <1>5, <1>6, <1>7 DEF IInv

LEMMA RecoverCheckInv ==
  ASSUME IInv, RecoverCheck
  PROVE  IInv'
  <1>1. TypeOK'
    BY NoneAssumption DEF RecoverCheck, TypeOK, RecoveryInv, Pcs, TryPcs, RecoveryPcs, IInv,
       Untouched, BackupHolds, BaselineMatches, device, world, Release, Goto
  <1>2. (pc # "idle" => task # None)'
    BY DEF RecoverCheck, IInv, Release, Goto
  <1>3. ApplyInv'
    BY DEF RecoverCheck, ApplyInv, Release, Goto
  <1>4. RollbackInv'
    BY DEF RecoverCheck, RollbackInv, Release, Goto
  <1>5. RecoveryInv'
    BY DEF RecoverCheck, RecoveryInv, IInv, Untouched, BaselineMatches, device, Release,
       Goto
  <1>6. JournalInv'
    BY DEF RecoverCheck, JournalInv, IInv, Untouched, BackupHolds, BaselineMatches,
       PendingIsRecoverable, device, Release, Goto
  <1>7. BackupInv'
    BY DEF RecoverCheck, BackupInv, IInv, device
  <1>8. QED
    BY <1>1, <1>2, <1>3, <1>4, <1>5, <1>6, <1>7 DEF IInv

LEMMA RecoverRmtreeInv ==
  ASSUME IInv, RecoverRmtree
  PROVE  IInv'
  <1>1. TypeOK'
    <2> DEFINE r == journal.rev
    <2>1. r \in Revs /\ journal # None
      BY DEF RecoverRmtree, TypeOK, RecoveryInv, JournalRec, IInv
    <2>2. backup' \in [Revs -> BackupRec \cup {None}]
      <3>1. ASSUME NEW f \in Files, backup[r] # None, backup' = [backup EXCEPT ![r].saved[f] = None]
            PROVE  backup' \in [Revs -> BackupRec \cup {None}]
        <4>1. backup[r] \in BackupRec
          BY <2>1, <3>1 DEF TypeOK, IInv
        <4>2. [backup[r] EXCEPT !.saved = [backup[r].saved EXCEPT ![f] = None]] \in BackupRec
          BY <4>1 DEF BackupRec, Baseline, Slot
        <4>3. QED
          BY <2>1, <3>1, <4>2 DEF TypeOK, IInv
      <3>2. ASSUME backup[r] # None, backup' = [backup EXCEPT ![r].meta = None]
            PROVE  backup' \in [Revs -> BackupRec \cup {None}]
        <4>1. backup[r] \in BackupRec
          BY <2>1, <3>2 DEF TypeOK, IInv
        <4>2. [backup[r] EXCEPT !.meta = None] \in BackupRec
          BY <4>1 DEF BackupRec
        <4>3. QED
          BY <2>1, <3>2, <4>2 DEF TypeOK, IInv
      <3>3. ASSUME backup' = [backup EXCEPT ![r] = None]
            PROVE  backup' \in [Revs -> BackupRec \cup {None}]
        BY <2>1, <3>3 DEF TypeOK, IInv
      <3>4. QED
        BY <3>1, <3>2, <3>3, NoneAssumption DEF RecoverRmtree, IInv, Untouched, BackupHolds,
           world, locals, Goto
    <2>3. QED
      BY <2>2 DEF RecoverRmtree, TypeOK, Pcs, RecoveryPcs, IInv, world, locals, Goto
  <1>2. (pc # "idle" => task # None)'
    BY DEF RecoverRmtree, IInv, locals, Goto
  <1>3. ApplyInv'
    BY DEF RecoverRmtree, ApplyInv, locals, Goto
  <1>4. RollbackInv'
    BY DEF RecoverRmtree, RollbackInv, locals, Goto
  <1>5. RecoveryInv'
    BY DEF RecoverRmtree, TypeOK, RecoveryInv, JournalRec, IInv, Untouched, BaselineMatches,
       locals, Goto
  <1>6. JournalInv'
    BY DEF RecoverRmtree, JournalInv, IInv, world, locals, EmptyDir, Goto,
       PendingIsRecoverable, Covered, BackupHolds, Untouched, Complete,
       BackupMatchesJournal, BaselineMatches, TypeOK, RecoveryInv
  <1>7. BackupInv'
    <2> SUFFICES ASSUME NEW q \in Revs, backup'[q] # None, backup'[q].meta # None
                 PROVE  backup[q] # None /\ backup'[q].meta = backup[q].meta
      BY DEF BackupInv, IInv
    <2>1. backup \in [Revs -> BackupRec \cup {None}] /\ journal.rev \in Revs
      BY DEF RecoverRmtree, TypeOK, RecoveryInv, JournalRec, IInv
    <2>2. CASE q # journal.rev
      BY <2>1, <2>2, NoneAssumption DEF RecoverRmtree, IInv, Untouched, BackupHolds, world,
         locals, Goto
    <2>3. CASE q = journal.rev
      <3>1. ASSUME NEW f \in Files, backup[q] # None, backup' = [backup EXCEPT ![q].saved[f] = None]
            PROVE  backup'[q].meta = backup[q].meta
        BY <2>1, <3>1 DEF IInv
      <3>2. ASSUME backup[q] # None, backup' = [backup EXCEPT ![q].meta = None]
            PROVE  FALSE
        BY <2>1, <3>2 DEF IInv
      <3>3. ASSUME backup' = [backup EXCEPT ![q] = None]
            PROVE  FALSE
        BY <2>1, <3>3 DEF IInv
      <3>4. QED
        BY <2>3, <3>1, <3>2, <3>3, NoneAssumption DEF RecoverRmtree, IInv, Untouched,
           BackupHolds, world, locals, Goto
    <2>4. QED
      BY <2>2, <2>3
  <1>8. QED
    BY <1>1, <1>2, <1>3, <1>4, <1>5, <1>6, <1>7 DEF IInv

LEMMA RecoverUnlinkInv ==
  ASSUME IInv, RecoverUnlink
  PROVE  IInv'
  <1>1. TypeOK'
    BY NoneAssumption DEF RecoverUnlink, TypeOK, RecoveryInv, Pcs, TryPcs, RecoveryPcs,
       Recovered, IInv, Untouched, BackupHolds, world, Release, Goto
  <1>2. (pc # "idle" => task # None)'
    BY DEF RecoverUnlink, Recovered, IInv, Release, Goto
  <1>3. ApplyInv'
    BY DEF RecoverUnlink, ApplyInv, Recovered, Release, Goto
  <1>4. RollbackInv'
    BY DEF RecoverUnlink, RollbackInv, Recovered, Release, Goto
  <1>5. RecoveryInv'
    BY DEF RecoverUnlink, RecoveryInv, Recovered, Release, Goto
  <1>6. JournalInv'
    BY DEF RecoverUnlink, JournalInv, PendingIsRecoverable
  <1>7. BackupInv'
    BY DEF RecoverUnlink, BackupInv, IInv
  <1>8. QED
    BY <1>1, <1>2, <1>3, <1>4, <1>5, <1>6, <1>7 DEF IInv

LEMMA ApplyBeginInv ==
  ASSUME IInv, ApplyBegin
  PROVE  IInv'
  <1>0. pc' # "idle" => journal' \in JournalRec
    <2>1. task \in TaskRec /\ task.rev \in Revs
      BY DEF ApplyBegin, TypeOK, TaskRec, IInv
    <2>2. Captured(task.rev) \in Baseline
      BY <2>1, CapturedType DEF IInv
    <2>3. \A d \in MetaRec \cup {None}, ph \in ApplyPhases :
            ApplyJournal(task.rev, ph, d) \in JournalRec
      BY <2>1, <2>2 DEF TypeOK, ApplyJournal, JournalRec, IInv
    <2>4. Complete(backup[task.rev]) => backup[task.rev].meta \in MetaRec
      BY <2>1 DEF TypeOK, BackupRec, IInv, Complete
    <2>5. QED
      BY <2>3, <2>4 DEF ApplyBegin, ApplyPhases, Release, Goto
  <1>1. TypeOK'
    BY <1>0, NoneAssumption DEF ApplyBegin, TypeOK, Pcs, TryPcs, IInv, Complete, world,
       Release, Goto
  <1>2. (pc # "idle" => task # None)'
    BY DEF ApplyBegin, IInv, Release, Goto
  <1>3. ApplyInv'
    <2>1. CASE pc' = "idle"
      BY <2>1 DEF ApplyInv
    <2>2. CASE pc' = "mkdir"
      BY <1>0, <2>2, NoneAssumption DEF ApplyBegin, ApplyInv, ApplyJournal, Pending, Complete,
         Release, Goto
    <2>3. CASE pc' = "phase_installing"
      <3>1. journal' = ApplyJournal(task.rev, "backup_complete", backup[task.rev].meta)
        BY <2>3 DEF ApplyBegin, Release, Goto
      <3>2. journal' # None
        BY <1>0, <2>3, NoneAssumption
      <3>3. Pending("apply")' /\ journal'.phase # "backup_pending"
        BY <2>3, <3>1, <3>2 DEF ApplyBegin, ApplyJournal, Pending, Release, Goto
      <3>4. Untouched(journal)'
        BY <2>3, <3>1 DEF ApplyBegin, ApplyJournal, Untouched, BaselineMatches, Captured,
           Covered, IInv, TypeOK, TaskRec
      <3>5. BackupHolds(journal)'
        BY <2>3, <3>1 DEF ApplyBegin, ApplyJournal, BackupHolds, BackupMatchesJournal,
           BaselineMatches, Complete, Captured, Release, Goto
      <3>6. QED
        BY <2>3, <3>3, <3>4, <3>5 DEF ApplyInv
    <2>4. QED
      BY <2>1, <2>2, <2>3 DEF ApplyBegin, Release, Goto
  <1>4. RollbackInv'
    BY DEF ApplyBegin, RollbackInv, IInv, Complete, Captured, Release, ApplyJournal, Goto,
       world
  <1>5. RecoveryInv'
    BY DEF ApplyBegin, RecoveryInv, IInv, Complete, Captured, Release, ApplyJournal, Goto,
       world
  <1>6. JournalInv'
    BY DEF ApplyBegin, JournalInv, IInv, Complete, Captured, Release, ApplyJournal, Goto,
       world, PendingIsRecoverable, Covered, BackupHolds, Untouched, BackupMatchesJournal,
       BaselineMatches
  <1>7. BackupInv'
    BY DEF ApplyBegin, BackupInv, IInv, Complete, Captured, Release, ApplyJournal, Goto,
       world
  <1>8. QED
    BY <1>1, <1>2, <1>3, <1>4, <1>5, <1>6, <1>7 DEF IInv

LEMMA BackupMkdirInv ==
  ASSUME IInv, BackupMkdir
  PROVE  IInv'
  <1>1. TypeOK'
    BY NoneAssumption DEF BackupMkdir, TypeOK, ApplyInv, Pcs, TryPcs, RecoveryPcs,
       JournalRec, ApplyPhases, RollbackPhases, MetaRec, BackupRec, TaskRec, StateRec,
       Baseline, Slot, Covered, EmptyDir, IInv, Pending, Untouched, BackupHolds, world
  <1>2. (pc # "idle" => task # None)'
    BY DEF BackupMkdir, IInv, EmptyDir, world
  <1>3. ApplyInv'
    BY NoneAssumption DEF BackupMkdir, TypeOK, ApplyInv, JournalInv, JournalRec,
       ApplyPhases, RollbackPhases, MetaRec, BackupRec, StateRec, Baseline, Slot, Covered,
       EmptyDir, IInv, Pending, Untouched, BackupHolds, StateIsNew, Complete,
       BackupMatchesJournal, BaselineMatches, InstalledMatches, PendingIsRecoverable, world
  <1>4. RollbackInv'
    BY DEF BackupMkdir, RollbackInv, IInv, EmptyDir, world
  <1>5. RecoveryInv'
    BY DEF BackupMkdir, RecoveryInv, IInv, EmptyDir, world
  <1>6. JournalInv'
    BY DEF BackupMkdir, JournalInv, IInv, EmptyDir, world, PendingIsRecoverable, Covered,
       BackupHolds, Untouched, Complete, BackupMatchesJournal, BaselineMatches, TypeOK,
       ApplyInv, Pending
  <1>7. BackupInv'
    BY DEF BackupMkdir, BackupInv, IInv, EmptyDir, world
  <1>8. QED
    BY <1>1, <1>2, <1>3, <1>4, <1>5, <1>6, <1>7 DEF IInv

LEMMA BackupPayloadInv ==
  ASSUME IInv, BackupPayload
  PROVE  IInv'
  <1>1. TypeOK'
    <2>1. task.rev \in Revs /\ journal.base \in Baseline /\ backup[task.rev] \in BackupRec
      BY NoneAssumption DEF BackupPayload, TypeOK, ApplyInv, TaskRec, JournalRec, IInv,
         Pending, Untouched, BackupHolds, world
    <2>2. ASSUME NEW f \in Files, backup' = [backup EXCEPT ![task.rev].saved[f] = files[f]]
          PROVE  backup' \in [Revs -> BackupRec \cup {None}]
      <3>1. [backup[task.rev] EXCEPT !.saved = [backup[task.rev].saved EXCEPT ![f] = files[f]]]
              \in BackupRec
        BY <2>1 DEF TypeOK, BackupRec, Baseline, IInv
      <3>2. QED
        BY <2>1, <2>2, <3>1 DEF TypeOK, IInv
    <2>3. backup' \in [Revs -> BackupRec \cup {None}]
      BY <2>2, NoneAssumption DEF BackupPayload, TypeOK, IInv, Pending, Untouched,
         BackupHolds, world
    <2>4. QED
      BY <2>3, NoneAssumption DEF BackupPayload, TypeOK, Pcs, TryPcs, RecoveryPcs, IInv,
         Pending, Untouched, BackupHolds, world
  <1>2. (pc # "idle" => task # None)'
    BY DEF BackupPayload, IInv, world
  <1>3. ApplyInv'
    <2>1. /\ task.rev \in Revs /\ journal.base \in Baseline
          /\ backup[task.rev] \in BackupRec /\ todo \subseteq Files
      BY NoneAssumption DEF BackupPayload, TypeOK, ApplyInv, JournalRec, IInv, Pending,
         Untouched, BackupHolds, StateIsNew, Complete, BackupMatchesJournal,
         BaselineMatches, InstalledMatches, PendingIsRecoverable, world
    <2>2. ASSUME NEW f \in todo, files[f] = journal.base[f],
                 backup' = [backup EXCEPT ![task.rev].saved[f] = files[f]],
                 todo' = todo \ {f}, pc' = pc
          PROVE  ApplyInv'
      <3>1. /\ backup'[task.rev] # None /\ backup'[task.rev].meta = None
            /\ backup'[task.rev].saved = [backup[task.rev].saved EXCEPT ![f] = files[f]]
        <4>1. /\ backup[task.rev] # None /\ backup[task.rev].meta = None
          BY DEF BackupPayload, ApplyInv, IInv
        <4>2. backup'[task.rev] = [backup[task.rev] EXCEPT !.saved[f] = files[f]]
          BY <2>1, <2>2 DEF TypeOK, IInv
        <4>3. backup'[task.rev] \in BackupRec
          BY <1>1, <2>1, <4>2 DEF BackupRec, Baseline, TypeOK, IInv
        <4>4. QED
          BY <2>1, <4>1, <4>2, <4>3, NoneAssumption DEF BackupRec, IInv, Pending, Untouched,
             BackupHolds, StateIsNew, Complete, BackupMatchesJournal, BaselineMatches,
             InstalledMatches, PendingIsRecoverable, device, world, locals, Release, Goto,
             WritePhase
      <3>2. backup'[task.rev].saved =
              [g \in Files |-> IF g \in todo' THEN None ELSE journal.base[g]]
        BY <2>1, <2>2, <3>1 DEF BackupPayload, ApplyInv, IInv
      <3>3. QED
        BY <2>2, <3>1, <3>2, NoneAssumption DEF BackupPayload, ApplyInv, IInv, Pending,
           Untouched, BackupHolds, StateIsNew, Complete, BackupMatchesJournal,
           BaselineMatches, InstalledMatches, world
    <2>3. CASE pc' = "recover"
      BY <2>3 DEF BackupPayload, ApplyInv, IInv
    <2>4. ASSUME todo = {}, pc' = "metadata", backup' = backup
          PROVE  ApplyInv'
      BY <2>1, <2>4, NoneAssumption DEF BackupPayload, ApplyInv, Baseline, IInv, Pending,
         Untouched, BackupHolds, StateIsNew, Complete, BackupMatchesJournal,
         BaselineMatches, InstalledMatches, PendingIsRecoverable, world
    <2>5. QED
      BY <2>2, <2>3, <2>4, NoneAssumption DEF BackupPayload, IInv, Pending, Untouched,
         BackupHolds, StateIsNew, Complete, BackupMatchesJournal, BaselineMatches,
         InstalledMatches, world
  <1>4. RollbackInv'
    BY NoneAssumption DEF BackupPayload, TypeOK, ApplyInv, RollbackInv, Covered, IInv,
       Pending, Untouched, BackupHolds, BaselineMatches, world
  <1>5. RecoveryInv'
    BY NoneAssumption DEF BackupPayload, TypeOK, ApplyInv, RecoveryInv, Covered, IInv,
       Pending, Untouched, BackupHolds, Complete, BackupMatchesJournal, BaselineMatches,
       world
  <1>6. JournalInv'
    BY NoneAssumption DEF BackupPayload, TypeOK, ApplyInv, JournalInv, Covered, IInv,
       Pending, Untouched, BackupHolds, Complete, BackupMatchesJournal, BaselineMatches,
       PendingIsRecoverable, world
  <1>7. BackupInv'
    <2>1. task.rev \in Revs /\ backup[task.rev] \in BackupRec /\ backup[task.rev].meta = None
      BY DEF BackupPayload, TypeOK, ApplyInv, TaskRec, IInv
    <2>2. ASSUME NEW q \in Revs, NEW f \in Files,
                 backup' = [backup EXCEPT ![task.rev].saved[f] = files[f]]
          PROVE  /\ q = task.rev => backup'[q].meta = None
                 /\ q # task.rev => backup'[q] = backup[q]
      BY <2>1, <2>2 DEF TypeOK, IInv
    <2>3. CASE backup' = backup
      BY <2>3 DEF BackupInv, IInv
    <2>4. ASSUME NEW f \in todo, backup' = [backup EXCEPT ![task.rev].saved[f] = files[f]]
          PROVE  BackupInv'
      <3>1. f \in Files
        BY DEF TypeOK, IInv
      <3>2. \A q \in Revs : /\ q = task.rev => backup'[q].meta = None
                            /\ q # task.rev => backup'[q] = backup[q]
        BY <2>2, <2>4, <3>1, NoneAssumption DEF IInv, Pending, Untouched, BackupHolds,
           StateIsNew, Complete, BackupMatchesJournal, BaselineMatches, InstalledMatches,
           PendingIsRecoverable, device, world, locals, Release, Goto, WritePhase
      <3>3. QED
        BY <3>2 DEF BackupInv, IInv
    <2>5. QED
      BY <2>3, <2>4, NoneAssumption DEF BackupPayload, IInv, Pending, Untouched,
         BackupHolds, world
  <1>8. QED
    BY <1>1, <1>2, <1>3, <1>4, <1>5, <1>6, <1>7 DEF IInv

LEMMA BackupMetadataInv ==
  ASSUME IInv, BackupMetadata
  PROVE  IInv'
  <1>1. TypeOK'
    BY NoneAssumption DEF BackupMetadata, TypeOK, ApplyInv, Pcs, TryPcs, RecoveryPcs,
       JournalRec, ApplyPhases, RollbackPhases, MetaRec, BackupRec, TaskRec, StateRec,
       Baseline, Slot, Stamp, IInv, Pending, Untouched, BackupHolds, Goto
  <1>2. (pc # "idle" => task # None)'
    BY DEF BackupMetadata, IInv, Stamp, Goto
  <1>3. ApplyInv'
    BY NoneAssumption DEF BackupMetadata, ApplyInv, IInv, Stamp, Goto, Pending, Untouched,
       Complete, BackupHolds, Covered, InstalledMatches, StateIsNew, BaselineMatches,
       BackupMatchesJournal, TypeOK, JournalRec, BackupRec, MetaRec, RollbackPhases,
       ApplyPhases
  <1>4. RollbackInv'
    BY DEF BackupMetadata, RollbackInv, IInv, Stamp, Goto
  <1>5. RecoveryInv'
    BY DEF BackupMetadata, RecoveryInv, IInv, Stamp, Goto
  <1>6. JournalInv'
    BY DEF BackupMetadata, JournalInv, IInv, Stamp, Goto, PendingIsRecoverable, Covered,
       BackupHolds, Untouched, Complete, BackupMatchesJournal, BaselineMatches, TypeOK,
       ApplyInv, Pending
  <1>7. BackupInv'
    BY DEF BackupMetadata, BackupInv, IInv, Stamp, Goto, Covered, TypeOK, ApplyInv,
       JournalInv, PendingIsRecoverable, BackupHolds, Untouched, Complete,
       BackupMatchesJournal, BaselineMatches, Pending
  <1>8. QED
    BY <1>1, <1>2, <1>3, <1>4, <1>5, <1>6, <1>7 DEF IInv

LEMMA PhaseCompleteInv ==
  ASSUME IInv, PhaseComplete
  PROVE  IInv'
  <1>1. TypeOK'
    BY NoneAssumption DEF PhaseComplete, TypeOK, ApplyInv, JournalInv, Pcs, TryPcs,
       RecoveryPcs, JournalRec, ApplyPhases, RollbackPhases, MetaRec, BackupRec, TaskRec,
       StateRec, Baseline, Slot, Covered, IInv, Pending, Untouched, BackupHolds, Complete,
       BackupMatchesJournal, BaselineMatches, PendingIsRecoverable, world, Goto
  <1>2. (pc # "idle" => task # None)'
    BY DEF PhaseComplete, IInv, Goto, world
  <1>3. ApplyInv'
    <2>1. journal \in JournalRec /\ journal.rev = task.rev /\ journal.op = "apply"
      BY NoneAssumption DEF PhaseComplete, TypeOK, ApplyInv, IInv, Pending, Untouched,
         BackupHolds, StateIsNew, Complete, BackupMatchesJournal, BaselineMatches,
         InstalledMatches, world, Goto
    <2>2. /\ journal'.op = "apply" /\ journal'.rev = task.rev
          /\ journal'.phase = "backup_complete" /\ journal' # None
          /\ journal'.prev = journal.prev /\ journal'.base = journal.base
          /\ journal'.digest = backup[task.rev].meta
      <3>1. journal' = [journal EXCEPT !.phase = "backup_complete",
                                       !.digest = backup[task.rev].meta]
        BY DEF PhaseComplete, IInv
      <3>2. backup[task.rev].meta \in MetaRec
        BY <2>1, NoneAssumption DEF PhaseComplete, ApplyInv, TypeOK, BackupRec, JournalRec,
           IInv, Pending, Untouched, BackupHolds, StateIsNew, Complete,
           BackupMatchesJournal, BaselineMatches, InstalledMatches, PendingIsRecoverable,
           world, Goto
      <3>3. journal' \in JournalRec
        BY <2>1, <3>1, <3>2, NoneAssumption DEF JournalRec, ApplyPhases, IInv, Pending,
           Untouched, BackupHolds, StateIsNew, Complete, BackupMatchesJournal,
           BaselineMatches, InstalledMatches, PendingIsRecoverable, device, world, locals,
           Release, Goto, WritePhase
      <3>4. QED
        BY <2>1, <3>1, <3>3, NoneAssumption DEF JournalRec, IInv, Pending, Untouched,
           BackupHolds, StateIsNew, Complete, BackupMatchesJournal, BaselineMatches,
           InstalledMatches, PendingIsRecoverable, device, world, locals, Release, Goto,
           WritePhase
    <2>3. Untouched(journal)'
      BY <2>1, <2>2, NoneAssumption DEF PhaseComplete, ApplyInv, JournalInv, IInv, Pending,
         Untouched, BackupHolds, StateIsNew, Complete, BackupMatchesJournal,
         BaselineMatches, InstalledMatches, PendingIsRecoverable, world, Goto
    <2>4. BackupHolds(journal)'
      BY <2>1, <2>2, NoneAssumption DEF PhaseComplete, ApplyInv, IInv, Pending, Untouched,
         BackupHolds, StateIsNew, Complete, BackupMatchesJournal, BaselineMatches,
         InstalledMatches, world, Goto
    <2>5. QED
      BY <2>2, <2>3, <2>4, NoneAssumption DEF PhaseComplete, ApplyInv, IInv, Pending,
         Untouched, BackupHolds, StateIsNew, Complete, BackupMatchesJournal,
         BaselineMatches, InstalledMatches, world, Goto
  <1>4. RollbackInv'
    BY DEF PhaseComplete, RollbackInv, IInv, Goto, world
  <1>5. RecoveryInv'
    BY DEF PhaseComplete, RecoveryInv, IInv, Goto, world
  <1>6. JournalInv'
    BY DEF PhaseComplete, JournalInv, IInv, Goto, world, PendingIsRecoverable, Covered,
       BackupHolds, Untouched, Complete, BackupMatchesJournal, BaselineMatches, TypeOK,
       ApplyInv, Pending
  <1>7. BackupInv'
    BY DEF PhaseComplete, BackupInv, IInv, Goto, world
  <1>8. QED
    BY <1>1, <1>2, <1>3, <1>4, <1>5, <1>6, <1>7 DEF IInv

LEMMA PhaseInstallingInv ==
  ASSUME IInv, PhaseInstalling
  PROVE  IInv'
  <1>1. TypeOK'
    BY NoneAssumption DEF PhaseInstalling, TypeOK, ApplyInv, Pcs, TryPcs, RecoveryPcs,
       JournalRec, ApplyPhases, RollbackPhases, MetaRec, BackupRec, TaskRec, StateRec,
       Baseline, Slot, Covered, IInv, Pending, Untouched, BackupHolds, world, WritePhase
  <1>2. (pc # "idle" => task # None)'
    BY DEF PhaseInstalling, IInv, WritePhase, world
  <1>3. ApplyInv'
    BY NoneAssumption DEF PhaseInstalling, ApplyInv, IInv, WritePhase, world, Pending,
       Untouched, Complete, BackupHolds, Covered, InstalledMatches, StateIsNew,
       BaselineMatches, BackupMatchesJournal, TypeOK, JournalRec, BackupRec, MetaRec,
       RollbackPhases, ApplyPhases
  <1>4. RollbackInv'
    BY DEF PhaseInstalling, RollbackInv, IInv, WritePhase, world
  <1>5. RecoveryInv'
    BY DEF PhaseInstalling, RecoveryInv, IInv, WritePhase, world
  <1>6. JournalInv'
    BY DEF PhaseInstalling, JournalInv, IInv, WritePhase, world, PendingIsRecoverable,
       Covered, BackupHolds, Untouched, Complete, BackupMatchesJournal, BaselineMatches,
       TypeOK, ApplyInv, Pending
  <1>7. BackupInv'
    BY DEF PhaseInstalling, BackupInv, IInv, WritePhase, world
  <1>8. QED
    BY <1>1, <1>2, <1>3, <1>4, <1>5, <1>6, <1>7 DEF IInv

LEMMA InstallFileInv ==
  ASSUME IInv, InstallFile
  PROVE  IInv'
  <1>1. TypeOK'
    <2>1. task.rev \in Revs
      BY DEF InstallFile, TypeOK, TaskRec, IInv
    <2>2. \A f \in Files : Payload[task.rev][f] \in Slot
      BY <2>1, PayloadAssumption DEF IInv
    <2>3. files' \in [Files -> Slot]
      BY <2>2 DEF InstallFile, TypeOK, IInv
    <2>4. QED
      BY <2>3, NoneAssumption DEF InstallFile, TypeOK, Pcs, TryPcs, IInv, Pending,
         Untouched, BackupHolds, world, Goto
  <1>2. (pc # "idle" => task # None)'
    BY DEF InstallFile, IInv, world, Goto
  <1>3. ApplyInv'
    BY DEF InstallFile, ApplyInv, IInv, world, Goto, Pending, Untouched, Complete,
       BackupHolds, Covered, InstalledMatches, StateIsNew, BaselineMatches,
       BackupMatchesJournal, TypeOK
  <1>4. RollbackInv'
    BY DEF InstallFile, RollbackInv, IInv, world, Goto
  <1>5. RecoveryInv'
    BY DEF InstallFile, RecoveryInv, IInv, world, Goto
  <1>6. JournalInv'
    BY DEF InstallFile, JournalInv, IInv, world, Goto, PendingIsRecoverable, Covered,
       BackupHolds, Untouched, Complete, BackupMatchesJournal, BaselineMatches, TypeOK,
       ApplyInv, Pending
  <1>7. BackupInv'
    BY DEF InstallFile, BackupInv, IInv, world, Goto
  <1>8. QED
    BY <1>1, <1>2, <1>3, <1>4, <1>5, <1>6, <1>7 DEF IInv

LEMMA WriteStateInv ==
  ASSUME IInv, WriteState
  PROVE  IInv'
  <1>1. TypeOK'
    BY DEF WriteState, TypeOK, IInv, Stamp, Goto, Pcs, TryPcs, RecoveryPcs, TaskRec,
       JournalRec, ApplyInv, BackupRec, MetaRec, StateRec, Baseline, Slot
  <1>2. (pc # "idle" => task # None)'
    BY DEF WriteState, IInv, Stamp, Goto
  <1>3. ApplyInv'
    <2>1. StateIsNew'
      <3>1. state' # None
        <4>1. \A t \in Nat : [rev |-> task.rev, at |-> t, restart |-> TRUE] \in StateRec
          BY DEF WriteState, TypeOK, TaskRec, StateRec, IInv
        <4>2. PICK t \in clock..MaxClock :
                state' = [rev |-> task.rev, at |-> t, restart |-> TRUE]
          BY NoneAssumption DEF WriteState, IInv, Pending, Untouched, BackupHolds,
             StateIsNew, Complete, BackupMatchesJournal, BaselineMatches, InstalledMatches,
             Goto
        <4>3. t \in Nat
          BY BoundsAssumption DEF TypeOK, IInv
        <4>4. QED
          BY <4>1, <4>2, <4>3, NoneAssumption
      <3>2. QED
        BY <3>1, NoneAssumption DEF WriteState, ApplyInv, IInv, Pending, Untouched,
           BackupHolds, StateIsNew, Complete, BackupMatchesJournal, BaselineMatches,
           InstalledMatches, Goto
    <2>2. BackupHolds(journal)'
      BY NoneAssumption DEF WriteState, ApplyInv, IInv, Pending, Untouched, BackupHolds,
         StateIsNew, Complete, BackupMatchesJournal, BaselineMatches, InstalledMatches, Goto
    <2>3. QED
      BY <2>1, <2>2, NoneAssumption DEF WriteState, ApplyInv, IInv, Pending, Untouched,
         BackupHolds, StateIsNew, Complete, BackupMatchesJournal, BaselineMatches,
         InstalledMatches, Goto
  <1>4. RollbackInv'
    BY DEF WriteState, RollbackInv, IInv, Stamp, Goto
  <1>5. RecoveryInv'
    BY DEF WriteState, RecoveryInv, IInv, Stamp, Goto
  <1>6. JournalInv'
    BY DEF WriteState, JournalInv, IInv, Stamp, Goto, PendingIsRecoverable, Covered,
       BackupHolds, Untouched, Complete, BackupMatchesJournal, BaselineMatches, TypeOK,
       ApplyInv, Pending
  <1>7. BackupInv'
    BY DEF WriteState, BackupInv, IInv, Stamp, Goto
  <1>8. QED
    BY <1>1, <1>2, <1>3, <1>4, <1>5, <1>6, <1>7 DEF IInv

LEMMA PhaseStateInv ==
  ASSUME IInv, PhaseState
  PROVE  IInv'
  <1>1. TypeOK'
    BY NoneAssumption DEF PhaseState, TypeOK, ApplyInv, Pcs, TryPcs, RecoveryPcs,
       JournalRec, ApplyPhases, RollbackPhases, MetaRec, BackupRec, TaskRec, StateRec,
       Baseline, Slot, IInv, Pending, Untouched, BackupHolds, world, Goto, WritePhase
  <1>2. (pc # "idle" => task # None)'
    BY DEF PhaseState, IInv, WritePhase, Goto, world
  <1>3. ApplyInv'
    BY NoneAssumption DEF PhaseState, ApplyInv, IInv, WritePhase, Goto, world, Pending,
       Untouched, Complete, BackupHolds, Covered, InstalledMatches, StateIsNew,
       BaselineMatches, BackupMatchesJournal, TypeOK, JournalRec, BackupRec, MetaRec,
       RollbackPhases, ApplyPhases
  <1>4. RollbackInv'
    BY DEF PhaseState, RollbackInv, IInv, WritePhase, Goto, world
  <1>5. RecoveryInv'
    BY DEF PhaseState, RecoveryInv, IInv, WritePhase, Goto, world
  <1>6. JournalInv'
    BY DEF PhaseState, JournalInv, IInv, WritePhase, Goto, world, PendingIsRecoverable,
       Covered, BackupHolds, Untouched, Complete, BackupMatchesJournal, BaselineMatches,
       TypeOK, ApplyInv, Pending
  <1>7. BackupInv'
    BY DEF PhaseState, BackupInv, IInv, WritePhase, Goto, world
  <1>8. QED
    BY <1>1, <1>2, <1>3, <1>4, <1>5, <1>6, <1>7 DEF IInv

LEMMA ApplyCommitInv ==
  ASSUME IInv, ApplyCommit
  PROVE  IInv'
  <1>1. TypeOK'
    BY NoneAssumption DEF ApplyCommit, TypeOK, ApplyInv, Pcs, TryPcs, RecoveryPcs,
       JournalRec, ApplyPhases, RollbackPhases, MetaRec, BackupRec, TaskRec, StateRec,
       Baseline, Slot, Covered, IInv, Pending, Untouched, BackupHolds, InstalledMatches,
       world, Goto
  <1>2. (pc # "idle" => task # None)'
    BY DEF ApplyCommit, IInv, InstalledMatches, Goto, world
  <1>3. ApplyInv'
    BY DEF ApplyCommit, ApplyInv, IInv, InstalledMatches, Goto, world
  <1>4. RollbackInv'
    BY DEF ApplyCommit, RollbackInv, IInv, InstalledMatches, Goto, world
  <1>5. RecoveryInv'
    BY DEF ApplyCommit, RecoveryInv, IInv, InstalledMatches, Goto, world
  <1>6. JournalInv'
    BY DEF ApplyCommit, JournalInv, IInv, InstalledMatches, Goto, world,
       PendingIsRecoverable, Covered, BackupHolds, Untouched, Complete,
       BackupMatchesJournal, BaselineMatches
  <1>7. BackupInv'
    BY DEF ApplyCommit, BackupInv, IInv, InstalledMatches, Goto, world
  <1>8. QED
    BY <1>1, <1>2, <1>3, <1>4, <1>5, <1>6, <1>7 DEF IInv

LEMMA SyncedInv ==
  ASSUME IInv, Synced
  PROVE  IInv'
  <1>1. TypeOK'
    BY NoneAssumption DEF Synced, TypeOK, ApplyInv, Pcs, TryPcs, RecoveryPcs, JournalRec,
       ApplyPhases, RollbackPhases, MetaRec, BackupRec, TaskRec, StateRec, Baseline, Slot,
       IInv, Pending, Untouched, BackupHolds, device, world, Release
  <1>2. (pc # "idle" => task # None)'
    BY DEF Synced, IInv, Release, device, world
  <1>3. ApplyInv'
    BY DEF Synced, ApplyInv, IInv, Release, device, world
  <1>4. RollbackInv'
    BY DEF Synced, RollbackInv, IInv, Release, device, world
  <1>5. RecoveryInv'
    BY DEF Synced, RecoveryInv, IInv, Release, device, world
  <1>6. JournalInv'
    BY DEF Synced, JournalInv, IInv, Release, device, world, PendingIsRecoverable, Covered,
       BackupHolds, Untouched, Complete, BackupMatchesJournal, BaselineMatches
  <1>7. BackupInv'
    BY DEF Synced, BackupInv, IInv, Release, device, world
  <1>8. QED
    BY <1>1, <1>2, <1>3, <1>4, <1>5, <1>6, <1>7 DEF IInv

LEMMA MarkInv ==
  ASSUME IInv, Mark
  PROVE  IInv'
  <1>1. TypeOK'
    BY NoneAssumption DEF Mark, TypeOK, ApplyInv, Pcs, TryPcs, RecoveryPcs, JournalRec,
       ApplyPhases, RollbackPhases, MetaRec, BackupRec, TaskRec, StateRec, Baseline, Slot,
       IInv, Pending, Untouched, BackupHolds, world, Release
  <1>2. (pc # "idle" => task # None)'
    BY DEF Mark, IInv, Release, world
  <1>3. ApplyInv'
    BY DEF Mark, ApplyInv, IInv, Release, world
  <1>4. RollbackInv'
    BY DEF Mark, RollbackInv, IInv, Release, world
  <1>5. RecoveryInv'
    BY DEF Mark, RecoveryInv, IInv, Release, world
  <1>6. JournalInv'
    BY DEF Mark, JournalInv, IInv, Release, world, PendingIsRecoverable, Covered,
       BackupHolds, Untouched, Complete, BackupMatchesJournal, BaselineMatches
  <1>7. BackupInv'
    BY DEF Mark, BackupInv, IInv, Release, world
  <1>8. QED
    BY <1>1, <1>2, <1>3, <1>4, <1>5, <1>6, <1>7 DEF IInv

LEMMA RollbackBeginInv ==
  ASSUME IInv, RollbackBegin
  PROVE  IInv'
  <1>1. TypeOK'
    <2>1. task \in TaskRec /\ task.rev \in Revs
      BY DEF RollbackBegin, TypeOK, TaskRec, IInv
    <2>2. Complete(backup[task.rev]) => backup[task.rev].meta \in MetaRec
      BY <2>1, NoneAssumption DEF TypeOK, BackupRec, IInv, Pending, Untouched, BackupHolds,
         StateIsNew, Complete, BackupMatchesJournal, BaselineMatches, InstalledMatches,
         PendingIsRecoverable, device, world, locals, Release, Goto, WritePhase
    <2>3. \A m \in MetaRec : RollbackJournal(task.rev, m.prev, m.base, m) \in JournalRec
      BY <2>1 DEF RollbackJournal, JournalRec, MetaRec, RollbackPhases, IInv
    <2>4. journal' \in JournalRec \cup {None}
      BY <2>2, <2>3 DEF RollbackBegin, TypeOK, IInv
    <2>5. QED
      BY <2>4, NoneAssumption DEF RollbackBegin, TypeOK, Pcs, TryPcs, IInv, Pending,
         Untouched, Complete, BaselineMatches, world, Release, Goto
  <1>2. (pc # "idle" => task # None)'
    BY DEF RollbackBegin, IInv, Complete, BaselineMatches, Release, RollbackJournal, Goto,
       world
  <1>3. ApplyInv'
    BY DEF RollbackBegin, ApplyInv, IInv, Complete, BaselineMatches, Release,
       RollbackJournal, Goto, world
  <1>4. RollbackInv'
    BY NoneAssumption DEF RollbackBegin, RollbackInv, IInv, Complete, BaselineMatches,
       Release, RollbackJournal, Goto, world, Pending, Covered, Untouched, TypeOK,
       JournalRec, TaskRec, BackupRec, MetaRec, RollbackPhases, ApplyPhases
  <1>5. RecoveryInv'
    BY DEF RollbackBegin, RecoveryInv, IInv, Complete, BaselineMatches, Release,
       RollbackJournal, Goto, world
  <1>6. JournalInv'
    BY NoneAssumption DEF RollbackBegin, TypeOK, ApplyInv, RollbackInv, RecoveryInv,
       JournalInv, BackupInv, JournalRec, ApplyPhases, RollbackPhases, MetaRec, BackupRec,
       TaskRec, StateRec, Baseline, Slot, Covered, RollbackJournal, IInv, Pending,
       Untouched, BackupHolds, StateIsNew, Complete, BackupMatchesJournal, BaselineMatches,
       InstalledMatches, PendingIsRecoverable, device, world, locals, Release, Goto,
       WritePhase
  <1>7. BackupInv'
    BY DEF RollbackBegin, BackupInv, IInv, Complete, BaselineMatches, Release,
       RollbackJournal, Goto, world
  <1>8. QED
    BY <1>1, <1>2, <1>3, <1>4, <1>5, <1>6, <1>7 DEF IInv

LEMMA PhaseRestoringInv ==
  ASSUME IInv, PhaseRestoring
  PROVE  IInv'
  <1>1. TypeOK'
    BY NoneAssumption DEF PhaseRestoring, TypeOK, RollbackInv, Pcs, TryPcs, RecoveryPcs,
       JournalRec, ApplyPhases, RollbackPhases, MetaRec, BackupRec, TaskRec, StateRec,
       Baseline, Slot, Covered, IInv, Pending, Untouched, world, WritePhase
  <1>2. (pc # "idle" => task # None)'
    BY DEF PhaseRestoring, IInv, WritePhase, world
  <1>3. ApplyInv'
    BY DEF PhaseRestoring, ApplyInv, IInv, WritePhase, world
  <1>4. RollbackInv'
    BY NoneAssumption DEF PhaseRestoring, RollbackInv, IInv, WritePhase, world, Pending,
       Covered, BaselineMatches, Untouched, TypeOK, JournalRec, BackupRec, MetaRec,
       RollbackPhases, ApplyPhases
  <1>5. RecoveryInv'
    BY DEF PhaseRestoring, RecoveryInv, IInv, WritePhase, world
  <1>6. JournalInv'
    BY DEF PhaseRestoring, JournalInv, IInv, WritePhase, world, PendingIsRecoverable,
       Covered, BackupHolds, Untouched, Complete, BackupMatchesJournal, BaselineMatches,
       TypeOK, RollbackInv, Pending
  <1>7. BackupInv'
    BY DEF PhaseRestoring, BackupInv, IInv, WritePhase, world
  <1>8. QED
    BY <1>1, <1>2, <1>3, <1>4, <1>5, <1>6, <1>7 DEF IInv

LEMMA RollbackFileInv ==
  ASSUME IInv, RollbackFile
  PROVE  IInv'
  <1>1. TypeOK'
    BY NoneAssumption DEF RollbackFile, TypeOK, RollbackInv, Pcs, TryPcs, RecoveryPcs,
       JournalRec, ApplyPhases, RollbackPhases, MetaRec, BackupRec, TaskRec, StateRec,
       Baseline, Slot, RestoreFile, IInv, Pending, Untouched, world, Goto
  <1>2. (pc # "idle" => task # None)'
    BY DEF RollbackFile, IInv, RestoreFile, world, Goto
  <1>3. ApplyInv'
    BY DEF RollbackFile, ApplyInv, IInv, RestoreFile, world, Goto
  <1>4. RollbackInv'
    BY DEF RollbackFile, RollbackInv, IInv, RestoreFile, world, Goto, Pending, Covered,
       BaselineMatches, Untouched, TypeOK
  <1>5. RecoveryInv'
    BY DEF RollbackFile, RecoveryInv, IInv, RestoreFile, world, Goto
  <1>6. JournalInv'
    BY DEF RollbackFile, JournalInv, IInv, RestoreFile, world, Goto, PendingIsRecoverable,
       Covered, BackupHolds, Untouched, Complete, BackupMatchesJournal, BaselineMatches,
       TypeOK
  <1>7. BackupInv'
    BY DEF RollbackFile, BackupInv, IInv, RestoreFile, world, Goto
  <1>8. QED
    BY <1>1, <1>2, <1>3, <1>4, <1>5, <1>6, <1>7 DEF IInv

LEMMA RollbackStateInv ==
  ASSUME IInv, RollbackState
  PROVE  IInv'
  <1>1. TypeOK'
    BY NoneAssumption DEF RollbackState, TypeOK, RollbackInv, Pcs, TryPcs, RecoveryPcs,
       JournalRec, ApplyPhases, RollbackPhases, MetaRec, BackupRec, TaskRec, StateRec,
       Baseline, Slot, RestoreState, IInv, Pending, Untouched, world, Goto
  <1>2. (pc # "idle" => task # None)'
    BY DEF RollbackState, IInv, RestoreState, Goto, world
  <1>3. ApplyInv'
    BY DEF RollbackState, ApplyInv, IInv, RestoreState, Goto, world
  <1>4. RollbackInv'
    BY DEF RollbackState, RollbackInv, IInv, RestoreState, Goto, world, Pending, Covered,
       BaselineMatches, Untouched
  <1>5. RecoveryInv'
    BY DEF RollbackState, RecoveryInv, IInv, RestoreState, Goto, world
  <1>6. JournalInv'
    BY DEF RollbackState, JournalInv, IInv, RestoreState, Goto, world, PendingIsRecoverable,
       Covered, BackupHolds, Untouched, Complete, BackupMatchesJournal, BaselineMatches
  <1>7. BackupInv'
    BY DEF RollbackState, BackupInv, IInv, RestoreState, Goto, world
  <1>8. QED
    BY <1>1, <1>2, <1>3, <1>4, <1>5, <1>6, <1>7 DEF IInv

LEMMA PhaseRollbackStateInv ==
  ASSUME IInv, PhaseRollbackState
  PROVE  IInv'
  <1>1. TypeOK'
    BY NoneAssumption DEF PhaseRollbackState, TypeOK, RollbackInv, Pcs, TryPcs, RecoveryPcs,
       JournalRec, ApplyPhases, RollbackPhases, MetaRec, BackupRec, TaskRec, StateRec,
       Baseline, Slot, IInv, Pending, Untouched, world, Goto, WritePhase
  <1>2. (pc # "idle" => task # None)'
    BY DEF PhaseRollbackState, IInv, WritePhase, Goto, world
  <1>3. ApplyInv'
    BY DEF PhaseRollbackState, ApplyInv, IInv, WritePhase, Goto, world
  <1>4. RollbackInv'
    BY NoneAssumption DEF PhaseRollbackState, RollbackInv, IInv, WritePhase, Goto, world,
       Pending, Covered, BaselineMatches, Untouched, TypeOK, JournalRec, BackupRec, MetaRec,
       RollbackPhases, ApplyPhases
  <1>5. RecoveryInv'
    BY DEF PhaseRollbackState, RecoveryInv, IInv, WritePhase, Goto, world
  <1>6. JournalInv'
    BY DEF PhaseRollbackState, JournalInv, IInv, WritePhase, Goto, world,
       PendingIsRecoverable, Covered, BackupHolds, Untouched, Complete,
       BackupMatchesJournal, BaselineMatches, TypeOK, RollbackInv, Pending
  <1>7. BackupInv'
    BY DEF PhaseRollbackState, BackupInv, IInv, WritePhase, Goto, world
  <1>8. QED
    BY <1>1, <1>2, <1>3, <1>4, <1>5, <1>6, <1>7 DEF IInv

LEMMA RollbackCommitInv ==
  ASSUME IInv, RollbackCommit
  PROVE  IInv'
  <1>1. TypeOK'
    BY NoneAssumption DEF RollbackCommit, TypeOK, RollbackInv, Pcs, TryPcs, RecoveryPcs,
       JournalRec, ApplyPhases, RollbackPhases, MetaRec, BackupRec, TaskRec, StateRec,
       Baseline, Slot, Covered, IInv, Pending, Untouched, BaselineMatches, world, Goto
  <1>2. (pc # "idle" => task # None)'
    BY DEF RollbackCommit, IInv, BaselineMatches, Goto, world
  <1>3. ApplyInv'
    BY DEF RollbackCommit, ApplyInv, IInv, BaselineMatches, Goto, world
  <1>4. RollbackInv'
    BY DEF RollbackCommit, RollbackInv, IInv, BaselineMatches, Goto, world
  <1>5. RecoveryInv'
    BY DEF RollbackCommit, RecoveryInv, IInv, BaselineMatches, Goto, world
  <1>6. JournalInv'
    BY DEF RollbackCommit, JournalInv, IInv, BaselineMatches, Goto, world,
       PendingIsRecoverable, Covered, BackupHolds, Untouched, Complete, BackupMatchesJournal
  <1>7. BackupInv'
    BY DEF RollbackCommit, BackupInv, IInv, BaselineMatches, Goto, world
  <1>8. QED
    BY <1>1, <1>2, <1>3, <1>4, <1>5, <1>6, <1>7 DEF IInv

LEMMA ErrorInv ==
  ASSUME IInv, Error
  PROVE  IInv'
  <1>1. TypeOK'
    BY DEF Error, TypeOK, IInv, device, Pcs, TryPcs, RecoveryPcs
  <1>2. (pc # "idle" => task # None)'
    BY DEF Error, TryPcs, IInv
  <1>3. ApplyInv'
    BY DEF Error, ApplyInv, IInv, device
  <1>4. RollbackInv'
    BY DEF Error, RollbackInv, IInv, device
  <1>5. RecoveryInv'
    BY DEF Error, RecoveryInv, IInv, device
  <1>6. JournalInv'
    BY DEF Error, JournalInv, IInv, device, PendingIsRecoverable, Covered, BackupHolds,
       Untouched, Complete, BackupMatchesJournal, BaselineMatches
  <1>7. BackupInv'
    BY DEF Error, BackupInv, IInv, device
  <1>8. QED
    BY <1>1, <1>2, <1>3, <1>4, <1>5, <1>6, <1>7 DEF IInv

LEMMA CrashInv ==
  ASSUME IInv, Crash
  PROVE  IInv'
  <1>1. TypeOK'
    <2>1. faults' \in Nat
      BY DEF Crash, TypeOK, IInv
    <2>2. /\ UNCHANGED << files, state, journal, backup, request, clock >>
          /\ pc' = "idle" /\ task' = None /\ todo' = {} /\ failing' = FALSE
      BY DEF Crash, device, Release
    <2>3. QED
      BY <2>1, <2>2 DEF TypeOK, Pcs, IInv
  <1>2. (pc # "idle" => task # None)'
    BY DEF Crash, IInv, Release, device
  <1>3. ApplyInv'
    BY DEF Crash, ApplyInv, IInv, Release, device
  <1>4. RollbackInv'
    BY DEF Crash, RollbackInv, IInv, Release, device
  <1>5. RecoveryInv'
    BY DEF Crash, RecoveryInv, IInv, Release, device
  <1>6. JournalInv'
    BY DEF Crash, JournalInv, IInv, Release, device, PendingIsRecoverable, Covered,
       BackupHolds, Untouched, Complete, BackupMatchesJournal, BaselineMatches
  <1>7. BackupInv'
    BY DEF Crash, BackupInv, IInv, Release, device
  <1>8. QED
    BY <1>1, <1>2, <1>3, <1>4, <1>5, <1>6, <1>7 DEF IInv

LEMMA EditInv ==
  ASSUME IInv, NEW f \in Files, NEW c \in Slot, Edit(f, c)
  PROVE  IInv'
  BY NoneAssumption DEF Edit, IInv, TypeOK, ApplyInv, RollbackInv, RecoveryInv, JournalInv,
     BackupInv, locals, Complete, PendingIsRecoverable

LEMMA StepInv == IInv /\ [Next]_vars => IInv'
  <1> SUFFICES ASSUME IInv, [Next]_vars
               PROVE  IInv'
    OBVIOUS
  <1>1. CASE Recover
    BY <1>1, RecoverDecideInv, RecoverFileInv, RecoverStateInv, RecoverCheckInv,
       RecoverRmtreeInv, RecoverUnlinkInv DEF Recover
  <1>2. CASE Apply
    BY <1>2, ApplyBeginInv, BackupMkdirInv, BackupPayloadInv, BackupMetadataInv,
       PhaseCompleteInv, PhaseInstallingInv, InstallFileInv, WriteStateInv, PhaseStateInv,
       ApplyCommitInv, SyncedInv DEF Apply
  <1>3. CASE Mark
    BY <1>3, MarkInv
  <1>4. CASE Rollback
    BY <1>4, RollbackBeginInv, PhaseRestoringInv, RollbackFileInv, RollbackStateInv,
       PhaseRollbackStateInv, RollbackCommitInv DEF Rollback
  <1>5. CASE \E p \in Procs : Start(p) \/ Acquire(p) \/ Busy(p)
    BY <1>5, RequestInv
  <1>6. CASE Error \/ Crash
    BY <1>6, ErrorInv, CrashInv
  <1>7. CASE \E f \in Files, c \in Slot : Edit(f, c)
    BY <1>7, EditInv
  <1>8. CASE UNCHANGED vars
    BY <1>8 DEF vars, device, locals, world, IInv, TypeOK, ApplyInv, RollbackInv,
       RecoveryInv, JournalInv, BackupInv, Pending, StateIsNew, Untouched, BackupHolds,
       Complete, BackupMatchesJournal, BaselineMatches, InstalledMatches,
       PendingIsRecoverable
  <1>9. QED
    BY <1>1, <1>2, <1>3, <1>4, <1>5, <1>6, <1>7, <1>8 DEF Next, Step

LEMMA Invariance == Spec => []IInv
  <1>1. QED
    BY InitInv, StepInv, PTL DEF Spec

\* Every variable keeps its type, whatever the number of faults and edits.
THEOREM TypeCorrect == Spec => []TypeOK
  <1>1. IInv => TypeOK
    BY DEF IInv
  <1>2. QED
    BY Invariance, <1>1, PTL

\* _recover_pending always finds what it needs to restore files and state: a
\* journal is never pending on a changed device whose backup is incomplete.
THEOREM RecoveryIsPossible == Spec => []PendingIsRecoverable
  <1>1. IInv => PendingIsRecoverable
    BY DEF IInv, JournalInv
  <1>2. QED
    BY Invariance, <1>1, PTL

-----------------------------------------------------------------------------
(* IdentityImporter implements ImportAtomic: an apply takes effect at the  *)
(* one step that deletes its journal, a rollback at the one step that      *)
(* creates its journal, and every other step, crash and recovery is        *)
(* invisible.                                                              *)

Invisible == UNCHANGED << SettledFiles, SettledState, SettledUndo >>

\* A journal that stays, and changes only its phase or digest, while files change inside its
\* bundle only, and an apply touches its own backup only.
SameJournal ==
  /\ journal # None /\ journal' # None
  /\ journal'.op = journal.op /\ journal'.rev = journal.rev
  /\ journal'.prev = journal.prev /\ journal'.base = journal.base

LEMMA SameJournalInvisible ==
  ASSUME IInv, SameJournal,
         \A f \in Files \ Covered(journal.rev) : files'[f] = files[f],
         \A r \in Revs : (journal.op = "apply" /\ r = journal.rev) \/ backup'[r] = backup[r]
  PROVE  Invisible
  BY DEF SameJournal, Invisible, SettledFiles, SettledState, SettledUndo, Complete

LEMMA DeviceSameInvisible ==
  ASSUME UNCHANGED device PROVE Invisible
  BY DEF device, Invisible, SettledFiles, SettledState, SettledUndo, Complete

LEMMA InitRefines == Init => Atomic!Init
  BY FactoryAssumption DEF Init, Atomic!Init, SettledFiles, SettledState, SettledUndo,
     Complete, Slot

LEMMA RecoverFileSilent ==
  ASSUME IInv, RecoverFile
  PROVE  Invisible
  <1>1. SameJournal
    BY NoneAssumption DEF RecoverFile, SameJournal, IInv, RestoreFile, RecoveryInv, TypeOK, Covered
  <1>2. QED
    BY <1>1, SameJournalInvisible DEF RecoverFile, IInv, RestoreFile, RecoveryInv, TypeOK, Covered

LEMMA RollbackFileSilent ==
  ASSUME IInv, RollbackFile
  PROVE  Invisible
  <1>1. SameJournal
    BY NoneAssumption DEF RollbackFile, SameJournal, IInv, RestoreFile, RollbackInv, Pending, TypeOK, Covered
  <1>2. QED
    BY <1>1, SameJournalInvisible DEF RollbackFile, IInv, RestoreFile, RollbackInv, Pending, TypeOK, Covered

LEMMA RecoverStateSilent ==
  ASSUME IInv, RecoverState
  PROVE  Invisible
  <1>1. SameJournal
    BY NoneAssumption DEF RecoverState, SameJournal, IInv, RestoreState, RecoveryInv
  <1>2. QED
    BY <1>1, SameJournalInvisible DEF RecoverState, IInv, RestoreState, RecoveryInv

LEMMA RollbackStateSilent ==
  ASSUME IInv, RollbackState
  PROVE  Invisible
  <1>1. SameJournal
    BY NoneAssumption DEF RollbackState, SameJournal, IInv, RestoreState, RollbackInv, Pending
  <1>2. QED
    BY <1>1, SameJournalInvisible DEF RollbackState, IInv, RestoreState, RollbackInv, Pending

LEMMA InstallFileSilent ==
  ASSUME IInv, InstallFile
  PROVE  Invisible
  <1>1. SameJournal
    BY NoneAssumption DEF InstallFile, SameJournal, IInv, ApplyInv, Pending, TypeOK
  <1>2. QED
    BY <1>1, SameJournalInvisible DEF InstallFile, IInv, ApplyInv, Pending, TypeOK

LEMMA WriteStateSilent ==
  ASSUME IInv, WriteState
  PROVE  Invisible
  <1>1. SameJournal
    BY NoneAssumption DEF WriteState, SameJournal, IInv, ApplyInv, Pending
  <1>2. QED
    BY <1>1, SameJournalInvisible DEF WriteState, IInv, ApplyInv, Pending

LEMMA BackupMkdirSilent ==
  ASSUME IInv, BackupMkdir
  PROVE  Invisible
  <1>1. SameJournal
    BY NoneAssumption DEF BackupMkdir, SameJournal, IInv, ApplyInv, Pending, TypeOK
  <1>2. QED
    BY <1>1, SameJournalInvisible DEF BackupMkdir, IInv, ApplyInv, Pending, TypeOK

LEMMA BackupPayloadSilent ==
  ASSUME IInv, BackupPayload
  PROVE  Invisible
  <1>1. SameJournal
    BY NoneAssumption DEF BackupPayload, SameJournal, IInv, ApplyInv, Pending, TypeOK
  <1>2. QED
    BY <1>1, SameJournalInvisible DEF BackupPayload, IInv, ApplyInv, Pending, TypeOK

LEMMA BackupMetadataSilent ==
  ASSUME IInv, BackupMetadata
  PROVE  Invisible
  <1>1. SameJournal
    BY NoneAssumption DEF BackupMetadata, SameJournal, IInv, ApplyInv, Pending, TypeOK
  <1>2. QED
    BY <1>1, SameJournalInvisible DEF BackupMetadata, IInv, ApplyInv, Pending, TypeOK

LEMMA RecoverRmtreeSilent ==
  ASSUME IInv, RecoverRmtree
  PROVE  Invisible
  <1>1. SameJournal
    BY NoneAssumption DEF RecoverRmtree, SameJournal, IInv, RecoveryInv, TypeOK
  <1>2. QED
    BY <1>1, SameJournalInvisible DEF RecoverRmtree, IInv, RecoveryInv, TypeOK

LEMMA PhaseCompleteSilent ==
  ASSUME IInv, PhaseComplete
  PROVE  Invisible
  <1>1. IInv' /\ pc' = "phase_installing"
    BY PhaseCompleteInv DEF PhaseComplete, Goto
  <1>2. journal \in JournalRec /\ journal # None
    BY DEF PhaseComplete, IInv, ApplyInv, Pending, TypeOK
  <1>3. SameJournal
    BY <1>1, <1>2 DEF PhaseComplete, SameJournal, IInv, ApplyInv, Pending, WritePhase, Goto, JournalRec
  <1>4. QED
    BY <1>3, SameJournalInvisible DEF PhaseComplete

LEMMA PhaseInstallingSilent ==
  ASSUME IInv, PhaseInstalling
  PROVE  Invisible
  <1>1. IInv' /\ pc' = "install"
    BY PhaseInstallingInv DEF PhaseInstalling, Goto
  <1>2. journal \in JournalRec /\ journal # None
    BY DEF PhaseInstalling, IInv, ApplyInv, Pending, TypeOK
  <1>3. SameJournal
    BY <1>1, <1>2 DEF PhaseInstalling, SameJournal, IInv, ApplyInv, Pending, WritePhase, Goto, JournalRec
  <1>4. QED
    BY <1>3, SameJournalInvisible DEF PhaseInstalling

LEMMA PhaseStateSilent ==
  ASSUME IInv, PhaseState
  PROVE  Invisible
  <1>1. IInv' /\ pc' = "verify"
    BY PhaseStateInv DEF PhaseState, Goto
  <1>2. journal \in JournalRec /\ journal # None
    BY DEF PhaseState, IInv, ApplyInv, Pending, TypeOK
  <1>3. SameJournal
    BY <1>1, <1>2 DEF PhaseState, SameJournal, IInv, ApplyInv, Pending, WritePhase, Goto, JournalRec
  <1>4. QED
    BY <1>3, SameJournalInvisible DEF PhaseState

LEMMA PhaseRestoringSilent ==
  ASSUME IInv, PhaseRestoring
  PROVE  Invisible
  <1>1. IInv' /\ pc' = "rb_files"
    BY PhaseRestoringInv DEF PhaseRestoring, Goto
  <1>2. journal \in JournalRec /\ journal # None
    BY DEF PhaseRestoring, IInv, RollbackInv, Pending, TypeOK
  <1>3. SameJournal
    BY <1>1, <1>2 DEF PhaseRestoring, SameJournal, IInv, RollbackInv, Pending, WritePhase, Goto, JournalRec
  <1>4. QED
    BY <1>3, SameJournalInvisible DEF PhaseRestoring

LEMMA PhaseRollbackStateSilent ==
  ASSUME IInv, PhaseRollbackState
  PROVE  Invisible
  <1>1. IInv' /\ pc' = "rb_verify"
    BY PhaseRollbackStateInv DEF PhaseRollbackState, Goto
  <1>2. journal \in JournalRec /\ journal # None
    BY DEF PhaseRollbackState, IInv, RollbackInv, Pending, TypeOK
  <1>3. SameJournal
    BY <1>1, <1>2 DEF PhaseRollbackState, SameJournal, IInv, RollbackInv, Pending, WritePhase, Goto, JournalRec
  <1>4. QED
    BY <1>3, SameJournalInvisible DEF PhaseRollbackState

LEMMA RecoverUnlinkSilent ==
  ASSUME IInv, RecoverUnlink
  PROVE  Invisible
  <1>1. /\ journal # None /\ journal' = None /\ Untouched(journal)
        /\ journal.op = "apply" => backup[journal.rev] = None
        /\ UNCHANGED << files, state, backup >> /\ files \in [Files -> Slot]
    BY DEF RecoverUnlink, IInv, RecoveryInv, TypeOK
  <1>2. SettledFiles' = SettledFiles
    BY <1>1 DEF SettledFiles, Untouched, BaselineMatches
  <1>3. SettledState' = SettledState
    BY <1>1 DEF SettledState, Untouched
  <1>4. SettledUndo' = SettledUndo
    BY <1>1 DEF SettledUndo, Complete
  <1>5. QED
    BY <1>2, <1>3, <1>4 DEF Invisible

LEMMA RollbackCommitSilent ==
  ASSUME IInv, RollbackCommit
  PROVE  Invisible
  <1>1. /\ journal # None /\ Untouched(journal) /\ journal.op = "rollback"
        /\ UNCHANGED << files, state, backup >> /\ files \in [Files -> Slot]
    BY DEF RollbackCommit, IInv, RollbackInv, TypeOK, Pending
  <1>2. journal' \in {None, journal}
    BY DEF RollbackCommit
  <1>3. SettledFiles' = SettledFiles
    BY <1>1, <1>2 DEF SettledFiles, Untouched, BaselineMatches
  <1>4. SettledState' = SettledState
    BY <1>1, <1>2 DEF SettledState, Untouched
  <1>5. SettledUndo' = SettledUndo
    BY <1>1, <1>2 DEF SettledUndo, Complete
  <1>6. QED
    BY <1>3, <1>4, <1>5 DEF Invisible

\* The journal an apply writes first leaves the settled device alone, except
\* that the apply takes over the undo record an earlier one may have left.
LEMMA ApplyBeginDiscards ==
  ASSUME IInv, ApplyBegin
  PROVE  Invisible \/ Atomic!Discard(task.rev)
  <1>1. journal = None /\ task.rev \in Revs /\ files \in [Files -> Slot]
    BY DEF ApplyBegin, IInv, JournalInv, TypeOK, TaskRec
  <1>2. CASE journal' = journal
    BY <1>2, DeviceSameInvisible DEF ApplyBegin, device
  <1>3. CASE journal' # journal
    <2>1. /\ journal' # None /\ journal'.op = "apply" /\ journal'.rev = task.rev
          /\ journal'.prev = state /\ journal'.base = Captured(task.rev)
          /\ ~(state # None /\ state.rev = task.rev)
      BY <1>1, <1>3 DEF ApplyBegin, ApplyJournal
    <2>2. SettledState' = state /\ SettledState = state
      BY <1>1, <2>1 DEF SettledState
    <2>3. SettledFiles' = files /\ SettledFiles = files
      BY <1>1, <2>1 DEF SettledFiles, Captured, ApplyBegin, Covered
    <2>4. SettledUndo' = [SettledUndo EXCEPT ![task.rev] = None]
      BY <1>1, <2>1 DEF SettledUndo, ApplyBegin, Complete
    <2>5. CASE backup[task.rev] = None
      <3>1. SettledUndo[task.rev] = None
        BY <1>1, <2>5 DEF SettledUndo, Complete
      <3>2. SettledUndo' = SettledUndo
        BY <2>4, <3>1 DEF SettledUndo
      <3>3. QED
        BY <2>2, <2>3, <3>2 DEF Invisible
    <2>6. CASE backup[task.rev] # None
      <3>1. /\ Complete(backup[task.rev]) /\ backup[task.rev].meta.prev = state
            /\ backup[task.rev].meta.base = Captured(task.rev)
        BY <1>1, <1>3, <2>6 DEF ApplyBegin
      <3>2. SettledUndo[task.rev] = [base |-> Captured(task.rev), prev |-> state]
        BY <1>1, <3>1 DEF SettledUndo
      <3>3. Atomic!Captured(files, task.rev) = Captured(task.rev)
        BY DEF Atomic!Captured, Atomic!Covered, Captured, Covered
      <3>4. QED
        BY <2>1, <2>2, <2>3, <2>4, <3>2, <3>3 DEF Atomic!Discard, Atomic!Installed
    <2>7. QED
      BY <2>5, <2>6
  <1>4. QED
    BY <1>2, <1>3

\* The unlink of a verified apply is the one step that installs the release.
LEMMA ApplyCommitInstalls ==
  ASSUME IInv, ApplyCommit
  PROVE  Invisible \/ Atomic!Install(task.rev)
  <1>1. /\ journal # None /\ journal.op = "apply" /\ journal.rev = task.rev
        /\ BackupHolds(journal) /\ StateIsNew
        /\ files \in [Files -> Slot] /\ state \in StateRec /\ journal.rev \in Revs
        /\ \A f \in Files \ Covered(journal.rev) : journal.base[f] = None
        /\ ~(journal.prev # None /\ journal.prev.rev = journal.rev)
        /\ journal.base \in [Files -> Slot]
        /\ UNCHANGED << files, state, backup >>
    BY DEF ApplyCommit, IInv, ApplyInv, Pending, TypeOK, JournalInv, StateIsNew, JournalRec,
           Baseline
  <1>2. CASE journal' = journal
    BY <1>1, <1>2, DeviceSameInvisible DEF device
  <1>3. CASE journal' = None
    <2>1. SettledState' = state /\ SettledState = journal.prev
      BY <1>1, <1>3 DEF SettledState
    <2>2. /\ state # None /\ state.at \in Nat
          /\ state = [rev |-> task.rev, at |-> state.at, restart |-> TRUE]
      BY <1>1 DEF StateIsNew, StateRec
    <2>3. SettledFiles' = Atomic!Overlay(SettledFiles, task.rev, Payload[task.rev])
      BY <1>1, <1>3 DEF SettledFiles, Atomic!Overlay, Atomic!Covered, Covered, StateIsNew,
         InstalledMatches
    <2>4. Atomic!Captured(SettledFiles, task.rev) = journal.base
      BY <1>1 DEF SettledFiles, Atomic!Captured, Atomic!Covered, Covered
    <2>5. SettledUndo[task.rev] = None
      BY <1>1 DEF SettledUndo
    <2>6. SettledUndo' = [SettledUndo EXCEPT ![task.rev] =
                            [base |-> journal.base, prev |-> journal.prev]]
      BY <1>1, <1>3 DEF SettledUndo, BackupHolds, BackupMatchesJournal, Complete
    <2>7. ~Atomic!Installed(task.rev)
      BY <1>1, <2>1 DEF Atomic!Installed
    <2>8. QED
      BY <2>1, <2>2, <2>3, <2>4, <2>5, <2>6, <2>7 DEF Atomic!Install
  <1>4. QED
    BY <1>2, <1>3 DEF ApplyCommit

\* The first journal of a rollback is the one step that rolls back.
LEMMA RollbackBeginRollsBack ==
  ASSUME IInv, RollbackBegin
  PROVE  Invisible \/ Atomic!Rollback(task.rev)
  <1>1. journal = None /\ task.rev \in Revs /\ files \in [Files -> Slot]
    BY DEF RollbackBegin, IInv, JournalInv, TypeOK, TaskRec
  <1>2. CASE journal' = journal
    BY <1>2, DeviceSameInvisible DEF RollbackBegin, device
  <1>3. CASE journal' # journal
    <2> DEFINE b == backup[task.rev]
    <2>1. /\ journal' # None /\ journal'.op = "rollback" /\ journal'.rev = task.rev
          /\ journal'.prev = b.meta.prev /\ journal'.base = b.meta.base
          /\ Complete(b) /\ state # None /\ state.rev = task.rev
          /\ UNCHANGED << files, state, backup >>
      BY <1>1, <1>3 DEF RollbackBegin, RollbackJournal
    <2>2. SettledUndo[task.rev] = [base |-> b.meta.base, prev |-> b.meta.prev]
      BY <1>1, <2>1 DEF SettledUndo
    <2>3. [base |-> b.meta.base, prev |-> b.meta.prev] \in UndoRec
      BY <1>1, <2>1 DEF IInv, TypeOK, BackupRec, MetaRec, UndoRec, Complete
    <2>4. SettledState' = b.meta.prev /\ SettledState = state
      BY <1>1, <2>1 DEF SettledState
    <2>5. SettledFiles' = Atomic!Overlay(SettledFiles, task.rev, b.meta.base)
      BY <1>1, <2>1 DEF SettledFiles, Atomic!Overlay, Atomic!Covered, Covered
    <2>6. SettledUndo' = SettledUndo
      BY <1>1, <2>1 DEF SettledUndo, Complete
    <2>7. QED
      BY <2>1, <2>2, <2>3, <2>4, <2>5, <2>6, NoneAssumption
         DEF Atomic!Rollback, Atomic!Installed
  <1>4. QED
    BY <1>2, <1>3

LEMMA MarkMarks ==
  ASSUME IInv, Mark
  PROVE  Invisible \/ Atomic!MarkRestarted(task.rev)
  <1>1. journal = None /\ UNCHANGED << files, journal, backup >>
    BY DEF Mark, IInv, JournalInv
  <1>2. /\ SettledState = state /\ SettledState' = state'
        /\ UNCHANGED << SettledFiles, SettledUndo >>
    BY <1>1 DEF SettledState, SettledFiles, SettledUndo, Complete
  <1>3. QED
    BY <1>2 DEF Mark, Invisible, Atomic!MarkRestarted, Atomic!Installed

LEMMA EditEdits ==
  ASSUME IInv, NEW f \in Files, NEW c \in Slot, Edit(f, c)
  PROVE  Atomic!Edit(f)
  <1>1. journal = None /\ UNCHANGED << state, journal, backup >>
    BY DEF Edit
  <1>2. /\ SettledFiles = files /\ SettledFiles' = files'
        /\ UNCHANGED << SettledState, SettledUndo >>
    BY <1>1 DEF SettledState, SettledFiles, SettledUndo, Complete
  <1>3. QED
    BY <1>2 DEF Edit, Atomic!Edit, Slot

LEMMA StepRefines == IInv /\ [Next]_vars => [Atomic!Next]_(Atomic!absVars)
  <1> SUFFICES ASSUME IInv, [Next]_vars
               PROVE  Atomic!Next \/ Invisible
    BY DEF Atomic!absVars, Invisible
  <1>1. CASE Recover
    <2>1. CASE RecoverDecide \/ RecoverCheck
      BY <2>1, DeviceSameInvisible DEF RecoverDecide, RecoverCheck
    <2>2. QED
      BY <1>1, <2>1, RecoverFileSilent, RecoverStateSilent, RecoverRmtreeSilent,
         RecoverUnlinkSilent DEF Recover
  <1>2. CASE Apply
    <2>1. task.rev \in Revs \/ UNCHANGED device
      BY <1>2 DEF Apply, ApplyBegin, BackupMkdir, BackupPayload, BackupMetadata,
         PhaseComplete, PhaseInstalling, InstallFile, WriteState, PhaseState, ApplyCommit,
         Synced, IInv, TypeOK, TaskRec
    <2>2. CASE ApplyBegin
      BY <2>1, <2>2, ApplyBeginDiscards, DeviceSameInvisible DEF Atomic!Next
    <2>3. CASE ApplyCommit
      BY <2>1, <2>3, ApplyCommitInstalls, DeviceSameInvisible DEF Atomic!Next
    <2>4. CASE Synced
      BY <2>4, DeviceSameInvisible DEF Synced
    <2>5. QED
      BY <1>2, <2>2, <2>3, <2>4, BackupMkdirSilent, BackupPayloadSilent,
         BackupMetadataSilent, PhaseCompleteSilent, PhaseInstallingSilent,
         InstallFileSilent, WriteStateSilent, PhaseStateSilent DEF Apply
  <1>3. CASE Mark
    <2>1. task.rev \in Revs
      BY <1>3 DEF Mark, IInv, TypeOK, TaskRec
    <2>2. QED
      BY <1>3, <2>1, MarkMarks DEF Atomic!Next
  <1>4. CASE Rollback
    <2>1. CASE RollbackBegin
      <3>1. task.rev \in Revs
        BY <2>1 DEF RollbackBegin, IInv, TypeOK, TaskRec
      <3>2. QED
        BY <2>1, <3>1, RollbackBeginRollsBack DEF Atomic!Next
    <2>2. QED
      BY <1>4, <2>1, PhaseRestoringSilent, RollbackFileSilent, RollbackStateSilent,
         PhaseRollbackStateSilent, RollbackCommitSilent DEF Rollback
  <1>5. CASE \E p \in Procs : Start(p) \/ Acquire(p) \/ Busy(p)
    BY <1>5, DeviceSameInvisible DEF Start, RequestApply, RequestMark, RequestRollback, Ask,
       Acquire, Busy
  <1>6. CASE Error \/ Crash
    BY <1>6, DeviceSameInvisible DEF Error, Crash
  <1>7. CASE \E f \in Files, c \in Slot : Edit(f, c)
    BY <1>7, EditEdits DEF Atomic!Next
  <1>8. CASE UNCHANGED vars
    BY <1>8, DeviceSameInvisible DEF vars
  <1>9. QED
    BY <1>1, <1>2, <1>3, <1>4, <1>5, <1>6, <1>7, <1>8 DEF Next, Step

\* Whatever crashes and exceptions occur between its many file writes, the
\* importer only ever installs or rolls back a release in one step.
THEOREM ImporterIsAtomic == Spec => ImplementsAtomic
  <1>1. QED
    BY InitRefines, StepRefines, Invariance, PTL DEF Spec, ImplementsAtomic, Atomic!Spec

-----------------------------------------------------------------------------
(* What the abstract device says of undo records.  The installed release   *)
(* stands on those it replaced, down to the device without one; each has   *)
(* its undo record, which leads to the one below, and none is in twice.    *)

Stack(h, n) ==
  /\ SettledState = IF n = 0 THEN None ELSE h[n]
  /\ \A i \in 1..n : /\ h[i] \in StateRec /\ SettledUndo[h[i].rev] # None
                     /\ SettledUndo[h[i].rev].prev = IF i = 1 THEN None ELSE h[i - 1]
  /\ \A i, j \in 1..n : h[i].rev = h[j].rev => i = j

UndoInv == \E h \in [Nat -> StateRec \cup {None}], n \in Nat : Stack(h, n)

LEMMA SettledType ==
  ASSUME IInv
  PROVE  /\ SettledState \in StateRec \cup {None}
         /\ SettledUndo = [r \in Revs |-> SettledUndo[r]]
  BY DEF IInv, TypeOK, SettledState, SettledUndo, JournalRec

LEMMA AtomicKeepsUndo ==
  ASSUME IInv, UndoInv, Atomic!Next
  PROVE  UndoInv'
  <1>1. PICK h \in [Nat -> StateRec \cup {None}], n \in Nat : Stack(h, n)
    BY DEF UndoInv
  <1>2. \A i \in 1..n : h[i] \in StateRec /\ h[i] # None /\ h[i].rev \in Revs
    BY <1>1, NoneAssumption DEF Stack, StateRec
  <1>3. ASSUME NEW r \in Revs, Atomic!Install(r) PROVE UndoInv'
    <2>1. /\ SettledState' # None /\ SettledState'.rev = r /\ SettledUndo[r] = None
          /\ SettledUndo' = [SettledUndo EXCEPT ![r] = [base |-> Atomic!Captured(SettledFiles, r),
                                                      prev |-> SettledState]]
      BY <1>3 DEF Atomic!Install
    <2>2. PICK g \in [Nat -> StateRec \cup {None}] :
            g[n + 1] = SettledState' /\ SettledState' \in StateRec /\ \A i \in 1..n : g[i] = h[i]
      <3>1. SettledState' \in StateRec
        <4>1. \E t \in Nat : SettledState' = [rev |-> r, at |-> t, restart |-> TRUE]
          BY <1>3 DEF Atomic!Install
        <4>2. QED
          BY <4>1 DEF StateRec
      <3> DEFINE w == [h EXCEPT ![n + 1] = SettledState']
      <3>2. /\ w \in [Nat -> StateRec \cup {None}]
            /\ w[n + 1] = SettledState' /\ \A i \in 1..n : w[i] = h[i]
        BY <3>1
      <3> HIDE DEF w
      <3>3. QED
        BY <3>1, <3>2
    <2>3. \A i \in 1..n : h[i].rev # r
      BY <1>1, <2>1 DEF Stack
    <2>4. /\ SettledUndo'[r] # None /\ SettledUndo'[r].prev = SettledState
          /\ \A q \in Revs \ {r} : SettledUndo'[q] = SettledUndo[q]
      <3>1. [base |-> Atomic!Captured(SettledFiles, r), prev |-> SettledState] \in UndoRec
        BY SettledType DEF UndoRec, Baseline, Slot, Atomic!Captured, Atomic!Covered, SettledFiles,
           IInv, TypeOK, JournalRec
      <3>2. QED
        BY <2>1, <3>1, SettledType, NoneAssumption
    <2>5. Stack(g, n + 1)'
      <3>1. ASSUME NEW i \in 1..(n + 1)
            PROVE  /\ SettledUndo'[g[i].rev] # None
                   /\ SettledUndo'[g[i].rev].prev = IF i = 1 THEN None ELSE g[i - 1]
                   /\ g[i] \in StateRec
        <4>1. CASE i = n + 1
          BY <1>1, <2>1, <2>2, <2>4, <4>1 DEF Stack
        <4>2. CASE i \in 1..n
          BY <1>1, <1>2, <2>2, <2>3, <2>4, <4>2 DEF Stack
        <4>3. QED
          BY <4>1, <4>2
      <3>2. \A i, j \in 1..(n + 1) : g[i].rev = g[j].rev => i = j
        BY <1>1, <2>1, <2>2, <2>3 DEF Stack
      <3>3. QED
        BY <2>2, <3>1, <3>2 DEF Stack
    <2>6. QED
      BY <2>2, <2>5 DEF UndoInv
  <1>4. ASSUME NEW r \in Revs, Atomic!Rollback(r) PROVE UndoInv'
    <2>1. n > 0 /\ h[n].rev = r /\ SettledState' = SettledUndo[r].prev /\ SettledUndo' = SettledUndo
      BY <1>1, <1>4 DEF Atomic!Rollback, Atomic!Installed, Stack
    <2>2. Stack(h, n - 1)'
      BY <1>1, <2>1 DEF Stack
    <2>3. QED
      BY <2>1, <2>2 DEF UndoInv
  <1>5. ASSUME NEW r \in Revs, Atomic!MarkRestarted(r) PROVE UndoInv'
    <2>0. n > 0 /\ SettledState = h[n] /\ SettledUndo' = SettledUndo
      BY <1>1, <1>5 DEF Atomic!MarkRestarted, Atomic!Installed, Stack
    <2>1. SettledState' \in StateRec /\ SettledState'.rev = h[n].rev
      <3>1. SettledState' = [SettledState EXCEPT !.restart = FALSE] /\ SettledState \in StateRec
        BY <1>2, <1>5, <2>0 DEF Atomic!MarkRestarted
      <3>2. QED
        BY <2>0, <3>1 DEF StateRec
    <2>2. PICK g \in [Nat -> StateRec \cup {None}] : /\ g[n] = SettledState' /\ g[n].rev = h[n].rev
                                        /\ \A i \in 1..(n - 1) : g[i] = h[i]
      <3> DEFINE w == [h EXCEPT ![n] = SettledState']
      <3>1. /\ w \in [Nat -> StateRec \cup {None}]
            /\ w[n] = SettledState' /\ \A i \in 1..(n - 1) : w[i] = h[i]
        BY <2>0, <2>1
      <3> HIDE DEF w
      <3>2. QED
        BY <2>1, <3>1
    <2>3. \A i \in 1..n : g[i].rev = h[i].rev /\ (i # 1 => g[i - 1] = h[i - 1])
                            /\ g[i] \in StateRec
      BY <1>1, <2>0, <2>1, <2>2 DEF Stack
    <2>4. Stack(g, n)'
      <3>1. SettledState' = g[n] /\ n # 0
        BY <2>0, <2>2
      <3>2. ASSUME NEW i \in 1..n
            PROVE  /\ SettledUndo'[g[i].rev] # None
                   /\ SettledUndo'[g[i].rev].prev = IF i = 1 THEN None ELSE g[i - 1]
        BY <1>1, <2>0, <2>3 DEF Stack
      <3>3. QED
        BY <1>1, <2>3, <3>1, <3>2 DEF Stack
    <2>5. QED
      BY <2>2, <2>4 DEF UndoInv
  <1>6. ASSUME NEW r \in Revs, Atomic!Discard(r) PROVE UndoInv'
    <2>1. /\ SettledUndo[r].prev = SettledState /\ SettledState' = SettledState
          /\ SettledUndo' = [SettledUndo EXCEPT ![r] = None]
      BY <1>6 DEF Atomic!Discard
    <2>2. ASSUME NEW i \in 1..n PROVE h[i].rev # r
      <3>1. SettledUndo[h[i].rev].prev # SettledState
        <4>1. SettledState = h[n] /\ n \in 1..n
          BY <1>1 DEF Stack
        <4>2. CASE i = 1
          BY <1>1, <1>2, <4>1, <4>2 DEF Stack
        <4>3. CASE i # 1
          <5>1. SettledUndo[h[i].rev].prev = h[i - 1] /\ i - 1 \in 1..n /\ i - 1 # n
            BY <1>1, <4>3 DEF Stack
          <5>2. QED
            BY <1>1, <4>1, <5>1 DEF Stack
        <4>4. QED
          BY <4>2, <4>3
      <3>2. QED
        BY <2>1, <3>1
    <2>3. \A i \in 1..n : SettledUndo'[h[i].rev] = SettledUndo[h[i].rev]
      BY <1>2, <2>1, <2>2, SettledType
    <2>4. Stack(h, n)'
      BY <1>1, <2>1, <2>3 DEF Stack
    <2>5. QED
      BY <2>4 DEF UndoInv
  <1>7. ASSUME NEW f \in Files, Atomic!Edit(f) PROVE UndoInv'
    <2>1. Stack(h, n)'
      BY <1>1, <1>7 DEF Atomic!Edit, Stack
    <2>2. QED
      BY <2>1 DEF UndoInv
  <1>8. QED
    BY <1>3, <1>4, <1>5, <1>6, <1>7 DEF Atomic!Next

\* The installed release can be rolled back, and the one that leaves installed
\* too, down to the device before the first import: neither a crash, nor a
\* failed retry, nor the reuse of an old backup ever costs it its undo record.
THEOREM UndoIsKept == Spec => []InstalledHasUndo
  <1>1. Init => UndoInv
    <2> SUFFICES ASSUME Init PROVE UndoInv
      OBVIOUS
    <2> DEFINE h == [i \in Nat |-> None]
    <2>1. SettledState = None
      BY DEF Init, SettledState
    <2>2. h \in [Nat -> StateRec \cup {None}] /\ Stack(h, 0)
      BY <2>1 DEF Stack
    <2>3. QED
      BY <2>2 DEF UndoInv
  <1>2. IInv /\ UndoInv /\ [Next]_vars => UndoInv'
    <2> SUFFICES ASSUME IInv, UndoInv, [Next]_vars PROVE UndoInv'
      OBVIOUS
    <2>1. CASE Atomic!Next
      BY <2>1, AtomicKeepsUndo
    <2>2. CASE UNCHANGED Atomic!absVars
      BY <2>2 DEF Atomic!absVars, UndoInv, Stack
    <2>3. QED
      BY <2>1, <2>2, StepRefines
  <1>3. IInv /\ UndoInv => InstalledHasUndo
    <2> SUFFICES ASSUME IInv, UndoInv, SettledState # None
                 PROVE  Complete(backup[SettledState.rev])
      BY DEF InstalledHasUndo
    <2>1. SettledState \in StateRec /\ SettledState.rev \in Revs
      BY SettledType DEF StateRec
    <2>2. SettledUndo[SettledState.rev] # None
      BY DEF UndoInv, Stack
    <2>3. QED
      BY <2>1, <2>2 DEF SettledUndo
  <1>4. QED
    BY <1>1, <1>2, <1>3, Invariance, PTL DEF Spec

-----------------------------------------------------------------------------
(* The flag that asks for a harness restart.  A state a journal or a backup *)
(* brings back is of another release than the one it takes away, so that   *)
(* restoring it never rewrites the flag of a release that stays.           *)

IsOlder(prev, r) == prev = None \/ prev.rev # r

OlderInv ==
  /\ journal # None =>
       /\ IsOlder(journal.prev, journal.rev)
       /\ state = journal.prev \/ (state # None /\ state.rev = journal.rev)
  /\ \A r \in Revs : backup[r] # None /\ backup[r].meta # None =>
       IsOlder(backup[r].meta.prev, r)

LEMMA OlderStep == IInv /\ OlderInv /\ [Next]_vars => OlderInv'
  <1> SUFFICES ASSUME IInv, OlderInv, [Next]_vars
               PROVE  OlderInv'
    OBVIOUS
  <1> USE NoneAssumption
  <1>0. /\ journal \in JournalRec \cup {None} /\ backup \in [Revs -> BackupRec \cup {None}]
        /\ state \in StateRec \cup {None}
    BY DEF IInv, TypeOK
  <1>1. CASE UNCHANGED << state, journal, backup >>
    BY <1>1 DEF OlderInv
  <1>2. CASE RecoverDecide \/ RecoverFile \/ RecoverCheck \/ InstallFile \/ Synced
             \/ RollbackFile \/ Error \/ Crash
             \/ (\E f \in Files, c \in Slot : Edit(f, c)) \/ UNCHANGED vars
             \/ (\E p \in Procs : Start(p) \/ Acquire(p) \/ Busy(p))
    BY <1>1, <1>2 DEF RecoverDecide, RecoverFile, RecoverCheck, InstallFile, Synced,
       RollbackFile, RestoreFile, Error, Crash, Edit, vars, device, Start, RequestApply,
       RequestMark, RequestRollback, Ask, Acquire, Busy
  <1>3. CASE RecoverState \/ RollbackState
    BY <1>3 DEF OlderInv, RecoverState, RollbackState, RestoreState
  <1>4. CASE RecoverRmtree
    <2>1. UNCHANGED << state, journal >> /\ journal # None /\ journal.rev \in Revs
      BY <1>4 DEF RecoverRmtree, IInv, RecoveryInv, TypeOK, JournalRec
    <2>2. ASSUME NEW r \in Revs, backup'[r] # None, backup'[r].meta # None
          PROVE  IsOlder(backup'[r].meta.prev, r)
      <3>1. CASE r # journal.rev
        BY <1>0, <1>4, <2>1, <2>2, <3>1 DEF RecoverRmtree, OlderInv
      <3>2. CASE r = journal.rev
        <4>1. backup[r] # None /\ backup'[r].meta = backup[r].meta
          BY <1>0, <1>4, <2>1, <2>2, <3>2 DEF RecoverRmtree, BackupRec
        <4>2. QED
          BY <2>2, <4>1 DEF OlderInv
      <3>3. QED
        BY <3>1, <3>2
    <2>3. QED
      BY <2>1, <2>2 DEF OlderInv
  <1>5. CASE RecoverUnlink \/ ApplyCommit \/ RollbackCommit
    BY <1>1, <1>5 DEF RecoverUnlink, ApplyCommit, RollbackCommit, OlderInv
  <1>6. CASE ApplyBegin
    <2>1. UNCHANGED << state, backup >> /\ task \in TaskRec
      BY <1>6 DEF ApplyBegin, IInv, TypeOK
    <2>2. CASE UNCHANGED journal
      BY <1>1, <2>1, <2>2
    <2>3. CASE /\ ~(state # None /\ state.rev = task.rev)
               /\ journal'.rev = task.rev /\ journal'.prev = state
      BY <2>1, <2>3 DEF OlderInv, IsOlder
    <2>4. QED
      BY <1>6, <2>2, <2>3 DEF ApplyBegin, ApplyJournal
  <1>7. CASE BackupMkdir
    <2>1. UNCHANGED << state, journal >>
          /\ backup' = [backup EXCEPT ![task.rev] = EmptyDir]
      BY <1>7 DEF BackupMkdir
    <2>2. QED
      BY <1>0, <2>1 DEF OlderInv, EmptyDir
  <1>8. CASE BackupPayload
    <2>1. UNCHANGED << state, journal >> /\ backup[task.rev] \in BackupRec /\ task.rev \in Revs
      BY <1>0, <1>8 DEF BackupPayload, IInv, ApplyInv, Pending, JournalRec
    <2>2. \A r \in Revs : backup'[r] = backup[r]
                          \/ (backup[r] # None /\ backup'[r].meta = backup[r].meta)
      <3>1. CASE UNCHANGED backup
        BY <3>1
      <3>2. ASSUME NEW f, backup' = [backup EXCEPT ![task.rev].saved[f] = files[f]]
            PROVE  \A r \in Revs : backup'[r] = backup[r]
                          \/ (backup[r] # None /\ backup'[r].meta = backup[r].meta)
        BY <1>0, <2>1, <3>2 DEF BackupRec
      <3>3. QED
        BY <1>8, <3>1, <3>2 DEF BackupPayload
    <2>3. QED
      BY <2>1, <2>2 DEF OlderInv
  <1>9. CASE BackupMetadata
    <2>1. journal # None /\ journal.rev = task.rev /\ UNCHANGED << state, journal >>
          /\ backup[task.rev] \in BackupRec /\ task.rev \in Revs
      BY <1>0, <1>9 DEF BackupMetadata, IInv, ApplyInv, Pending, JournalRec
    <2>2. \A r \in Revs : backup'[r] = backup[r]
                          \/ (r = journal.rev /\ backup'[r].meta.prev = journal.prev)
      BY <1>0, <1>9, <2>1 DEF BackupMetadata, BackupRec
    <2>3. QED
      BY <2>1, <2>2 DEF OlderInv
  <1>10. CASE PhaseComplete \/ PhaseInstalling \/ PhaseState \/ PhaseRestoring \/ PhaseRollbackState
    <2>1. journal # None
      BY <1>10 DEF PhaseComplete, PhaseInstalling, PhaseState, PhaseRestoring,
         PhaseRollbackState, IInv, ApplyInv, RollbackInv, Pending
    <2>2. /\ UNCHANGED << state, backup >>
          /\ journal'.rev = journal.rev /\ journal'.prev = journal.prev
      BY <1>0, <1>10, <2>1 DEF PhaseComplete, PhaseInstalling, PhaseState, PhaseRestoring,
         PhaseRollbackState, WritePhase, JournalRec
    <2>3. QED
      BY <2>1, <2>2 DEF OlderInv
  <1>11. CASE WriteState
    <2>1. journal # None /\ journal.rev = task.rev /\ UNCHANGED << journal, backup >>
          /\ task.rev \in Revs
      BY <1>0, <1>11 DEF WriteState, IInv, ApplyInv, Pending, JournalRec
    <2>2. state' # None /\ state'.rev = task.rev
      <3>1. PICK t \in clock..MaxClock : state' = [rev |-> task.rev, at |-> t, restart |-> TRUE]
        BY <1>11 DEF WriteState
      <3>2. t \in Nat
        BY BoundsAssumption DEF IInv, TypeOK
      <3>3. state' \in StateRec
        BY <2>1, <3>1, <3>2 DEF StateRec
      <3>4. QED
        BY <3>1, <3>3
    <2>3. QED
      BY <2>1, <2>2 DEF OlderInv
  <1>12. CASE Mark
    BY <1>12 DEF Mark, OlderInv, IInv, JournalInv
  <1>13. CASE RollbackBegin
    <2>1. UNCHANGED << state, backup >> /\ task.rev \in Revs
      BY <1>13 DEF RollbackBegin, IInv, TypeOK, TaskRec
    <2>2. CASE UNCHANGED journal
      BY <1>1, <2>1, <2>2
    <2>3. CASE /\ Complete(backup[task.rev]) /\ state # None /\ state.rev = task.rev
               /\ journal'.rev = task.rev /\ journal'.prev = backup[task.rev].meta.prev
      BY <2>1, <2>3 DEF OlderInv, Complete
    <2>4. QED
      BY <1>13, <2>2, <2>3 DEF RollbackBegin, RollbackJournal
  <1>14. QED
    BY <1>2, <1>3, <1>4, <1>5, <1>6, <1>7, <1>8, <1>9, <1>10, <1>11, <1>12, <1>13
       DEF Next, Step, Recover, Apply, Rollback

\* Only a mark of that release takes the flag off an installed release: no
\* recovery and no rollback, from whatever journal, restores it without.
THEOREM FlagIsEarned == Spec => RestartFlagIsEarned
  <1> DEFINE Loses == /\ state # None /\ state' # None /\ state'.rev = state.rev
                      /\ state.restart /\ ~state'.restart
  <1>1. Init => OlderInv
    BY DEF Init, OlderInv
  <1>2. IInv /\ OlderInv /\ [Next]_vars => [Loses => task.op = "mark" /\ task.rev = state.rev]_vars
    <2> SUFFICES ASSUME IInv, OlderInv, Next, Loses
                 PROVE  task.op = "mark" /\ task.rev = state.rev
      BY DEF vars
    <2>1. state' # state
      OBVIOUS
    <2>2. CASE Mark
      BY <2>1, <2>2 DEF Mark
    <2>3. CASE WriteState
      BY <2>3 DEF WriteState
    <2>4. CASE RecoverState \/ RollbackState
      <3>1. journal # None /\ state' = journal.prev
        BY <2>4 DEF RecoverState, RollbackState, RestoreState, IInv, RecoveryInv, RollbackInv, Pending
      <3>2. QED
        BY <2>1, <3>1 DEF OlderInv, IsOlder
    <2>5. QED
      BY <2>1, <2>2, <2>3, <2>4 DEF Next, Step, Recover, Apply, Rollback, RecoverDecide,
         RecoverFile, RecoverCheck, RecoverRmtree, RecoverUnlink, ApplyBegin, BackupMkdir,
         BackupPayload, BackupMetadata, PhaseComplete, PhaseInstalling, InstallFile,
         PhaseState, ApplyCommit, Synced, RollbackBegin, PhaseRestoring, RollbackFile,
         PhaseRollbackState, RollbackCommit, RestoreFile, Error, Crash, Edit, device, Start,
         RequestApply, RequestMark, RequestRollback, Ask, Acquire, Busy
  <1>3. QED
    BY <1>1, <1>2, OlderStep, Invariance, PTL DEF Spec, RestartFlagIsEarned
=============================================================================
