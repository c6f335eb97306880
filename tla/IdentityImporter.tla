-------------------------- MODULE IdentityImporter --------------------------
(***************************************************************************)
(* packages/native_agent/identity/importer.py: the transactional import of *)
(* identity bundles on one device.  Importer processes are mutually        *)
(* excluded by a flock, so at most one is between _import_lock and its     *)
(* release: pc, task, todo and failing are that process's program counter  *)
(* and locals.  Every durable write (one file, the state file, one journal *)
(* phase, one part of a backup directory) is a step of its own, and the    *)
(* process may die, or get an exception, between any two of them.          *)
(***************************************************************************)
EXTENDS Naturals

CONSTANTS Procs,     \* importer processes that may run at once
          Files,     \* target files (FILE_SPECS)
          Contents,  \* what a file can hold
          Revs,      \* bundle revisions
          Payload,   \* Payload[r][f]: what bundle r puts in f, None if r omits f
          Factory,   \* what the target files may hold before the first import
          None,      \* no file, no state, no journal, no backup, no metadata
          MaxClock,  \* bound on the timestamps handed out
          MaxFaults  \* bound on crashes, exceptions and edits made outside the importer

Slot == Contents \cup {None}

\* import-state.json
StateRec == [rev : Revs, at : Nat, restart : BOOLEAN]
\* baseline of a bundle: the slots it replaces (None outside the bundle)
Baseline == [Files -> Slot]
\* metadata.json of a backup
MetaRec == [prev : StateRec \cup {None}, base : Baseline, made : Nat]
\* one directory under import-backups: payload files and metadata
BackupRec == [saved : Baseline, meta : MetaRec \cup {None}]

ApplyPhases == {"backup_pending", "backup_complete", "installing", "state_written"}
RollbackPhases == {"rollback_pending", "rollback_restoring", "rollback_state_written"}

\* import-pending.json; digest stands for the hash of the backup's metadata
JournalRec ==
  [op : {"apply", "rollback"}, phase : ApplyPhases \cup RollbackPhases,
   rev : Revs, prev : StateRec \cup {None}, base : Baseline,
   digest : MetaRec \cup {None}]

\* A call of apply_bundle, mark_restart_complete or rollback_bundle; seen is
\* the backup rollback_bundle loads before it takes the lock.
TaskRec == [op : {"apply", "mark", "rollback"}, rev : Revs, seen : BackupRec \cup {None}]

\* What it takes to undo an import: the baseline and the import state before it.
UndoRec == [base : Baseline, prev : StateRec \cup {None}]

ASSUME PayloadAssumption == Payload \in [Revs -> [Files -> Slot]]
ASSUME FactoryAssumption == Factory \subseteq [Files -> Slot]
ASSUME NoneAssumption ==
  /\ None \notin Contents
  /\ None \notin StateRec
  /\ None \notin MetaRec
  /\ None \notin BackupRec
  /\ None \notin JournalRec
  /\ None \notin TaskRec
  /\ None \notin UndoRec
ASSUME BoundsAssumption == MaxClock \in Nat /\ MaxFaults \in Nat

VARIABLES files,    \* the target files on the device
          state,    \* import-state.json, or None
          journal,  \* import-pending.json, or None
          backup,   \* backup[r]: the directory import-backups/r, or None
          request,  \* request[p]: a call that has not taken the lock yet, or None
          pc,       \* where the lock holder is; "idle" when the lock is free
          task,     \* the lock holder's call
          todo,     \* files its current loop still has to write
          failing,  \* it is recovering from an exception, which it will re-raise
          clock,    \* last timestamp handed out (_utc_now, one-second grain)
          faults    \* crashes, exceptions and outside edits so far

device == << files, state, journal, backup >>
locals == << pc, task, todo, failing >>
world  == << request, clock, faults >>
vars   == << device, locals, world >>

TryPcs == {"mkdir", "payload", "metadata", "phase_complete", "phase_installing",
           "install", "write_state", "phase_state", "verify", "synced",
           "phase_restoring", "rb_files", "rb_state", "phase_rb_state", "rb_verify"}
RecoveryPcs == {"recover", "restore", "restore_state", "check", "rmtree", "unlink"}
Pcs == {"idle", "body"} \cup TryPcs \cup RecoveryPcs

Covered(r) == {f \in Files : Payload[r][f] # None}
Captured(r) == [f \in Files |-> IF f \in Covered(r) THEN files[f] ELSE None]
BaselineMatches(r, base) == \A f \in Covered(r) : files[f] = base[f]
InstalledMatches(r) == \A f \in Covered(r) : files[f] = Payload[r][f]
EmptyDir == [saved |-> [f \in Files |-> None], meta |-> None]

\* _load_backup_snapshot accepts the directory.
Complete(b) == b # None /\ b.meta # None /\ b.saved = b.meta.base

BackupMatchesJournal(b, j) ==
  b.meta.prev = j.prev /\ b.meta.base = j.base /\ b.meta = j.digest

\* A timestamp of _utc_now: the current second or a later one.
Stamp(t) == t \in clock..MaxClock /\ clock' = t

Release == pc' = "idle" /\ task' = None /\ todo' = {} /\ failing' = FALSE
Goto(label) == pc' = label /\ UNCHANGED << task, todo, failing >>
WritePhase(phase) == journal' = [journal EXCEPT !.phase = phase]

TypeOK ==
  /\ files \in [Files -> Slot]
  /\ state \in StateRec \cup {None}
  /\ journal \in JournalRec \cup {None}
  /\ backup \in [Revs -> BackupRec \cup {None}]
  /\ request \in [Procs -> TaskRec \cup {None}]
  /\ pc \in Pcs
  /\ task \in TaskRec \cup {None}
  /\ todo \subseteq Files
  /\ failing \in BOOLEAN
  /\ clock \in Nat /\ faults \in Nat

Init ==
  /\ files \in Factory
  /\ state = None
  /\ journal = None
  /\ backup = [r \in Revs |-> None]
  /\ request = [p \in Procs |-> None]
  /\ pc = "idle" /\ task = None /\ todo = {} /\ failing = FALSE
  /\ clock = 0 /\ faults = 0

-----------------------------------------------------------------------------
(* Before the lock: validation and the reads made outside it.              *)

Ask(p, op, r, seen) ==
  /\ request[p] = None
  /\ request' = [request EXCEPT ![p] = [op |-> op, rev |-> r, seen |-> seen]]
  /\ UNCHANGED << device, locals, clock, faults >>

RequestApply(p, r) == Ask(p, "apply", r, None)

RequestMark(p, r) ==
  /\ state # None /\ state.rev = r
  /\ Ask(p, "mark", r, None)

RequestRollback(p, r) ==
  /\ Complete(backup[r])
  /\ Ask(p, "rollback", r, backup[r])

Acquire(p) ==
  /\ request[p] # None
  /\ pc = "idle"
  /\ pc' = "recover"
  /\ task' = request[p]
  /\ request' = [request EXCEPT ![p] = None]
  /\ UNCHANGED << device, todo, failing, clock, faults >>

\* flock is non-blocking: import_busy.
Busy(p) ==
  /\ request[p] # None
  /\ pc # "idle"
  /\ request' = [request EXCEPT ![p] = None]
  /\ UNCHANGED << device, locals, clock, faults >>

-----------------------------------------------------------------------------
(* _recover_pending: at the start of every call, and after an exception.   *)

\* Recovery is over: re-raise, or go on with the call.
Recovered ==
  IF failing THEN Release ELSE Goto("body")

RecoverDecide ==
  /\ pc = "recover"
  /\ UNCHANGED << device, world >>
  /\ LET r == journal.rev
         restored == BaselineMatches(r, journal.base) /\ state = journal.prev
     IN \/ journal = None /\ Recovered
        \/ /\ journal # None
           /\ journal.op = "apply" /\ journal.phase = "backup_pending"
           /\ IF restored THEN Goto("rmtree") ELSE Release
        \/ /\ journal # None
           /\ ~(journal.op = "apply" /\ journal.phase = "backup_pending")
           /\ IF journal.op = "apply" /\ restored /\ backup[r] = None
              THEN Goto("unlink")
              ELSE IF Complete(backup[r]) /\ BackupMatchesJournal(backup[r], journal)
              THEN /\ pc' = "restore"
                   /\ todo' = IF BaselineMatches(r, journal.base) THEN {} ELSE Covered(r)
                   /\ UNCHANGED << task, failing >>
              ELSE Release

\* One file of the loop of _restore_backup: rewritten, or removed if absent before.
RestoreFile(here, next) ==
  /\ pc = here
  /\ UNCHANGED << state, journal, backup, world >>
  /\ \/ \E f \in todo : /\ files' = [files EXCEPT ![f] = journal.base[f]]
                        /\ todo' = todo \ {f}
                        /\ UNCHANGED << pc, task, failing >>
     \/ todo = {} /\ Goto(next) /\ UNCHANGED files

RestoreState(here, next) ==
  /\ pc = here
  /\ state' = journal.prev
  /\ Goto(next)
  /\ UNCHANGED << files, journal, backup, world >>

\* Mutant: the backup is deleted before the state file is restored.
RecoverFileOnly == RestoreFile("restore", "rmtree")

RecoverFile == RestoreFile("restore", "restore_state")
RecoverState == RestoreState("restore_state", "check")

RecoverCheck ==
  /\ pc = "check"
  /\ IF BaselineMatches(journal.rev, journal.base) /\ state = journal.prev
     THEN Goto(IF journal.op = "apply" THEN "rmtree" ELSE "unlink")
     ELSE Release
  /\ UNCHANGED << device, world >>

\* shutil.rmtree of the backup directory: entries go one by one, in the order
\* the directory lists them, the directory itself last.
RecoverRmtree ==
  /\ pc = "rmtree"
  /\ UNCHANGED << files, state, journal, world >>
  /\ LET r == journal.rev
     IN \/ /\ backup[r] # None
           /\ \E f \in Files : /\ backup[r].saved[f] # None
                               /\ backup' = [backup EXCEPT ![r].saved[f] = None]
           /\ UNCHANGED locals
        \/ /\ backup[r] # None /\ backup[r].meta # None
           /\ backup' = [backup EXCEPT ![r].meta = None]
           /\ UNCHANGED locals
        \/ /\ backup[r] \in {None, EmptyDir}
           /\ backup' = [backup EXCEPT ![r] = None]
           /\ Goto("unlink")

RecoverUnlink ==
  /\ pc = "unlink"
  /\ journal' = None
  /\ Recovered
  /\ UNCHANGED << files, state, backup, world >>

Recover == \/ RecoverDecide \/ RecoverFile \/ RecoverState
           \/ RecoverCheck \/ RecoverRmtree \/ RecoverUnlink

-----------------------------------------------------------------------------
(* apply_bundle under the lock.                                            *)

ApplyJournal(r, phase, digest) ==
  [op |-> "apply", phase |-> phase, rev |-> r, prev |-> state,
   base |-> Captured(r), digest |-> digest]

\* already_applied or installed_state_mismatch, invalid_backup, backup_exists:
\* the call ends; otherwise the journal is written, reusing an equal backup.
ApplyBegin ==
  /\ pc = "body" /\ task.op = "apply"
  /\ LET r == task.rev
         b == backup[r]
     IN \/ /\ \/ state # None /\ state.rev = r
              \/ b # None /\ ~Complete(b)
              \/ Complete(b) /\ (b.meta.prev # state \/ b.meta.base # Captured(r))
           /\ Release
           /\ UNCHANGED journal
        \/ /\ ~(state # None /\ state.rev = r)
           /\ b = None
           /\ journal' = ApplyJournal(r, "backup_pending", None)
           /\ Goto("mkdir")
        \/ /\ ~(state # None /\ state.rev = r)
           /\ Complete(b) /\ b.meta.prev = state /\ b.meta.base = Captured(r)
           /\ journal' = ApplyJournal(r, "backup_complete", b.meta)
           /\ Goto("phase_installing")
  /\ UNCHANGED << files, state, backup, world >>

BackupMkdir ==
  /\ pc = "mkdir"
  /\ backup' = [backup EXCEPT ![task.rev] = EmptyDir]
  /\ pc' = "payload"
  /\ todo' = {f \in Covered(task.rev) : journal.base[f] # None}
  /\ UNCHANGED << files, state, journal, task, failing, world >>

\* A file that no longer matches the baseline raises baseline_changed_during_backup.
BackupPayload ==
  /\ pc = "payload"
  /\ UNCHANGED << files, state, journal, task, world >>
  /\ \/ \E f \in todo :
          IF files[f] = journal.base[f]
          THEN /\ backup' = [backup EXCEPT ![task.rev].saved[f] = files[f]]
               /\ todo' = todo \ {f}
               /\ UNCHANGED << pc, failing >>
          ELSE /\ pc' = "recover" /\ todo' = {} /\ failing' = TRUE
               /\ UNCHANGED backup
     \/ todo = {} /\ pc' = "metadata" /\ UNCHANGED << backup, todo, failing >>

BackupMetadata ==
  /\ pc = "metadata"
  /\ \E t \in clock..MaxClock :
       /\ Stamp(t)
       /\ backup' = [backup EXCEPT ![task.rev].meta =
                       [prev |-> journal.prev, base |-> journal.base, made |-> t]]
  /\ Goto("phase_complete")
  /\ UNCHANGED << files, state, journal, request, faults >>

PhaseComplete ==
  /\ pc = "phase_complete"
  /\ journal' = [journal EXCEPT !.phase = "backup_complete",
                                !.digest = backup[task.rev].meta]
  /\ Goto("phase_installing")
  /\ UNCHANGED << files, state, backup, world >>

PhaseInstalling ==
  /\ pc = "phase_installing"
  /\ WritePhase("installing")
  /\ pc' = "install" /\ todo' = Covered(task.rev)
  /\ UNCHANGED << files, state, backup, task, failing, world >>

InstallFile ==
  /\ pc = "install"
  /\ UNCHANGED << state, journal, backup, world >>
  /\ \/ \E f \in todo : /\ files' = [files EXCEPT ![f] = Payload[task.rev][f]]
                        /\ todo' = todo \ {f}
                        /\ UNCHANGED << pc, task, failing >>
     \/ todo = {} /\ Goto("write_state") /\ UNCHANGED files

WriteState ==
  /\ pc = "write_state"
  /\ \E t \in clock..MaxClock :
       /\ Stamp(t)
       /\ state' = [rev |-> task.rev, at |-> t, restart |-> TRUE]
  /\ Goto("phase_state")
  /\ UNCHANGED << files, journal, backup, request, faults >>

PhaseState ==
  /\ pc = "phase_state"
  /\ WritePhase("state_written")
  /\ Goto("verify")
  /\ UNCHANGED << files, state, backup, world >>

\* Mutant: a verified install deletes its backup.
ApplyCommitTidy ==
  /\ pc = "verify"
  /\ journal' = None /\ backup' = [backup EXCEPT ![task.rev] = None]
  /\ Goto("synced")
  /\ UNCHANGED << files, state, world >>

\* Verification, then the unlink of the journal, which commits.
ApplyCommit ==
  /\ pc = "verify"
  /\ IF InstalledMatches(task.rev)
     THEN journal' = None /\ Goto("synced")
     ELSE /\ pc' = "recover" /\ failing' = TRUE
          /\ UNCHANGED << journal, task, todo >>
  /\ UNCHANGED << files, state, backup, world >>

\* The directory fsync after the unlink, and the end of the call.
Synced ==
  /\ pc = "synced"
  /\ Release
  /\ UNCHANGED << device, world >>

Apply == \/ ApplyBegin \/ BackupMkdir \/ BackupPayload \/ BackupMetadata
         \/ PhaseComplete \/ PhaseInstalling \/ InstallFile \/ WriteState
         \/ PhaseState \/ ApplyCommit \/ Synced

-----------------------------------------------------------------------------
(* mark_restart_complete and rollback_bundle under the lock.               *)

\* Mutant: the state is not read again once the lock is held.
MarkUnchecked ==
  /\ pc = "body" /\ task.op = "mark"
  /\ state' = IF state # None THEN [state EXCEPT !.restart = FALSE] ELSE state
  /\ Release
  /\ UNCHANGED << files, journal, backup, world >>

Mark ==
  /\ pc = "body" /\ task.op = "mark"
  /\ state' = IF state # None /\ state.rev = task.rev
              THEN [state EXCEPT !.restart = FALSE] ELSE state
  /\ Release
  /\ UNCHANGED << files, journal, backup, world >>

\* The journal rollback_bundle writes first.
RollbackJournal(r, prev, base, meta) ==
  [op |-> "rollback", phase |-> "rollback_pending", rev |-> r,
   prev |-> prev, base |-> base, digest |-> meta]

\* Mutants: the journal names the current state, or the current files, as
\* those to go back to; the revision rolled back need not be the current one.
RollbackBeginCurrentState ==
  /\ pc = "body" /\ task.op = "rollback"
  /\ LET b == backup[task.rev]
     IN \/ ~Complete(b) /\ Release /\ UNCHANGED journal
        \/ /\ Complete(b) /\ state # None /\ state.rev = task.rev
           /\ journal' = RollbackJournal(task.rev, state, b.meta.base, b.meta)
           /\ Goto("phase_restoring")
  /\ UNCHANGED << files, state, backup, world >>
RollbackBegin ==
  /\ pc = "body" /\ task.op = "rollback"
  /\ LET r == task.rev
         b == backup[r]
         proceed == /\ Complete(b) /\ b = task.seen
                    /\ ~(BaselineMatches(r, b.meta.base) /\ state = b.meta.prev)
                    /\ state # None /\ state.rev = r
     IN \/ ~proceed /\ Release /\ UNCHANGED journal
        \/ /\ proceed
           /\ journal' = RollbackJournal(r, b.meta.prev, b.meta.base, b.meta)
           /\ Goto("phase_restoring")
  /\ UNCHANGED << files, state, backup, world >>

PhaseRestoring ==
  /\ pc = "phase_restoring"
  /\ WritePhase("rollback_restoring")
  /\ pc' = "rb_files" /\ todo' = Covered(task.rev)
  /\ UNCHANGED << files, state, backup, task, failing, world >>

RollbackFile == RestoreFile("rb_files", "rb_state")
RollbackState == RestoreState("rb_state", "phase_rb_state")

PhaseRollbackState ==
  /\ pc = "phase_rb_state"
  /\ WritePhase("rollback_state_written")
  /\ Goto("rb_verify")
  /\ UNCHANGED << files, state, backup, world >>

RollbackCommit ==
  /\ pc = "rb_verify"
  /\ IF BaselineMatches(journal.rev, journal.base) /\ state = journal.prev
     THEN journal' = None /\ Goto("synced")
     ELSE /\ pc' = "recover" /\ failing' = TRUE
          /\ UNCHANGED << journal, task, todo >>
  /\ UNCHANGED << files, state, backup, world >>

Rollback == \/ RollbackBegin \/ PhaseRestoring \/ RollbackFile \/ RollbackState
            \/ PhaseRollbackState \/ RollbackCommit

-----------------------------------------------------------------------------
(* Faults and the outside world.                                           *)

\* An exception inside the try block: recover in this process, then re-raise.
Error ==
  /\ pc \in TryPcs /\ faults < MaxFaults
  /\ pc' = "recover" /\ todo' = {} /\ failing' = TRUE
  /\ faults' = faults + 1
  /\ UNCHANGED << device, task, request, clock >>

\* The process dies and the kernel drops its flock; an exception outside the
\* try block, or inside recovery, ends the call the same way.
Crash ==
  /\ pc # "idle" /\ faults < MaxFaults
  /\ Release
  /\ faults' = faults + 1
  /\ UNCHANGED << device, request, clock >>

\* Somebody changes or removes a target while no import is running or pending.
Edit(f, c) ==
  /\ faults < MaxFaults
  /\ pc = "idle" /\ journal = None
  /\ files[f] # c
  /\ files' = [files EXCEPT ![f] = c]
  /\ faults' = faults + 1
  /\ UNCHANGED << state, journal, backup, locals, request, clock >>

Step == Recover \/ Apply \/ Mark \/ Rollback

Start(p) == \E r \in Revs : RequestApply(p, r) \/ RequestMark(p, r) \/ RequestRollback(p, r)

Next ==
  \/ Step
  \/ \E p \in Procs : Start(p) \/ Acquire(p) \/ Busy(p)
  \/ Error \/ Crash
  \/ \E f \in Files, c \in Slot : Edit(f, c)

Spec == Init /\ [][Next]_vars

-----------------------------------------------------------------------------
(* Properties.                                                             *)

Untouched(j) == BaselineMatches(j.rev, j.base) /\ state = j.prev
BackupHolds(j) == Complete(backup[j.rev]) /\ BackupMatchesJournal(backup[j.rev], j)

\* Whatever step the importer dies at, a pending journal either describes a
\* device nothing was done to, or names a complete backup that can undo it.
PendingIsRecoverable == journal # None => Untouched(journal) \/ BackupHolds(journal)

\* What the device holds once the pending journal, if any, is recovered.
SettledState == IF journal = None THEN state ELSE journal.prev
SettledFiles ==
  IF journal = None THEN files
  ELSE [f \in Files |-> IF f \in Covered(journal.rev) THEN journal.base[f] ELSE files[f]]

\* The installed release can be rolled back: no crash, failed retry or reuse
\* of an old backup ever costs it its undo record.
InstalledHasUndo == SettledState # None => Complete(backup[SettledState.rev])

\* The undo records a recovered device keeps: an apply owns its own until it commits.
SettledUndo ==
  [r \in Revs |->
     IF journal # None /\ journal.op = "apply" /\ journal.rev = r THEN None
     ELSE IF Complete(backup[r])
     THEN [base |-> backup[r].meta.base, prev |-> backup[r].meta.prev]
     ELSE None]

Atomic == INSTANCE ImportAtomic
          WITH target <- SettledFiles, release <- SettledState, undo <- SettledUndo

\* The importer implements one-step install and rollback: apply takes effect
\* when its journal is deleted, rollback when its journal is created.
ImplementsAtomic == Atomic!Spec

\* A release stops asking for a harness restart only when a call named it:
\* a mark delayed past a rollback or an upgrade touches nothing.
RestartFlagIsEarned ==
  [][state # None /\ state' # None /\ state'.rev = state.rev
       /\ state.restart /\ ~state'.restart
     => task.op = "mark" /\ task.rev = state.rev]_vars

\* importer.py:710, "Recover every journal phase idempotently": the next
\* recovery gets through whatever journal it finds.
EveryPhaseRecovers ==
  pc = "recover" /\ journal # None =>
    \/ BackupHolds(journal)
    \/ Untouched(journal) /\ (journal.phase = "backup_pending" \/ backup[journal.rev] = None)
=============================================================================
