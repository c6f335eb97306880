------------------------------ MODULE X5Release ------------------------------
(***************************************************************************)
(* packages/native_agent/runtime/x5_runner.py: install a release on the X5 *)
(* board, restart the harness that reads it, mark it as restarted, and put *)
(* the old release back when any of that fails.  The importer is the       *)
(* one-step device of ImportAtomic (IdentityImporter implements it); here  *)
(* an import also has a moment when its files are half written, which a    *)
(* harness started at that moment will read.  A runner the S100 gave up on *)
(* after its 50 s goes on running, so several may be at work.              *)
(***************************************************************************)
EXTENDS Naturals

CONSTANTS Runners,  \* installer processes on the board
          Files, Contents, Revs, Payload, None,
          Factory,  \* what the target files may hold before the first install
          Torn,     \* a harness that read files of two releases
          MaxFaults \* bound on failed restarts, exceptions, kills and reboots

VARIABLES target, release, undo, \* the device, as in ImportAtomic
          torn,    \* a dead importer left its files half written
          loaded,  \* the files the running harness started from; None if it is down
          pc,      \* pc[p]: where runner p is
          call,    \* call[p]: its operation and revision
          outcome, \* outcome[p]: what its last call reported
          faults

device == << target, release, undo >>
vars == << device, torn, loaded, pc, call, outcome, faults >>

Device == INSTANCE ImportAtomic

Installed(r) == Device!Installed(r)
Saved(r) == [base |-> Device!Captured(target, r), prev |-> release]
Importing == {"install", "restoring"}

\* The importer's flock is held by somebody else: import_busy.
Locked(p) == \E q \in Runners \ {p} : pc[q] \in Importing

\* What a harness that starts now may read.
HalfWritten == torn \/ \E p \in Runners : pc[p] \in Importing
Readable == {target} \cup (IF HalfWritten THEN {Torn} ELSE {})

Baseline == [Files -> Contents \cup {None}]
StateRec == [rev : Revs, at : {0}, restart : BOOLEAN]
UndoRec == [base : Baseline, prev : StateRec \cup {None}]
CallRec == [op : {"apply", "rollback"}, rev : Revs]

ASSUME BundlesAssumption == Payload \in [Revs -> Baseline] /\ Factory \subseteq Baseline
ASSUME NoneAssumption == None \notin StateRec /\ None \notin UndoRec /\ None \notin CallRec
ASSUME BoundsAssumption == MaxFaults \in Nat

TypeOK ==
  /\ target \in Baseline /\ release \in StateRec \cup {None}
  /\ undo \in [Revs -> UndoRec \cup {None}]
  /\ torn \in BOOLEAN /\ loaded \in Baseline \cup {Torn, None}
  /\ pc \in [Runners -> {"idle", "apply", "restart", "mark", "rollback", "restart_back"}
                        \cup Importing]
  /\ call \in [Runners -> CallRec \cup {None}]
  /\ outcome \in [Runners -> {"none", "ready", "restored", "rolled_back", "failed"}]
  /\ faults \in 0..MaxFaults

Init ==
  /\ target \in Factory /\ release = None /\ undo = [r \in Revs |-> None]
  /\ torn = FALSE /\ loaded = target
  /\ pc = [p \in Runners |-> "idle"]
  /\ call = [p \in Runners |-> None]
  /\ outcome = [p \in Runners |-> "none"]
  /\ faults = 0

Goto(p, label) == pc' = [pc EXCEPT ![p] = label] /\ UNCHANGED << call, outcome >>
Finish(p, result) ==
  pc' = [pc EXCEPT ![p] = "idle"] /\ outcome' = [outcome EXCEPT ![p] = result] /\ UNCHANGED call
Fault == faults < MaxFaults /\ faults' = faults + 1

Request(p, op, r) ==
  /\ pc[p] = "idle"
  /\ pc' = [pc EXCEPT ![p] = op]
  /\ call' = [call EXCEPT ![p] = [op |-> op, rev |-> r]]
  /\ outcome' = [outcome EXCEPT ![p] = "none"]
  /\ UNCHANGED << device, torn, loaded, faults >>

\* apply_bundle takes the lock, recovers, and refuses, or finds r in place, or starts.
ApplyBegin(p) ==
  /\ pc[p] = "apply"
  /\ torn' = (torn /\ Locked(p))
  /\ LET r == call[p].rev
         refused == Locked(p) \/ (~Installed(r) /\ undo[r] \notin {None, Saved(r)})
     IN \/ refused /\ Finish(p, "failed") /\ UNCHANGED undo
        \/ ~refused /\ Installed(r) /\ Goto(p, "restart") /\ UNCHANGED undo
        \/ ~refused /\ ~Installed(r) /\ Goto(p, "install")
           /\ undo' = [undo EXCEPT ![r] = None]
  /\ UNCHANGED << target, release, loaded, faults >>

InstallOn(r) ==
  /\ target' = Device!Overlay(target, r, Payload[r])
  /\ release' = [rev |-> r, at |-> 0, restart |-> TRUE]
  /\ undo' = [undo EXCEPT ![r] = Saved(r)]

\* Mutant: the state file is written without restart_required.
ApplyCommitMarked(p) ==
  /\ pc[p] = "install"
  /\ target' = Device!Overlay(target, call[p].rev, Payload[call[p].rev])
  /\ release' = [rev |-> call[p].rev, at |-> 0, restart |-> FALSE]
  /\ undo' = [undo EXCEPT ![call[p].rev] = Saved(call[p].rev)]
  /\ Goto(p, "restart")
  /\ UNCHANGED << torn, loaded, faults >>

ApplyCommit(p) ==
  /\ pc[p] = "install"
  /\ InstallOn(call[p].rev)
  /\ Goto(p, "restart")
  /\ UNCHANGED << torn, loaded, faults >>

\* An exception inside apply_bundle leaves the runner at once: no restart, no
\* rollback.  After the journal is unlinked the release is nevertheless in.
ApplyRaises(p) ==
  /\ pc[p] = "install" /\ Fault
  /\ InstallOn(call[p].rev) \/ UNCHANGED device
  /\ Finish(p, "failed")
  /\ UNCHANGED << torn, loaded >>

\* restart(): systemctl restart, then is-active within 20 s.
AfterRestart(p) ==
  IF pc[p] = "restart" THEN Goto(p, "mark")
  ELSE Finish(p, IF call[p].op = "apply" THEN "restored" ELSE "rolled_back")

\* Mutant: the result of systemctl is not looked at.
RestartUnchecked(p) ==
  /\ pc[p] \in {"restart", "restart_back"}
  /\ loaded' \in Readable \cup {loaded}
  /\ AfterRestart(p)
  /\ UNCHANGED << device, torn, faults >>

Restart(p) ==
  /\ pc[p] \in {"restart", "restart_back"}
  /\ loaded' \in Readable
  /\ AfterRestart(p)
  /\ UNCHANGED << device, torn, faults >>

\* The unit stays as it was, starts too late to be seen active, or is down.
RestartFails(p) ==
  /\ pc[p] \in {"restart", "restart_back"} /\ Fault
  /\ loaded' \in Readable \cup {loaded, None}
  /\ IF pc[p] = "restart" THEN Goto(p, "rollback") ELSE Finish(p, "failed")
  /\ UNCHANGED << device, torn >>

\* mark_restart_complete; whatever it raises starts the rollback.
Mark(p) ==
  /\ pc[p] = "mark"
  /\ torn' = (torn /\ Locked(p))
  /\ IF ~Locked(p) /\ Installed(call[p].rev)
     THEN release' = [release EXCEPT !.restart = FALSE] /\ Finish(p, "ready")
     ELSE Goto(p, "rollback") /\ UNCHANGED release
  /\ UNCHANGED << target, undo, loaded, faults >>

MarkRaises(p) ==
  /\ pc[p] = "mark" /\ Fault /\ ~Locked(p)
  /\ torn' = FALSE
  /\ Goto(p, "rollback")
  /\ release' \in {release} \cup
       (IF Installed(call[p].rev) THEN {[release EXCEPT !.restart = FALSE]} ELSE {})
  /\ UNCHANGED << target, undo, loaded >>

\* Mutant: only the files are put back.
RollbackFilesOnly(p) ==
  /\ pc[p] = "rollback"
  /\ torn' = FALSE
  /\ LET r == call[p].rev
     IN \/ Installed(r) /\ undo[r] # None
           /\ target' = Device!Overlay(target, r, undo[r].base)
           /\ Goto(p, "restoring") /\ UNCHANGED << release, undo >>
        \/ ~(Installed(r) /\ undo[r] # None) /\ Finish(p, "failed") /\ UNCHANGED device
  /\ UNCHANGED << loaded, faults >>

\* Mutant: the revision rolled back need not be the current one.
RollbackUnlocked(p) ==
  /\ pc[p] = "rollback"
  /\ LET r == call[p].rev
     IN \/ undo[r] # None
           /\ target' = Device!Overlay(target, r, undo[r].base) /\ release' = undo[r].prev
           /\ Goto(p, "restoring") /\ UNCHANGED undo
        \/ undo[r] = None /\ Finish(p, "failed") /\ UNCHANGED device
  /\ UNCHANGED << torn, loaded, faults >>

\* rollback_bundle, for a failed install or on request.
Rollback(p) ==
  /\ pc[p] = "rollback"
  /\ torn' = (torn /\ Locked(p))
  /\ LET r == call[p].rev
         usable == ~Locked(p) /\ undo[r] # None
         already == usable /\ undo[r] = [base |-> Device!Captured(target, r), prev |-> release]
     IN \/ already /\ Goto(p, "restart_back") /\ UNCHANGED device
        \/ usable /\ ~already /\ Device!Rollback(r) /\ Goto(p, "restoring")
        \/ /\ ~usable \/ (~already /\ ~Installed(r))
           /\ Finish(p, "failed") /\ UNCHANGED device
  /\ UNCHANGED << loaded, faults >>

RollbackDone(p) ==
  /\ pc[p] = "restoring"
  /\ Goto(p, "restart_back")
  /\ UNCHANGED << device, torn, loaded, faults >>

\* The files are put back by the recovery, or by the next importer's.
RollbackRaises(p) ==
  /\ pc[p] = "restoring" /\ Fault
  /\ torn' \in BOOLEAN
  /\ Finish(p, "failed")
  /\ UNCHANGED << device, loaded >>

Kill(p) ==
  /\ pc[p] # "idle" /\ Fault
  /\ torn' = (torn \/ pc[p] \in Importing)
  /\ pc' = [pc EXCEPT ![p] = "idle"]
  /\ UNCHANGED << device, loaded, call, outcome >>

\* Power comes back: no runner survives, and the harness starts from the disk.
Boot ==
  /\ Fault
  /\ pc' = [p \in Runners |-> "idle"]
  /\ torn' = HalfWritten
  /\ loaded' \in Readable
  /\ UNCHANGED << device, call, outcome >>

Next ==
  \/ \E p \in Runners :
       \/ \E op \in {"apply", "rollback"}, r \in Revs : Request(p, op, r)
       \/ ApplyBegin(p) \/ ApplyCommit(p) \/ ApplyRaises(p)
       \/ Restart(p) \/ RestartFails(p)
       \/ Mark(p) \/ MarkRaises(p)
       \/ Rollback(p) \/ RollbackDone(p) \/ RollbackRaises(p)
       \/ Kill(p)
  \/ Boot

Spec == Init /\ [][Next]_vars

-----------------------------------------------------------------------------
(* Properties.                                                             *)

InPlace(r) == \A f \in Device!Covered(r) : target[f] = Payload[r][f]

\* No other runner has made a call.
Alone(p) == \A q \in Runners \ {p} : call[q] = None

\* A call that reported ready left a whole release, marked, and a harness
\* that runs it: true as long as no other call is made, reboots included.
ReadyIsRunning ==
  \A p \in Runners :
    outcome[p] = "ready" /\ pc[p] = "idle" /\ Alone(p) =>
      /\ Installed(call[p].rev) /\ ~release.restart
      /\ InPlace(call[p].rev) /\ loaded = target

\* A failed install that reported its rollback left the files and the state
\* from before the release, and a harness that runs them.  This also holds
\* when the call found its release already installed: it is uninstalled.
RestoredIsBaseline ==
  \A p \in Runners :
    outcome[p] = "restored" /\ pc[p] = "idle" /\ Alone(p) =>
      /\ undo[call[p].rev] = Saved(call[p].rev)
      /\ ~Installed(call[p].rev) /\ loaded = target

\* The runner uses the device only through the importer's operations.
FollowsDevice == Device!Spec

\* The activation gate accepts the release: current_revision is known and
\* restart_required is false, and the harness is up.
GateOpen == release # None /\ ~release.restart /\ loaded # None

\* While only one runner has called, the gate opens on a harness that runs the
\* release, or on one that started from half-written files, or at the start of
\* a rollback, which restores a release together with its old flag before the
\* harness restarts.
GateOpensHonestly ==
  [][~GateOpen /\ GateOpen' /\ (\E p \in Runners : Alone(p)') =>
       \/ loaded' \in {target', Torn}
       \/ \E p \in Runners : pc[p] = "rollback" /\ pc'[p] = "restoring"]_vars
=============================================================================
