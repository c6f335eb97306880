--------------------------- MODULE X5ReleaseProofs ---------------------------
(***************************************************************************)
(* Theorems about X5Release, for all runners, files, contents and bundles  *)
(* and any number of faults: the runners move the device only as           *)
(* ImportAtomic does, and what a lone call reports is what is there.       *)
(***************************************************************************)
EXTENDS X5Release, TLAPS

-----------------------------------------------------------------------------
(* The device.  The installed release stands on those it replaced, down to *)
(* the device as it was delivered: level i has the import state h[i] and   *)
(* the files d[i], its bundle's on top of the level below; its undo record *)
(* leads there.  No revision is in twice.                                  *)

Stack(h, d, n) ==
  /\ h[0] = None /\ release = h[n] /\ target = d[n]
  /\ \A i \in 1..n :
       /\ h[i] \in StateRec
       /\ undo[h[i].rev] = [base |-> Device!Captured(d[i - 1], h[i].rev), prev |-> h[i - 1]]
       /\ d[i] = Device!Overlay(d[i - 1], h[i].rev, Payload[h[i].rev])
  /\ \A i, j \in 1..n : h[i].rev = h[j].rev => i = j

Levels == [Nat -> StateRec \cup {None}]
Disks == [Nat -> Baseline]
Stacked == \E h \in Levels, d \in Disks, n \in Nat : Stack(h, d, n)

(* The runners.                                                            *)

\* A runner that does something was called and has not reported yet.
Called(p) ==
  /\ pc[p] # "idle" => call[p] # None /\ outcome[p] = "none"
  /\ call[p] = None => outcome[p] = "none"

\* The lock, and what the importer that holds it has found.
OneImporter == \A p, q \in Runners : pc[p] \in Importing /\ pc[q] \in Importing => p = q
Fresh(p) == pc[p] = "install" => ~Installed(call[p].rev) /\ undo[call[p].rev] = None

Undone(r) == undo[r] = Saved(r) /\ ~Installed(r)

\* What a lone runner relies on.
AloneInv(p) ==
  LET r == call[p].rev IN
  /\ pc[p] \in {"install", "restart", "mark", "restoring", "restart_back"} => ~torn
  /\ pc[p] \in {"restart", "mark"} => Installed(r)
  /\ pc[p] = "mark" => loaded = target
  /\ pc[p] \in {"restoring", "restart_back"} => Undone(r)
  /\ outcome[p] \in {"ready", "restored"} => ~torn /\ loaded = target
  /\ outcome[p] = "ready" => Installed(r) /\ ~release.restart
  /\ outcome[p] = "restored" => Undone(r)

IInv ==
  /\ TypeOK /\ Stacked /\ OneImporter
  /\ \A p \in Runners : Called(p) /\ Fresh(p) /\ (Alone(p) => AloneInv(p))

-----------------------------------------------------------------------------
(* What may happen to the device: the steps of ImportAtomic but its Edit.  *)

Install(r) == ~Installed(r) /\ undo[r] = None /\ InstallOn(r)
Moves(r) ==
  Install(r) \/ Device!Rollback(r) \/ Device!MarkRestarted(r) \/ Device!Discard(r)

LEMMA OverlayType ==
  ASSUME NEW g \in Baseline, NEW b \in Baseline, NEW r \in Revs
  PROVE  Device!Overlay(g, r, b) \in Baseline /\ Device!Captured(g, r) \in Baseline
  BY DEF Device!Overlay, Device!Captured, Baseline

\* Putting back what was captured below undoes what was put on top.
LEMMA OverlayUndone ==
  ASSUME NEW g \in Baseline, NEW b, NEW r \in Revs
  PROVE  Device!Overlay(Device!Overlay(g, r, b), r, Device!Captured(g, r)) = g
  BY DEF Device!Overlay, Device!Captured, Baseline

LEMMA SavedType ==
  ASSUME TypeOK, NEW r \in Revs
  PROVE  Saved(r) \in UndoRec
  BY OverlayType DEF Saved, UndoRec, TypeOK

LEMMA MoveType ==
  ASSUME TypeOK, NEW r \in Revs, Moves(r)
  PROVE  /\ target' \in Baseline /\ release' \in StateRec \cup {None}
         /\ undo' \in [Revs -> UndoRec \cup {None}]
  <1>1. CASE Install(r)
    <2>1. target' \in Baseline
      BY <1>1, OverlayType, BundlesAssumption DEF Install, InstallOn, TypeOK
    <2>2. release' \in StateRec
      BY <1>1 DEF Install, InstallOn, StateRec
    <2>3. undo' \in [Revs -> UndoRec \cup {None}]
      BY <1>1, SavedType DEF Install, InstallOn, TypeOK
    <2>4. QED
      BY <2>1, <2>2, <2>3
  <1>2. CASE Device!Rollback(r)
    <2>1. undo[r] \in UndoRec
      BY <1>2 DEF Device!Rollback, TypeOK
    <2>2. undo[r].base \in Baseline /\ undo[r].prev \in StateRec \cup {None}
      BY <2>1 DEF UndoRec
    <2>3. QED
      BY <1>2, <2>2, OverlayType DEF Device!Rollback, TypeOK
  <1>3. CASE Device!MarkRestarted(r)
    <2>1. release \in StateRec
      BY <1>3 DEF Device!MarkRestarted, Device!Installed, TypeOK
    <2>2. [release EXCEPT !.restart = FALSE] \in StateRec
      BY <2>1 DEF StateRec
    <2>3. QED
      BY <1>3, <2>2 DEF Device!MarkRestarted, TypeOK
  <1>4. CASE Device!Discard(r)
    BY <1>4 DEF Device!Discard, TypeOK
  <1>5. QED
    BY <1>1, <1>2, <1>3, <1>4 DEF Moves

LEMMA MoveIsAtomic ==
  ASSUME TypeOK, NEW r \in Revs, Moves(r)
  PROVE  Device!Next
  <1>1. Install(r) => Device!Install(r)
    <2> SUFFICES ASSUME Install(r) PROVE Device!Install(r)
      OBVIOUS
    <2>1. release' \in StateRec /\ release' = [rev |-> r, at |-> 0, restart |-> TRUE]
      BY DEF Install, InstallOn, StateRec
    <2>2. release' # None /\ release'.at = 0
      BY <2>1, NoneAssumption
    <2>3. QED
      BY <2>1, <2>2 DEF Install, InstallOn, Device!Install, Installed, Saved
  <1>2. QED
    BY <1>1 DEF Moves, Device!Next

\* The revisions of a stack, and what they are not.
LEMMA StackRevs ==
  ASSUME NEW h \in Levels, NEW d \in Disks, NEW n \in Nat, Stack(h, d, n)
  PROVE  /\ \A i \in 1..n : h[i] \in StateRec /\ h[i].rev \in Revs /\ h[i] # None
         /\ release = None <=> n = 0
  <1>1. \A i \in 1..n : h[i] \in StateRec /\ h[i].rev \in Revs /\ h[i] # None
    BY NoneAssumption DEF Stack, StateRec
  <1>2. n # 0 => n \in 1..n
    OBVIOUS
  <1>3. QED
    BY <1>1, <1>2 DEF Stack

\* The release below another one is another one.
LEMMA BelowIsOther ==
  ASSUME TypeOK, Stacked, NEW r \in Revs, undo[r] # None, undo[r].prev = release
  PROVE  /\ ~Installed(r)
         /\ \A h \in Levels, d \in Disks, n \in Nat :
              Stack(h, d, n) => \A i \in 1..n : h[i].rev # r
  <1>1. ASSUME NEW h \in Levels, NEW d \in Disks, NEW n \in Nat, Stack(h, d, n), NEW i \in 1..n
        PROVE  h[i].rev # r
    <2>1. SUFFICES ASSUME h[i].rev = r PROVE FALSE
      OBVIOUS
    <2>2. undo[r].prev = h[i - 1] /\ release = h[n] /\ n \in 1..n
      <3>1. undo[h[i].rev] = [base |-> Device!Captured(d[i - 1], h[i].rev), prev |-> h[i - 1]]
        BY <1>1 DEF Stack
      <3>2. undo[r].prev = h[i - 1]
        BY <2>1, <3>1
      <3>3. QED
        BY <1>1, <3>2 DEF Stack
    <2>3. h[i - 1] = h[n] /\ h[n] # None
      BY <1>1, <2>2, StackRevs
    <2>4. i - 1 \in 1..n
      BY <1>1, <2>3 DEF Stack
    <2>5. i - 1 = n
      BY <1>1, <2>2, <2>3, <2>4 DEF Stack
    <2>6. QED
      BY <1>1, <2>5
  <1>2. ~Installed(r)
    <2>1. PICK h \in Levels, d \in Disks, n \in Nat : Stack(h, d, n)
      BY DEF Stacked
    <2>2. Installed(r) => n \in 1..n /\ h[n].rev = r
      BY <2>1, StackRevs DEF Installed, Device!Installed, Stack
    <2>3. QED
      BY <1>1, <2>1, <2>2
  <1>3. QED
    BY <1>1, <1>2

\* Every move keeps the stack: an install pushes, a rollback pops, a discarded
\* record belongs to no release of the stack.
LEMMA MoveStacked ==
  ASSUME TypeOK, Stacked, NEW r \in Revs, Moves(r)
  PROVE  Stacked'
  <1>1. PICK h \in Levels, d \in Disks, n \in Nat : Stack(h, d, n)
    BY DEF Stacked
  <1>2. \A i \in 1..n : h[i] \in StateRec /\ h[i].rev \in Revs
    BY <1>1, StackRevs
  <1>3. CASE Install(r)
    <2>1. /\ release' \in StateRec /\ release'.rev = r
          /\ target' = Device!Overlay(target, r, Payload[r]) /\ target' \in Baseline
          /\ undo' = [undo EXCEPT ![r] = Saved(r)] /\ undo[r] = None
      BY <1>3, MoveType DEF Install, InstallOn, StateRec
    <2>2. PICK g \in Levels : g[n + 1] = release' /\ \A i \in 0..n : g[i] = h[i]
      <3> DEFINE w == [h EXCEPT ![n + 1] = release']
      <3>1. w \in Levels /\ w[n + 1] = release' /\ \A i \in 0..n : w[i] = h[i]
        BY <2>1 DEF Levels
      <3> HIDE DEF w
      <3>2. QED
        BY <3>1
    <2>3. PICK e \in Disks : e[n + 1] = target' /\ \A i \in 0..n : e[i] = d[i]
      <3> DEFINE w == [d EXCEPT ![n + 1] = target']
      <3>1. w \in Disks /\ w[n + 1] = target' /\ \A i \in 0..n : w[i] = d[i]
        BY <2>1 DEF Disks
      <3> HIDE DEF w
      <3>2. QED
        BY <3>1
    <2>4. \A i \in 1..n : h[i].rev # r
      <3>1. ASSUME NEW i \in 1..n PROVE undo[h[i].rev] # None
        <4>1. undo[h[i].rev] = [base |-> Device!Captured(d[i - 1], h[i].rev), prev |-> h[i - 1]]
          BY <1>1 DEF Stack
        <4>2. h[i - 1] \in StateRec \cup {None} /\ d[i - 1] \in Baseline
          BY DEF Levels, Disks
        <4>3. [base |-> Device!Captured(d[i - 1], h[i].rev), prev |-> h[i - 1]] \in UndoRec
          BY <1>2, <4>2, OverlayType DEF UndoRec
        <4>4. QED
          BY <4>1, <4>3, NoneAssumption
      <3>2. QED
        BY <2>1, <3>1
    <2>5. Stack(g, e, n + 1)'
      <3>1. g[0] = None /\ release' = g[n + 1] /\ target' = e[n + 1]
        BY <1>1, <2>2, <2>3 DEF Stack
      <3>2. ASSUME NEW i \in 1..(n + 1)
            PROVE  /\ g[i] \in StateRec
                   /\ undo'[g[i].rev] = [base |-> Device!Captured(e[i - 1], g[i].rev), prev |-> g[i - 1]]
                   /\ e[i] = Device!Overlay(e[i - 1], g[i].rev, Payload[g[i].rev])
        <4>1. CASE i = n + 1
          <5>1. g[i] = release' /\ e[i] = target' /\ i - 1 = n /\ g[n] = release /\ e[n] = target
            BY <1>1, <2>2, <2>3, <4>1 DEF Stack
          <5>2. undo'[r] = Saved(r)
            BY <2>1 DEF TypeOK
          <5>3. QED
            BY <2>1, <5>1, <5>2 DEF Saved
        <4>2. CASE i \in 1..n
          <5>1. g[i] = h[i] /\ e[i] = d[i] /\ g[i - 1] = h[i - 1] /\ e[i - 1] = d[i - 1]
            BY <2>2, <2>3, <4>2
          <5>2. undo'[h[i].rev] = undo[h[i].rev]
            BY <1>2, <2>1, <2>4, <4>2 DEF TypeOK
          <5>3. QED
            BY <1>1, <4>2, <5>1, <5>2 DEF Stack
        <4>3. QED
          BY <4>1, <4>2
      <3>3. \A i, j \in 1..(n + 1) : g[i].rev = g[j].rev => i = j
        <4>1. \A i \in 1..n : g[i] = h[i]
          BY <2>2
        <4>2. g[n + 1].rev = r
          BY <2>1, <2>2
        <4>3. \A i \in 1..(n + 1) : i = n + 1 \/ i \in 1..n
          OBVIOUS
        <4>4. QED
          BY <1>1, <2>4, <4>1, <4>2, <4>3 DEF Stack
      <3>4. QED
        BY <3>1, <3>2, <3>3 DEF Stack
    <2>6. QED
      BY <2>5 DEF Stacked
  <1>4. CASE Device!Rollback(r)
    <2>1. n \in 1..n /\ h[n].rev = r /\ undo' = undo
      BY <1>1, <1>4, StackRevs DEF Device!Rollback, Device!Installed, Stack
    <2>2. release' = h[n - 1] /\ target' = d[n - 1]
      <3>1. undo[r] = [base |-> Device!Captured(d[n - 1], r), prev |-> h[n - 1]]
        BY <1>1, <2>1 DEF Stack
      <3>2. target = Device!Overlay(d[n - 1], r, Payload[r])
        BY <1>1, <2>1 DEF Stack
      <3>3. d[n - 1] \in Baseline
        BY <2>1 DEF Disks
      <3>4. undo[r].base = Device!Captured(d[n - 1], r) /\ undo[r].prev = h[n - 1]
        BY <3>1
      <3>5. QED
        BY <1>4, <3>2, <3>3, <3>4, OverlayUndone DEF Device!Rollback
    <2>3. Stack(h, d, n - 1)'
      <3>1. n - 1 \in Nat /\ \A i \in 1..(n - 1) : i \in 1..n
        BY <2>1
      <3>2. QED
        BY <1>1, <2>1, <2>2, <3>1 DEF Stack
    <2>4. n - 1 \in Nat
      BY <2>1
    <2>5. QED
      BY <2>3, <2>4 DEF Stacked
  <1>5. CASE Device!MarkRestarted(r)
    <2>1. n \in 1..n /\ release = h[n] /\ undo' = undo /\ target' = target
      BY <1>1, <1>5, StackRevs DEF Device!MarkRestarted, Device!Installed, Stack
    <2>2. release' \in StateRec /\ release'.rev = h[n].rev
      <3>1. h[n] \in StateRec /\ release' = [h[n] EXCEPT !.restart = FALSE]
        BY <1>2, <1>5, <2>1 DEF Device!MarkRestarted
      <3>2. QED
        BY <3>1 DEF StateRec
    <2>3. PICK g \in Levels : g[n] = release' /\ \A i \in Nat \ {n} : g[i] = h[i]
      <3> DEFINE w == [h EXCEPT ![n] = release']
      <3>1. w \in Levels /\ w[n] = release' /\ \A i \in Nat \ {n} : w[i] = h[i]
        BY <2>2 DEF Levels
      <3> HIDE DEF w
      <3>2. QED
        BY <3>1
    <2>4. \A i \in 1..n : g[i] \in StateRec /\ g[i].rev = h[i].rev /\ g[i - 1] = h[i - 1]
      BY <1>2, <2>2, <2>3
    <2>5. Stack(g, d, n)'
      <3>1. g[0] = None /\ release' = g[n] /\ target' = d[n]
        BY <1>1, <2>1, <2>3 DEF Stack
      <3>2. QED
        BY <1>1, <2>1, <2>4, <3>1 DEF Stack
    <2>6. QED
      BY <2>5 DEF Stacked
  <1>6. CASE Device!Discard(r)
    <2>1. /\ undo[r] = Saved(r) /\ undo' = [undo EXCEPT ![r] = None]
          /\ release' = release /\ target' = target
      BY <1>6 DEF Device!Discard, Saved
    <2>2. undo[r] # None /\ undo[r].prev = release
      BY <2>1, SavedType, NoneAssumption DEF Saved
    <2>3. \A i \in 1..n : h[i].rev # r
      BY <1>1, <2>2, BelowIsOther
    <2>4. \A i \in 1..n : undo'[h[i].rev] = undo[h[i].rev]
      BY <1>2, <2>1, <2>3 DEF TypeOK
    <2>5. Stack(h, d, n)'
      BY <1>1, <2>1, <2>4 DEF Stack
    <2>6. QED
      BY <2>5 DEF Stacked
  <1>7. QED
    BY <1>3, <1>4, <1>5, <1>6 DEF Moves

\* What an installed release says of the files.
LEMMA InstalledIsInPlace ==
  ASSUME Stacked, NEW r \in Revs, Installed(r)
  PROVE  InPlace(r)
  <1>1. PICK h \in Levels, d \in Disks, n \in Nat : Stack(h, d, n)
    BY DEF Stacked
  <1>2. n \in 1..n /\ h[n].rev = r
    BY <1>1, StackRevs DEF Installed, Device!Installed, Stack
  <1>3. target = Device!Overlay(d[n - 1], r, Payload[r])
    BY <1>1, <1>2 DEF Stack
  <1>4. QED
    BY <1>3 DEF InPlace, Device!Overlay, Device!Covered

\* A release that was rolled back is saved as it was, and not installed.
LEMMA RollbackIsUndone ==
  ASSUME TypeOK, Stacked, NEW r \in Revs, Device!Rollback(r)
  PROVE  Undone(r)'
  <1>1. PICK h \in Levels, d \in Disks, n \in Nat : Stack(h, d, n)
    BY DEF Stacked
  <1>2. n \in 1..n /\ h[n].rev = r /\ undo' = undo /\ target = d[n]
    BY <1>1, StackRevs DEF Device!Rollback, Device!Installed, Stack
  <1>3. undo[r] = [base |-> Device!Captured(d[n - 1], r), prev |-> h[n - 1]]
        /\ target = Device!Overlay(d[n - 1], r, Payload[r])
    BY <1>1, <1>2 DEF Stack
  <1>4. d[n - 1] \in Baseline /\ undo[r].base = Device!Captured(d[n - 1], r) /\ undo[r].prev = h[n - 1]
    BY <1>2, <1>3 DEF Disks
  <1>5. target' = d[n - 1] /\ release' = h[n - 1]
    BY <1>3, <1>4, OverlayUndone DEF Device!Rollback
  <1>6. (undo[r] = Saved(r))'
    BY <1>2, <1>3, <1>5 DEF Saved
  <1>7. h[n - 1] = None \/ (h[n - 1] \in StateRec /\ h[n - 1].rev # r)
    <2>1. CASE n = 1
      BY <1>1, <2>1 DEF Stack
    <2>2. CASE n # 1
      <3>1. n - 1 \in 1..n /\ n - 1 # n
        BY <1>2, <2>2
      <3>2. h[n - 1] \in StateRec /\ h[n - 1].rev # h[n].rev
        BY <1>1, <1>2, <3>1 DEF Stack
      <3>3. QED
        BY <1>2, <3>2
    <2>3. QED
      BY <2>1, <2>2
  <1>8. QED
    BY <1>5, <1>6, <1>7 DEF Undone, Installed, Device!Installed

-----------------------------------------------------------------------------
(* A step of one runner.                                                   *)

Acts(p) ==
  \/ \E op \in {"apply", "rollback"}, r \in Revs : Request(p, op, r)
  \/ ApplyBegin(p) \/ ApplyCommit(p) \/ ApplyRaises(p)
  \/ Restart(p) \/ RestartFails(p)
  \/ Mark(p) \/ MarkRaises(p)
  \/ Rollback(p) \/ RollbackDone(p) \/ RollbackRaises(p)
  \/ Kill(p)

LEMMA CalledType ==
  ASSUME IInv, NEW p \in Runners, pc[p] # "idle"
  PROVE  call[p] \in CallRec /\ call[p].rev \in Revs /\ call[p] # None
  <1>1. call[p] \in CallRec
    BY DEF IInv, Called, TypeOK
  <1>2. QED
    BY <1>1, NoneAssumption DEF CallRec

\* The two importers' answers, one disjunct each.
LEMMA ApplyBeginCases ==
  ASSUME NEW p \in Runners, ApplyBegin(p)
  PROVE  /\ pc[p] = "apply" /\ torn' = (torn /\ Locked(p))
         /\ UNCHANGED << target, release, loaded, faults >>
         /\ \/ Finish(p, "failed") /\ UNCHANGED undo
            \/ ~Locked(p) /\ Installed(call[p].rev) /\ Goto(p, "restart") /\ UNCHANGED undo
            \/ /\ ~Locked(p) /\ ~Installed(call[p].rev) /\ Goto(p, "install")
               /\ undo[call[p].rev] \in {None, Saved(call[p].rev)}
               /\ undo' = [undo EXCEPT ![call[p].rev] = None]
  BY DEF ApplyBegin

LEMMA RollbackCases ==
  ASSUME NEW p \in Runners, Rollback(p)
  PROVE  /\ pc[p] = "rollback" /\ torn' = (torn /\ Locked(p)) /\ UNCHANGED << loaded, faults >>
         /\ \/ Finish(p, "failed") /\ UNCHANGED device
            \/ /\ ~Locked(p) /\ undo[call[p].rev] # None /\ undo[call[p].rev] = Saved(call[p].rev)
               /\ Goto(p, "restart_back") /\ UNCHANGED device
            \/ ~Locked(p) /\ Device!Rollback(call[p].rev) /\ Goto(p, "restoring")
  BY DEF Rollback, Saved

LEMMA ActsMove ==
  ASSUME IInv, NEW p \in Runners, Acts(p)
  PROVE  UNCHANGED device \/ (call[p].rev \in Revs /\ Moves(call[p].rev))
  <1>0. pc[p] # "idle" => call[p].rev \in Revs
    BY CalledType
  <1>1. CASE ApplyBegin(p)
    <2>1. call[p].rev \in Revs
      BY <1>0, <1>1, ApplyBeginCases
    <2>2. CASE UNCHANGED undo
      BY <1>1, <2>2, ApplyBeginCases DEF device
    <2>3. CASE undo[call[p].rev] = None /\ undo' = [undo EXCEPT ![call[p].rev] = None]
      <3>1. undo' = undo
        BY <2>1, <2>3 DEF IInv, TypeOK
      <3>2. QED
        BY <1>1, <3>1, ApplyBeginCases DEF device
    <2>4. CASE /\ undo[call[p].rev] = Saved(call[p].rev) /\ ~Installed(call[p].rev)
               /\ undo' = [undo EXCEPT ![call[p].rev] = None]
      <3>1. Device!Discard(call[p].rev)
        BY <1>1, <2>4, ApplyBeginCases DEF Device!Discard, Saved, Installed
      <3>2. QED
        BY <2>1, <3>1 DEF Moves
    <2>5. QED
      BY <1>1, <2>2, <2>3, <2>4, ApplyBeginCases
  <1>2. CASE ApplyCommit(p) \/ ApplyRaises(p)
    <2>1. pc[p] = "install" /\ (UNCHANGED device \/ InstallOn(call[p].rev))
      BY <1>2 DEF ApplyCommit, ApplyRaises
    <2>2. Fresh(p)
      BY DEF IInv
    <2>3. QED
      BY <1>0, <2>1, <2>2 DEF Fresh, Moves, Install
  <1>3. CASE Mark(p) \/ MarkRaises(p)
    <2>1. /\ pc[p] = "mark" /\ UNCHANGED << target, undo >>
          /\ \/ release' = release
             \/ Installed(call[p].rev) /\ release' = [release EXCEPT !.restart = FALSE]
      <3>1. CASE Mark(p)
        BY <3>1 DEF Mark
      <3>2. CASE MarkRaises(p)
        BY <3>2 DEF MarkRaises
      <3>3. QED
        BY <1>3, <3>1, <3>2
    <2>2. CASE release' = release
      BY <2>1, <2>2 DEF device
    <2>3. CASE Installed(call[p].rev) /\ release' = [release EXCEPT !.restart = FALSE]
      <3>1. Device!MarkRestarted(call[p].rev)
        BY <2>1, <2>3 DEF Device!MarkRestarted, Installed
      <3>2. QED
        BY <1>0, <2>1, <3>1 DEF Moves
    <2>4. QED
      BY <2>1, <2>2, <2>3
  <1>4. CASE Rollback(p)
    BY <1>0, <1>4, RollbackCases DEF Moves
  <1>5. QED
    BY <1>1, <1>2, <1>3, <1>4
    DEF Acts, Request, Restart, RestartFails, RollbackDone, RollbackRaises, Kill

\* A runner changes nothing that is another's, and it was called.
LEMMA ActsAlone ==
  ASSUME IInv, NEW p \in Runners, Acts(p)
  PROVE  /\ \A q \in Runners \ {p} : pc'[q] = pc[q] /\ call'[q] = call[q] /\ outcome'[q] = outcome[q]
         /\ pc' \in [Runners -> {"idle", "apply", "restart", "mark", "rollback", "restart_back"}
                                \cup Importing]
         /\ call' \in [Runners -> CallRec \cup {None}]
         /\ outcome' \in [Runners -> {"none", "ready", "restored", "rolled_back", "failed"}]
         /\ call'[p] # None
  <1>1. CASE \E op \in {"apply", "rollback"}, r \in Revs : Request(p, op, r)
    <2>1. PICK op \in {"apply", "rollback"}, r \in Revs : Request(p, op, r)
      BY <1>1
    <2>2. [op |-> op, rev |-> r] \in CallRec
      BY DEF CallRec
    <2>3. QED
      BY <2>1, <2>2, NoneAssumption DEF Request, IInv, TypeOK
  <1>2. ASSUME pc[p] # "idle",
               \/ \E label \in {"restart", "mark", "rollback", "restart_back"} \cup Importing :
                    Goto(p, label)
               \/ \E result \in {"ready", "restored", "rolled_back", "failed"} : Finish(p, result)
               \/ pc' = [pc EXCEPT ![p] = "idle"] /\ UNCHANGED << call, outcome >>
        PROVE  /\ \A q \in Runners \ {p} : pc'[q] = pc[q] /\ call'[q] = call[q] /\ outcome'[q] = outcome[q]
               /\ pc' \in [Runners -> {"idle", "apply", "restart", "mark", "rollback", "restart_back"}
                                      \cup Importing]
               /\ call' \in [Runners -> CallRec \cup {None}]
               /\ outcome' \in [Runners -> {"none", "ready", "restored", "rolled_back", "failed"}]
               /\ call'[p] # None
    BY <1>2, CalledType DEF Goto, Finish, IInv, TypeOK
  <1>3. CASE ApplyBegin(p)
    BY <1>2, <1>3, ApplyBeginCases DEF Importing
  <1>4. CASE ApplyCommit(p) \/ ApplyRaises(p) \/ Mark(p) \/ MarkRaises(p) \/ RollbackDone(p)
             \/ RollbackRaises(p) \/ Kill(p)
    BY <1>2, <1>4 DEF ApplyCommit, ApplyRaises, Mark, MarkRaises, RollbackDone, RollbackRaises, Kill
  <1>5. CASE Restart(p) \/ RestartFails(p)
    BY <1>2, <1>5 DEF Restart, RestartFails, AfterRestart
  <1>6. CASE Rollback(p)
    BY <1>2, <1>6, RollbackCases DEF Importing
  <1>7. QED
    BY <1>1, <1>3, <1>4, <1>5, <1>6 DEF Acts

LEMMA ActsType ==
  ASSUME IInv, NEW p \in Runners, Acts(p)
  PROVE  TypeOK'
  <1>1. /\ target' \in Baseline /\ release' \in StateRec \cup {None}
        /\ undo' \in [Revs -> UndoRec \cup {None}]
    BY ActsMove, MoveType DEF IInv, TypeOK, device
  <1>2. Locked(p) \in BOOLEAN /\ HalfWritten \in BOOLEAN /\ Readable \subseteq Baseline \cup {Torn}
    BY DEF Locked, HalfWritten, Readable, IInv, TypeOK
  <1>3. torn' \in BOOLEAN
    BY <1>2, ApplyBeginCases, RollbackCases
    DEF Acts, Request, ApplyCommit, ApplyRaises, Restart, RestartFails, Mark, MarkRaises,
        RollbackDone, RollbackRaises, Kill, IInv, TypeOK
  <1>4. loaded' \in Baseline \cup {Torn, None}
    BY <1>2, ApplyBeginCases, RollbackCases
    DEF Acts, Request, ApplyCommit, ApplyRaises, Restart, RestartFails, Mark, MarkRaises,
        RollbackDone, RollbackRaises, Kill, IInv, TypeOK
  <1>5. faults' = faults \/ Fault
    BY ApplyBeginCases, RollbackCases
    DEF Acts, Request, ApplyCommit, ApplyRaises, Restart, RestartFails, Mark, MarkRaises,
        RollbackDone, RollbackRaises, Kill
  <1>6. faults' \in 0..MaxFaults
    BY <1>5, BoundsAssumption DEF Fault, IInv, TypeOK
  <1>7. QED
    BY <1>1, <1>3, <1>4, <1>6, ActsAlone DEF TypeOK

-----------------------------------------------------------------------------
(* The lock, and a runner that nobody else has joined.                     *)

\* An importer that starts has the lock, and nobody moves the device of one
\* that holds it.
LEMMA ActsLock ==
  ASSUME IInv, NEW p \in Runners, Acts(p)
  PROVE  /\ pc'[p] \in Importing => ~Locked(p)
         /\ Locked(p) => UNCHANGED device
  <1>1. pc[p] \in Importing => ~Locked(p)
    BY DEF IInv, OneImporter, Locked
  <1>2. "restart" \notin Importing /\ "idle" \notin Importing /\ "restart_back" \notin Importing
        /\ "mark" \notin Importing /\ "rollback" \notin Importing /\ "apply" \notin Importing
        /\ "install" \in Importing /\ "restoring" \in Importing
    BY DEF Importing
  <1>3. CASE ApplyBegin(p)
    <2>1. /\ Locked(p) => UNCHANGED device
          /\ pc'[p] \in {"idle", "restart"} \/ ~Locked(p)
      BY <1>3, ApplyBeginCases DEF Finish, Goto, device, IInv, TypeOK
    <2>2. QED
      BY <1>2, <2>1
  <1>4. CASE Rollback(p)
    <2>1. /\ Locked(p) => UNCHANGED device
          /\ pc'[p] \in {"idle", "restart_back"} \/ ~Locked(p)
      BY <1>4, RollbackCases DEF Finish, Goto, IInv, TypeOK
    <2>2. QED
      BY <1>2, <2>1
  <1>5. CASE Mark(p) \/ MarkRaises(p)
    <2>1. /\ Locked(p) => UNCHANGED device
          /\ pc'[p] \in {"idle", "rollback"}
      BY <1>5 DEF Mark, MarkRaises, Finish, Goto, device, IInv, TypeOK
    <2>2. QED
      BY <1>2, <2>1
  <1>6. CASE ApplyCommit(p) \/ ApplyRaises(p)
    BY <1>1, <1>2, <1>6 DEF ApplyCommit, ApplyRaises
  <1>7. CASE \/ \E op \in {"apply", "rollback"}, r \in Revs : Request(p, op, r)
             \/ Restart(p) \/ RestartFails(p) \/ RollbackDone(p) \/ RollbackRaises(p) \/ Kill(p)
    <2>1. UNCHANGED device /\ pc'[p] \in {"idle", "apply", "rollback", "mark", "restart_back"}
      BY <1>7 DEF Request, Restart, RestartFails, AfterRestart, RollbackDone, RollbackRaises, Kill,
         Finish, Goto, IInv, TypeOK
    <2>2. QED
      BY <1>2, <2>1
  <1>8. QED
    BY <1>3, <1>4, <1>5, <1>6, <1>7 DEF Acts

LEMMA OneImporterStep ==
  ASSUME IInv, NEW p \in Runners, Acts(p)
  PROVE  OneImporter'
  <1> SUFFICES ASSUME NEW q \in Runners, NEW o \in Runners, q # o,
                      pc'[q] \in Importing, pc'[o] \in Importing
               PROVE  FALSE
    BY DEF OneImporter, Importing
  <1>1. ASSUME NEW x \in Runners, x # p, pc'[x] \in Importing PROVE pc[x] \in Importing
    BY <1>1, ActsAlone
  <1>2. CASE q # p /\ o # p
    BY <1>1, <1>2 DEF IInv, OneImporter
  <1>3. CASE q = p \/ o = p
    <2>1. Locked(p) /\ pc'[p] \in Importing
      BY <1>1, <1>3 DEF Locked
    <2>2. QED
      BY <2>1, ActsLock
  <1>4. QED
    BY <1>2, <1>3

\* While only p has called, the others are idle and nothing is half written
\* but what p itself is writing, or left torn.
LEMMA AloneIsQuiet ==
  ASSUME IInv, NEW p \in Runners, Alone(p)
  PROVE  /\ \A q \in Runners \ {p} : pc[q] = "idle"
         /\ ~Locked(p)
         /\ ~torn /\ pc[p] \notin Importing => Readable = {target}
  <1>1. \A q \in Runners \ {p} : pc[q] = "idle"
    BY DEF IInv, Called, Alone
  <1>2. "idle" \notin Importing
    BY DEF Importing
  <1>3. QED
    BY <1>1, <1>2 DEF Locked, Readable, HalfWritten

\* What p finds of itself after its own step.
Mine(p) == Called(p) /\ Fresh(p) /\ (Alone(p) => AloneInv(p))

LEMMA OthersKeep ==
  ASSUME IInv, NEW p \in Runners, Acts(p), NEW q \in Runners \ {p}
  PROVE  Mine(q)'
  <1>1. pc'[q] = pc[q] /\ call'[q] = call[q] /\ outcome'[q] = outcome[q] /\ call'[p] # None
    BY ActsAlone
  <1>2. ~Alone(q)'
    BY <1>1 DEF Alone
  <1>3. Called(q)'
    BY <1>1 DEF IInv, Called
  <1>4. Fresh(q)'
    <2>1. CASE pc[q] = "install"
      <3>1. Locked(p)
        BY <2>1 DEF Locked, Importing
      <3>2. UNCHANGED device
        BY <3>1, ActsLock
      <3>3. QED
        BY <1>1, <3>2 DEF IInv, Fresh, device, Installed, Device!Installed
    <2>2. CASE pc[q] # "install"
      BY <1>1, <2>2 DEF Fresh
    <2>3. QED
      BY <2>1, <2>2
  <1>5. QED
    BY <1>2, <1>3, <1>4 DEF Mine

-----------------------------------------------------------------------------
(* What a runner knows after each of its steps.                            *)

LEMMA RequestMine ==
  ASSUME IInv, NEW p \in Runners, NEW op \in {"apply", "rollback"}, NEW r \in Revs, Request(p, op, r)
  PROVE  Mine(p)'
  <1>1. pc'[p] = op /\ call'[p] = [op |-> op, rev |-> r] /\ outcome'[p] = "none"
    BY DEF Request, IInv, TypeOK
  <1>2. call'[p] # None
    <2>1. [op |-> op, rev |-> r] \in CallRec
      BY DEF CallRec
    <2>2. QED
      BY <1>1, <2>1, NoneAssumption
  <1>3. QED
    BY <1>1, <1>2 DEF Mine, Called, Fresh, AloneInv

\* A call that ends other than ready or restored promises nothing.
LEMMA EndMine ==
  ASSUME IInv, NEW p \in Runners, pc[p] # "idle", pc'[p] = "idle", call' = call,
         outcome'[p] \in {"none", "failed", "rolled_back"}
  PROVE  Mine(p)'
  BY CalledType DEF Mine, Called, Fresh, AloneInv

\* A call that goes on.
LEMMA GotoMine ==
  ASSUME IInv, NEW p \in Runners, pc[p] # "idle", NEW label, Goto(p, label), label # "idle",
         Fresh(p)', Alone(p) => AloneInv(p)'
  PROVE  Mine(p)'
  <1>1. pc'[p] = label /\ call' = call /\ outcome' = outcome
    BY DEF Goto, IInv, TypeOK
  <1>2. call[p] # None /\ outcome[p] = "none"
    BY CalledType DEF IInv, Called
  <1>3. Called(p)'
    BY <1>1, <1>2 DEF Called
  <1>4. Alone(p)' => Alone(p)
    BY <1>1 DEF Alone
  <1>5. QED
    BY <1>3, <1>4 DEF Mine

LEMMA ApplyBeginMine ==
  ASSUME IInv, NEW p \in Runners, ApplyBegin(p)
  PROVE  Mine(p)'
  <1>0. PICK r \in Revs : r = call[p].rev /\ pc[p] = "apply"
    BY ApplyBeginCases, CalledType
  <1>1. CASE Finish(p, "failed")
    BY <1>0, <1>1, EndMine DEF Finish, IInv, TypeOK
  <1>2. CASE ~Locked(p) /\ Installed(r) /\ Goto(p, "restart") /\ UNCHANGED undo
    <2>1. pc'[p] = "restart" /\ call' = call /\ outcome' = outcome
      BY <1>2 DEF Goto, IInv, TypeOK
    <2>2. outcome[p] = "none" /\ torn' = FALSE /\ Installed(r)'
      BY <1>0, <1>2, ApplyBeginCases DEF IInv, Called, Installed, Device!Installed
    <2>3. AloneInv(p)' /\ Fresh(p)'
      BY <1>0, <2>1, <2>2 DEF AloneInv, Fresh
    <2>4. QED
      BY <1>0, <1>2, <2>3, GotoMine
  <1>3. CASE /\ ~Locked(p) /\ ~Installed(r) /\ Goto(p, "install")
             /\ undo' = [undo EXCEPT ![r] = None]
    <2>1. pc'[p] = "install" /\ call' = call /\ outcome' = outcome
      BY <1>3 DEF Goto, IInv, TypeOK
    <2>2. outcome[p] = "none" /\ torn' = FALSE /\ ~Installed(r)' /\ undo'[r] = None
      BY <1>0, <1>3, ApplyBeginCases DEF IInv, TypeOK, Called, Installed, Device!Installed
    <2>3. AloneInv(p)' /\ Fresh(p)'
      BY <1>0, <2>1, <2>2 DEF AloneInv, Fresh
    <2>4. QED
      BY <1>0, <1>3, <2>3, GotoMine
  <1>4. QED
    BY <1>0, <1>1, <1>2, <1>3, ApplyBeginCases

LEMMA ApplyCommitMine ==
  ASSUME IInv, NEW p \in Runners, ApplyCommit(p)
  PROVE  Mine(p)'
  <1>1. /\ pc[p] = "install" /\ pc'[p] = "restart" /\ call' = call /\ outcome' = outcome
        /\ torn' = torn /\ release' = [rev |-> call[p].rev, at |-> 0, restart |-> TRUE]
    BY DEF ApplyCommit, InstallOn, Goto, IInv, TypeOK
  <1>2. outcome[p] = "none" /\ (Alone(p) => ~torn)
    BY <1>1 DEF IInv, Called, AloneInv
  <1>3. Installed(call[p].rev)'
    <2>1. release' \in StateRec /\ release'.rev = call[p].rev
      BY <1>1, CalledType DEF StateRec
    <2>2. QED
      BY <1>1, <2>1, NoneAssumption DEF Installed, Device!Installed
  <1>4. Fresh(p)' /\ (Alone(p) => AloneInv(p)')
    BY <1>1, <1>2, <1>3 DEF Fresh, AloneInv
  <1>5. QED
    BY <1>1, <1>4, GotoMine DEF ApplyCommit

LEMMA RestartMine ==
  ASSUME IInv, NEW p \in Runners, Restart(p)
  PROVE  Mine(p)'
  <1>1. UNCHANGED device /\ torn' = torn /\ loaded' \in Readable
        /\ pc[p] \in {"restart", "restart_back"}
    BY DEF Restart
  <1>2. outcome[p] = "none" /\ call[p] # None
    BY <1>1, CalledType DEF IInv, Called
  <1>3. ASSUME Alone(p) PROVE ~torn' /\ loaded' = target'
    <2>1. ~torn
      BY <1>1, <1>3 DEF IInv, AloneInv
    <2>2. pc[p] \notin Importing
      BY <1>1 DEF Importing
    <2>3. QED
      BY <1>1, <1>3, <2>1, <2>2, AloneIsQuiet DEF device
  <1>4. CASE pc[p] = "restart"
    <2>1. pc'[p] = "mark" /\ call' = call /\ outcome' = outcome /\ Goto(p, "mark")
      BY <1>4 DEF Restart, AfterRestart, Goto, IInv, TypeOK
    <2>2. Alone(p) => Installed(call[p].rev)'
      BY <1>1, <1>4, <2>1 DEF IInv, AloneInv, device, Installed, Device!Installed
    <2>3. Fresh(p)' /\ (Alone(p) => AloneInv(p)')
      BY <1>2, <1>3, <2>1, <2>2 DEF Fresh, AloneInv
    <2>4. QED
      BY <1>4, <2>1, <2>3, GotoMine
  <1>5. CASE pc[p] = "restart_back"
    <2>1. pc'[p] = "idle" /\ call' = call /\ outcome'[p] \in {"restored", "rolled_back"}
      BY <1>5 DEF Restart, AfterRestart, Finish, IInv, TypeOK
    <2>2. Alone(p) => Undone(call[p].rev)'
      BY <1>1, <1>5, <2>1 DEF IInv, AloneInv, device, Undone, Saved, Installed, Device!Installed
    <2>3. Alone(p)' => Alone(p)
      BY <2>1 DEF Alone
    <2>4. Called(p)' /\ Fresh(p)' /\ (Alone(p)' => AloneInv(p)')
      BY <1>2, <1>3, <2>1, <2>2, <2>3 DEF Called, Fresh, AloneInv
    <2>5. QED
      BY <2>4 DEF Mine
  <1>6. QED
    BY <1>1, <1>4, <1>5

LEMMA RestartFailsMine ==
  ASSUME IInv, NEW p \in Runners, RestartFails(p)
  PROVE  Mine(p)'
  <1>1. CASE pc[p] = "restart"
    <2>1. Goto(p, "rollback") /\ pc'[p] = "rollback" /\ outcome' = outcome /\ call' = call
      BY <1>1 DEF RestartFails, Goto, IInv, TypeOK
    <2>2. outcome[p] = "none"
      BY <1>1 DEF IInv, Called
    <2>3. Fresh(p)' /\ AloneInv(p)'
      BY <2>1, <2>2 DEF Fresh, AloneInv
    <2>4. QED
      BY <1>1, <2>1, <2>3, GotoMine
  <1>2. CASE pc[p] = "restart_back"
    BY <1>2, EndMine DEF RestartFails, Finish, IInv, TypeOK
  <1>3. QED
    BY <1>1, <1>2 DEF RestartFails

LEMMA MarkMine ==
  ASSUME IInv, NEW p \in Runners, Mark(p)
  PROVE  Mine(p)'
  <1>0. pc[p] = "mark" /\ UNCHANGED << target, loaded >> /\ torn' = (torn /\ Locked(p))
    BY DEF Mark
  <1>1. CASE Goto(p, "rollback")
    <2>1. pc'[p] = "rollback" /\ outcome' = outcome
      BY <1>1 DEF Goto, IInv, TypeOK
    <2>2. outcome[p] = "none"
      BY <1>0 DEF IInv, Called
    <2>3. Fresh(p)' /\ AloneInv(p)'
      BY <2>1, <2>2 DEF Fresh, AloneInv
    <2>4. QED
      BY <1>0, <1>1, <2>3, GotoMine
  <1>2. CASE /\ ~Locked(p) /\ Installed(call[p].rev)
             /\ release' = [release EXCEPT !.restart = FALSE] /\ Finish(p, "ready")
    <2>1. pc'[p] = "idle" /\ outcome'[p] = "ready" /\ call' = call /\ call[p] # None
      BY <1>0, <1>2, CalledType DEF Finish, IInv, TypeOK
    <2>2. release \in StateRec /\ release.rev = call[p].rev
      BY <1>2 DEF Installed, Device!Installed, IInv, TypeOK
    <2>3. release' \in StateRec /\ release'.rev = call[p].rev /\ ~release'.restart
      BY <1>2, <2>2 DEF StateRec
    <2>4. Installed(call[p].rev)'
      BY <2>1, <2>3, NoneAssumption DEF Installed, Device!Installed
    <2>5. Alone(p)' => loaded' = target' /\ ~torn'
      BY <1>0, <1>2, <2>1 DEF Alone, IInv, AloneInv
    <2>6. Called(p)' /\ Fresh(p)' /\ (Alone(p)' => AloneInv(p)')
      BY <2>1, <2>3, <2>4, <2>5 DEF Called, Fresh, AloneInv
    <2>7. QED
      BY <2>6 DEF Mine
  <1>3. QED
    BY <1>1, <1>2 DEF Mark

LEMMA MarkRaisesMine ==
  ASSUME IInv, NEW p \in Runners, MarkRaises(p)
  PROVE  Mine(p)'
  <1>1. pc[p] = "mark" /\ Goto(p, "rollback") /\ pc'[p] = "rollback" /\ outcome' = outcome
    BY DEF MarkRaises, Goto, IInv, TypeOK
  <1>2. outcome[p] = "none"
    BY <1>1 DEF IInv, Called
  <1>3. Fresh(p)' /\ AloneInv(p)'
    BY <1>1, <1>2 DEF Fresh, AloneInv
  <1>4. QED
    BY <1>1, <1>3, GotoMine

LEMMA RollbackMine ==
  ASSUME IInv, NEW p \in Runners, Rollback(p)
  PROVE  Mine(p)'
  <1>0. PICK r \in Revs : r = call[p].rev /\ pc[p] = "rollback" /\ torn' = (torn /\ Locked(p))
    BY RollbackCases, CalledType
  <1>1. outcome[p] = "none"
    BY <1>0 DEF IInv, Called
  <1>2. CASE Finish(p, "failed")
    BY <1>0, <1>2, EndMine DEF Finish, IInv, TypeOK
  <1>3. ASSUME NEW label \in {"restoring", "restart_back"}, Goto(p, label), ~Locked(p), Undone(r)'
        PROVE  Mine(p)'
    <2>1. pc'[p] = label /\ outcome' = outcome /\ call' = call
      BY <1>3 DEF Goto, IInv, TypeOK
    <2>2. Fresh(p)' /\ AloneInv(p)'
      BY <1>0, <1>1, <1>3, <2>1 DEF Fresh, AloneInv
    <2>3. QED
      BY <1>0, <1>3, <2>2, GotoMine
  <1>4. CASE /\ ~Locked(p) /\ undo[r] # None /\ undo[r] = Saved(r)
             /\ Goto(p, "restart_back") /\ UNCHANGED device
    <2>1. undo[r].prev = release
      BY <1>4 DEF Saved
    <2>2. Undone(r)
      BY <1>4, <2>1, BelowIsOther DEF Undone, IInv
    <2>3. Undone(r)'
      BY <1>4, <2>2 DEF Undone, device, Saved, Installed, Device!Installed
    <2>4. QED
      BY <1>3, <1>4, <2>3
  <1>5. CASE ~Locked(p) /\ Device!Rollback(r) /\ Goto(p, "restoring")
    <2>1. Undone(r)'
      BY <1>5, RollbackIsUndone DEF IInv
    <2>2. QED
      BY <1>3, <1>5, <2>1
  <1>6. QED
    BY <1>0, <1>2, <1>4, <1>5, RollbackCases

LEMMA RollbackDoneMine ==
  ASSUME IInv, NEW p \in Runners, RollbackDone(p)
  PROVE  Mine(p)'
  <1>1. /\ pc[p] = "restoring" /\ Goto(p, "restart_back") /\ pc'[p] = "restart_back"
        /\ outcome' = outcome /\ call' = call /\ torn' = torn /\ UNCHANGED device
    BY DEF RollbackDone, Goto, IInv, TypeOK
  <1>2. outcome[p] = "none" /\ (Alone(p) => ~torn /\ Undone(call[p].rev))
    BY <1>1 DEF IInv, Called, AloneInv
  <1>3. Undone(call[p].rev) => Undone(call[p].rev)'
    BY <1>1 DEF Undone, device, Saved, Installed, Device!Installed
  <1>4. Fresh(p)' /\ (Alone(p) => AloneInv(p)')
    BY <1>1, <1>2, <1>3 DEF Fresh, AloneInv
  <1>5. QED
    BY <1>1, <1>4, GotoMine

LEMMA ActsMine ==
  ASSUME IInv, NEW p \in Runners, Acts(p)
  PROVE  Mine(p)'
  <1>1. CASE ApplyRaises(p) \/ RollbackRaises(p)
    BY <1>1, EndMine DEF ApplyRaises, RollbackRaises, Finish, IInv, TypeOK
  <1>2. CASE Kill(p)
    <2>1. pc[p] # "idle" /\ pc'[p] = "idle" /\ call' = call /\ outcome'[p] = "none"
      BY <1>2 DEF Kill, IInv, TypeOK, Called
    <2>2. QED
      BY <2>1, EndMine
  <1>3. QED
    BY <1>1, <1>2, RequestMine, ApplyBeginMine, ApplyCommitMine, RestartMine, RestartFailsMine,
       MarkMine, MarkRaisesMine, RollbackMine, RollbackDoneMine DEF Acts

-----------------------------------------------------------------------------
(* The invariant.                                                          *)

LEMMA StackedStep ==
  ASSUME IInv, UNCHANGED device \/ \E r \in Revs : Moves(r)
  PROVE  Stacked'
  <1>1. CASE UNCHANGED device
    <2>1. PICK h \in Levels, d \in Disks, n \in Nat : Stack(h, d, n)
      BY DEF IInv, Stacked
    <2>2. target' = target /\ release' = release /\ undo' = undo
      BY <1>1 DEF device
    <2>3. Stack(h, d, n)'
      BY ONLY <2>1, <2>2 DEF Stack, Device!Captured, Device!Overlay
    <2>4. QED
      BY <2>3 DEF Stacked, Levels, Disks
  <1>2. CASE \E r \in Revs : Moves(r)
    BY <1>2, MoveStacked DEF IInv
  <1>3. QED
    BY <1>1, <1>2

LEMMA ActsInv ==
  ASSUME IInv, NEW p \in Runners, Acts(p)
  PROVE  IInv'
  <1>1. Stacked'
    BY ActsMove, StackedStep
  <1>2. \A q \in Runners : Mine(q)'
    BY OthersKeep, ActsMine
  <1>3. QED
    BY <1>1, <1>2, ActsType, OneImporterStep DEF IInv, Mine

LEMMA BootInv ==
  ASSUME IInv, Boot
  PROVE  IInv'
  <1>1. /\ UNCHANGED << device, call, outcome >> /\ \A q \in Runners : pc'[q] = "idle"
        /\ torn' = HalfWritten /\ loaded' \in Readable
    BY DEF Boot
  <1>2. TypeOK'
    <2>1. faults' \in 0..MaxFaults
      BY BoundsAssumption DEF Boot, Fault, IInv, TypeOK
    <2>2. HalfWritten \in BOOLEAN /\ Readable \subseteq Baseline \cup {Torn}
      BY DEF HalfWritten, Readable, IInv, TypeOK
    <2>3. QED
      BY <1>1, <2>1, <2>2 DEF Boot, device, IInv, TypeOK
  <1>3. Stacked' /\ OneImporter'
    BY <1>1, StackedStep DEF OneImporter, Importing
  <1>4. ASSUME NEW q \in Runners PROVE Mine(q)'
    <2>1. Called(q)' /\ Fresh(q)' /\ (Alone(q)' => Alone(q))
      BY <1>1 DEF IInv, Called, Fresh, Alone
    <2>2. ASSUME Alone(q), outcome[q] \in {"ready", "restored"}
          PROVE  ~torn' /\ loaded' = target'
      <3>1. pc[q] = "idle" /\ ~torn
        BY <2>2 DEF IInv, Called, AloneInv
      <3>2. \A o \in Runners : pc[o] = "idle"
        BY <2>2, <3>1, AloneIsQuiet
      <3>3. ~HalfWritten
        BY <3>1, <3>2 DEF HalfWritten, Importing
      <3>4. QED
        BY <1>1, <3>3 DEF Readable, HalfWritten, device
    <2>3. ASSUME Alone(q) PROVE AloneInv(q)'
      <3>1. AloneInv(q)
        BY <2>3 DEF IInv
      <3>2. outcome[q] = "ready" => Installed(call[q].rev)' /\ ~release'.restart
        BY <1>1, <3>1 DEF AloneInv, device, Installed, Device!Installed
      <3>3. outcome[q] = "restored" => Undone(call[q].rev)'
        BY <1>1, <3>1 DEF AloneInv, device, Undone, Saved, Installed, Device!Installed
      <3>4. QED
        BY <1>1, <2>2, <2>3, <3>2, <3>3 DEF AloneInv
    <2>4. QED
      BY <2>1, <2>3 DEF Mine
  <1>5. QED
    BY <1>2, <1>3, <1>4 DEF IInv, Mine

LEMMA InitInv == Init => IInv
  <1> SUFFICES ASSUME Init PROVE IInv
    OBVIOUS
  <1>1. TypeOK
    <2>1. target \in Baseline /\ loaded \in Baseline /\ 0 \in 0..MaxFaults
      BY BundlesAssumption, BoundsAssumption DEF Init
    <2>2. QED
      BY <2>1 DEF Init, TypeOK
  <1>2. Stacked
    <2> DEFINE h == [i \in Nat |-> None]
               d == [i \in Nat |-> target]
    <2>1. h \in Levels /\ d \in Disks /\ Stack(h, d, 0)
      BY <1>1 DEF Levels, Disks, Stack, Init, TypeOK
    <2> HIDE DEF h, d
    <2>2. QED
      BY <2>1 DEF Stacked
  <1>3. OneImporter /\ \A p \in Runners : Called(p) /\ Fresh(p) /\ AloneInv(p)
    BY DEF Init, OneImporter, Importing, Called, Fresh, AloneInv
  <1>4. QED
    BY <1>1, <1>2, <1>3 DEF IInv

LEMMA StutterInv ==
  ASSUME IInv, UNCHANGED vars
  PROVE  IInv'
  <1>1. Stacked'
    BY StackedStep DEF vars
  <1>2. TypeOK' /\ OneImporter'
    BY DEF vars, device, IInv, TypeOK, OneImporter
  <1>3. ASSUME NEW q \in Runners PROVE Mine(q)'
    BY DEF vars, device, IInv, Mine, Called, Fresh, Alone, AloneInv, Undone, Saved, Installed,
           Device!Installed
  <1>4. QED
    BY <1>1, <1>2, <1>3 DEF IInv, Mine

LEMMA NextActs == Next => Boot \/ \E p \in Runners : Acts(p)
  BY DEF Next, Acts

LEMMA Invariance == Spec => []IInv
  <1>1. IInv /\ [Next]_vars => IInv'
    BY NextActs, ActsInv, BootInv, StutterInv
  <1>2. QED
    BY InitInv, <1>1, PTL DEF Spec

-----------------------------------------------------------------------------
(* The theorems.                                                           *)

\* The state is what the declarations say: the import state and the undo
\* records of identity-state, and a runner's call.
THEOREM TypeCorrect == Spec => []TypeOK
  <1>1. IInv => TypeOK
    BY DEF IInv
  <1>2. QED
    BY Invariance, <1>1, PTL

\* Whatever the runners do to the device, in any number and in any race, are
\* steps of the importer: a retry beside a slow runner, a kill or a reboot
\* never leaves a mixture.
THEOREM DeviceIsImported == Spec => FollowsDevice
  <1>1. Init => Device!Init
    BY BundlesAssumption DEF Init, Device!Init, Baseline
  <1>2. IInv /\ [Next]_vars => [Device!Next]_(Device!absVars)
    <2> SUFFICES ASSUME IInv, [Next]_vars PROVE Device!Next \/ UNCHANGED Device!absVars
      OBVIOUS
    <2>1. UNCHANGED device => UNCHANGED Device!absVars
      BY DEF device, Device!absVars
    <2>2. ASSUME NEW p \in Runners, Acts(p) PROVE Device!Next \/ UNCHANGED device
      BY <2>2, ActsMove, MoveIsAtomic DEF IInv
    <2>3. Boot \/ UNCHANGED vars => UNCHANGED device
      BY DEF Boot, vars
    <2>4. QED
      BY <2>1, <2>2, <2>3, NextActs
  <1>3. QED
    BY Invariance, <1>1, <1>2, PTL DEF Spec, FollowsDevice, Device!Spec

\* When a lone call reports ready its release is installed, whole and marked,
\* and the harness runs it, whatever restarts, rollbacks, kills and reboots
\* were before it, and reboots after it.
THEOREM ReadyIsTrue == Spec => []ReadyIsRunning
  <1>1. IInv => ReadyIsRunning
    <2> SUFFICES ASSUME IInv, NEW p \in Runners, outcome[p] = "ready", Alone(p)
                 PROVE  /\ Installed(call[p].rev) /\ ~release.restart
                        /\ InPlace(call[p].rev) /\ loaded = target
      BY DEF ReadyIsRunning
    <2>1. Installed(call[p].rev) /\ ~release.restart /\ loaded = target
      BY DEF IInv, AloneInv
    <2>2. call[p].rev \in Revs
      <3>1. release \in StateRec /\ release.rev = call[p].rev
        BY <2>1 DEF IInv, TypeOK, Installed, Device!Installed
      <3>2. QED
        BY <3>1 DEF StateRec
    <2>3. QED
      BY <2>1, <2>2, InstalledIsInPlace DEF IInv
  <1>2. QED
    BY Invariance, <1>1, PTL

\* When a lone install reports that it was rolled back, the device is as its
\* undo record says, and the harness runs that.
THEOREM RestoredIsTrue == Spec => []RestoredIsBaseline
  <1>1. IInv => RestoredIsBaseline
    BY DEF IInv, AloneInv, Undone, RestoredIsBaseline
  <1>2. QED
    BY Invariance, <1>1, PTL

\* The gate cannot be opened by a step of a lone runner other than those that
\* GateOpensHonestly names.
LEMMA GateStep ==
  ASSUME IInv, NEW p \in Runners, Alone(p), Acts(p), ~GateOpen, GateOpen'
  PROVE  loaded' \in {target', Torn} \/ (pc[p] = "rollback" /\ pc'[p] = "restoring")
  <1>1. CASE Mark(p) \/ MarkRaises(p)
    <2>1. pc[p] = "mark" /\ UNCHANGED << target, loaded >>
      BY <1>1 DEF Mark, MarkRaises
    <2>2. QED
      BY <2>1 DEF IInv, AloneInv
  <1>2. CASE Restart(p) \/ RestartFails(p)
    <2>1. loaded' \in Readable \cup {loaded, None} /\ UNCHANGED device
      BY <1>2 DEF Restart, RestartFails
    <2>2. QED
      BY <2>1 DEF GateOpen, device, Readable
  <1>3. CASE ApplyCommit(p) \/ ApplyRaises(p)
    <2>1. loaded' = loaded /\ (UNCHANGED device \/ InstallOn(call[p].rev))
      BY <1>3 DEF ApplyCommit, ApplyRaises
    <2>2. InstallOn(call[p].rev) => release'.restart = TRUE
      BY DEF InstallOn
    <2>3. QED
      BY <2>1, <2>2 DEF GateOpen, device
  <1>4. CASE ApplyBegin(p)
    BY <1>4, ApplyBeginCases DEF GateOpen
  <1>5. CASE Rollback(p)
    <2>1. pc[p] = "rollback" /\ loaded' = loaded /\ (Goto(p, "restoring") \/ UNCHANGED device)
      BY <1>5, RollbackCases
    <2>2. QED
      BY <2>1 DEF GateOpen, device, Goto, IInv, TypeOK
  <1>6. CASE \/ \E op \in {"apply", "rollback"}, r \in Revs : Request(p, op, r)
             \/ RollbackDone(p) \/ RollbackRaises(p) \/ Kill(p)
    BY <1>6 DEF Request, RollbackDone, RollbackRaises, Kill, GateOpen, device
  <1>7. QED
    BY <1>1, <1>2, <1>3, <1>4, <1>5, <1>6 DEF Acts

\* While only one runner has called, the activation gate opens only on a
\* harness that was started from the release or from torn files, or at the
\* start of a rollback.
THEOREM GateIsHonest == Spec => GateOpensHonestly
  <1>1. IInv /\ [Next]_vars =>
          (~GateOpen /\ GateOpen' /\ (\E p \in Runners : Alone(p)') =>
             \/ loaded' \in {target', Torn}
             \/ \E p \in Runners : pc[p] = "rollback" /\ pc'[p] = "restoring")
    <2> SUFFICES ASSUME IInv, [Next]_vars, ~GateOpen, GateOpen', NEW p \in Runners, Alone(p)'
                 PROVE  \/ loaded' \in {target', Torn}
                        \/ \E q \in Runners : pc[q] = "rollback" /\ pc'[q] = "restoring"
      OBVIOUS
    <2>1. CASE Boot
      BY <2>1 DEF Boot, Readable, device
    <2>2. CASE UNCHANGED vars
      BY <2>2 DEF vars, device, GateOpen
    <2>3. ASSUME NEW q \in Runners, Acts(q)
          PROVE  loaded' \in {target', Torn} \/ (pc[q] = "rollback" /\ pc'[q] = "restoring")
      <3>1. q = p
        BY <2>3, ActsAlone DEF Alone
      <3>2. Alone(q)
        BY <2>3, <3>1, ActsAlone DEF Alone
      <3>3. QED
        BY <2>3, <3>2, GateStep
    <2>4. QED
      BY <2>1, <2>2, <2>3, NextActs
  <1>2. QED
    BY Invariance, <1>1, PTL DEF Spec, GateOpensHonestly
=============================================================================
