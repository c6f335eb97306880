---------------------------- MODULE ImportAtomic ----------------------------
(***************************************************************************)
(* What the identity importer promises: a release is installed, marked     *)
(* restarted and rolled back in ONE step, whatever crashes happen inside.  *)
(* IdentityImporter, which writes one file at a time through a journal, is *)
(* shown to implement this module.                                         *)
(***************************************************************************)
EXTENDS Naturals

CONSTANTS Files,    \* the target files a bundle may replace
          Contents, \* what a file can hold
          Revs,     \* revisions of identity bundles
          Payload,  \* Payload[r][f]: what bundle r puts in f, None if r omits f
          None      \* "no such thing": no file, no state, no undo record

VARIABLES target,   \* contents of the target files
          release,  \* import state: the release installed, or None
          undo      \* undo[r]: the baseline and import state saved for r, or None

absVars == << target, release, undo >>

Covered(r) == {f \in Files : Payload[r][f] # None}

\* Files with those of bundle r replaced by their value in g.
Overlay(h, r, g) == [f \in Files |-> IF f \in Covered(r) THEN g[f] ELSE h[f]]

\* The part of the files that bundle r would replace.
Captured(h, r) == [f \in Files |-> IF f \in Covered(r) THEN h[f] ELSE None]

Installed(r) == release # None /\ release.rev = r

Init ==
  /\ target \in [Files -> Contents \cup {None}]
  /\ release = None
  /\ undo = [r \in Revs |-> None]

\* Install r, keeping what it replaces.
Install(r) ==
  /\ ~Installed(r)
  /\ undo[r] = None
  /\ target' = Overlay(target, r, Payload[r])
  /\ release' # None /\ release'.at \in Nat
  /\ release' = [rev |-> r, at |-> release'.at, restart |-> TRUE]
  /\ undo' = [undo EXCEPT ![r] = [base |-> Captured(target, r), prev |-> release]]

\* Put back exactly what Install(r) replaced; the undo record stays.
Rollback(r) ==
  /\ Installed(r)
  /\ undo[r] # None
  /\ target' = Overlay(target, r, undo[r].base)
  /\ release' = undo[r].prev
  /\ UNCHANGED undo

\* The harness restarted on r.
MarkRestarted(r) ==
  /\ Installed(r)
  /\ release' = [release EXCEPT !.restart = FALSE]
  /\ UNCHANGED << target, undo >>

\* A new attempt to install r on the very device the last one started from owns
\* the undo record of the last one; any other undo record stays.
Discard(r) ==
  /\ ~Installed(r)
  /\ undo[r] = [base |-> Captured(target, r), prev |-> release]
  /\ undo' = [undo EXCEPT ![r] = None]
  /\ UNCHANGED << target, release >>

\* Somebody edits a target file outside any import.
Edit(f) ==
  /\ \E c \in Contents \cup {None} : target' = [target EXCEPT ![f] = c]
  /\ UNCHANGED << release, undo >>

Next ==
  \/ \E r \in Revs : Install(r) \/ Rollback(r) \/ MarkRestarted(r) \/ Discard(r)
  \/ \E f \in Files : Edit(f)

Spec == Init /\ [][Next]_absVars
=============================================================================
