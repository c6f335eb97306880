------------------------------ MODULE DogMemory ------------------------------
(***************************************************************************)
(* One dog's memory database used through MemoryStore, by callers that     *)
(* repeat their callbacks, deliver them late, or reuse an id.              *)
(***************************************************************************)
EXTENDS MemoryStore, FiniteSetsExt

CONSTANTS Profiles, \* profiles somebody may initialize the file with
          Inputs    \* memories somebody may append

VARIABLE db         \* the file: None before it exists

ASSUME InputsAssumption == Inputs \subseteq Memory
ASSUME ProfilesAssumption == Profiles \subseteq [owner : Dogs, mode : Modes]
ASSUME NoneAssumption == None \notin Database

TypeOK == db \in Database \cup {None}

Init == db = None

\* database.initialize: a new file, or exactly the profile it already has.
Initialize(profile) ==
  /\ db = None
  /\ db' = EmptyDatabase(profile.owner, profile.mode)

\* Mutant: a score for a replayed callback as well.
AppendUnchecked(owner, m) ==
  /\ db # None
  /\ db' = IF db.owner # owner \/ Conflicts(db, m) \/ ~Accepts(db, m) THEN db
           ELSE [Credited(db, m) EXCEPT !.rows[m.id] = m]

\* Mutant: the evidence must exist, but may be of any kind.
AppendUngrounded(owner, m) ==
  /\ db # None
  /\ db' = IF /\ db.rows[m.id] = None /\ m.kind = "thought"
              /\ \A i \in m.evidence : db.rows[i] # None
           THEN [db EXCEPT !.rows[m.id] = m] ELSE Appended(db, m)

\* MemoryStore.append of a store bound to owner, which must be the file's.
AppendMemory(owner, m) ==
  /\ db # None
  /\ db' = IF db.owner = owner THEN Appended(db, m) ELSE db

\* record_confirmed_interaction: a controller reports a completed event that
\* the robot or the operator has confirmed.
RecordConfirmed(owner, m) ==
  /\ m.peer # owner
  /\ m.kind = "event" /\ m.result = "completed" /\ m.evidence = {}
  /\ m.source \in {"robot_feedback", "operator"}
  /\ AppendMemory(owner, m)

Next ==
  \/ \E profile \in Profiles : Initialize(profile)
  \/ \E owner \in Dogs, m \in Inputs : AppendMemory(owner, m) \/ RecordConfirmed(owner, m)

Spec == Init /\ [][Next]_db

-----------------------------------------------------------------------------
Stored == {i \in Ids : db.rows[i] # None}

\* A thought about a peer rests on something that was seen to happen with
\* that peer, before it, and is still on record.
ThoughtsAreGrounded ==
  db # None =>
    \A i \in Stored :
      db.rows[i].kind = "thought" =>
        /\ db.rows[i].evidence # {}
        /\ \A j \in db.rows[i].evidence : Supports(db.rows[j], db.rows[i])

\* What the events on record about a dog earned its relationship.
Earned(d) == {i \in Stored : db.rows[i].peer = d /\ db.rows[i].delta > 0}
Total(rows, earned) == SumFunction([i \in earned |-> rows[i].delta])

\* A score is what the recorded events earned, up to the cap: no callback
\* counts twice, in whatever order they arrive, and none is lost.
ScoreIsEarned ==
  db # None =>
    \A d \in Dogs : /\ db.score[d] = Capped(Total(db.rows, Earned(d)))
                   /\ \A i \in Earned(d) : db.updated[d] >= db.rows[i].at
=============================================================================
