----------------------------- MODULE MemoryStore -----------------------------
(***************************************************************************)
(* packages/dogos_memory: one SQLite file per dog.  A database is a record *)
(* of its fixed profile, its memories and its relationship scores, and     *)
(* MemoryStore.append is one BEGIN IMMEDIATE transaction: the row, its     *)
(* evidence links and the score change are written together or not at all. *)
(* No state here: DogMemory, PairSession and PairRelay own the databases.  *)
(***************************************************************************)
EXTENDS Naturals

CONSTANTS Dogs,  \* owners and peers
          Ids,   \* memory ids
          Texts, \* session, content and event type of a memory, as one value
          None   \* no such memory

Modes == {"live", "simulation"}
Facts == {"event", "chat"}
Kinds == Facts \cup {"thought"}
Sources == {"robot_feedback", "operator", "llm", "simulation"}
Results == {"completed", "failed", "unconfirmed", "derived"}

\* MemoryInput; evidence is the set of evidence_ids, at is occurred_at_ms.
Memory == [id : Ids, peer : Dogs, kind : Kinds, text : Texts, at : Nat,
           source : Sources, result : Results, delta : 0..100, evidence : SUBSET Ids]

Database == [owner : Dogs, mode : Modes, rows : [Ids -> Memory \cup {None}],
             score : [Dogs -> 0..100], updated : [Dogs -> Nat]]

ASSUME MemoryAssumption == None \notin Memory

EmptyDatabase(dog, mode) ==
  [owner |-> dog, mode |-> mode, rows |-> [i \in Ids |-> None],
   score |-> [d \in Dogs |-> 0], updated |-> [d \in Dogs |-> 0]]

\* Mutant: an event may score whatever came of it.
WellFormedAnyResult(m) ==
  \/ /\ m.kind = "thought" /\ m.result = "derived" /\ m.source \in {"llm", "operator"}
     /\ m.delta = 0 /\ m.evidence # {}
  \/ /\ m.kind \in Facts /\ m.result # "derived" /\ m.source # "llm" /\ m.evidence = {}
     /\ m.delta = 0 \/ m.kind = "event"

\* check_memory_contract, and the same rules as CHECKs of the table.
WellFormed(m) ==
  \/ /\ m.kind = "thought" /\ m.result = "derived" /\ m.source \in {"llm", "operator"}
     /\ m.delta = 0 /\ m.evidence # {}
  \/ /\ m.kind \in Facts /\ m.result # "derived" /\ m.source # "llm" /\ m.evidence = {}
     /\ m.delta = 0 \/ (m.kind = "event" /\ m.result = "completed")

\* Trigger memories_scope: never about the owner, never in the wrong mode.
InScope(db, m) ==
  /\ m.peer # db.owner
  /\ m.kind # "thought" => (db.mode = "simulation" <=> m.source = "simulation")

\* Trigger evidence_validate: a prior completed fact about the same peer.
Supports(e, m) ==
  /\ e # None
  /\ e.kind \in Facts /\ e.result = "completed" /\ e.peer = m.peer /\ e.at <= m.at

Accepts(db, m) ==
  /\ WellFormed(m) /\ InScope(db, m)
  /\ \A i \in m.evidence : i # m.id /\ Supports(db.rows[i], m)

Capped(n) == IF n > 100 THEN 100 ELSE n
Later(a, b) == IF a > b THEN a ELSE b

\* Trigger relationship_from_event.
Credited(db, m) ==
  IF m.delta = 0 THEN db
  ELSE [db EXCEPT !.score[m.peer] = Capped(@ + m.delta),
                  !.updated[m.peer] = Later(@, m.at)]

\* idempotency_conflict: the id is taken by another payload.
Conflicts(db, m) == db.rows[m.id] \notin {None, m}

\* append raises: a conflict, or a constraint (invalid_memory).
Refuses(db, m) == Conflicts(db, m) \/ (db.rows[m.id] = None /\ ~Accepts(db, m))

\* The database after append, whether it inserts, replays or raises.
Appended(db, m) ==
  IF db.rows[m.id] = None /\ Accepts(db, m)
  THEN [Credited(db, m) EXCEPT !.rows[m.id] = m]
  ELSE db
=============================================================================
