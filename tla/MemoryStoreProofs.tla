-------------------------- MODULE MemoryStoreProofs --------------------------
(***************************************************************************)
(* Lemmas about MemoryStore: what one append does to a database, whatever  *)
(* the memory, and that it never takes away or replaces a row.             *)
(***************************************************************************)
EXTENDS MemoryStore, TLAPS

LEMMA CappedType == \A s, g \in 0..100 : Capped(s + g) \in 0..100
  BY DEF Capped

LEMMA CreditedType ==
  ASSUME NEW old \in Database, NEW m \in Memory
  PROVE  /\ Credited(old, m) \in Database
         /\ Credited(old, m).owner = old.owner /\ Credited(old, m).mode = old.mode
         /\ Credited(old, m).rows = old.rows
  <1>1. m.peer \in Dogs /\ m.at \in Nat /\ m.delta \in 0..100
    BY DEF Memory
  <1>2. /\ old.score \in [Dogs -> 0..100] /\ old.updated \in [Dogs -> Nat]
        /\ old.owner \in Dogs /\ old.mode \in Modes /\ old.rows \in [Ids -> Memory \cup {None}]
    BY DEF Database
  <1>3. Capped(old.score[m.peer] + m.delta) \in 0..100
    BY <1>1, <1>2, CappedType
  <1>4. Later(old.updated[m.peer], m.at) \in Nat
    BY <1>1, <1>2 DEF Later
  <1>5. QED
    BY <1>1, <1>2, <1>3, <1>4 DEF Credited, Database

LEMMA AppendedType ==
  ASSUME NEW old \in Database, NEW m \in Memory
  PROVE  /\ Appended(old, m) \in Database
         /\ Appended(old, m).rows = IF old.rows[m.id] = None /\ Accepts(old, m)
                                    THEN [old.rows EXCEPT ![m.id] = m] ELSE old.rows
  <1>1. m.id \in Ids /\ old.rows \in [Ids -> Memory \cup {None}]
    BY DEF Memory, Database
  <1>2. [old.rows EXCEPT ![m.id] = m] \in [Ids -> Memory \cup {None}]
    BY <1>1
  <1>3. QED
    BY <1>1, <1>2, CreditedType DEF Appended, Database

LEMMA AppendedKeeps ==
  ASSUME NEW old \in Database, NEW m \in Memory, NEW i \in Ids
  PROVE  /\ old.rows[i] # None => Appended(old, m).rows[i] = old.rows[i]
         /\ i # m.id => Appended(old, m).rows[i] = old.rows[i]
         /\ Appended(old, m).rows[i] \in {old.rows[i], m}
  BY AppendedType DEF Database

LEMMA AppendedHolds ==
  ASSUME NEW old \in Database, NEW m \in Memory, ~Refuses(old, m)
  PROVE  Appended(old, m).rows[m.id] = m
  <1>1. m.id \in Ids /\ old.rows \in [Ids -> Memory \cup {None}]
    BY DEF Memory, Database
  <1>2. QED
    BY <1>1, AppendedType DEF Refuses, Conflicts
=============================================================================
