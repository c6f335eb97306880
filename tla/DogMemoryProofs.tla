-------------------------- MODULE DogMemoryProofs --------------------------
(***************************************************************************)
(* Theorems about DogMemory and SocialRecall, for every set of dogs, ids   *)
(* and texts, all the memories anybody may try to append and every bound   *)
(* on the answer: first what is stored, then what an agent is told of it.  *)
(***************************************************************************)
EXTENDS SocialRecall, MemoryStoreProofs, FiniteSetTheorems, SequenceTheorems, WellFoundedInduction

(* What a store does to the database: nothing, or one accepted row.        *)

LEMMA NextIsAppend ==
  ASSUME TypeOK, Next
  PROVE  \/ db = None /\ db' \in Database /\ \A i \in Ids : db'.rows[i] = None
         \/ db # None /\ \E m \in Memory : db' \in {db, Appended(db, m)}
  <1>1. CASE \E profile \in Profiles : Initialize(profile)
    BY <1>1, ProfilesAssumption DEF Initialize, EmptyDatabase, Database
  <1>2. CASE \E owner \in Dogs, m \in Inputs : AppendMemory(owner, m) \/ RecordConfirmed(owner, m)
    BY <1>2, InputsAssumption DEF AppendMemory, RecordConfirmed
  <1>3. QED
    BY <1>1, <1>2 DEF Next

(* The file is a database with one profile, whole memories and scores      *)
(* within their bounds: what schema.sql declares.                          *)
THEOREM TypeCorrect == Spec => []TypeOK
  <1>1. Init => TypeOK
    BY DEF Init, TypeOK
  <1>2. TypeOK /\ [Next]_db => TypeOK'
    <2> SUFFICES ASSUME TypeOK, [Next]_db PROVE TypeOK'
      OBVIOUS
    <2>1. CASE Next
      BY <2>1, NextIsAppend, AppendedType DEF TypeOK
    <2>2. CASE UNCHANGED db
      BY <2>2 DEF TypeOK
    <2>3. QED
      BY <2>1, <2>2
  <1>3. QED
    BY <1>1, <1>2, PTL DEF Spec

(* Nobody can store a thought that its evidence does not support: the      *)
(* trigger evidence_validate refuses it, and no later append takes the     *)
(* evidence away or puts something else in its place.                      *)
THEOREM ThoughtsRestOnFacts == Spec => []ThoughtsAreGrounded
  <1>1. Init => ThoughtsAreGrounded
    BY DEF Init, ThoughtsAreGrounded
  <1>2. TypeOK /\ ThoughtsAreGrounded /\ [Next]_db => ThoughtsAreGrounded'
    <2> SUFFICES ASSUME TypeOK, ThoughtsAreGrounded, [Next]_db
                 PROVE  ThoughtsAreGrounded'
      OBVIOUS
    <2>1. CASE UNCHANGED db
      BY <2>1 DEF ThoughtsAreGrounded, Stored
    <2>2. CASE db = None /\ \A i \in Ids : db'.rows[i] = None
      BY <2>2 DEF ThoughtsAreGrounded, Stored
    <2>3. ASSUME db # None, NEW m \in Memory, db' = Appended(db, m)
          PROVE  ThoughtsAreGrounded'
      <3>1. db \in Database /\ m.id \in Ids
        BY <2>3 DEF TypeOK, Memory
      <3>2. CASE db'.rows = db.rows
        BY <2>3, <3>2 DEF ThoughtsAreGrounded, Stored
      <3>3. CASE db.rows[m.id] = None /\ Accepts(db, m)
        <4>1. /\ db'.rows[m.id] = m
              /\ \A i \in Ids \ {m.id} : db'.rows[i] = db.rows[i]
          BY <2>3, <3>1, <3>3, AppendedType DEF Database
        <4>2. m.evidence \subseteq Ids
          BY DEF Memory
        <4>3. ASSUME NEW i \in Ids, db'.rows[i] # None, db'.rows[i].kind = "thought"
              PROVE  /\ db'.rows[i].evidence # {}
                     /\ \A j \in db'.rows[i].evidence : Supports(db'.rows[j], db'.rows[i])
          <5>1. CASE i = m.id
            <6>1. m.kind = "thought" => m.evidence # {}
              BY <3>3 DEF Accepts, WellFormed, Facts
            <6>2. \A j \in m.evidence : j # m.id /\ Supports(db.rows[j], m)
              BY <3>3 DEF Accepts
            <6>3. QED
              BY <4>1, <4>2, <4>3, <5>1, <6>1, <6>2
          <5>2. CASE i # m.id
            <6>1. /\ db.rows[i] \in Memory /\ db.rows[i].evidence # {}
                  /\ \A j \in db.rows[i].evidence : Supports(db.rows[j], db.rows[i])
              BY <2>3, <3>1, <4>1, <4>3, <5>2 DEF ThoughtsAreGrounded, Stored, Database
            <6>2. ASSUME NEW j \in db.rows[i].evidence
                  PROVE  j \in Ids \ {m.id}
              BY <3>3, <6>1, <6>2 DEF Supports, Memory
            <6>3. QED
              BY <4>1, <5>2, <6>1, <6>2
          <5>3. QED
            BY <5>1, <5>2
        <4>4. QED
          BY <4>3 DEF ThoughtsAreGrounded, Stored
      <3>4. QED
        BY <2>3, <3>1, <3>2, <3>3, AppendedType
    <2>4. QED
      BY <2>1, <2>2, <2>3, NextIsAppend
  <1>3. QED
    BY <1>1, <1>2, TypeCorrect, PTL DEF Spec

-----------------------------------------------------------------------------
(* Sums over finite sets, for Total and Chars: the order in which          *)
(* SumFunction takes the elements does not matter, so one more element     *)
(* adds its value.                                                         *)

LEMMA LeastNumber ==
  ASSUME NEW T, T \subseteq Nat, T # {}
  PROVE  \E x \in T : \A y \in T : x <= y
  <1>1. PICK x \in T : \A y \in T : ~(<< y, x >> \in OpToRel(<, Nat))
    BY WFMin, NatLessThanWellFounded
  <1>2. \A y \in T : ~(y < x)
    BY <1>1 DEF OpToRel
  <1>3. QED
    BY <1>2

(* Some set of a family is minimal: none that lacks one of its elements is *)
(* in the family.                                                          *)
LEMMA MinimalSet ==
  ASSUME NEW A, IsFiniteSet(A), NEW F, F \subseteq SUBSET A, F # {}
  PROVE  \E s \in F : \A x \in s : s \ {x} \notin F
  <1>1. \A s \in F : IsFiniteSet(s) /\ Cardinality(s) \in Nat
    <2>1. TAKE s \in F
    <2>2. IsFiniteSet(s)
      BY FS_Subset
    <2>3. QED
      BY <2>2, FS_CardinalityType
  <1> DEFINE T == {n \in Nat : \E s \in F : Cardinality(s) = n}
  <1>2. T # {}
    BY <1>1
  <1>3. PICK n \in T : \A y \in T : n <= y
    BY <1>2, LeastNumber
  <1>4. PICK s \in F : Cardinality(s) = n
    BY <1>3
  <1>5. ASSUME NEW x \in s, s \ {x} \in F
        PROVE  FALSE
    <2>1. Cardinality(s \ {x}) = n - 1
      BY <1>1, <1>4, <1>5, FS_RemoveElement
    <2>2. n - 1 \in T
      BY <1>1, <1>5, <2>1
    <2>3. QED
      BY <1>3, <2>2
  <1>6. QED
    BY <1>4, <1>5

Pick(s) == CHOOSE x \in s : TRUE

(* g is the table of sums that SumFunction builds over the subsets of A,   *)
(* and the part of it for the sets of at most n elements.                  *)
Sums(g, f, A) ==
  g = [s \in SUBSET A |-> IF s = {} THEN 0 ELSE f[Pick(s)] + g[s \ {Pick(s)}]]

Small(A, n) == {s \in SUBSET A : Cardinality(s) <= n}

SumsUpTo(g, f, A, n) ==
  g = [s \in Small(A, n) |-> IF s = {} THEN 0 ELSE f[Pick(s)] + g[s \ {Pick(s)}]]

LEMMA SmallerSet ==
  ASSUME NEW A, IsFiniteSet(A), NEW s \in SUBSET A, s # {}
  PROVE  /\ Pick(s) \in s /\ s \ {Pick(s)} \in SUBSET A
         /\ Cardinality(s \ {Pick(s)}) = Cardinality(s) - 1
         /\ Cardinality(s) \in Nat \ {0} /\ Cardinality(s) <= Cardinality(A)
  <1>1. IsFiniteSet(s) /\ Cardinality(s) <= Cardinality(A)
    BY FS_Subset
  <1>2. Pick(s) \in s
    BY DEF Pick
  <1>3. Cardinality(s) \in Nat /\ Cardinality(s) # 0
    BY <1>1, FS_CardinalityType, FS_EmptySet
  <1>4. QED
    BY <1>1, <1>2, <1>3, FS_RemoveElement

LEMMA SumsUpToExist ==
  ASSUME NEW A, IsFiniteSet(A), NEW f, NEW n \in Nat
  PROVE  \E g : SumsUpTo(g, f, A, n)
  <1> DEFINE T == {k \in Nat : ~\E g : SumsUpTo(g, f, A, k)}
  <1>1. SUFFICES ASSUME T # {} PROVE FALSE
    OBVIOUS
  <1>2. PICK k \in T : \A y \in T : k <= y
    BY <1>1, LeastNumber
  <1>3. CASE k = 0
    <2>1. Small(A, 0) = {{}}
      <3>1. ASSUME NEW s \in Small(A, 0), s # {} PROVE FALSE
        <4>1. s \in SUBSET A /\ Cardinality(s) <= 0
          BY DEF Small
        <4>2. Cardinality(s) \in Nat \ {0}
          BY <3>1, <4>1, SmallerSet
        <4>3. QED
          BY <4>1, <4>2
      <3>2. {} \in Small(A, 0)
        BY FS_EmptySet DEF Small
      <3>3. QED
        BY <3>1, <3>2
    <2>2. SumsUpTo([s \in {{}} |-> 0], f, A, 0)
      BY <2>1 DEF SumsUpTo
    <2>3. QED
      BY <1>2, <1>3, <2>2
  <1>4. CASE k # 0
    <2>1. k - 1 \in Nat /\ k \in Nat /\ k - 1 \notin T
      BY <1>2, <1>4
    <2>2. PICK g : SumsUpTo(g, f, A, k - 1)
      BY <2>1
    <2> DEFINE h == [s \in Small(A, k) |-> IF s = {} THEN 0
                                           ELSE f[Pick(s)] + g[s \ {Pick(s)}]]
    <2>3. \A s \in Small(A, k - 1) : s \in Small(A, k) /\ h[s] = g[s]
      <3>1. TAKE s \in Small(A, k - 1)
      <3>2. s \in Small(A, k)
        <4>1. IsFiniteSet(s)
          BY FS_Subset DEF Small
        <4>2. Cardinality(s) \in Nat
          BY <4>1, FS_CardinalityType
        <4>3. QED
          BY <2>1, <4>2 DEF Small
      <3>3. g[s] = IF s = {} THEN 0 ELSE f[Pick(s)] + g[s \ {Pick(s)}]
        BY <2>2 DEF SumsUpTo
      <3>4. QED
        BY <3>2, <3>3
    <2>4. \A s \in Small(A, k) : s # {} => s \ {Pick(s)} \in Small(A, k - 1)
      BY <2>1, SmallerSet DEF Small
    <2>5. h = [s \in Small(A, k) |-> IF s = {} THEN 0
                                     ELSE f[Pick(s)] + h[s \ {Pick(s)}]]
      <3>1. \A s \in Small(A, k) : s # {} => h[s \ {Pick(s)}] = g[s \ {Pick(s)}]
        BY <2>3, <2>4
      <3> HIDE DEF h
      <3>2. \A s \in Small(A, k) : h[s] = IF s = {} THEN 0
                                          ELSE f[Pick(s)] + h[s \ {Pick(s)}]
        <4>1. \A s \in Small(A, k) : h[s] = IF s = {} THEN 0
                                            ELSE f[Pick(s)] + g[s \ {Pick(s)}]
          BY DEF h
        <4>2. QED
          BY <3>1, <4>1
      <3>3. h = [s \in Small(A, k) |-> h[s]]
        BY DEF h
      <3>4. QED
        BY <3>2, <3>3
    <2> HIDE DEF h
    <2>6. SumsUpTo(h, f, A, k)
      BY <2>5 DEF SumsUpTo
    <2>7. QED
      BY <1>2, <2>6
  <1>5. QED
    BY <1>3, <1>4

LEMMA SumsExist ==
  ASSUME NEW A, IsFiniteSet(A), NEW f
  PROVE  \E g : Sums(g, f, A)
  <1>1. Cardinality(A) \in Nat
    BY FS_CardinalityType
  <1>2. Small(A, Cardinality(A)) = SUBSET A
    BY FS_Subset DEF Small
  <1>3. PICK g : SumsUpTo(g, f, A, Cardinality(A))
    BY <1>1, SumsUpToExist
  <1>4. Sums(g, f, A)
    BY <1>2, <1>3 DEF Sums, SumsUpTo
  <1>5. QED
    BY <1>4

LEMMA SumsAt ==
  ASSUME NEW g, NEW f, NEW A, Sums(g, f, A), NEW s \in SUBSET A
  PROVE  g[s] = IF s = {} THEN 0 ELSE f[Pick(s)] + g[s \ {Pick(s)}]
  BY DEF Sums

(* SumFunction is the entry of the whole domain in such a table.           *)
LEMMA SumIsEntry ==
  ASSUME NEW A, IsFiniteSet(A), NEW f, DOMAIN f = A
  PROVE  \E g : Sums(g, f, A) /\ SumFunction(f) = g[A]
  <1> DEFINE g == CHOOSE h : Sums(h, f, A)
  <1>1. SumFunction(f) = g[A]
    BY DEF SumFunction, SumFunctionOnSet, FoldFunctionOnSet, MapThenFoldSet, Sums, Pick
  <1>2. Sums(g, f, A)
    BY SumsExist
  <1>3. QED
    BY <1>1, <1>2

Numbers(f, A) == \A i \in A : f[i] \in Nat

LEMMA SumsType ==
  ASSUME NEW A, IsFiniteSet(A), NEW f, Numbers(f, A), NEW g, Sums(g, f, A)
  PROVE  \A s \in SUBSET A : g[s] \in Nat
  <1> DEFINE F == {s \in SUBSET A : g[s] \notin Nat}
  <1>1. SUFFICES ASSUME F # {} PROVE FALSE
    OBVIOUS
  <1>2. PICK s \in F : \A x \in s : s \ {x} \notin F
    BY <1>1, MinimalSet
  <1>3. g[s] = IF s = {} THEN 0 ELSE f[Pick(s)] + g[s \ {Pick(s)}]
    BY <1>2, SumsAt
  <1>4. CASE s = {}
    BY <1>2, <1>3, <1>4
  <1>5. CASE s # {}
    <2>1. Pick(s) \in s /\ s \ {Pick(s)} \in SUBSET A
      BY <1>2, <1>5, SmallerSet
    <2>2. g[s \ {Pick(s)}] \in Nat
      BY <1>2, <2>1
    <2>3. f[Pick(s)] \in Nat
      BY <1>2, <2>1 DEF Numbers
    <2>4. QED
      BY <1>2, <1>3, <1>5, <2>2, <2>3
  <1>6. QED
    BY <1>4, <1>5

(* Any element may be taken first.                                         *)
LEMMA SumsAdd ==
  ASSUME NEW A, IsFiniteSet(A), NEW f, Numbers(f, A), NEW g, Sums(g, f, A)
  PROVE  \A s \in SUBSET A : \A x \in s : g[s] = f[x] + g[s \ {x}]
  <1> DEFINE F == {s \in SUBSET A : \E x \in s : g[s] # f[x] + g[s \ {x}]}
  <1>1. SUFFICES ASSUME F # {} PROVE FALSE
    OBVIOUS
  <1>2. PICK s \in F : \A y \in s : s \ {y} \notin F
    BY <1>1, MinimalSet
  <1>3. PICK x \in s : g[s] # f[x] + g[s \ {x}]
    BY <1>2
  <1>4. PICK p : p = Pick(s)
    OBVIOUS
  <1>5. p \in s /\ s \in SUBSET A /\ g[s] = f[p] + g[s \ {p}]
    <2>1. s \in SUBSET A /\ s # {}
      BY <1>2, <1>3
    <2>2. p \in s
      BY <1>4, <2>1, SmallerSet
    <2>3. g[s] = IF s = {} THEN 0 ELSE f[p] + g[s \ {p}]
      BY <1>4, <2>1, SumsAt
    <2>4. QED
      BY <2>1, <2>2, <2>3
  <1>6. CASE p = x
    BY <1>3, <1>5, <1>6
  <1>7. CASE p # x
    <2>1. /\ s \ {p} \in SUBSET A /\ x \in s \ {p}
          /\ s \ {x} \in SUBSET A /\ p \in s \ {x}
      BY <1>3, <1>5, <1>7
    <2>2. g[s \ {p}] = f[x] + g[(s \ {p}) \ {x}]
      BY <1>2, <1>5, <2>1
    <2>3. g[s \ {x}] = f[p] + g[(s \ {x}) \ {p}]
      BY <1>2, <1>3, <2>1
    <2>4. (s \ {p}) \ {x} = (s \ {x}) \ {p} /\ (s \ {p}) \ {x} \in SUBSET A
      BY <1>5
    <2>5. PICK n \in Nat : n = g[(s \ {p}) \ {x}]
      BY <2>4, SumsType
    <2>6. f[p] \in Nat /\ f[x] \in Nat
      BY <1>3, <1>5 DEF Numbers
    <2>7. PICK a \in Nat, b \in Nat : a = f[p] /\ b = f[x]
      BY <2>6
    <2>8. g[s] = a + (b + n)
      BY <1>5, <2>2, <2>5, <2>7
    <2>9. f[x] + g[s \ {x}] = b + (a + n)
      BY <2>3, <2>4, <2>5, <2>7
    <2>10. a + (b + n) = b + (a + n)
      OBVIOUS
    <2>11. QED
      BY <1>3, <2>8, <2>9, <2>10
  <1>8. QED
    BY <1>6, <1>7

(* Values outside the set do not matter.                                   *)
SameOn(q, r, A) == \A i \in A : q[i] = r[i]

LEMMA SumsAgree ==
  ASSUME NEW A, NEW B, IsFiniteSet(B), A \subseteq B, NEW q, NEW r,
         SameOn(q, r, A),
         NEW g, NEW h, Sums(g, q, A), Sums(h, r, B)
  PROVE  \A s \in SUBSET A : g[s] = h[s]
  <1>1. IsFiniteSet(A)
    BY FS_Subset
  <1> DEFINE F == {s \in SUBSET A : g[s] # h[s]}
  <1>2. SUFFICES ASSUME F # {} PROVE FALSE
    OBVIOUS
  <1>3. PICK s \in F : \A x \in s : s \ {x} \notin F
    BY <1>1, <1>2, MinimalSet
  <1>4. /\ g[s] = IF s = {} THEN 0 ELSE q[Pick(s)] + g[s \ {Pick(s)}]
        /\ h[s] = IF s = {} THEN 0 ELSE r[Pick(s)] + h[s \ {Pick(s)}]
    BY <1>3, SumsAt
  <1>5. CASE s # {}
    <2>1. Pick(s) \in s /\ s \ {Pick(s)} \in SUBSET A
      BY <1>1, <1>3, <1>5, SmallerSet
    <2>2. g[s \ {Pick(s)}] = h[s \ {Pick(s)}]
      BY <1>3, <2>1
    <2>3. q[Pick(s)] = r[Pick(s)]
      BY <1>3, <2>1 DEF SameOn
    <2>4. QED
      BY <1>3, <1>4, <1>5, <2>2, <2>3
  <1>6. QED
    BY <1>3, <1>4, <1>5

(* What the sum is, one value at a time.                                   *)
LEMMA SumOfNothing ==
  ASSUME NEW f, DOMAIN f = {}
  PROVE  SumFunction(f) = 0
  <1>1. PICK g : Sums(g, f, {}) /\ SumFunction(f) = g[{}]
    BY FS_EmptySet, SumIsEntry
  <1>2. g[{}] = 0
    BY <1>1, SumsAt
  <1>3. QED
    BY <1>1, <1>2

LEMMA SumGrows ==
  ASSUME NEW A, IsFiniteSet(A), NEW x, x \notin A,
         NEW f, Numbers(f, A), NEW h, Numbers(h, A \cup {x}), SameOn(f, h, A),
         DOMAIN f = A, DOMAIN h = A \cup {x}
  PROVE  SumFunction(f) \in Nat /\ SumFunction(h) = SumFunction(f) + h[x]
  <1>1. PICK B : B = A \cup {x}
    OBVIOUS
  <1>2. IsFiniteSet(B)
    BY <1>1, FS_AddElement
  <1>3. PICK g : Sums(g, f, A) /\ SumFunction(f) = g[A]
    BY SumIsEntry
  <1>4. PICK k : Sums(k, h, B) /\ SumFunction(h) = k[B]
    BY <1>1, <1>2, SumIsEntry
  <1>5. g[A] = k[A]
    <2>1. A \subseteq B /\ A \in SUBSET A
      BY <1>1
    <2>2. \A s \in SUBSET A : g[s] = k[s]
      BY ONLY <1>2, <1>3, <1>4, <2>1, SameOn(f, h, A), SumsAgree
    <2>3. QED
      BY <2>1, <2>2
  <1>6. k[B] = h[x] + k[B \ {x}]
    BY <1>1, <1>2, <1>4, SumsAdd
  <1>7. B \ {x} = A
    BY <1>1
  <1>8. g[A] \in Nat /\ h[x] \in Nat
    BY <1>1, <1>3, SumsType DEF Numbers
  <1>9. k[B] = h[x] + g[A]
    BY <1>5, <1>6, <1>7
  <1>10. QED
    BY <1>3, <1>4, <1>8, <1>9

-----------------------------------------------------------------------------
(* ScoreIsEarned of one database, which one append preserves.              *)
Rows(base) == {i \in Ids : base.rows[i] # None}
Earns(base, d) == {i \in Rows(base) : base.rows[i].peer = d /\ base.rows[i].delta > 0}

IsEarned(base, d) ==
  /\ base.score[d] = Capped(Total(base.rows, Earns(base, d)))
  /\ \A i \in Earns(base, d) : base.updated[d] >= base.rows[i].at

Inserts(old, m, new) ==
  /\ new.rows = [old.rows EXCEPT ![m.id] = m]
  /\ new.score = Credited(old, m).score /\ new.updated = Credited(old, m).updated

LEMMA CappedAddsUp ==
  ASSUME NEW n \in Nat, NEW k \in Nat
  PROVE  Capped(Capped(n) + k) = Capped(n + k)
  BY DEF Capped

LEMMA CreditedScores ==
  ASSUME NEW old \in Database, NEW m \in Memory, NEW d \in Dogs
  PROVE  /\ Credited(old, m).score[d] = IF m.delta > 0 /\ m.peer = d
                                        THEN Capped(old.score[d] + m.delta) ELSE old.score[d]
         /\ Credited(old, m).updated[d] = IF m.delta > 0 /\ m.peer = d
                                          THEN Later(old.updated[d], m.at) ELSE old.updated[d]
  BY DEF Credited, Memory, Database

LEMMA InsertedRow ==
  ASSUME NEW old \in Database, NEW m \in Memory, old.rows[m.id] = None, NEW new,
         Inserts(old, m, new)
  PROVE  /\ new.rows[m.id] = m /\ m.id \in Ids /\ m.id \notin Rows(old)
         /\ \A i \in Rows(old) : new.rows[i] = old.rows[i]
         /\ Rows(new) = Rows(old) \cup {m.id}
  <1>1. m.id \in Ids /\ old.rows \in [Ids -> Memory \cup {None}] /\ m # None
    BY MemoryAssumption DEF Memory, Database
  <1>2. QED
    BY <1>1 DEF Inserts, Rows

SameDeltas(q, r, A) == \A i \in A : q[i].delta = r[i].delta

LEMMA TotalAgrees ==
  ASSUME NEW A, NEW q, NEW r, SameDeltas(q, r, A)
  PROVE  Total(q, A) = Total(r, A)
  <1>1. [i \in A |-> q[i].delta] = [i \in A |-> r[i].delta]
    BY DEF SameDeltas
  <1>2. QED
    BY <1>1 DEF Total

LEMMA TotalGrows ==
  ASSUME NEW A, IsFiniteSet(A), NEW x, x \notin A, NEW rows,
         \A i \in A \cup {x} : rows[i].delta \in Nat
  PROVE  /\ Total(rows, A) \in Nat
         /\ Total(rows, A \cup {x}) = Total(rows, A) + rows[x].delta
  <1>1. PICK f, h : /\ f = [i \in A |-> rows[i].delta]
                    /\ h = [i \in A \cup {x} |-> rows[i].delta]
    OBVIOUS
  <1>2. /\ Numbers(f, A) /\ Numbers(h, A \cup {x}) /\ SameOn(f, h, A)
        /\ DOMAIN f = A /\ DOMAIN h = A \cup {x} /\ h[x] = rows[x].delta
    BY <1>1 DEF Numbers, SameOn
  <1>3. SumFunction(f) \in Nat /\ SumFunction(h) = SumFunction(f) + h[x]
    BY ONLY <1>2, IsFiniteSet(A), x \notin A, SumGrows
  <1>4. QED
    BY <1>1, <1>2, <1>3 DEF Total

LEMMA InsertedEarnings ==
  ASSUME NEW old \in Database, NEW m \in Memory, old.rows[m.id] = None, NEW new,
         Inserts(old, m, new), NEW d
  PROVE  /\ m.id \notin Earns(old, d) /\ SameDeltas(old.rows, new.rows, Earns(old, d))
         /\ Earns(new, d) = IF m.delta > 0 /\ m.peer = d THEN Earns(old, d) \cup {m.id}
                            ELSE Earns(old, d)
  <1>1. /\ new.rows[m.id] = m /\ m.id \notin Rows(old)
        /\ \A i \in Rows(old) : new.rows[i] = old.rows[i]
        /\ Rows(new) = Rows(old) \cup {m.id}
    BY InsertedRow
  <1>2. SameDeltas(old.rows, new.rows, Earns(old, d))
    BY <1>1 DEF SameDeltas, Earns
  <1>3. QED
    BY <1>1, <1>2 DEF Earns

LEMMA InsertKeepsEarned ==
  ASSUME NEW old \in Database, NEW m \in Memory, old.rows[m.id] = None, NEW new,
         Inserts(old, m, new), IsFiniteSet(Rows(old)), NEW d \in Dogs, IsEarned(old, d)
  PROVE  IsEarned(new, d)
  <1> DEFINE A == Earns(old, d)
  <1>1. /\ m.id \notin A /\ SameDeltas(old.rows, new.rows, A)
        /\ Earns(new, d) = IF m.delta > 0 /\ m.peer = d THEN A \cup {m.id} ELSE A
    BY InsertedEarnings
  <1>2. /\ new.rows[m.id] = m /\ \A i \in Rows(old) : new.rows[i] = old.rows[i]
    BY InsertedRow
  <1>3. IsFiniteSet(A)
    BY FS_Subset DEF Earns
  <1>4. Total(new.rows, A) = Total(old.rows, A)
    BY <1>1, TotalAgrees
  <1>5. /\ new.score[d] = IF m.delta > 0 /\ m.peer = d
                          THEN Capped(old.score[d] + m.delta) ELSE old.score[d]
        /\ new.updated[d] = IF m.delta > 0 /\ m.peer = d
                            THEN Later(old.updated[d], m.at) ELSE old.updated[d]
    BY CreditedScores DEF Inserts
  <1>6. /\ old.score[d] = Capped(Total(old.rows, A))
        /\ \A i \in A : old.updated[d] >= old.rows[i].at
    BY DEF IsEarned
  <1>7. \A i \in A : i \in Rows(old) /\ old.rows[i] \in Memory
    BY DEF Earns, Rows, Database
  <1>8. m.at \in Nat /\ m.delta \in Nat /\ old.updated[d] \in Nat
    BY DEF Memory, Database
  <1>9. \A i \in A : old.rows[i].at \in Nat /\ old.rows[i].delta \in Nat
    BY <1>7 DEF Memory
  <1>10. CASE m.delta > 0 /\ m.peer = d
    <2>1. \A i \in A \cup {m.id} : new.rows[i].delta \in Nat
      BY <1>2, <1>7, <1>8, <1>9
    <2>2. /\ Total(new.rows, A) \in Nat
          /\ Total(new.rows, A \cup {m.id}) = Total(new.rows, A) + new.rows[m.id].delta
      BY <1>1, <1>3, <2>1, TotalGrows
    <2>3. PICK n \in Nat : n = Total(new.rows, A)
      BY <2>2
    <2>4. new.score[d] = Capped(Capped(n) + m.delta)
      BY <1>4, <1>5, <1>6, <1>10, <2>3
    <2>5. Total(new.rows, Earns(new, d)) = n + m.delta
      BY <1>1, <1>2, <1>10, <2>2, <2>3
    <2>6. new.score[d] = Capped(Total(new.rows, Earns(new, d)))
      BY <1>8, <2>4, <2>5, CappedAddsUp
    <2>7. ASSUME NEW i \in Earns(new, d)
          PROVE  new.updated[d] >= new.rows[i].at
      <3>1. new.updated[d] = Later(old.updated[d], m.at)
        BY <1>5, <1>10
      <3>2. CASE i = m.id
        BY <1>2, <1>8, <3>1, <3>2 DEF Later
      <3>3. CASE i \in A
        <4>1. /\ new.rows[i].at = old.rows[i].at /\ old.rows[i].at \in Nat
              /\ old.updated[d] >= old.rows[i].at
          BY <1>2, <1>6, <1>7, <1>9, <3>3
        <4>2. QED
          BY <1>8, <3>1, <4>1 DEF Later
      <3>4. QED
        BY <1>1, <1>10, <2>7, <3>2, <3>3
    <2>8. QED
      BY <2>6, <2>7 DEF IsEarned
  <1>11. CASE ~(m.delta > 0 /\ m.peer = d)
    <2>1. Earns(new, d) = A /\ new.score[d] = old.score[d] /\ new.updated[d] = old.updated[d]
      BY <1>1, <1>5, <1>11
    <2>2. \A i \in A : new.rows[i].at = old.rows[i].at
      BY <1>2, <1>7
    <2>3. QED
      BY <1>4, <1>6, <2>1, <2>2 DEF IsEarned
  <1>12. QED
    BY <1>10, <1>11

LEMMA NothingEarned ==
  ASSUME NEW rows
  PROVE  Total(rows, {}) = 0
  BY SumOfNothing DEF Total

LEMMA AppendedInserts ==
  ASSUME NEW old \in Database, NEW m \in Memory, Accepts(old, m), old.rows[m.id] = None
  PROVE  Inserts(old, m, Appended(old, m))
  <1>1. /\ Credited(old, m) \in Database /\ Credited(old, m).rows = old.rows
    BY CreditedType
  <1>2. QED
    BY <1>1 DEF Appended, Inserts, Database

(* What else a stored row is: under its own id, well formed, and with      *)
(* evidence that is stored too.                                            *)
Sound(base) ==
  \A i \in Rows(base) : /\ base.rows[i].id = i /\ WellFormed(base.rows[i])
                        /\ base.rows[i].evidence \subseteq Rows(base)

LEMMA InsertKeepsSound ==
  ASSUME NEW old \in Database, NEW m \in Memory, old.rows[m.id] = None, Accepts(old, m), NEW new,
         Inserts(old, m, new), Sound(old)
  PROVE  Sound(new)
  <1>1. /\ new.rows[m.id] = m /\ \A i \in Rows(old) : new.rows[i] = old.rows[i]
        /\ Rows(new) = Rows(old) \cup {m.id}
    BY InsertedRow
  <1>2. m.evidence \subseteq Rows(old) /\ WellFormed(m)
    BY DEF Accepts, Supports, Rows, Memory
  <1>3. QED
    BY <1>1, <1>2 DEF Sound

StoreInv == db # None => /\ IsFiniteSet(Rows(db)) /\ Sound(db)
                         /\ \A d \in Dogs : IsEarned(db, d)

LEMMA StoreInvHolds == Spec => []StoreInv
  <1>1. Init => StoreInv
    BY DEF Init, StoreInv
  <1>2. TypeOK /\ StoreInv /\ [Next]_db => StoreInv'
    <2> SUFFICES ASSUME TypeOK, StoreInv, [Next]_db
                 PROVE  StoreInv'
      OBVIOUS
    <2>1. CASE UNCHANGED db
      BY <2>1 DEF StoreInv, Sound, IsEarned, Earns, Rows
    <2>2. CASE \E profile \in Profiles : Initialize(profile)
      <3>1. PICK profile \in Profiles : db' = EmptyDatabase(profile.owner, profile.mode)
        BY <2>2 DEF Initialize
      <3>2. PICK new : new = db'
        OBVIOUS
      <3>3. /\ \A i \in Ids : new.rows[i] = None
            /\ \A d \in Dogs : new.score[d] = 0
        BY <3>1, <3>2 DEF EmptyDatabase
      <3>4. Rows(new) = {} /\ \A d \in Dogs : Earns(new, d) = {}
        BY <3>3 DEF Rows, Earns
      <3>5. \A d \in Dogs : IsEarned(new, d)
        BY <3>3, <3>4, NothingEarned DEF IsEarned, Capped
      <3>6. QED
        BY <3>2, <3>4, <3>5, FS_EmptySet DEF StoreInv, Sound, IsEarned, Earns, Rows
    <2>3. CASE \E owner \in Dogs, m \in Inputs : AppendMemory(owner, m) \/ RecordConfirmed(owner, m)
      <3>1. PICK m \in Memory : db # None /\ db' \in {db, Appended(db, m)}
        BY <2>3, InputsAssumption DEF AppendMemory, RecordConfirmed
      <3>2. PICK old, new : old = db /\ new = db'
        OBVIOUS
      <3>3. /\ old \in Database /\ new \in {old, Appended(old, m)}
            /\ IsFiniteSet(Rows(old)) /\ Sound(old) /\ \A d \in Dogs : IsEarned(old, d)
        BY <3>1, <3>2 DEF TypeOK, StoreInv
      <3>4. IsFiniteSet(Rows(new)) /\ Sound(new) /\ \A d \in Dogs : IsEarned(new, d)
        <4>1. CASE new = old
          BY <3>3, <4>1
        <4>2. CASE new = Appended(old, m) /\ Accepts(old, m) /\ old.rows[m.id] = None
          <5>1. Inserts(old, m, new)
            BY <3>3, <4>2, AppendedInserts
          <5>2. Rows(new) = Rows(old) \cup {m.id}
            BY <3>3, <4>2, <5>1, InsertedRow
          <5>3. IsFiniteSet(Rows(new))
            BY <3>3, <5>2, FS_AddElement
          <5>4. Sound(new)
            BY <3>3, <4>2, <5>1, InsertKeepsSound
          <5>5. QED
            BY <3>3, <4>2, <5>1, <5>3, <5>4, InsertKeepsEarned
        <4>3. QED
          BY <3>3, <4>1, <4>2 DEF Appended
      <3>5. QED
        BY <3>2, <3>4 DEF StoreInv, Sound, IsEarned, Earns, Rows
    <2>4. QED
      BY <2>1, <2>2, <2>3 DEF Next
  <1>3. QED
    BY <1>1, <1>2, TypeCorrect, PTL DEF Spec

(* No reward is lost and none counts twice: in every reachable database,   *)
(* whatever callbacks were repeated, refused or late, each peer's score is *)
(* the capped sum of what the recorded events with it earned, and its      *)
(* update time is at least that of each of them.                           *)
THEOREM ScoresAreEarned == Spec => []ScoreIsEarned
  <1>1. StoreInv => ScoreIsEarned
    BY DEF StoreInv, ScoreIsEarned, IsEarned, Earned, Earns, Stored, Rows
  <1>2. QED
    BY <1>1, StoreInvHolds, PTL

-----------------------------------------------------------------------------
(* The order of the recalled memories: ids tell them apart, so each has a  *)
(* rank of its own and every rank is taken.                                *)
Distinct(S) == S \subseteq Memory /\ \A m, n \in S : m.id = n.id => m = n

LEMMA NewerIsTotal ==
  ASSUME NEW S, Distinct(S), NEW m \in S, NEW n \in S, m # n
  PROVE  Newer(m, n) \/ Newer(n, m)
  <1>1. m.at \in Nat /\ n.at \in Nat /\ m.id \in Nat /\ n.id \in Nat /\ m.id # n.id
    BY RequestsAssumption DEF Distinct, Memory
  <1>2. QED
    BY <1>1 DEF Newer

LEMMA NewerIsOrder ==
  ASSUME NEW m \in Memory, NEW n \in Memory, NEW p \in Memory
  PROVE  ~Newer(m, m) /\ (Newer(m, n) /\ Newer(n, p) => Newer(m, p))
  <1>1. /\ m.at \in Nat /\ n.at \in Nat /\ p.at \in Nat
        /\ m.id \in Nat /\ n.id \in Nat /\ p.id \in Nat
    BY RequestsAssumption DEF Memory
  <1>2. QED
    BY <1>1 DEF Newer

LEMMA RankType ==
  ASSUME NEW S, IsFiniteSet(S), Distinct(S), NEW m \in S
  PROVE  Rank(m, S) \in 1..Cardinality(S)
  <1> DEFINE B == {n \in S : Newer(n, m)}
  <1>1. m \notin B
    BY NewerIsOrder DEF Distinct
  <1>2. IsFiniteSet(B) /\ Cardinality(B) <= Cardinality(S) /\ Cardinality(B) # Cardinality(S)
    BY <1>1, FS_Subset
  <1>3. Cardinality(B) \in Nat /\ Cardinality(S) \in Nat
    BY <1>2, FS_CardinalityType
  <1>4. Rank(m, S) = Cardinality(B) + 1
    BY DEF Rank
  <1> HIDE DEF B
  <1>5. QED
    BY <1>2, <1>3, <1>4

LEMMA NewerRanksBefore ==
  ASSUME NEW S, IsFiniteSet(S), Distinct(S), NEW m \in S, NEW n \in S, Newer(m, n)
  PROVE  Rank(m, S) < Rank(n, S)
  <1> DEFINE B == {p \in S : Newer(p, m)}
             C == {p \in S : Newer(p, n)}
  <1>1. B \subseteq C
    BY NewerIsOrder DEF Distinct
  <1>2. m \in C /\ m \notin B
    BY NewerIsOrder DEF Distinct
  <1>3. IsFiniteSet(C)
    BY FS_Subset
  <1>4. IsFiniteSet(B) /\ Cardinality(B) <= Cardinality(C) /\ Cardinality(B) # Cardinality(C)
    BY <1>1, <1>2, <1>3, FS_Subset
  <1>5. Cardinality(B) \in Nat /\ Cardinality(C) \in Nat
    BY <1>3, <1>4, FS_CardinalityType
  <1>6. Rank(m, S) = Cardinality(B) + 1 /\ Rank(n, S) = Cardinality(C) + 1
    BY DEF Rank
  <1> HIDE DEF B, C
  <1>7. QED
    BY <1>4, <1>5, <1>6

LEMMA RanksDiffer ==
  ASSUME NEW S, IsFiniteSet(S), Distinct(S), NEW m \in S, NEW n \in S, Rank(m, S) = Rank(n, S)
  PROVE  m = n
  <1>1. SUFFICES ASSUME m # n PROVE FALSE
    OBVIOUS
  <1>2. Rank(m, S) < Rank(n, S) \/ Rank(n, S) < Rank(m, S)
    BY <1>1, NewerIsTotal, NewerRanksBefore
  <1>3. PICK k : k = Rank(m, S)
    OBVIOUS
  <1>4. k \in 1..Cardinality(S) /\ Cardinality(S) \in Nat
    BY <1>3, RankType, FS_CardinalityType
  <1>5. QED
    BY <1>2, <1>3, <1>4

LEMMA RanksAreTaken ==
  ASSUME NEW S, IsFiniteSet(S), Distinct(S), NEW k \in 1..Cardinality(S)
  PROVE  \E m \in S : Rank(m, S) = k
  <1>1. PICK f : f = [m \in S |-> Rank(m, S)]
    OBVIOUS
  <1>2. PICK n \in Nat : n = Cardinality(S)
    BY FS_CardinalityType
  <1>3. f \in [S -> 1..n]
    BY <1>1, <1>2, RankType
  <1>4. f \in Injection(S, 1..n)
    BY <1>1, <1>3, RanksDiffer DEF Injection, IsInjective
  <1>5. IsFiniteSet(1..n) /\ Cardinality(1..n) = n
    BY <1>2, FS_Interval
  <1>6. f \in Surjection(S, 1..n)
    BY <1>2, <1>4, <1>5, FS_Injection
  <1>7. QED
    BY <1>1, <1>2, <1>6 DEF Surjection

\* The recalled list: memories of the set, no two the same, and all of them
\* when there is room.
LEMMA LatestIsList ==
  ASSUME NEW S, IsFiniteSet(S), Distinct(S), NEW limit \in Nat
  PROVE  /\ Latest(S, limit) \in Seq(S)
         /\ Len(Latest(S, limit)) = Lesser(limit, Cardinality(S))
         /\ \A i, j \in 1..Len(Latest(S, limit)) :
              Latest(S, limit)[i] = Latest(S, limit)[j] => i = j
         /\ Len(Latest(S, limit)) < limit =>
              \A m \in S : \E i \in 1..Len(Latest(S, limit)) : Latest(S, limit)[i] = m
  <1>1. PICK n \in Nat : n = Cardinality(S)
    BY FS_CardinalityType
  <1>2. PICK l \in Nat : l = Lesser(limit, n) /\ l <= n /\ (l < limit => l = n)
    BY <1>1 DEF Lesser
  <1>3. PICK q : q = Latest(S, limit)
    OBVIOUS
  <1>4. q = [k \in 1..l |-> CHOOSE m \in S : Rank(m, S) = k]
    BY <1>1, <1>2, <1>3 DEF Latest
  <1>5. \A k \in 1..l : q[k] \in S /\ Rank(q[k], S) = k
    <2>1. TAKE k \in 1..l
    <2>2. k \in 1..Cardinality(S)
      BY <1>1, <1>2
    <2>3. \E m \in S : Rank(m, S) = k
      BY <2>2, RanksAreTaken
    <2>4. q[k] = CHOOSE m \in S : Rank(m, S) = k
      BY <1>4
    <2>5. QED
      BY <2>3, <2>4
  <1>6. q \in Seq(S) /\ Len(q) = l
    BY <1>4, <1>5
  <1>7. \A i, j \in 1..l : q[i] = q[j] => i = j
    BY <1>5
  <1>8. l < limit => \A m \in S : \E i \in 1..l : q[i] = m
    <2>1. SUFFICES ASSUME l = n, NEW m \in S PROVE \E i \in 1..l : q[i] = m
      BY <1>2
    <2>2. Rank(m, S) \in 1..l
      BY <1>1, <2>1, RankType
    <2>3. Rank(q[Rank(m, S)], S) = Rank(m, S) /\ q[Rank(m, S)] \in S
      BY <1>5, <2>2
    <2>4. QED
      BY <2>2, <2>3, RanksDiffer
  <1>9. QED
    BY <1>1, <1>2, <1>3, <1>6, <1>7, <1>8

-----------------------------------------------------------------------------
(* Answers, and their size as one memory is appended.                      *)
ItemRec == [memory : Memory, kept : Nat, cut : BOOLEAN, evidence : Nat, evidenceCut : BOOLEAN]
Categories == {"facts", "thoughts"}

LEMMA Sizes ==
  /\ MaxOutput \in Nat /\ MaxShown \in Nat /\ Frame \in Nat /\ ItemFrame \in Nat
  /\ IdSize \in Nat /\ Suffix \in Nat /\ Frame + 5 <= MaxOutput
  /\ Length \in [Texts -> Nat] /\ Flag(TRUE) = 4 /\ Flag(FALSE) = 5
  BY SizesAssumption DEF Flag

LEMMA ItemSizeType ==
  ASSUME NEW item \in ItemRec
  PROVE  ItemSize(item) \in Nat
  <1>1. /\ item.kept \in Nat /\ item.evidence \in Nat
        /\ item.cut \in BOOLEAN /\ item.evidenceCut \in BOOLEAN
    BY DEF ItemRec
  <1>2. item.evidence * IdSize \in Nat
    BY <1>1, Sizes
  <1>3. Flag(item.cut) \in Nat /\ Flag(item.evidenceCut) \in Nat
    BY DEF Flag
  <1>4. QED
    BY <1>1, <1>2, <1>3, Sizes DEF ItemSize

LEMMA CharsType ==
  ASSUME NEW items \in Seq(ItemRec)
  PROVE  Chars(items) \in Nat
  <1>1. PICK A, f : A = DOMAIN items /\ f = [i \in A |-> ItemSize(items[i])]
    OBVIOUS
  <1>2. IsFiniteSet(A) /\ DOMAIN f = A
    BY <1>1, FS_Interval
  <1>3. Numbers(f, A)
    BY <1>1, ItemSizeType DEF Numbers
  <1>4. PICK g : Sums(g, f, A) /\ SumFunction(f) = g[A]
    BY <1>2, SumIsEntry
  <1>5. SumFunction(f) \in Nat
    BY <1>2, <1>3, <1>4, SumsType
  <1>6. QED
    BY <1>1, <1>5 DEF Chars

LEMMA CharsGrow ==
  ASSUME NEW items \in Seq(ItemRec), NEW item \in ItemRec
  PROVE  Chars(items) \in Nat /\ Chars(Append(items, item)) = Chars(items) + ItemSize(item)
  <1>1. PICK n \in Nat : n = Len(items)
    OBVIOUS
  <1>2. PICK more : more = Append(items, item)
    OBVIOUS
  <1>3. /\ DOMAIN items = 1..n /\ DOMAIN more = (1..n) \cup {n + 1} /\ n + 1 \notin 1..n
        /\ more[n + 1] = item /\ \A i \in 1..n : more[i] = items[i] /\ items[i] \in ItemRec
    BY <1>1, <1>2
  <1>4. IsFiniteSet(1..n)
    BY FS_Interval
  <1>5. PICK f, h : /\ f = [i \in 1..n |-> ItemSize(items[i])]
                    /\ h = [i \in (1..n) \cup {n + 1} |-> ItemSize(more[i])]
    OBVIOUS
  <1>6. \A i \in 1..n : ItemSize(items[i]) \in Nat
    BY <1>3, ItemSizeType
  <1>7. \A i \in (1..n) \cup {n + 1} : ItemSize(more[i]) \in Nat
    BY <1>3, <1>6, ItemSizeType
  <1>8. /\ Numbers(f, 1..n) /\ Numbers(h, (1..n) \cup {n + 1}) /\ SameOn(f, h, 1..n)
        /\ DOMAIN f = 1..n /\ DOMAIN h = (1..n) \cup {n + 1}
        /\ h[n + 1] = ItemSize(item)
    BY <1>3, <1>5, <1>6, <1>7 DEF Numbers, SameOn
  <1>9. PICK A, x : A = 1..n /\ x = n + 1
    OBVIOUS
  <1>10. /\ Numbers(f, A) /\ Numbers(h, A \cup {x}) /\ SameOn(f, h, A) /\ IsFiniteSet(A)
         /\ DOMAIN f = A /\ DOMAIN h = A \cup {x} /\ x \notin A /\ h[x] = ItemSize(item)
    BY <1>3, <1>4, <1>8, <1>9
  <1>11. SumFunction(f) \in Nat /\ SumFunction(h) = SumFunction(f) + h[x]
    BY ONLY <1>10, SumGrows
  <1>12. Chars(items) = SumFunction(f) /\ Chars(more) = SumFunction(h)
    BY <1>3, <1>5 DEF Chars
  <1>13. QED
    BY <1>2, <1>10, <1>11, <1>12

\* An answer about b's dog with these lists, and one whose list of this
\* category is items.
Answer(b, facts, thoughts, truncated) ==
  [affinity |-> b.affinity, familiar |-> b.familiar, facts |-> facts, thoughts |-> thoughts,
   truncated |-> truncated]
Holding(b, category, items, others, truncated) ==
  IF category = "facts" THEN Answer(b, items, others, truncated)
                        ELSE Answer(b, others, items, truncated)

Late(a) == [a EXCEPT !.truncated = TRUE]
Early(a) == [a EXCEPT !.truncated = FALSE]

LEMMA AnswerFields ==
  ASSUME NEW b, NEW facts, NEW thoughts, NEW u
  PROVE  /\ Answer(b, facts, thoughts, u).facts = facts
         /\ Answer(b, facts, thoughts, u).thoughts = thoughts
         /\ Answer(b, facts, thoughts, u).truncated = u
         /\ Answer(b, facts, thoughts, u).affinity = b.affinity
  BY DEF Answer

LEMMA AnswerLate ==
  ASSUME NEW b, NEW facts, NEW thoughts, NEW u
  PROVE  /\ Late(Answer(b, facts, thoughts, u)) = Answer(b, facts, thoughts, TRUE)
         /\ Early(Answer(b, facts, thoughts, u)) = Answer(b, facts, thoughts, FALSE)
  <1>1. PICK B, C : B = b.affinity /\ C = b.familiar
    OBVIOUS
  <1> DEFINE R(v) == [affinity |-> B, familiar |-> C, facts |-> facts, thoughts |-> thoughts,
                      truncated |-> v]
  <1>2. \A v : Answer(b, facts, thoughts, v) = R(v)
    BY <1>1 DEF Answer
  <1>3. \A v : [R(u) EXCEPT !.truncated = v] = R(v)
    OBVIOUS
  <1> HIDE DEF R
  <1>5. PICK a : a = Answer(b, facts, thoughts, u) /\ a = R(u)
    BY <1>2
  <1>6. Late(a) = Answer(b, facts, thoughts, TRUE)
    <2>1. PICK v : v = TRUE
      OBVIOUS
    <2>2. [a EXCEPT !.truncated = v] = Answer(b, facts, thoughts, v)
      BY <1>2, <1>3, <1>5
    <2>3. QED
      BY ONLY <2>1, <2>2, Zenon DEF Late
  <1>7. Early(a) = Answer(b, facts, thoughts, FALSE)
    <2>1. PICK v : v = FALSE
      OBVIOUS
    <2>2. [a EXCEPT !.truncated = v] = Answer(b, facts, thoughts, v)
      BY <1>2, <1>3, <1>5
    <2>3. QED
      BY ONLY <2>1, <2>2, Zenon DEF Early
  <1>8. QED
    BY <1>5, <1>6, <1>7

LEMMA AnswerWith ==
  ASSUME NEW b, NEW facts, NEW thoughts, NEW u, NEW item
  PROVE  /\ With(Answer(b, facts, thoughts, u), "facts", item)
              = Answer(b, Append(facts, item), thoughts, u)
         /\ With(Answer(b, facts, thoughts, u), "thoughts", item)
              = Answer(b, facts, Append(thoughts, item), u)
  <1>1. PICK B, C : B = b.affinity /\ C = b.familiar
    OBVIOUS
  <1> DEFINE R(f, t) == [affinity |-> B, familiar |-> C, facts |-> f, thoughts |-> t, truncated |-> u]
  <1>2. \A f, t : Answer(b, f, t, u) = R(f, t)
    BY <1>1 DEF Answer
  <1>3. With(R(facts, thoughts), "facts", item) = R(Append(facts, item), thoughts)
    <2>1. PICK more : more = Append(facts, item)
      OBVIOUS
    <2>2. [R(facts, thoughts) EXCEPT !.facts = more] = R(more, thoughts)
      OBVIOUS
    <2>3. QED
      BY <2>1, <2>2 DEF With
  <1>4. With(R(facts, thoughts), "thoughts", item) = R(facts, Append(thoughts, item))
    <2>1. PICK more : more = Append(thoughts, item)
      OBVIOUS
    <2>2. [R(facts, thoughts) EXCEPT !.thoughts = more] = R(facts, more)
      OBVIOUS
    <2>3. QED
      BY <2>1, <2>2 DEF With
  <1> HIDE DEF R
  <1>5. QED
    BY <1>2, <1>3, <1>4

LEMMA HoldingTruncated ==
  ASSUME NEW b, NEW category \in Categories, NEW items, NEW others, NEW u
  PROVE  Holding(b, category, items, others, u).truncated = u
  <1>1. CASE category = "facts"
    BY <1>1, AnswerFields DEF Holding
  <1>2. CASE category = "thoughts"
    BY <1>2, AnswerFields DEF Holding
  <1>3. QED
    BY <1>1, <1>2 DEF Categories

LEMMA HoldingLate ==
  ASSUME NEW b, NEW category \in Categories, NEW items, NEW others, NEW u
  PROVE  Late(Holding(b, category, items, others, u)) = Holding(b, category, items, others, TRUE)
  <1>1. CASE category = "facts"
    <2>1. \A i, v : Holding(b, category, i, others, v) = Answer(b, i, others, v)
      BY <1>1 DEF Holding
    <2>2. PICK a : a = Holding(b, category, items, others, u) /\ a = Answer(b, items, others, u)
      BY <2>1
    <2>3. Late(a) = Holding(b, category, items, others, TRUE)
      BY <2>1, <2>2, AnswerLate
    <2>4. QED
      BY <2>2, <2>3
  <1>2. CASE category = "thoughts"
    <2>1. \A i, v : Holding(b, category, i, others, v) = Answer(b, others, i, v)
      BY <1>2 DEF Holding
    <2>2. PICK a : a = Holding(b, category, items, others, u) /\ a = Answer(b, others, items, u)
      BY <2>1
    <2>3. Late(a) = Holding(b, category, items, others, TRUE)
      BY <2>1, <2>2, AnswerLate
    <2>4. QED
      BY <2>2, <2>3
  <1>3. QED
    BY <1>1, <1>2 DEF Categories

LEMMA HoldingWith ==
  ASSUME NEW b, NEW category \in Categories, NEW items, NEW others, NEW u, NEW item
  PROVE  With(Holding(b, category, items, others, u), category, item)
           = Holding(b, category, Append(items, item), others, u)
  <1>1. CASE category = "facts"
    <2>1. \A i, v : Holding(b, category, i, others, v) = Answer(b, i, others, v)
      BY <1>1 DEF Holding
    <2>2. PICK a : a = Holding(b, category, items, others, u) /\ a = Answer(b, items, others, u)
      BY <2>1
    <2>3. With(a, category, item) = Holding(b, category, Append(items, item), others, u)
      BY <1>1, <2>1, <2>2, AnswerWith
    <2>4. QED
      BY <2>2, <2>3
  <1>2. CASE category = "thoughts"
    <2>1. \A i, v : Holding(b, category, i, others, v) = Answer(b, others, i, v)
      BY <1>2 DEF Holding
    <2>2. PICK a : a = Holding(b, category, items, others, u) /\ a = Answer(b, others, items, u)
      BY <2>1
    <2>3. With(a, category, item) = Holding(b, category, Append(items, item), others, u)
      BY <1>2, <2>1, <2>2, AnswerWith
    <2>4. QED
      BY <2>2, <2>3
  <1>3. QED
    BY <1>1, <1>2 DEF Categories

LEMMA HoldingSize ==
  ASSUME NEW b, NEW category \in Categories, NEW items \in Seq(ItemRec),
         NEW others \in Seq(ItemRec), NEW u \in BOOLEAN
  PROVE  Size(Holding(b, category, items, others, u)) = Frame + Flag(u) + Chars(items) + Chars(others)
  <1>1. Chars(items) \in Nat /\ Chars(others) \in Nat
    BY CharsType
  <1>2. Flag(u) \in Nat /\ Frame \in Nat
    BY Sizes DEF Flag
  <1>3. ASSUME NEW facts, NEW thoughts
        PROVE  Size(Answer(b, facts, thoughts, u)) = Frame + Flag(u) + Chars(facts) + Chars(thoughts)
    <2>1. PICK a : a = Answer(b, facts, thoughts, u)
      OBVIOUS
    <2>2. a.facts = facts /\ a.thoughts = thoughts /\ a.truncated = u
      BY <2>1, AnswerFields
    <2>3. QED
      BY <2>1, <2>2 DEF Size
  <1>4. CASE category = "facts"
    BY <1>3, <1>4 DEF Holding
  <1>5. CASE category = "thoughts"
    <2>1. Size(Answer(b, others, items, u)) = Frame + Flag(u) + Chars(others) + Chars(items)
      BY <1>3
    <2>2. QED
      BY <1>1, <1>2, <1>5, <2>1 DEF Holding
  <1>6. QED
    BY <1>4, <1>5 DEF Categories

-----------------------------------------------------------------------------
(* The binary search, over the set K of the lengths that fit: it ends at a *)
(* length that fits and the next of which does not.                        *)
Square(n) == (0..n) \X (0..n)
Middle(range) == (range[1] + range[2] + 1) \div 2
Next2(range, K) ==
  IF Middle(range) \in K THEN <<Middle(range), range[2]>> ELSE <<range[1], Middle(range) - 1>>

Search(g, K, n) ==
  g = [range \in Square(n) |-> IF range[1] >= range[2] THEN range[1] ELSE g[Next2(range, K)]]

Near(n, k) == {range \in Square(n) : range[2] <= range[1] + k}

SearchUpTo(g, K, n, k) ==
  g = [range \in Near(n, k) |-> IF range[1] >= range[2] THEN range[1] ELSE g[Next2(range, K)]]

LEMMA MiddleBetween ==
  ASSUME NEW low \in Nat, NEW high \in Nat, low < high
  PROVE  (low + high + 1) \div 2 \in (low + 1)..high
  <1>1. PICK m : m = (low + high + 1) \div 2
    OBVIOUS
  <1>2. m \in Nat /\ 2 * m <= low + high + 1 /\ low + high + 1 < 2 * m + 2
    BY <1>1
  <1>3. QED
    BY <1>1, <1>2

\* Each step halves the range, and keeps that its lower end fits and that
\* the length after its upper one does not.
Bracket(range, K, n) ==
  /\ range[1] <= range[2] /\ range[1] \in K
  /\ range[2] < n => range[2] + 1 \notin K

LEMMA NextRange ==
  ASSUME NEW n \in Nat, NEW K, NEW range \in Square(n), range[1] < range[2]
  PROVE  /\ Next2(range, K) \in Square(n)
         /\ Next2(range, K)[2] - Next2(range, K)[1] < range[2] - range[1]
         /\ Bracket(range, K, n) => Bracket(Next2(range, K), K, n)
  <1>1. PICK low, high, m : low = range[1] /\ high = range[2] /\ m = Middle(range)
    OBVIOUS
  <1>2. low \in 0..n /\ high \in 0..n /\ low < high /\ m \in (low + 1)..high
    BY <1>1, MiddleBetween DEF Square, Middle
  <1>3. CASE m \in K
    <2>1. Next2(range, K) = <<m, high>>
      BY <1>1, <1>3 DEF Next2
    <2>2. QED
      BY <1>1, <1>2, <1>3, <2>1 DEF Square, Bracket
  <1>4. CASE m \notin K
    <2>1. Next2(range, K) = <<low, m - 1>>
      BY <1>1, <1>4 DEF Next2
    <2>2. QED
      BY <1>1, <1>2, <1>4, <2>1 DEF Square, Bracket
  <1>5. QED
    BY <1>3, <1>4

LEMMA SearchUpToExists ==
  ASSUME NEW n \in Nat, NEW K, NEW k \in Nat
  PROVE  \E g : SearchUpTo(g, K, n, k)
  <1> DEFINE T == {j \in Nat : ~\E g : SearchUpTo(g, K, n, j)}
  <1>1. SUFFICES ASSUME T # {} PROVE FALSE
    OBVIOUS
  <1>2. PICK j \in T : \A y \in T : j <= y
    BY <1>1, LeastNumber
  <1>3. \A range \in Square(n) : range[1] \in 0..n /\ range[2] \in 0..n
    BY DEF Square
  <1>4. CASE j = 0
    <2>1. PICK g : g = [range \in Near(n, 0) |-> range[1]]
      OBVIOUS
    <2>2. \A range \in Near(n, 0) : range[1] >= range[2]
      BY <1>3 DEF Near
    <2>3. SearchUpTo(g, K, n, 0)
      BY <2>1, <2>2 DEF SearchUpTo
    <2>4. QED
      BY <1>2, <1>4, <2>3
  <1>5. CASE j # 0
    <2>1. j - 1 \in Nat /\ j \in Nat /\ j - 1 \notin T
      BY <1>2, <1>5
    <2>2. PICK g : SearchUpTo(g, K, n, j - 1)
      BY <2>1
    <2> DEFINE h == [range \in Near(n, j) |-> IF range[1] >= range[2] THEN range[1]
                                              ELSE g[Next2(range, K)]]
    <2>3. \A range \in Near(n, j - 1) : range \in Near(n, j) /\ h[range] = g[range]
      <3>1. TAKE range \in Near(n, j - 1)
      <3>2. range \in Near(n, j)
        BY <1>3, <2>1 DEF Near
      <3>3. g[range] = IF range[1] >= range[2] THEN range[1] ELSE g[Next2(range, K)]
        BY <2>2 DEF SearchUpTo
      <3>4. QED
        BY <3>2, <3>3
    <2>4. \A range \in Near(n, j) : ~(range[1] >= range[2]) => Next2(range, K) \in Near(n, j - 1)
      <3>1. SUFFICES ASSUME NEW range \in Near(n, j), ~(range[1] >= range[2])
                     PROVE  Next2(range, K) \in Near(n, j - 1)
        OBVIOUS
      <3>2. range \in Square(n) /\ range[2] <= range[1] + j /\ range[1] \in 0..n /\ range[2] \in 0..n
        BY <1>3 DEF Near
      <3>3. PICK next : next = Next2(range, K)
        OBVIOUS
      <3>4. next \in Square(n) /\ next[2] - next[1] < range[2] - range[1]
        BY <3>1, <3>2, <3>3, NextRange
      <3>5. next[1] \in 0..n /\ next[2] \in 0..n
        BY <1>3, <3>4
      <3>6. next[2] <= next[1] + (j - 1)
        BY <2>1, <3>2, <3>4, <3>5
      <3>7. QED
        BY <3>3, <3>4, <3>6 DEF Near
    <2>5. SearchUpTo(h, K, n, j)
      <3>1. \A range \in Near(n, j) :
              h[range] = IF range[1] >= range[2] THEN range[1] ELSE g[Next2(range, K)]
        OBVIOUS
      <3>2. \A range \in Near(n, j) : ~(range[1] >= range[2]) => h[Next2(range, K)] = g[Next2(range, K)]
        BY <2>3, <2>4
      <3>3. h = [range \in Near(n, j) |-> h[range]]
        OBVIOUS
      <3> HIDE DEF h
      <3>4. \A range \in Near(n, j) :
              h[range] = IF range[1] >= range[2] THEN range[1] ELSE h[Next2(range, K)]
        BY <3>1, <3>2
      <3>5. QED
        BY <3>3, <3>4 DEF SearchUpTo
    <2> HIDE DEF h
    <2>6. QED
      BY <1>2, <2>5
  <1>6. QED
    BY <1>4, <1>5

LEMMA SearchExists ==
  ASSUME NEW n \in Nat, NEW K
  PROVE  \E g : Search(g, K, n)
  <1>1. Near(n, n) = Square(n)
    BY DEF Near, Square
  <1>2. PICK g : SearchUpTo(g, K, n, n)
    BY SearchUpToExists
  <1>3. Search(g, K, n)
    BY <1>1, <1>2 DEF Search, SearchUpTo
  <1>4. QED
    BY <1>3

LEMMA SearchFinds ==
  ASSUME NEW n \in Nat, NEW K, NEW g, Search(g, K, n), 0 \in K
  PROVE  /\ g[<<0, n>>] \in 0..n /\ g[<<0, n>>] \in K
         /\ g[<<0, n>>] < n => g[<<0, n>>] + 1 \notin K
  <1> DEFINE Found(r) == r \in 0..n /\ r \in K /\ (r < n => r + 1 \notin K)
             T == {k \in Nat : \E range \in Square(n) : /\ range[2] - range[1] = k
                                                        /\ Bracket(range, K, n)
                                                        /\ ~Found(g[range])}
  <1>1. <<0, n>> \in Square(n) /\ Bracket(<<0, n>>, K, n)
    BY DEF Square, Bracket
  <1>2. \A range \in Square(n) : range[1] \in 0..n /\ range[2] \in 0..n
    BY DEF Square
  <1>3. T = {}
    <2>1. SUFFICES ASSUME T # {} PROVE FALSE
      OBVIOUS
    <2>2. PICK k \in T : \A y \in T : k <= y
      BY <2>1, LeastNumber
    <2>3. PICK range \in Square(n) : /\ range[2] - range[1] = k
                                     /\ Bracket(range, K, n) /\ ~Found(g[range])
      BY <2>2
    <2>4. g[range] = IF range[1] >= range[2] THEN range[1] ELSE g[Next2(range, K)]
      BY DEF Search
    <2>5. CASE range[1] >= range[2]
      <3>1. range[1] = range[2] /\ range[1] \in 0..n
        BY <1>2, <2>3, <2>5 DEF Bracket
      <3>2. QED
        BY <2>3, <2>4, <2>5, <3>1 DEF Bracket
    <2>6. CASE ~(range[1] >= range[2])
      <3>1. PICK next : next = Next2(range, K)
        OBVIOUS
      <3>2. range[1] < range[2] /\ range[1] \in 0..n /\ range[2] \in 0..n
        BY <1>2, <2>6
      <3>3. /\ next \in Square(n) /\ next[2] - next[1] < range[2] - range[1]
            /\ Bracket(next, K, n)
        BY <2>3, <3>1, <3>2, NextRange
      <3>4. ~Found(g[next])
        BY <2>3, <2>4, <2>6, <3>1
      <3>5. next[2] - next[1] \in Nat
        BY <1>2, <3>3 DEF Bracket
      <3>6. next[2] - next[1] \in T
        BY <3>3, <3>4, <3>5
      <3>7. QED
        BY <1>2, <2>2, <2>3, <3>2, <3>3, <3>6
    <2>7. QED
      BY <2>5, <2>6
  <1>4. Found(g[<<0, n>>])
    <2>1. SUFFICES ASSUME ~Found(g[<<0, n>>]) PROVE FALSE
      OBVIOUS
    <2>2. PICK range : range = <<0, n>>
      OBVIOUS
    <2>3. /\ range \in Square(n) /\ Bracket(range, K, n) /\ ~Found(g[range])
          /\ range[2] - range[1] = n
      BY <1>1, <2>1, <2>2
    <2>4. n \in T
      BY <2>3
    <2>5. QED
      BY <1>3, <2>4
  <1>5. QED
    BY <1>4

Keep(item, k) == [item EXCEPT !.kept = k]

LEMMA LongestFits ==
  ASSUME NEW answer, NEW category, NEW item, item.kept \in Nat,
         Fits(answer, category, Keep(item, 0))
  PROVE  \E k \in 0..item.kept :
           /\ Longest(answer, category, item) = k
           /\ Fits(answer, category, Keep(item, k))
           /\ k < item.kept => ~Fits(answer, category, Keep(item, k + 1))
  <1>1. PICK n \in Nat : n = item.kept
    OBVIOUS
  <1> DEFINE Body(h) ==
        [range \in Square(n) |->
           IF range[1] >= range[2] THEN range[1]
           ELSE IF Fits(answer, category, Keep(item, Middle(range)))
                THEN h[<<Middle(range), range[2]>>] ELSE h[<<range[1], Middle(range) - 1>>]]
             g == CHOOSE h : h = Body(h)
             K == {k \in Nat : Fits(answer, category, Keep(item, k))}
  <1>2. Longest(answer, category, item) = g[<<0, n>>]
    BY <1>1 DEF Longest, Square, Middle, Keep
  <1>3. \A range \in Square(n) :
          ~(range[1] >= range[2]) => (Middle(range) \in K <=> Fits(answer, category, Keep(item, Middle(range))))
    <2>1. SUFFICES ASSUME NEW range \in Square(n), ~(range[1] >= range[2])
                   PROVE  Middle(range) \in Nat
      OBVIOUS
    <2>2. range[1] \in Nat /\ range[2] \in Nat /\ range[1] < range[2]
      BY <2>1 DEF Square
    <2>3. QED
      BY <2>2, MiddleBetween DEF Middle
  <1> HIDE DEF K
  <1>4. \A h : Body(h) = [range \in Square(n) |-> IF range[1] >= range[2] THEN range[1]
                                                   ELSE h[Next2(range, K)]]
    BY <1>3 DEF Next2
  <1> HIDE DEF Body
  <1>5. \A h : Search(h, K, n) <=> h = Body(h)
    BY <1>4 DEF Search
  <1>6. Search(g, K, n)
    BY <1>5, SearchExists
  <1>7. 0 \in K
    BY DEF K
  <1> HIDE DEF g
  <1>8. PICK k : k = g[<<0, n>>]
    OBVIOUS
  <1>9. k \in 0..n /\ k \in K /\ (k < n => k + 1 \notin K)
    BY <1>6, <1>7, <1>8, SearchFinds
  <1>10. k + 1 \in Nat
    BY <1>9
  <1>11. QED
    BY <1>1, <1>2, <1>8, <1>9, <1>10 DEF K

\* An item is appended whole, or it does not fit, and is left out or cut as
\* late as possible.
CutAt(late, category, item, x) ==
  /\ x \in ItemRec /\ x.cut /\ x.memory = item.memory
  /\ Fits(late, category, x)
  /\ x.kept < item.kept => ~Fits(late, category, [x EXCEPT !.kept = @ + 1])

Cut(item) == [item EXCEPT !.cut = TRUE]
Bare(item) == [Cut(item) EXCEPT !.evidence = 0, !.evidenceCut = item.evidence > 0]

LEMMA CutItems ==
  ASSUME NEW item \in ItemRec, NEW x \in {Cut(item), Bare(item)}, NEW k \in Nat
  PROVE  /\ x.kept = item.kept
         /\ Keep(x, k) \in ItemRec /\ Keep(x, k).cut /\ Keep(x, k).kept = k
         /\ Keep(x, k).memory = item.memory
         /\ [Keep(x, k) EXCEPT !.kept = @ + 1] = Keep(x, k + 1)
  <1>1. PICK m \in Memory, n \in Nat, d \in BOOLEAN, f \in Nat, h \in BOOLEAN :
          item = [memory |-> m, kept |-> n, cut |-> d, evidence |-> f, evidenceCut |-> h]
    BY DEF ItemRec
  <1>2. item.kept = n /\ item.memory = m /\ item.evidence = f
    BY <1>1
  <1> DEFINE R(t, a, b) == [memory |-> m, kept |-> n, cut |-> t, evidence |-> a, evidenceCut |-> b]
  <1>3. PICK t, c : t = TRUE /\ c = (f > 0)
    OBVIOUS
  <1>4. Cut(item) = R(t, f, h)
    <2>1. [item EXCEPT !.cut = t] = R(t, f, h)
      BY <1>1
    <2>2. QED
      BY ONLY <1>3, <2>1, Zenon DEF Cut
  <1>5. Bare(item) = R(t, 0, c)
    <2>1. [R(t, f, h) EXCEPT !.evidence = 0, !.evidenceCut = c] = R(t, 0, c)
      <3>1. PICK r, z : r = R(t, f, h) /\ z = 0
        OBVIOUS
      <3>2. [r EXCEPT !.evidence = z, !.evidenceCut = c]
              = [[r EXCEPT !.evidence = z] EXCEPT !.evidenceCut = c]
        OBVIOUS
      <3>3. [r EXCEPT !.evidence = z] = R(t, z, h)
        BY <3>1
      <3>4. [R(t, z, h) EXCEPT !.evidenceCut = c] = R(t, z, c)
        OBVIOUS
      <3> HIDE DEF R
      <3>5. QED
        BY <3>1, <3>2, <3>3, <3>4
    <2>2. Bare(item) = [R(t, f, h) EXCEPT !.evidence = 0, !.evidenceCut = c]
      BY ONLY <1>2, <1>3, <1>4, Zenon DEF Bare
    <2>3. QED
      BY <2>1, <2>2
  <1>6. ASSUME NEW a \in Nat, NEW b \in BOOLEAN, x = R(t, a, b)
        PROVE  /\ x.kept = n
               /\ Keep(x, k) \in ItemRec /\ Keep(x, k).cut /\ Keep(x, k).kept = k
               /\ Keep(x, k).memory = m
               /\ [Keep(x, k) EXCEPT !.kept = @ + 1] = Keep(x, k + 1)
    <2>1. PICK y : y = [memory |-> m, kept |-> k, cut |-> t, evidence |-> a, evidenceCut |-> b]
      OBVIOUS
    <2>2. Keep(x, k) = y
      BY <1>6, <2>1 DEF Keep
    <2>3. y \in ItemRec
      BY <1>3, <2>1 DEF ItemRec
    <2>4. y.cut = t /\ y.kept = k /\ y.memory = m /\ x.kept = n
      BY <1>6, <2>1
    <2>5. [y EXCEPT !.kept = @ + 1] = Keep(x, k + 1)
      BY <1>6, <2>1 DEF Keep
    <2>6. QED
      BY <1>3, <2>2, <2>3, <2>4, <2>5
  <1> HIDE DEF R
  <1>7. c \in BOOLEAN
    BY <1>3
  <1>8. CASE x = Cut(item)
    BY <1>2, <1>4, <1>6, <1>8
  <1>9. CASE x = Bare(item)
    BY <1>2, <1>5, <1>6, <1>7, <1>9
  <1>10. QED
    BY <1>8, <1>9

LEMMA BudgetStep ==
  ASSUME NEW answer, NEW category, NEW item \in ItemRec
  PROVE  \/ /\ Fits(answer, category, item)
            /\ AppendWithBudget(answer, category, item) = With(answer, category, item)
         \/ /\ ~Fits(answer, category, item)
            /\ \/ AppendWithBudget(answer, category, item) = Late(answer)
               \/ \E x : /\ CutAt(Late(answer), category, item, x)
                         /\ AppendWithBudget(answer, category, item) = With(Late(answer), category, x)
  <1> DEFINE late == Late(answer)
             candidate == IF Fits(late, category, Keep(Cut(item), 0)) THEN Cut(item) ELSE Bare(item)
             k == Longest(late, category, candidate)
  <1>1. AppendWithBudget(answer, category, item) =
          IF Fits(answer, category, item) THEN With(answer, category, item)
          ELSE IF ~Fits(late, category, Keep(candidate, 0)) THEN late
          ELSE With(late, category, Keep(candidate, k))
    BY DEF AppendWithBudget, Late, Keep, Cut, Bare
  <1>2. SUFFICES ASSUME ~Fits(answer, category, item), Fits(late, category, Keep(candidate, 0))
                 PROVE  CutAt(late, category, item, Keep(candidate, k))
    BY <1>1
  <1>3. candidate \in {Cut(item), Bare(item)} /\ item.kept \in Nat
    BY DEF ItemRec
  <1>5. candidate.kept = item.kept
    BY <1>3, CutItems
  <1> HIDE DEF candidate, late
  <1>6. /\ k \in 0..item.kept /\ Fits(late, category, Keep(candidate, k))
        /\ k < item.kept => ~Fits(late, category, Keep(candidate, k + 1))
    BY <1>2, <1>3, <1>5, LongestFits
  <1> HIDE DEF k
  <1>7. /\ Keep(candidate, k) \in ItemRec /\ Keep(candidate, k).cut /\ Keep(candidate, k).kept = k
        /\ Keep(candidate, k).memory = item.memory
        /\ [Keep(candidate, k) EXCEPT !.kept = @ + 1] = Keep(candidate, k + 1)
    BY <1>3, <1>6, CutItems
  <1>8. QED
    BY <1>6, <1>7 DEF CutAt

-----------------------------------------------------------------------------
(* One list of the answer: all of it, or up to where the room runs out.    *)
Tellable == {m \in Memory : IsFiniteSet(m.evidence)}
Items(q, n) == [i \in 1..n |-> Item(q[i])]

LEMMA ItemType ==
  ASSUME NEW m \in Tellable
  PROVE  /\ Item(m) \in ItemRec /\ Item(m).memory = m /\ ~Item(m).cut
         /\ Item(m).kept = Length[m.text]
  <1>1. m \in Memory /\ m.text \in Texts /\ Cardinality(m.evidence) \in Nat
    BY FS_CardinalityType DEF Tellable, Memory
  <1>2. PICK n, e, c : /\ n = Length[m.text] /\ e = Lesser(MaxShown, Cardinality(m.evidence))
                       /\ c = (Cardinality(m.evidence) > MaxShown)
    OBVIOUS
  <1>3. n \in Nat /\ e \in Nat /\ c \in BOOLEAN
    BY <1>1, <1>2, Sizes DEF Lesser
  <1>4. Item(m) = [memory |-> m, kept |-> n, cut |-> FALSE, evidence |-> e, evidenceCut |-> c]
    BY <1>2 DEF Item
  <1>5. QED
    BY <1>1, <1>2, <1>3, <1>4 DEF ItemRec

LEMMA ItemsGrow ==
  ASSUME NEW q \in Seq(Tellable), NEW n \in 0..Len(q)
  PROVE  /\ Items(q, n) \in Seq(ItemRec) /\ Len(Items(q, n)) = n
         /\ n # 0 => Append(Items(q, n - 1), Item(q[n])) = Items(q, n)
         /\ n = 0 => Items(q, n) = << >>
  <1>1. \A i \in 1..n : Item(q[i]) \in ItemRec
    BY ItemType
  <1>2. Items(q, n) \in Seq(ItemRec) /\ Len(Items(q, n)) = n
    BY <1>1 DEF Items
  <1>3. ASSUME n # 0
        PROVE  Append(Items(q, n - 1), Item(q[n])) = Items(q, n)
    <2>1. PICK p : p = Items(q, n - 1)
      OBVIOUS
    <2>2. p \in Seq(ItemRec) /\ Len(p) = n - 1 /\ \A i \in 1..(n - 1) : p[i] = Item(q[i])
      BY <1>1, <1>3, <2>1 DEF Items
    <2>3. PICK x : x = Item(q[n]) /\ x \in ItemRec
      BY <1>1, <1>3
    <2>4. PICK r : r = Append(p, x)
      OBVIOUS
    <2>5. r \in Seq(ItemRec) /\ Len(r) = n /\ \A i \in 1..n : r[i] = Item(q[i])
      BY <1>3, <2>2, <2>3, <2>4
    <2>6. r = [i \in 1..n |-> r[i]]
      BY <2>5
    <2>7. QED
      BY <2>1, <2>3, <2>4, <2>5, <2>6 DEF Items
  <1>4. n = 0 => Items(q, n) = << >>
    BY <1>2
  <1>5. QED
    BY <1>2, <1>3, <1>4

Table(g, a, category, q, n) ==
  g = [k \in 0..n |-> IF k = 0 THEN a ELSE AppendNext(g[k - 1], category, q[k])]

LEMMA TableExists ==
  ASSUME NEW a, NEW category, NEW q, NEW n \in Nat
  PROVE  \E g : Table(g, a, category, q, n)
  <1> DEFINE T == {j \in Nat : ~\E g : Table(g, a, category, q, j)}
  <1>1. SUFFICES ASSUME T # {} PROVE FALSE
    OBVIOUS
  <1>2. PICK j \in T : \A y \in T : j <= y
    BY <1>1, LeastNumber
  <1>3. CASE j = 0
    <2>1. PICK g : g = [k \in 0..0 |-> a]
      OBVIOUS
    <2>2. Table(g, a, category, q, 0)
      BY <2>1 DEF Table
    <2>3. QED
      BY <1>2, <1>3, <2>2
  <1>4. CASE j # 0
    <2>1. j - 1 \in Nat /\ j \in Nat /\ j - 1 \notin T
      BY <1>2, <1>4
    <2>2. PICK g : Table(g, a, category, q, j - 1)
      BY <2>1
    <2>3. \A k \in 0..(j - 1) : g[k] = IF k = 0 THEN a ELSE AppendNext(g[k - 1], category, q[k])
      BY <2>2 DEF Table
    <2>4. PICK h : h = [k \in 0..j |-> IF k = j THEN AppendNext(g[j - 1], category, q[j]) ELSE g[k]]
      OBVIOUS
    <2>5. \A k \in 0..(j - 1) : h[k] = g[k] /\ k # j
      BY <2>1, <2>4
    <2>6. \A k \in 0..j : h[k] = IF k = 0 THEN a ELSE AppendNext(h[k - 1], category, q[k])
      <3>1. TAKE k \in 0..j
      <3>2. CASE k = j
        <4>1. h[k] = AppendNext(g[j - 1], category, q[j]) /\ h[j - 1] = g[j - 1]
          BY <2>1, <2>4, <2>5, <3>2
        <4>2. QED
          BY <1>4, <3>2, <4>1
      <3>3. CASE k = 0
        BY <1>4, <2>1, <2>3, <2>5, <3>3
      <3>4. CASE k # j /\ k # 0
        <4>1. k \in 0..(j - 1) /\ k - 1 \in 0..(j - 1)
          BY <2>1, <3>4
        <4>2. h[k] = g[k] /\ h[k - 1] = g[k - 1] /\ g[k] = AppendNext(g[k - 1], category, q[k])
          BY <2>3, <2>5, <3>4, <4>1
        <4>3. QED
          BY <3>4, <4>2
      <3>5. QED
        BY <3>2, <3>3, <3>4
    <2>7. h = [k \in 0..j |-> h[k]]
      BY <2>4
    <2>8. Table(h, a, category, q, j)
      BY <2>6, <2>7 DEF Table
    <2>9. QED
      BY <1>2, <2>8
  <1>5. QED
    BY <1>3, <1>4

LEMMA AppendAllTable ==
  ASSUME NEW a, NEW category, NEW q, Len(q) \in Nat
  PROVE  \E g : /\ Table(g, a, category, q, Len(q))
                /\ AppendAll(a, category, q) = g[Len(q)]
  <1> DEFINE g == CHOOSE h : Table(h, a, category, q, Len(q))
  <1>1. AppendAll(a, category, q) = g[Len(q)]
    BY DEF AppendAll, Table
  <1>2. Table(g, a, category, q, Len(q))
    BY TableExists
  <1>3. QED
    BY <1>1, <1>2

\* The first k memories are told whole and there is still room; or the next
\* one does not fit any more, and is left out or cut as late as possible.
Going(a, b, category, q, k, others) ==
  a = Holding(b, category, Items(q, k), others, FALSE) /\ Size(a) <= MaxOutput

Ended(a, b, category, q, k, others) ==
  /\ Size(a) <= MaxOutput
  /\ ~Fits(Holding(b, category, Items(q, k), others, FALSE), category, Item(q[k + 1]))
  /\ \/ a = Holding(b, category, Items(q, k), others, TRUE)
     \/ \E x : /\ CutAt(Holding(b, category, Items(q, k), others, TRUE), category, Item(q[k + 1]), x)
               /\ a = Holding(b, category, Append(Items(q, k), x), others, TRUE)

LEMMA EndedIsTruncated ==
  ASSUME NEW a, NEW b, NEW category \in Categories, NEW q, NEW k, NEW others,
         Ended(a, b, category, q, k, others)
  PROVE  a.truncated
  <1>1. \A i : Holding(b, category, i, others, TRUE).truncated
    <2>1. \A i : Holding(b, category, i, others, TRUE).truncated = TRUE
      BY HoldingTruncated
    <2>2. QED
      BY <2>1
  <1>2. QED
    BY <1>1 DEF Ended

LEMMA NextEnds ==
  ASSUME NEW b, NEW category \in Categories, NEW q \in Seq(Tellable), NEW k \in 0..(Len(q) - 1),
         NEW others \in Seq(ItemRec), NEW a, Going(a, b, category, q, k, others),
         NEW next, next = AppendNext(a, category, q[k + 1])
  PROVE  \/ Going(next, b, category, q, k + 1, others)
         \/ Ended(next, b, category, q, k, others)
  <1>1. PICK i, item, late : /\ i = Items(q, k) /\ item = Item(q[k + 1])
                             /\ late = Holding(b, category, i, others, TRUE)
    OBVIOUS
  <1>2. /\ i \in Seq(ItemRec) /\ item \in ItemRec /\ Append(i, item) = Items(q, k + 1)
        /\ k \in 0..Len(q) /\ k + 1 \in 1..Len(q)
    <2>1. k \in 0..Len(q) /\ k + 1 \in 0..Len(q) /\ k + 1 # 0 /\ (k + 1) - 1 = k /\ k + 1 \in 1..Len(q)
      OBVIOUS
    <2>2. item \in ItemRec
      BY <1>1, <2>1, ItemType
    <2>3. Append(Items(q, (k + 1) - 1), Item(q[k + 1])) = Items(q, k + 1)
      BY <2>1, ItemsGrow
    <2>4. QED
      BY <1>1, <2>1, <2>2, <2>3, ItemsGrow
  <1>3. a = Holding(b, category, i, others, FALSE) /\ Size(a) <= MaxOutput
    BY <1>1 DEF Going
  <1>4. a.truncated = FALSE /\ Late(a) = late
    <2>1. PICK f : f = FALSE
      OBVIOUS
    <2>2. a = Holding(b, category, i, others, f)
      BY ONLY <1>3, <2>1, Zenon
    <2>3. a.truncated = f
      BY <2>2, HoldingTruncated
    <2>4. Late(a) = Holding(b, category, i, others, TRUE)
      BY <2>2, HoldingLate, Zenon
    <2>5. QED
      BY <1>1, <2>1, <2>3, <2>4
  <1>5. next = AppendWithBudget(a, category, item)
    BY <1>1, <1>4 DEF AppendNext
  <1>6. \A x, u : With(Holding(b, category, i, others, u), category, x)
                    = Holding(b, category, Append(i, x), others, u)
    BY HoldingWith
  <1>7. CASE Fits(a, category, item)
    <2>1. next = With(a, category, item)
      BY <1>2, <1>5, <1>7, BudgetStep
    <2>2. Size(next) <= MaxOutput
      BY <1>7, <2>1 DEF Fits
    <2>3. next = Holding(b, category, Items(q, k + 1), others, FALSE)
      BY <1>2, <1>3, <1>6, <2>1
    <2>4. QED
      BY <2>2, <2>3 DEF Going
  <1>8. CASE ~Fits(a, category, item)
    <2>1. \/ next = late
          \/ \E x : CutAt(late, category, item, x) /\ next = With(late, category, x)
      BY <1>2, <1>4, <1>5, <1>8, BudgetStep
    <2>2. Size(late) <= MaxOutput
      <3>1. PICK t, f : t = TRUE /\ f = FALSE /\ t \in BOOLEAN /\ f \in BOOLEAN
        OBVIOUS
      <3>2. Size(Holding(b, category, i, others, t)) = Frame + Flag(t) + Chars(i) + Chars(others)
        BY <1>2, <3>1, HoldingSize
      <3>3. Size(Holding(b, category, i, others, f)) = Frame + Flag(f) + Chars(i) + Chars(others)
        BY <1>2, <3>1, HoldingSize
      <3>4. Flag(t) = 4 /\ Flag(f) = 5
        BY <3>1 DEF Flag
      <3>5. late = Holding(b, category, i, others, t) /\ a = Holding(b, category, i, others, f)
        BY <1>1, <1>3, <3>1
      <3>6. Chars(i) \in Nat /\ Chars(others) \in Nat /\ Frame \in Nat /\ MaxOutput \in Nat
        BY <1>2, CharsType, Sizes
      <3>7. /\ Size(late) = Frame + 4 + Chars(i) + Chars(others)
            /\ Size(a) = Frame + 5 + Chars(i) + Chars(others)
        BY <3>2, <3>3, <3>4, <3>5
      <3>8. Size(a) <= MaxOutput
        BY <1>3
      <3>9. QED
        BY <3>6, <3>7, <3>8
    <2>3. CASE next = late
      BY <1>1, <1>3, <1>8, <2>2, <2>3 DEF Ended
    <2>4. ASSUME NEW x, CutAt(late, category, item, x), next = With(late, category, x)
          PROVE  Ended(next, b, category, q, k, others)
      <3>1. Size(next) <= MaxOutput
        BY <2>4 DEF CutAt, Fits
      <3>2. next = Holding(b, category, Append(i, x), others, TRUE)
        BY <1>1, <1>6, <2>4
      <3>3. QED
        BY <1>1, <1>3, <1>8, <2>4, <3>1, <3>2 DEF Ended
    <2>5. QED
      BY <2>1, <2>3, <2>4
  <1>9. QED
    BY <1>7, <1>8

LEMMA AppendAllKeeps ==
  ASSUME NEW a, a.truncated, NEW category, NEW q, Len(q) \in Nat
  PROVE  AppendAll(a, category, q) = a
  <1>1. PICK n \in Nat : n = Len(q)
    OBVIOUS
  <1>2. PICK g : Table(g, a, category, q, n) /\ AppendAll(a, category, q) = g[n]
    BY <1>1, AppendAllTable
  <1>3. \A k \in 0..n : g[k] = IF k = 0 THEN a ELSE AppendNext(g[k - 1], category, q[k])
    BY <1>2 DEF Table
  <1> DEFINE T == {k \in Nat : k <= n /\ g[k] # a}
  <1>4. T = {}
    <2>1. SUFFICES ASSUME T # {} PROVE FALSE
      OBVIOUS
    <2>2. PICK k \in T : \A y \in T : k <= y
      BY <2>1, LeastNumber
    <2>3. k # 0
      BY <1>3, <2>2
    <2>4. k - 1 \in 0..n /\ k - 1 \notin T
      BY <2>2, <2>3
    <2>5. g[k - 1] = a
      BY <2>4
    <2>6. g[k] = AppendNext(a, category, q[k])
      BY <1>3, <2>2, <2>3, <2>5
    <2>7. QED
      BY <2>2, <2>6 DEF AppendNext
  <1>5. QED
    BY <1>2, <1>4

LEMMA AppendAllEnds ==
  ASSUME NEW b, NEW category \in Categories, NEW q \in Seq(Tellable), NEW others \in Seq(ItemRec),
         Size(Holding(b, category, << >>, others, FALSE)) <= MaxOutput,
         NEW a, a = AppendAll(Holding(b, category, << >>, others, FALSE), category, q)
  PROVE  \/ Going(a, b, category, q, Len(q), others)
         \/ \E k \in 0..(Len(q) - 1) : Ended(a, b, category, q, k, others)
  <1>1. PICK n \in Nat : n = Len(q)
    OBVIOUS
  <1>2. PICK first : first = Holding(b, category, << >>, others, FALSE)
    OBVIOUS
  <1>3. PICK g : Table(g, first, category, q, n) /\ a = g[n]
    BY <1>1, <1>2, AppendAllTable
  <1>4. \A k \in 0..n : g[k] = IF k = 0 THEN first ELSE AppendNext(g[k - 1], category, q[k])
    BY <1>3 DEF Table
  <1> DEFINE Good(k) == \/ Going(g[k], b, category, q, k, others)
                        \/ \E j \in 0..(k - 1) : Ended(g[k], b, category, q, j, others)
             T == {k \in Nat : k <= n /\ ~Good(k)}
  <1>5. T = {}
    <2>1. SUFFICES ASSUME T # {} PROVE FALSE
      OBVIOUS
    <2>2. PICK k \in T : \A y \in T : k <= y
      BY <2>1, LeastNumber
    <2>3. CASE k = 0
      <3>1. g[0] = first /\ Items(q, 0) = << >>
        BY <1>1, <1>4, ItemsGrow
      <3>2. Going(g[0], b, category, q, 0, others)
        BY <1>2, <3>1 DEF Going
      <3>3. QED
        BY <2>2, <2>3, <3>2
    <2>4. CASE k # 0
      <3>1. PICK j \in 0..(n - 1) : j = k - 1 /\ j + 1 = k /\ j \notin T /\ j \in 0..n
        BY <2>2, <2>4
      <3>2. g[k] = AppendNext(g[j], category, q[j + 1])
        BY <1>4, <2>2, <2>4, <3>1
      <3>3. CASE Going(g[j], b, category, q, j, others)
        <4>1. \/ Going(g[k], b, category, q, k, others)
              \/ Ended(g[k], b, category, q, j, others)
          BY <1>1, <3>1, <3>2, <3>3, NextEnds
        <4>2. Good(k)
          BY <3>1, <4>1
        <4>3. QED
          BY <2>2, <4>2
      <3>4. ASSUME NEW i \in 0..(j - 1), Ended(g[j], b, category, q, i, others)
            PROVE  FALSE
        <4>1. g[j].truncated
          BY <3>4, EndedIsTruncated
        <4>2. g[k] = g[j]
          BY <3>2, <4>1 DEF AppendNext
        <4>3. i \in 0..(k - 1)
          BY <3>1
        <4>4. Good(k)
          BY <3>4, <4>2, <4>3
        <4>5. QED
          BY <2>2, <4>4
      <3>5. Good(j)
        BY <3>1
      <3>6. QED
        BY <3>3, <3>4, <3>5
    <2>5. QED
      BY <2>3, <2>4
  <1>6. Good(n)
    BY <1>5
  <1>7. QED
    BY <1>1, <1>3, <1>6

-----------------------------------------------------------------------------
(* The two lists in a row are the recalled memories in order.              *)
LEMMA ItemsOfTwo ==
  ASSUME NEW F \in Seq(Tellable), NEW T \in Seq(Tellable)
  PROVE  /\ F \o T \in Seq(Tellable) /\ Len(F \o T) = Len(F) + Len(T)
         /\ \A k \in 0..Len(F) : Items(F, k) = Items(F \o T, k)
         /\ \A k \in 1..Len(F) : (F \o T)[k] = F[k]
         /\ \A k \in 0..Len(T) : Items(F, Len(F)) \o Items(T, k) = Items(F \o T, Len(F) + k)
         /\ \A k \in 1..Len(T) : (F \o T)[Len(F) + k] = T[k]
  <1>1. PICK R, m, n : /\ R = F \o T /\ m = Len(F) /\ n = Len(T)
    OBVIOUS
  <1>2. /\ R \in Seq(Tellable) /\ Len(R) = m + n /\ m \in Nat /\ n \in Nat
        /\ \A k \in 1..m : R[k] = F[k]
        /\ \A k \in 1..n : R[m + k] = T[k]
    BY <1>1
  <1>3. \A k \in 0..m : Items(F, k) = Items(R, k)
    BY <1>2 DEF Items
  <1>4. ASSUME NEW k \in 0..n
        PROVE  Items(F, m) \o Items(T, k) = Items(R, m + k)
    <2>1. PICK f, t, r : f = Items(F, m) /\ t = Items(T, k) /\ r = f \o t
      OBVIOUS
    <2>2. /\ f \in Seq(ItemRec) /\ Len(f) = m /\ t \in Seq(ItemRec) /\ Len(t) = k
      BY <1>1, <1>2, <1>4, <2>1, ItemsGrow
    <2>3. /\ \A i \in 1..m : f[i] = Item(F[i])
          /\ \A i \in 1..k : t[i] = Item(T[i])
      BY <2>1 DEF Items
    <2>4. /\ r \in Seq(ItemRec) /\ Len(r) = m + k
          /\ \A i \in 1..(m + k) : r[i] = IF i <= m THEN f[i] ELSE t[i - m]
      <3>1. PICK S : S = ItemRec
        OBVIOUS
      <3>2. f \in Seq(S) /\ t \in Seq(S)
        BY <2>2, <3>1
      <3>3. /\ f \o t \in Seq(S) /\ Len(f \o t) = Len(f) + Len(t)
            /\ \A i \in 1 .. Len(f) + Len(t) :
                 (f \o t)[i] = IF i <= Len(f) THEN f[i] ELSE t[i - Len(f)]
        BY ONLY <3>2, ConcatProperties
      <3>4. QED
        BY <2>1, <2>2, <3>1, <3>3
    <2>5. \A i \in 1..(m + k) : r[i] = Item(R[i])
      <3>1. TAKE i \in 1..(m + k)
      <3>2. CASE i <= m
        <4>1. i \in 1..m
          BY <1>2, <1>4, <3>2
        <4>2. r[i] = f[i]
          BY <2>4, <3>2
        <4>3. QED
          BY <1>2, <2>3, <4>1, <4>2
      <3>3. CASE ~(i <= m)
        <4>1. PICK j \in 1..k : i = m + j /\ j \in 1..n /\ i - m = j
          BY <1>2, <1>4, <3>3
        <4>2. r[i] = t[j]
          BY <2>4, <3>3, <4>1
        <4>3. QED
          BY <1>2, <2>3, <4>1, <4>2
      <3>4. QED
        BY <3>2, <3>3
    <2>6. r = [i \in 1..(m + k) |-> r[i]]
      BY <1>2, <2>4
    <2>7. QED
      BY <2>1, <2>5, <2>6 DEF Items
  <1>5. QED
    BY <1>1, <1>2, <1>3, <1>4

(* Of such a list, the whole ones are the first.                           *)
LEMMA WholeOfItems ==
  ASSUME NEW q \in Seq(Tellable), NEW n \in 0..Len(q), NEW listed,
         listed = Items(q, n) \/ \E x \in ItemRec : x.cut /\ listed = Append(Items(q, n), x)
  PROVE  /\ Whole(listed) = 1..n /\ Cardinality(Whole(listed)) = n
         /\ WholeOnes(listed) = Items(q, n) /\ n \in Nat
  <1>1. PICK i : i = Items(q, n)
    OBVIOUS
  <1>2. i \in Seq(ItemRec) /\ Len(i) = n /\ n \in Nat
    BY <1>1, ItemsGrow
  <1>3. \A k \in 1..n : i[k] = Item(q[k]) /\ ~i[k].cut
    <2>1. \A k \in 1..n : i[k] = Item(q[k])
      BY <1>1 DEF Items
    <2>2. \A k \in 1..n : ~Item(q[k]).cut
      BY ItemType
    <2>3. QED
      BY <2>1, <2>2
  <1>4. /\ listed \in Seq(ItemRec) /\ \A k \in 1..n : listed[k] = i[k]
        /\ Len(listed) = n \/ (Len(listed) = n + 1 /\ listed[n + 1].cut)
    BY <1>1, <1>2
  <1>5. Whole(listed) = 1..n
    BY <1>2, <1>3, <1>4 DEF Whole
  <1>6. Cardinality(1..n) = n
    BY <1>2, FS_Interval
  <1>7. WholeOnes(listed) = i
    <2>1. WholeOnes(listed) = SubSeq(listed, 1, n)
      BY <1>5, <1>6 DEF WholeOnes
    <2>2. SubSeq(listed, 1, n) = [k \in 1..n |-> listed[k]]
      BY <1>2, <1>4
    <2>3. i = [k \in 1..n |-> i[k]]
      BY <1>2
    <2>4. QED
      BY <1>4, <2>1, <2>2, <2>3
  <1>8. QED
    BY <1>1, <1>2, <1>5, <1>6, <1>7

Lists(listed, q, w) ==
  \/ listed = Items(q, w)
  \/ \E x \in ItemRec : x.cut /\ x.memory = q[w + 1] /\ listed = Append(Items(q, w), x)

Matches(listed, q, w) ==
  /\ Cardinality(Whole(listed)) = w
  /\ Len(listed) <= w + 1
  /\ \A i \in DOMAIN listed : listed[i].memory = q[i]
  /\ \A i \in 1..w : listed[i] = Item(q[i])

LEMMA ListedMatches ==
  ASSUME NEW q \in Seq(Tellable), NEW w \in 0..Len(q), NEW listed, Lists(listed, q, w)
  PROVE  Matches(listed, q, w)
  <1>1. PICK i : i = Items(q, w)
    OBVIOUS
  <1>2. i \in Seq(ItemRec) /\ Len(i) = w /\ w \in Nat
    BY <1>1, ItemsGrow
  <1>3. \A k \in 1..w : i[k] = Item(q[k]) /\ Item(q[k]).memory = q[k]
    <2>1. \A k \in 1..w : i[k] = Item(q[k])
      BY <1>1 DEF Items
    <2>2. \A k \in 1..w : Item(q[k]).memory = q[k]
      BY ItemType
    <2>3. QED
      BY <2>1, <2>2
  <1>4. CASE listed = i
    <2>1. Cardinality(Whole(listed)) = w
      BY <1>1, <1>4, WholeOfItems
    <2>2. QED
      BY <1>2, <1>3, <1>4, <2>1 DEF Matches
  <1>5. ASSUME NEW x \in ItemRec, x.cut, x.memory = q[w + 1], listed = Append(i, x)
        PROVE  Matches(listed, q, w)
    <2>1. Cardinality(Whole(listed)) = w
      BY <1>1, <1>5, WholeOfItems
    <2>2. /\ Len(listed) = w + 1 /\ DOMAIN listed = 1..(w + 1) /\ listed[w + 1] = x
          /\ \A k \in 1..w : listed[k] = i[k]
      BY <1>2, <1>5
    <2>3. \A k \in 1..(w + 1) : k = w + 1 \/ k \in 1..w
      BY <1>2
    <2>4. QED
      BY <1>2, <1>3, <1>5, <2>1, <2>2, <2>3 DEF Matches
  <1>6. QED
    BY <1>1, <1>4, <1>5 DEF Lists

LEMMA ExactWhenWhole ==
  ASSUME NEW F \in Seq(Tellable), NEW T \in Seq(Tellable), NEW a, Size(a) <= MaxOutput,
         ~a.truncated, Listed(a) = Items(F \o T, Len(F \o T))
  PROVE  Exact(a, F, T)
  <1>1. PICK R, w : R = F \o T /\ w = Len(R)
    OBVIOUS
  <1>2. R \in Seq(Tellable) /\ w \in Nat
    BY <1>1, ItemsOfTwo
  <1>3. PICK listed : listed = Listed(a)
    OBVIOUS
  <1>4. Lists(listed, R, w) /\ w \in 0..Len(R)
    BY <1>1, <1>2, <1>3 DEF Lists
  <1>5. Matches(listed, R, w)
    BY <1>2, <1>4, ListedMatches
  <1>6. a.truncated <=> w < Len(R)
    BY <1>1, <1>2
  <1>7. QED
    BY <1>1, <1>3, <1>5, <1>6 DEF Exact, Matches

LEMMA ExactWhenCut ==
  ASSUME NEW F \in Seq(Tellable), NEW T \in Seq(Tellable), NEW a, Size(a) <= MaxOutput,
         a.truncated, NEW w \in 0..(Len(F \o T) - 1), NEW category,
         category = IF w < Len(F) THEN "facts" ELSE "thoughts",
         NEW m, m = (F \o T)[w + 1],
         NEW before, before = WholePart(a), ~Fits(Early(before), category, Item(m)),
         \/ Listed(a) = Items(F \o T, w)
         \/ \E x : /\ CutAt(before, category, Item(m), x)
                   /\ Listed(a) = Append(Items(F \o T, w), x)
  PROVE  Exact(a, F, T)
  <1>1. PICK R, n : R = F \o T /\ n = Len(R)
    OBVIOUS
  <1>2. /\ R \in Seq(Tellable) /\ n \in Nat
        /\ w \in 0..n /\ w < n /\ w + 1 \in 1..n /\ m = R[w + 1]
    BY <1>1, ItemsOfTwo
  <1>3. m \in Tellable /\ Item(m).memory = m /\ Item(m).kept = Length[m.text]
    BY <1>1, <1>2, ItemType
  <1>4. PICK listed : listed = Listed(a)
    OBVIOUS
  <1>5. Lists(listed, R, w)
    BY <1>1, <1>2, <1>3, <1>4 DEF CutAt, Lists
  <1>6. Matches(listed, R, w)
    BY <1>1, <1>2, <1>5, ListedMatches
  <1>7. Len(listed) > w /\ Last(listed).kept < Length[Last(listed).memory.text] =>
          ~Fits(before, category, [Last(listed) EXCEPT !.kept = @ + 1])
    <2>1. PICK i : i = Items(R, w) /\ i \in Seq(ItemRec) /\ Len(i) = w
      BY <1>1, <1>2, ItemsGrow
    <2>2. SUFFICES ASSUME Len(listed) > w, Last(listed).kept < Length[Last(listed).memory.text]
                   PROVE  ~Fits(before, category, [Last(listed) EXCEPT !.kept = @ + 1])
      OBVIOUS
    <2>3. PICK x : CutAt(before, category, Item(m), x) /\ listed = Append(i, x)
      BY <1>1, <1>2, <1>4, <2>1, <2>2
    <2>4. Len(listed) = w + 1 /\ listed[w + 1] = x
      BY <2>1, <2>3 DEF CutAt
    <2>5. Last(listed) = x
      BY <2>4 DEF Last
    <2>6. x.kept < Item(m).kept
      BY <1>3, <2>2, <2>3, <2>5 DEF CutAt
    <2>7. QED
      BY <2>3, <2>5, <2>6 DEF CutAt
  <1>8. ~Fits([before EXCEPT !.truncated = FALSE], category, Item(R[w + 1]))
    BY <1>2 DEF Early
  <1>9. a.truncated <=> w < n
    BY <1>2
  <1>10. QED
    BY <1>1, <1>4, <1>6, <1>7, <1>8, <1>9 DEF Exact, Matches

-----------------------------------------------------------------------------
(* A whole recall: facts, then thoughts.                                   *)
LEMMA EmptyFits ==
  ASSUME NEW b
  PROVE  Size(Answer(b, << >>, << >>, FALSE)) <= MaxOutput
  <1>1. Chars(<< >>) = 0
    BY SumOfNothing DEF Chars
  <1>2. PICK f, a : f = FALSE /\ a = Answer(b, << >>, << >>, f)
    OBVIOUS
  <1>3. a.facts = << >> /\ a.thoughts = << >> /\ a.truncated = f
    BY <1>2, AnswerFields
  <1>4. Size(a) = Frame + 5 + 0 + 0
    BY <1>1, <1>2, <1>3 DEF Size, Flag
  <1>5. Size(a) <= MaxOutput
    BY <1>4, Sizes
  <1>6. QED
    BY <1>2, <1>5

Told(b, F, T) == AppendAll(AppendAll(Answer(b, << >>, << >>, FALSE), "facts", F), "thoughts", T)
WholeAnswer(b, F, T) == Answer(b, Items(F, Len(F)), Items(T, Len(T)), FALSE)

LEMMA RecallEnds ==
  ASSUME NEW b, NEW F \in Seq(Tellable), NEW T \in Seq(Tellable), NEW a,
         a = Told(b, F, T)
  PROVE  \/ a = WholeAnswer(b, F, T) /\ Size(a) <= MaxOutput
         \/ \E k \in 0..(Len(F) - 1) : Ended(a, b, "facts", F, k, << >>)
         \/ \E k \in 0..(Len(T) - 1) : Ended(a, b, "thoughts", T, k, Items(F, Len(F)))
  <1>1. PICK m \in Nat, n \in Nat : m = Len(F) /\ n = Len(T)
    OBVIOUS
  <1>2. PICK first : first = AppendAll(Answer(b, << >>, << >>, FALSE), "facts", F)
    OBVIOUS
  <1>3. PICK c, d : c = "facts" /\ d = "thoughts"
    OBVIOUS
  <1>4. c \in Categories /\ d \in Categories
    BY <1>3 DEF Categories
  <1>5. << >> \in Seq(ItemRec) /\ Items(F, m) \in Seq(ItemRec)
    BY <1>1, ItemsGrow
  <1>6. \A f, t, u : Holding(b, c, f, t, u) = Answer(b, f, t, u)
    BY <1>3 DEF Holding
  <1>7. \A f, t, u : Holding(b, d, t, f, u) = Answer(b, f, t, u)
    BY <1>3 DEF Holding
  <1>8. \/ Going(first, b, c, F, m, << >>)
        \/ \E k \in 0..(m - 1) : Ended(first, b, c, F, k, << >>)
    <2>1. PICK start : start = Holding(b, c, << >>, << >>, FALSE)
      OBVIOUS
    <2>2. start = Answer(b, << >>, << >>, FALSE)
      BY <1>6, <2>1
    <2>3. Size(start) <= MaxOutput
      BY <2>2, EmptyFits
    <2>4. first = AppendAll(start, c, F)
      BY <1>2, <1>3, <2>2
    <2>5. QED
      BY <1>1, <1>4, <1>5, <2>1, <2>3, <2>4, AppendAllEnds
  <1>9. a = AppendAll(first, d, T)
    BY <1>2, <1>3 DEF Told
  <1>10. ASSUME NEW k \in 0..(m - 1), Ended(first, b, c, F, k, << >>)
         PROVE  Ended(a, b, c, F, k, << >>)
    <2>1. first.truncated
      BY <1>4, <1>10, EndedIsTruncated
    <2>2. a = first
      BY <1>1, <1>9, <2>1, AppendAllKeeps
    <2>3. QED
      BY <1>10, <2>2
  <1>11. CASE Going(first, b, c, F, m, << >>)
    <2>1. PICK others : others = Items(F, m)
      OBVIOUS
    <2>2. first = Answer(b, others, << >>, FALSE) /\ Size(first) <= MaxOutput
      BY <1>6, <1>11, <2>1 DEF Going
    <2>3. first = Holding(b, d, << >>, others, FALSE)
      BY <1>7, <2>2
    <2>4. \/ Going(a, b, d, T, n, others)
          \/ \E k \in 0..(n - 1) : Ended(a, b, d, T, k, others)
      BY <1>1, <1>4, <1>5, <1>9, <2>1, <2>2, <2>3, AppendAllEnds
    <2>5. ASSUME Going(a, b, d, T, n, others)
          PROVE  a = WholeAnswer(b, F, T) /\ Size(a) <= MaxOutput
      BY <1>1, <1>7, <2>1, <2>5 DEF Going, WholeAnswer
    <2>6. QED
      BY <1>1, <1>3, <2>1, <2>4, <2>5
  <1>12. QED
    BY <1>1, <1>3, <1>8, <1>10, <1>11

LEMMA AnswerWhole ==
  ASSUME NEW b, NEW facts, NEW thoughts, NEW u
  PROVE  WholePart(Answer(b, facts, thoughts, u)) = Answer(b, WholeOnes(facts), WholeOnes(thoughts), u)
  <1>1. PICK B, C : B = b.affinity /\ C = b.familiar
    OBVIOUS
  <1> DEFINE R(f, t) == [affinity |-> B, familiar |-> C, facts |-> f, thoughts |-> t, truncated |-> u]
  <1>2. \A f, t : Answer(b, f, t, u) = R(f, t)
    BY <1>1 DEF Answer
  <1>3. PICK f, t : f = WholeOnes(facts) /\ t = WholeOnes(thoughts)
    OBVIOUS
  <1>4. PICK r : r = R(facts, thoughts)
    OBVIOUS
  <1>5. r.facts = facts /\ r.thoughts = thoughts
    BY <1>4
  <1>6. [r EXCEPT !.facts = f, !.thoughts = t] = [[r EXCEPT !.facts = f] EXCEPT !.thoughts = t]
    OBVIOUS
  <1>7. [r EXCEPT !.facts = f] = R(f, thoughts)
    BY <1>4
  <1>8. [R(f, thoughts) EXCEPT !.thoughts = t] = R(f, t)
    OBVIOUS
  <1> HIDE DEF R
  <1>9. WholePart(r) = [r EXCEPT !.facts = f, !.thoughts = t]
    BY <1>3, <1>5 DEF WholePart
  <1>10. WholePart(r) = R(f, t)
    BY <1>6, <1>7, <1>8, <1>9
  <1>11. QED
    BY <1>2, <1>3, <1>4, <1>10

\* The fields of an answer that ended while q was told.
LEMMA EndedParts ==
  ASSUME NEW q \in Seq(Tellable), NEW k \in 0..(Len(q) - 1), NEW told,
         \/ told = Items(q, k)
         \/ \E x \in ItemRec : x.cut /\ told = Append(Items(q, k), x)
  PROVE  WholeOnes(told) = Items(q, k)
  <1>1. k \in 0..Len(q)
    OBVIOUS
  <1>2. QED
    BY <1>1, WholeOfItems

LEMMA ThoughtsEndExactly ==
  ASSUME NEW b, NEW F \in Seq(Tellable), NEW T \in Seq(Tellable), NEW k \in 0..(Len(T) - 1), NEW a,
         Ended(a, b, "thoughts", T, k, Items(F, Len(F)))
  PROVE  Exact(a, F, T)
  <1>1. PICK m \in Nat, n \in Nat : m = Len(F) /\ n = Len(T)
    OBVIOUS
  <1>2. PICK f, t, item, d, R, w : /\ f = Items(F, m) /\ t = Items(T, k) /\ item = Item(T[k + 1])
                                   /\ d = "thoughts" /\ R = F \o T /\ w = m + k
    OBVIOUS
  <1>3. d \in Categories /\ m \in 0..m /\ k \in 0..n /\ k + 1 \in 1..n /\ k \in Nat
    BY <1>1, <1>2 DEF Categories
  <1>4. f \in Seq(ItemRec) /\ t \in Seq(ItemRec)
    BY <1>1, <1>2, <1>3, ItemsGrow
  <1>5. f \o t = Items(R, w) /\ R[w + 1] = T[k + 1] /\ w \in 0..(Len(R) - 1) /\ R \in Seq(Tellable)
    <2>1. f \o t = Items(R, w)
      BY <1>1, <1>2, <1>3, ItemsOfTwo
    <2>2. R[m + (k + 1)] = T[k + 1]
      BY <1>1, <1>2, <1>3, ItemsOfTwo
    <2>3. Len(R) = m + n /\ R \in Seq(Tellable)
      BY <1>1, <1>2, ItemsOfTwo
    <2>4. m + (k + 1) = w + 1 /\ w \in 0..(m + n - 1)
      BY <1>1, <1>2, <1>3
    <2>5. QED
      BY <2>1, <2>2, <2>3, <2>4
  <1>6. \A i, u : Holding(b, d, i, f, u) = Answer(b, f, i, u)
    BY <1>2 DEF Holding
  <1>7. PICK before : before = Answer(b, f, t, TRUE)
    OBVIOUS
  <1>8. /\ Size(a) <= MaxOutput
        /\ ~Fits(Answer(b, f, t, FALSE), d, item)
        /\ \/ a = before
           \/ \E x : CutAt(before, d, item, x) /\ a = Answer(b, f, Append(t, x), TRUE)
    BY <1>1, <1>2, <1>6, <1>7 DEF Ended
  <1>9. Early(before) = Answer(b, f, t, FALSE)
    BY <1>7, AnswerLate
  <1>10. ASSUME NEW told, a = Answer(b, f, told, TRUE),
                told = t \/ \E x \in ItemRec : x.cut /\ told = Append(t, x)
         PROVE  WholePart(a) = before /\ a.truncated /\ Listed(a) = f \o told
    <2>1. WholeOnes(told) = t
      BY <1>1, <1>2, <1>10, EndedParts
    <2>2. WholeOnes(f) = f
      BY <1>1, <1>2, <1>3, WholeOfItems
    <2>3. PICK u : u = TRUE
      OBVIOUS
    <2>4. a = Answer(b, f, told, u)
      BY ONLY <1>10, <2>3, Zenon
    <2>5. WholePart(a) = Answer(b, f, t, u)
      BY <2>1, <2>2, <2>4, AnswerWhole
    <2>6. a.truncated = u /\ a.facts = f /\ a.thoughts = told
      BY <2>4, AnswerFields
    <2>7. WholePart(a) = before
      BY ONLY <1>7, <2>3, <2>5, Zenon
    <2>8. QED
      BY <2>3, <2>6, <2>7 DEF Listed
  <1>11. d = IF w < m THEN "facts" ELSE "thoughts"
    BY <1>1, <1>2, <1>3
  <1>12. CASE a = before
    <2>1. WholePart(a) = before /\ a.truncated /\ Listed(a) = f \o t
      BY <1>7, <1>10, <1>12
    <2>2. QED
      BY <1>1, <1>2, <1>5, <1>8, <1>9, <1>11, <2>1, ExactWhenCut
  <1>13. ASSUME NEW x, CutAt(before, d, item, x), a = Answer(b, f, Append(t, x), TRUE)
         PROVE  Exact(a, F, T)
    <2>1. x \in ItemRec /\ x.cut
      BY <1>13 DEF CutAt
    <2>2. WholePart(a) = before /\ a.truncated /\ Listed(a) = f \o Append(t, x)
      BY <1>10, <1>13, <2>1
    <2>3. f \o Append(t, x) = Append(f \o t, x)
      BY <1>4, <2>1
    <2>4. Listed(a) = Append(Items(R, w), x)
      BY <1>5, <2>2, <2>3
    <2>5. QED
      BY <1>1, <1>2, <1>5, <1>8, <1>9, <1>11, <1>13, <2>2, <2>4, ExactWhenCut
  <1>14. QED
    BY <1>8, <1>12, <1>13

LEMMA FactsEndExactly ==
  ASSUME NEW b, NEW F \in Seq(Tellable), NEW T \in Seq(Tellable), NEW k \in 0..(Len(F) - 1), NEW a,
         Ended(a, b, "facts", F, k, << >>)
  PROVE  Exact(a, F, T)
  <1>1. PICK m \in Nat, n \in Nat : m = Len(F) /\ n = Len(T)
    OBVIOUS
  <1>2. PICK f, item, d, R, e : /\ f = Items(F, k) /\ item = Item(F[k + 1])
                                /\ d = "facts" /\ R = F \o T /\ e = << >>
    OBVIOUS
  <1>3. d \in Categories /\ k \in 0..m /\ k + 1 \in 1..m /\ k \in Nat
    BY <1>1, <1>2 DEF Categories
  <1>4. f \in Seq(ItemRec) /\ e \in Seq(ItemRec)
    BY <1>1, <1>2, <1>3, ItemsGrow
  <1>5. f = Items(R, k) /\ R[k + 1] = F[k + 1] /\ k \in 0..(Len(R) - 1) /\ R \in Seq(Tellable)
    <2>1. f = Items(R, k)
      BY <1>1, <1>2, <1>3, ItemsOfTwo
    <2>2. R[k + 1] = F[k + 1]
      BY <1>1, <1>2, <1>3, ItemsOfTwo
    <2>3. Len(R) = m + n /\ R \in Seq(Tellable)
      BY <1>1, <1>2, ItemsOfTwo
    <2>4. k \in 0..(m + n - 1)
      BY <1>1, <1>3
    <2>5. QED
      BY <2>1, <2>2, <2>3, <2>4
  <1>6. \A i, u : Holding(b, d, i, e, u) = Answer(b, i, e, u)
    BY <1>2 DEF Holding
  <1>7. PICK before : before = Answer(b, f, e, TRUE)
    OBVIOUS
  <1>8. /\ Size(a) <= MaxOutput
        /\ ~Fits(Answer(b, f, e, FALSE), d, item)
        /\ \/ a = before
           \/ \E x : CutAt(before, d, item, x) /\ a = Answer(b, Append(f, x), e, TRUE)
    BY <1>1, <1>2, <1>6, <1>7 DEF Ended
  <1>9. Early(before) = Answer(b, f, e, FALSE)
    BY <1>7, AnswerLate
  <1>10. ASSUME NEW told \in Seq(ItemRec), a = Answer(b, told, e, TRUE),
                told = f \/ \E x \in ItemRec : x.cut /\ told = Append(f, x)
         PROVE  WholePart(a) = before /\ a.truncated /\ Listed(a) = told
    <2>1. WholeOnes(told) = f
      BY <1>1, <1>2, <1>10, EndedParts
    <2>2. WholeOnes(e) = e
      <3>1. Whole(e) = {}
        BY <1>2 DEF Whole
      <3>2. WholeOnes(e) = SubSeq(e, 1, 0)
        BY <3>1, FS_EmptySet DEF WholeOnes
      <3>3. QED
        BY <1>2, <3>2
    <2>3. PICK u : u = TRUE
      OBVIOUS
    <2>4. a = Answer(b, told, e, u)
      BY ONLY <1>10, <2>3, Zenon
    <2>5. WholePart(a) = Answer(b, f, e, u)
      BY <2>1, <2>2, <2>4, AnswerWhole
    <2>6. a.truncated = u /\ a.facts = told /\ a.thoughts = e
      BY <2>4, AnswerFields
    <2>7. WholePart(a) = before
      BY ONLY <1>7, <2>3, <2>5, Zenon
    <2>8. told \o e = told
      BY <1>2
    <2>9. QED
      BY <2>3, <2>6, <2>7, <2>8 DEF Listed
  <1>11. d = IF k < m THEN "facts" ELSE "thoughts"
    BY <1>1, <1>2, <1>3
  <1>12. CASE a = before
    <2>1. WholePart(a) = before /\ a.truncated /\ Listed(a) = f
      BY <1>4, <1>7, <1>10, <1>12
    <2>2. QED
      BY <1>1, <1>2, <1>5, <1>8, <1>9, <1>11, <2>1, ExactWhenCut
  <1>13. ASSUME NEW x, CutAt(before, d, item, x), a = Answer(b, Append(f, x), e, TRUE)
         PROVE  Exact(a, F, T)
    <2>1. x \in ItemRec /\ x.cut
      BY <1>13 DEF CutAt
    <2>2. Append(f, x) \in Seq(ItemRec)
      BY <1>4, <2>1
    <2>3. WholePart(a) = before /\ a.truncated /\ Listed(a) = Append(f, x)
      BY <1>10, <1>13, <2>1, <2>2
    <2>4. Listed(a) = Append(Items(R, k), x)
      BY <1>5, <2>3
    <2>5. QED
      BY <1>1, <1>2, <1>5, <1>8, <1>9, <1>11, <1>13, <2>3, <2>4, ExactWhenCut
  <1>14. QED
    BY <1>8, <1>12, <1>13

LEMMA RecallIsExact ==
  ASSUME NEW b, NEW F \in Seq(Tellable), NEW T \in Seq(Tellable)
  PROVE  /\ Exact(Told(b, F, T), F, T)
         /\ ~Told(b, F, T).truncated =>
              Told(b, F, T).affinity = b.affinity /\ Told(b, F, T).facts = Items(F, Len(F))
  <1> SUFFICES ASSUME NEW a, a = Told(b, F, T)
               PROVE  /\ Exact(a, F, T)
                      /\ ~a.truncated => a.affinity = b.affinity /\ a.facts = Items(F, Len(F))
    OBVIOUS
  <1>1. CASE a = WholeAnswer(b, F, T) /\ Size(a) <= MaxOutput
    <2>1. PICK m, n, f, t : /\ m = Len(F) /\ n = Len(T)
                            /\ f = Items(F, m) /\ t = Items(T, n)
      OBVIOUS
    <2>2. PICK u : u = FALSE
      OBVIOUS
    <2>3. a = Answer(b, f, t, u)
      BY <1>1, <2>1, <2>2 DEF WholeAnswer
    <2>4. a.truncated = u /\ a.facts = f /\ a.thoughts = t /\ a.affinity = b.affinity
      BY ONLY <2>3, AnswerFields
    <2>5. f \o t = Items(F \o T, m + n) /\ Len(F \o T) = m + n
      <3>1. n \in 0..Len(T)
        BY <2>1
      <3>2. QED
        BY <2>1, <3>1, ItemsOfTwo
    <2>6. Listed(a) = Items(F \o T, Len(F \o T))
      BY <2>4, <2>5 DEF Listed
    <2>7. Exact(a, F, T)
      BY <1>1, <2>2, <2>4, <2>6, ExactWhenWhole
    <2>8. QED
      BY <2>1, <2>4, <2>7
  <1>2. CASE \E k \in 0..(Len(F) - 1) : Ended(a, b, "facts", F, k, << >>)
    BY <1>2, FactsEndExactly, EndedIsTruncated DEF Categories
  <1>3. CASE \E k \in 0..(Len(T) - 1) : Ended(a, b, "thoughts", T, k, Items(F, Len(F)))
    BY <1>3, ThoughtsEndExactly, EndedIsTruncated DEF Categories
  <1>4. QED
    BY <1>1, <1>2, <1>3, RecallEnds

LEMMA AboutIsSound ==
  ASSUME TypeOK, StoreInv, db # None, NEW kinds, NEW results, NEW peer
  PROVE  /\ IsFiniteSet(About(kinds, results, peer)) /\ Distinct(About(kinds, results, peer))
         /\ About(kinds, results, peer) \subseteq Tellable
  <1>1. PICK base \in Database : base = db /\ IsFiniteSet(Rows(base)) /\ Sound(base)
    BY DEF TypeOK, StoreInv
  <1>2. \A i \in Rows(base) : base.rows[i] \in Memory /\ base.rows[i].id = i
    BY <1>1 DEF Rows, Database, Sound
  <1>3. \A i \in Rows(base) : base.rows[i] \in Tellable
    BY <1>1, <1>2, FS_Subset DEF Sound, Tellable
  <1>4. PICK A : A = {j \in Rows(base) : /\ base.rows[j].peer = peer /\ base.rows[j].kind \in kinds
                                         /\ base.rows[j].result \in results}
    OBVIOUS
  <1>5. PICK S : S = {base.rows[i] : i \in A}
    OBVIOUS
  <1>6. S = About(kinds, results, peer)
    BY <1>1, <1>4, <1>5 DEF About, Stored, Rows
  <1>7. A \subseteq Rows(base) /\ IsFiniteSet(A)
    BY <1>1, <1>4, FS_Subset
  <1>8. S \subseteq Tellable /\ Distinct(S)
    BY <1>2, <1>3, <1>5, <1>7 DEF Distinct
  <1>9. IsFiniteSet(S)
    <2>1. PICK f : f = [i \in A |-> base.rows[i]]
      OBVIOUS
    <2>2. f \in Surjection(A, S)
      BY <1>5, <2>1 DEF Surjection
    <2>3. QED
      BY <1>7, <2>2, FS_Surjection
  <1>10. QED
    BY <1>6, <1>8, <1>9

LEMMA NewestIsList ==
  ASSUME TypeOK, StoreInv, db # None, NEW kinds, NEW results, NEW peer, NEW limit \in Nat
  PROVE  Newest(kinds, results, peer, limit) \in Seq(Tellable)
  <1>1. PICK S : S = About(kinds, results, peer)
    OBVIOUS
  <1>2. IsFiniteSet(S) /\ Distinct(S) /\ S \subseteq Tellable
    BY <1>1, AboutIsSound
  <1>3. PICK q : q = Latest(S, limit)
    OBVIOUS
  <1>4. q \in Seq(S)
    BY <1>2, <1>3, LatestIsList
  <1>5. q \in Seq(Tellable)
    BY <1>2, <1>4
  <1>6. QED
    BY <1>1, <1>3, <1>5 DEF Newest

LEMMA RecallOfRequest ==
  ASSUME TypeOK, StoreInv, NEW request \in Requests, NEW peer, peer = request[1],
         NEW limit, limit = request[2], NEW a, a = Recall(peer, limit),
         NEW F, F = RecalledFacts(peer, limit), NEW T, T = RecalledThoughts(peer, limit)
  PROVE  /\ db # None /\ peer \in Dogs /\ limit \in 1..20 /\ F \in Seq(Tellable) /\ T \in Seq(Tellable)
         /\ Exact(a, F, T)
         /\ ~a.truncated => a.affinity = db.score[peer] /\ a.facts = Items(F, Len(F))
  <1>1. db # None /\ peer \in Dogs /\ limit \in 1..20 /\ limit \in Nat
    <2>1. db # None
      BY DEF Requests
    <2>2. request \in (Dogs \ {db.owner}) \X Limits
      BY <2>1 DEF Requests
    <2>3. peer \in Dogs /\ limit \in Limits
      BY <2>2
    <2>4. Limits \subseteq 1..20
      BY RequestsAssumption
    <2>5. QED
      BY <2>1, <2>3, <2>4
  <1>2. F \in Seq(Tellable) /\ T \in Seq(Tellable)
    BY <1>1, NewestIsList DEF RecalledFacts, RecalledThoughts
  <1>3. PICK b : b = [affinity |-> db.score[peer], familiar |-> db.score[peer] >= Threshold]
    OBVIOUS
  <1>4. b.affinity = db.score[peer] /\ b.familiar = (db.score[peer] >= Threshold)
    BY <1>3
  <1>5. a = Told(b, F, T)
    BY <1>4 DEF Recall, Answer, Told
  <1>6. /\ Exact(a, F, T)
        /\ ~a.truncated => a.affinity = b.affinity /\ a.facts = Items(F, Len(F))
    <2>1. PICK told : told = Told(b, F, T)
      OBVIOUS
    <2>2. /\ Exact(told, F, T)
          /\ ~told.truncated => told.affinity = b.affinity /\ told.facts = Items(F, Len(F))
      BY ONLY <1>2, <2>1, RecallIsExact
    <2>3. QED
      BY <1>5, <2>1, <2>2
  <1>7. QED
    BY <1>1, <1>2, <1>4, <1>6

(* The answer an agent gets never exceeds its bound, and within it tells   *)
(* the newest facts and then thoughts in order, whole up to the first that *)
(* does not fit, cuts at most that one and no earlier than it must, and    *)
(* says so: the binary search of _append_with_budget finds the last length *)
(* that fits before one that does not, for texts and bounds of any size.   *)
THEOREM AnswersAreExact == Spec => []AnswerIsExact
  <1>1. ASSUME TypeOK, StoreInv
        PROVE  AnswerIsExact
    <2>1. SUFFICES ASSUME NEW request \in Requests
                   PROVE  Exact(Recall(request[1], request[2]), RecalledFacts(request[1], request[2]),
                                RecalledThoughts(request[1], request[2]))
      BY DEF AnswerIsExact
    <2>2. QED
      BY <1>1, RecallOfRequest
  <1>2. QED
    BY <1>1, TypeCorrect, StoreInvHolds, PTL

(* Sums over parts of a domain: terms that are zero do not matter, nor how *)
(* the terms are numbered.                                                 *)
SumOver(f, D) == SumFunction([i \in D |-> f[i]])

LEMMA SumOverGrows ==
  ASSUME NEW f, NEW D, IsFiniteSet(D), NEW x, x \notin D, Numbers(f, D \cup {x})
  PROVE  SumOver(f, D) \in Nat /\ SumOver(f, D \cup {x}) = SumOver(f, D) + f[x]
  <1>1. PICK g, h : g = [i \in D |-> f[i]] /\ h = [i \in D \cup {x} |-> f[i]]
    OBVIOUS
  <1>2. /\ Numbers(g, D) /\ Numbers(h, D \cup {x}) /\ SameOn(g, h, D)
        /\ DOMAIN g = D /\ DOMAIN h = D \cup {x} /\ h[x] = f[x]
    BY <1>1 DEF Numbers, SameOn
  <1>3. SumFunction(g) \in Nat /\ SumFunction(h) = SumFunction(g) + h[x]
    BY ONLY <1>2, IsFiniteSet(D), x \notin D, SumGrows
  <1>4. QED
    BY <1>1, <1>2, <1>3 DEF SumOver

LEMMA SumWithoutOne ==
  ASSUME NEW f, NEW D, IsFiniteSet(D), NEW x \in D, Numbers(f, D)
  PROVE  SumOver(f, D \ {x}) \in Nat /\ SumOver(f, D) = SumOver(f, D \ {x}) + f[x]
  <1>1. PICK C : C = D \ {x}
    OBVIOUS
  <1>2. IsFiniteSet(C) /\ x \notin C /\ C \cup {x} = D
    BY <1>1, FS_Subset
  <1>3. SumOver(f, C) \in Nat /\ SumOver(f, C \cup {x}) = SumOver(f, C) + f[x]
    BY ONLY <1>2, Numbers(f, D), SumOverGrows
  <1>4. QED
    BY <1>1, <1>2, <1>3

LEMMA SumOfNone ==
  ASSUME NEW f
  PROVE  SumOver(f, {}) = 0
  BY SumOfNothing DEF SumOver

LEMMA SumIgnoresZeros ==
  ASSUME NEW f, NEW A, IsFiniteSet(A), Numbers(f, A), NEW E \in SUBSET A,
         \A i \in A \ E : f[i] = 0
  PROVE  SumOver(f, E) = SumOver(f, A)
  <1> DEFINE Wrong == {D \in SUBSET A : E \subseteq D /\ SumOver(f, D) # SumOver(f, E)}
  <1>1. SUFFICES ASSUME Wrong # {} PROVE FALSE
    <2>1. A \notin Wrong => SumOver(f, E) = SumOver(f, A)
      OBVIOUS
    <2>2. QED
      BY <2>1
  <1>2. PICK D \in Wrong : \A x \in D : D \ {x} \notin Wrong
    <2>1. PICK W : W = Wrong
      OBVIOUS
    <2>2. W \subseteq SUBSET A /\ W # {}
      BY <1>1, <2>1
    <2>3. \E D \in W : \A x \in D : D \ {x} \notin W
      BY ONLY <2>2, IsFiniteSet(A), MinimalSet
    <2>4. QED
      BY <2>1, <2>3
  <1>3. D \in SUBSET A /\ E \subseteq D /\ SumOver(f, D) # SumOver(f, E)
    BY <1>2
  <1>4. PICK x \in D : x \notin E
    BY <1>3
  <1>5. SumOver(f, D \ {x}) = SumOver(f, E)
    BY <1>2, <1>3, <1>4
  <1>6. IsFiniteSet(D) /\ Numbers(f, D)
    BY <1>3, FS_Subset DEF Numbers
  <1>7. SumOver(f, D \ {x}) \in Nat /\ SumOver(f, D) = SumOver(f, D \ {x}) + f[x]
    BY <1>4, <1>6, SumWithoutOne
  <1>8. f[x] = 0
    BY <1>3, <1>4
  <1>9. QED
    BY <1>3, <1>5, <1>7, <1>8

LEMMA SumIsReindexed ==
  ASSUME NEW f, NEW A, IsFiniteSet(A), Numbers(f, A), NEW g, NEW B, IsFiniteSet(B),
         NEW p \in [B -> A], \A j, k \in B : p[j] = p[k] => j = k,
         \A j \in B : g[j] = f[p[j]]
  PROVE  SumOver(g, B) = SumOver(f, {p[j] : j \in B})
  <1> DEFINE Image(D) == {p[j] : j \in D}
             Wrong == {D \in SUBSET B : SumOver(g, D) # SumOver(f, Image(D))}
  <1>1. SUFFICES ASSUME Wrong # {} PROVE FALSE
    <2>1. B \notin Wrong => SumOver(g, B) = SumOver(f, Image(B))
      OBVIOUS
    <2>2. QED
      BY <2>1
  <1>2. PICK D \in Wrong : \A x \in D : D \ {x} \notin Wrong
    <2>1. PICK W : W = Wrong
      OBVIOUS
    <2>2. W \subseteq SUBSET B /\ W # {}
      BY <1>1, <2>1
    <2>3. \E D \in W : \A x \in D : D \ {x} \notin W
      BY ONLY <2>2, IsFiniteSet(B), MinimalSet
    <2>4. QED
      BY <2>1, <2>3
  <1>3. D \in SUBSET B /\ SumOver(g, D) # SumOver(f, Image(D))
    BY <1>2
  <1>4. CASE D = {}
    <2>1. Image(D) = {}
      BY <1>4
    <2>2. QED
      BY <1>3, <1>4, <2>1, SumOfNone
  <1>5. CASE D # {}
    <2>1. PICK x : x \in D
      BY <1>5
    <2>2. PICK I, J : I = Image(D) /\ J = Image(D \ {x})
      OBVIOUS
    <2>3. SumOver(g, D \ {x}) = SumOver(f, J)
      BY <1>2, <1>3, <2>1, <2>2
    <2>4. IsFiniteSet(D) /\ Numbers(g, D) /\ D \subseteq B
      BY <1>3, FS_Subset DEF Numbers
    <2>5. SumOver(g, D) = SumOver(g, D \ {x}) + g[x]
      BY <2>1, <2>4, SumWithoutOne
    <2>6. I \subseteq A /\ IsFiniteSet(I) /\ Numbers(f, I) /\ p[x] \in I
      BY <2>1, <2>2, <2>4, FS_Subset DEF Numbers
    <2>7. J = I \ {p[x]}
      BY <2>1, <2>2, <2>4
    <2>8. SumOver(f, I) = SumOver(f, J) + f[p[x]]
      BY <2>6, <2>7, SumWithoutOne
    <2>9. g[x] = f[p[x]]
      BY <2>1, <2>4
    <2>10. QED
      BY <1>3, <2>2, <2>3, <2>5, <2>8, <2>9
  <1>6. QED
    BY <1>4, <1>5

FactRows(base, peer) ==
  {i \in Rows(base) : /\ base.rows[i].peer = peer /\ base.rows[i].kind \in Facts
                      /\ base.rows[i].result \in {"completed"}}

(* Every row that earned something with a peer is among the facts that may *)
(* be recalled about it.                                                   *)
LEMMA EarnedAreRecalled ==
  ASSUME NEW base, Sound(base), NEW peer
  PROVE  Earns(base, peer) \subseteq FactRows(base, peer)
  <1>1. SUFFICES ASSUME NEW i \in Rows(base), base.rows[i].peer = peer, base.rows[i].delta > 0
                 PROVE  base.rows[i].kind \in Facts /\ base.rows[i].result = "completed"
    BY DEF Earns, FactRows
  <1>2. WellFormed(base.rows[i])
    BY DEF Sound
  <1>3. ~(base.rows[i].delta = 0)
    BY <1>1
  <1>4. QED
    BY <1>2, <1>3 DEF WellFormed, Facts

(* Added up over a list that holds each fact once, or over the rows that   *)
(* earned something: the same sum.                                         *)
Enumerates(q, n, base, A) ==
  /\ \A k \in 1..n : q[k] \in {base.rows[i] : i \in A}
  /\ \A j, k \in 1..n : q[j] = q[k] => j = k
  /\ \A i \in A : \E k \in 1..n : q[k] = base.rows[i]

LEMMA FactsAddUp ==
  ASSUME NEW base \in Database, Sound(base), IsFiniteSet(Rows(base)), NEW peer,
         NEW q, NEW n \in Nat, Enumerates(q, n, base, FactRows(base, peer))
  PROVE  Total(base.rows, Earns(base, peer)) = SumFunction([k \in 1..n |-> q[k].delta])
  <1>1. PICK A : A = FactRows(base, peer) /\ Enumerates(q, n, base, A)
    OBVIOUS
  <1>2. \A k \in 1..n : q[k] \in {base.rows[i] : i \in A}
    BY <1>1 DEF Enumerates
  <1>3. \A j, k \in 1..n : q[j] = q[k] => j = k
    BY <1>1 DEF Enumerates
  <1>4. \A i \in A : \E k \in 1..n : q[k] = base.rows[i]
    BY <1>1 DEF Enumerates
  <1>5. /\ A \subseteq Rows(base) /\ IsFiniteSet(A)
        /\ \A i \in A : base.rows[i] \in Memory /\ base.rows[i].id = i /\ base.rows[i].delta \in Nat
    <2>1. A \subseteq Rows(base) /\ IsFiniteSet(A)
      BY <1>1, FS_Subset DEF FactRows
    <2>2. \A i \in A : base.rows[i] \in Memory /\ base.rows[i].id = i
      BY <2>1 DEF Sound, Rows, Database
    <2>3. \A i \in A : base.rows[i].delta \in Nat
      BY <2>2 DEF Memory
    <2>4. QED
      BY <2>1, <2>2, <2>3
  <1>6. PICK f, g, p : /\ f = [i \in A |-> base.rows[i].delta] /\ g = [k \in 1..n |-> q[k].delta]
                       /\ p = [k \in 1..n |-> q[k].id]
    OBVIOUS
  <1>7. \A k \in 1..n : p[k] \in A /\ base.rows[p[k]] = q[k]
    BY <1>2, <1>5, <1>6
  <1>8. /\ p \in [1..n -> A] /\ \A j, k \in 1..n : p[j] = p[k] => j = k
        /\ \A k \in 1..n : g[k] = f[p[k]]
    BY <1>3, <1>6, <1>7
  <1>9. {p[k] : k \in 1..n} = A
    <2>1. \A i \in A : \E k \in 1..n : p[k] = i
      BY <1>4, <1>5, <1>6
    <2>2. QED
      BY <1>7, <2>1
  <1>10. Numbers(f, A) /\ IsFiniteSet(1..n)
    BY <1>5, <1>6, FS_Interval DEF Numbers
  <1>11. SumOver(g, 1..n) = SumOver(f, A)
    <2>1. PICK B : B = 1..n
      OBVIOUS
    <2>2. /\ IsFiniteSet(A) /\ Numbers(f, A) /\ IsFiniteSet(B) /\ p \in [B -> A]
          /\ (\A j, k \in B : p[j] = p[k] => j = k) /\ \A j \in B : g[j] = f[p[j]]
      BY <1>5, <1>8, <1>10, <2>1
    <2>3. SumOver(g, B) = SumOver(f, {p[j] : j \in B})
      BY ONLY <2>2, SumIsReindexed
    <2>4. QED
      BY <1>9, <2>1, <2>3
  <1>12. PICK E : E = Earns(base, peer)
    OBVIOUS
  <1>13. E \in SUBSET A
    BY <1>1, <1>12, EarnedAreRecalled
  <1>14. \A i \in A \ E : f[i] = 0
    <2>1. \A i \in A \ E : ~(base.rows[i].delta > 0) /\ base.rows[i].delta \in Nat
      BY <1>1, <1>5, <1>12 DEF Earns, FactRows
    <2>2. QED
      BY <1>6, <2>1
  <1>15. SumOver(f, E) = SumOver(f, A)
    BY ONLY <1>5, <1>10, <1>13, <1>14, SumIgnoresZeros
  <1>16. Total(base.rows, E) = SumOver(f, E)
    <2>1. [i \in E |-> base.rows[i].delta] = [i \in E |-> f[i]]
      BY <1>6, <1>13
    <2>2. QED
      BY <2>1 DEF Total, SumOver
  <1>17. SumOver(g, 1..n) = SumFunction([k \in 1..n |-> q[k].delta])
    <2>1. [k \in 1..n |-> g[k]] = [k \in 1..n |-> q[k].delta]
      BY <1>6
    <2>2. QED
      BY <2>1 DEF SumOver
  <1>18. QED
    BY <1>11, <1>12, <1>15, <1>16, <1>17

LEMMA TrueAffinity ==
  ASSUME TypeOK, StoreInv, db # None, NEW peer \in Dogs, NEW limit \in 1..20,
         NEW F, F = RecalledFacts(peer, limit)
  PROVE  /\ F = << >> => db.score[peer] = 0
         /\ Len(F) < limit =>
              db.score[peer] = Capped(SumFunction([k \in 1..Len(F) |-> F[k].delta]))
  <1>1. PICK base \in Database : /\ base = db /\ IsFiniteSet(Rows(base)) /\ Sound(base)
                                 /\ IsEarned(base, peer)
    BY DEF TypeOK, StoreInv
  <1>2. PICK A : A = FactRows(base, peer)
    OBVIOUS
  <1>3. PICK S : S = About(Facts, {"completed"}, peer)
    OBVIOUS
  <1>4. S = {base.rows[i] : i \in A}
    BY <1>1, <1>2, <1>3 DEF About, Stored, Rows, FactRows
  <1>5. IsFiniteSet(S) /\ Distinct(S)
    BY <1>3, AboutIsSound
  <1>6. F = Latest(S, limit)
    BY <1>3 DEF RecalledFacts, Newest
  <1>7. PICK n \in Nat : n = Len(F) /\ n = Lesser(limit, Cardinality(S))
    BY <1>5, <1>6, LatestIsList
  <1>8. /\ F \in Seq(S) /\ \A j, k \in 1..n : F[j] = F[k] => j = k
        /\ n < limit => \A m \in S : \E k \in 1..n : F[k] = m
    BY <1>5, <1>6, <1>7, LatestIsList
  <1>9. db.score[peer] = Capped(Total(base.rows, Earns(base, peer)))
    BY <1>1 DEF IsEarned
  <1>10. ASSUME F = << >>
         PROVE  db.score[peer] = 0
    <2>1. n = 0
      BY <1>7, <1>10
    <2>2. Cardinality(S) = 0
      BY <1>5, <1>7, <2>1, FS_CardinalityType DEF Lesser
    <2>3. S = {}
      BY <1>5, <2>2, FS_EmptySet
    <2>4. A = {}
      BY <1>4, <2>3
    <2>5. Earns(base, peer) = {}
      BY <1>1, <1>2, <2>4, EarnedAreRecalled
    <2>6. Total(base.rows, Earns(base, peer)) = 0
      BY <2>5, NothingEarned
    <2>7. QED
      BY <1>9, <2>6 DEF Capped
  <1>11. ASSUME n < limit
         PROVE  db.score[peer] = Capped(SumFunction([k \in 1..n |-> F[k].delta]))
    <2>1. \A k \in 1..n : F[k] \in S
      <3>1. F \in Seq(S)
        BY <1>8
      <3>2. n = Len(F)
        BY <1>7
      <3>3. QED
        BY ONLY <3>1, <3>2, ElementOfSeq
    <2>2. \A i \in A : base.rows[i] \in S
      BY <1>4
    <2>3. Enumerates(F, n, base, A)
      BY <1>4, <1>8, <1>11, <2>1, <2>2 DEF Enumerates
    <2>4. PICK total : total = SumFunction([k \in 1..n |-> F[k].delta])
      OBVIOUS
    <2>5. Total(base.rows, Earns(base, peer)) = total
      BY <1>1, <1>2, <2>3, <2>4, FactsAddUp
    <2>6. QED
      BY <1>9, <2>4, <2>5
  <1>12. QED
    BY <1>7, <1>10, <1>11

(* The affinity an agent reads is the one the facts it reads account for:  *)
(* no affinity without a fact that is told, and when nothing was left out  *)
(* the deltas of the listed facts add up to it.                            *)
THEOREM AffinityAddsUp == Spec => []AffinityIsExplained
  <1>1. ASSUME TypeOK, StoreInv
        PROVE  AffinityIsExplained
    <2>1. SUFFICES ASSUME NEW request \in Requests, NEW a, a = Recall(request[1], request[2]),
                          ~a.truncated
                   PROVE  /\ a.affinity > 0 => a.facts # << >>
                          /\ Len(a.facts) < request[2] =>
                               a.affinity = Capped(SumFunction([i \in DOMAIN a.facts |-> a.facts[i].memory.delta]))
      BY DEF AffinityIsExplained
    <2>2. PICK peer, limit : peer = request[1] /\ limit = request[2]
      OBVIOUS
    <2>3. PICK F, T : F = RecalledFacts(peer, limit) /\ T = RecalledThoughts(peer, limit)
      OBVIOUS
    <2>4. /\ db # None /\ peer \in Dogs /\ limit \in 1..20 /\ F \in Seq(Tellable)
          /\ a.affinity = db.score[peer] /\ a.facts = Items(F, Len(F))
      BY <1>1, <2>1, <2>2, <2>3, RecallOfRequest
    <2>5. PICK n, f : n = Len(F) /\ f = Items(F, n) /\ n \in Nat
      BY <2>4
    <2>6. Len(f) = n /\ DOMAIN f = 1..n /\ \A k \in 1..n : f[k].memory = F[k]
      <3>1. Len(f) = n /\ DOMAIN f = 1..n
        BY <2>5 DEF Items
      <3>2. \A k \in 1..n : f[k] = Item(F[k]) /\ F[k] \in Tellable
        BY <2>4, <2>5 DEF Items
      <3>3. QED
        BY <3>1, <3>2, ItemType
    <2>7. /\ F = << >> => db.score[peer] = 0
          /\ Len(F) < limit =>
               db.score[peer] = Capped(SumFunction([k \in 1..Len(F) |-> F[k].delta]))
      BY <1>1, <2>3, <2>4, TrueAffinity
    <2>8. a.affinity > 0 => a.facts # << >>
      <3>1. SUFFICES ASSUME f = << >> PROVE ~(a.affinity > 0)
        BY <2>4, <2>5
      <3>2. n = 0
        BY <2>6, <3>1
      <3>3. F = << >>
        <4>1. F \in Seq(Tellable) /\ Len(F) = 0
          BY <2>4, <2>5, <3>2
        <4>2. QED
          BY ONLY <4>1, EmptySeq
      <3>4. QED
        BY <2>4, <2>7, <3>3
    <2>9. Len(a.facts) < request[2] =>
            a.affinity = Capped(SumFunction([i \in DOMAIN a.facts |-> a.facts[i].memory.delta]))
      <3>1. SUFFICES ASSUME n < limit
                     PROVE  a.affinity = Capped(SumFunction([i \in 1..n |-> f[i].memory.delta]))
        BY <2>2, <2>4, <2>5, <2>6
      <3>2. [i \in 1..n |-> f[i].memory.delta] = [k \in 1..n |-> F[k].delta]
        BY <2>6
      <3>3. QED
        BY <2>4, <2>5, <2>7, <3>1, <3>2
    <2>10. QED
      BY <2>8, <2>9
  <1>2. QED
    BY <1>1, TypeCorrect, StoreInvHolds, PTL
=============================================================================
