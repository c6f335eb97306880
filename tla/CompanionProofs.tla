--------------------------- MODULE CompanionProofs ---------------------------
(***************************************************************************)
(* What holds of the live companion for whatever windows, budgets and      *)
(* bounds: of its server (CompanionServer), whose engine is driven by a    *)
(* worker loop and by the operator's requests, and of the policy on its    *)
(* own (CompanionPolicy), whose engine is driven by any legal sequence of  *)
(* events.  Both rest on the same facts about what one call makes of the   *)
(* engine, which come first: IsEngine is preserved, and the call is one of *)
(* five (Moves): it rests, greets, invites, looks around or answers.       *)
(***************************************************************************)
EXTENDS CompanionServer, CompanionPolicy, TLAPS, SequenceTheorems, FiniteSetTheorems,
        WellFoundedInduction

-----------------------------------------------------------------------------
(* Induction over numbers, from the library's well-foundedness of < on Nat. *)
LEMMA LeastNumber ==
  ASSUME NEW T, T \subseteq Nat, T # {}
  PROVE  \E x \in T : \A y \in T : x <= y
  <1>1. PICK x \in T : \A y \in T : ~(<< y, x >> \in OpToRel(<, Nat))
    BY WFMin, NatLessThanWellFounded
  <1>2. \A y \in T : ~(y < x)
    BY <1>1 DEF OpToRel
  <1>3. QED
    BY <1>2

-----------------------------------------------------------------------------
(***************************************************************************)
(* The window of tick(): Recent keeps exactly the times that still count,  *)
(* now and at any later moment.                                            *)
(***************************************************************************)
Counting(times, n, t) == {i \in 1 .. n : t - times[i] < BudgetWindow}

Trims(g, times, t, n) ==
  g = [i \in 0 .. n |-> IF i = 0 THEN << >>
                        ELSE IF t - times[i] < BudgetWindow THEN Append(g[i - 1], times[i])
                        ELSE g[i - 1]]

LEMMA TrimExists ==
  ASSUME NEW times, NEW t, NEW n \in Nat
  PROVE  \E g : Trims(g, times, t, n)
  <1> DEFINE T == {m \in Nat : ~\E g : Trims(g, times, t, m)}
  <1>1. SUFFICES ASSUME T # {} PROVE FALSE
    OBVIOUS
  <1>2. PICK m \in T : \A y \in T : m <= y
    BY <1>1, LeastNumber
  <1>3. CASE m = 0
    <2>1. Trims([i \in 0 .. 0 |-> << >>], times, t, 0)
      BY DEF Trims
    <2>2. QED
      BY <1>2, <1>3, <2>1
  <1>4. CASE m # 0
    <2>1. m - 1 \in Nat /\ m \in Nat /\ m - 1 \notin T
      BY <1>2, <1>4
    <2>2. PICK g : Trims(g, times, t, m - 1)
      BY <2>1
    <2>3. PICK z : z = IF t - times[m] < BudgetWindow THEN Append(g[m - 1], times[m]) ELSE g[m - 1]
      OBVIOUS
    <2> DEFINE h == [i \in 0 .. m |-> IF i = m THEN z ELSE g[i]]
    <2>4. \A i \in 0 .. (m - 1) : h[i] = g[i]
      BY <2>1
    <2>5. \A i \in 1 .. m : i - 1 \in 0 .. (m - 1) /\ h[i - 1] = g[i - 1]
      BY <2>1, <2>4
    <2>6. \A i \in 0 .. (m - 1) : g[i] = IF i = 0 THEN << >>
                                       ELSE IF t - times[i] < BudgetWindow THEN Append(g[i - 1], times[i])
                                       ELSE g[i - 1]
      BY <2>2 DEF Trims
    <2>7. \A i \in 0 .. m : h[i] = IF i = 0 THEN << >>
                                   ELSE IF t - times[i] < BudgetWindow THEN Append(h[i - 1], times[i])
                                   ELSE h[i - 1]
      <3>1. TAKE i \in 0 .. m
      <3>2. CASE i = m
        BY <3>2, <2>1, <2>3, <2>5, <1>4
      <3>3. CASE i # m
        BY <3>3, <2>1, <2>4, <2>5, <2>6
      <3>4. QED
        BY <3>2, <3>3
    <2>8. Trims(h, times, t, m)
      BY <2>7 DEF Trims
    <2>9. QED
      BY <1>2, <2>8
  <1>5. QED
    BY <1>3, <1>4

LEMMA CountingIsFinite ==
  ASSUME NEW times, NEW n \in Nat, NEW t
  PROVE  IsFiniteSet(Counting(times, n, t)) /\ Cardinality(Counting(times, n, t)) \in Nat
  <1>1. IsFiniteSet(1 .. n)
    BY FS_Interval
  <1>2. QED
    BY <1>1, FS_Subset, FS_CardinalityType DEF Counting

LEMMA CountingOneMore ==
  ASSUME NEW times, NEW n \in Nat, NEW t
  PROVE  Cardinality(Counting(times, n + 1, t)) =
           Cardinality(Counting(times, n, t)) + IF t - times[n + 1] < BudgetWindow THEN 1 ELSE 0
  <1>1. CASE t - times[n + 1] < BudgetWindow
    <2>1. Counting(times, n + 1, t) = Counting(times, n, t) \cup {n + 1} /\ n + 1 \notin Counting(times, n, t)
      BY <1>1 DEF Counting
    <2>2. QED
      BY <1>1, <2>1, CountingIsFinite, FS_AddElement
  <1>2. CASE ~(t - times[n + 1] < BudgetWindow)
    <2>1. Counting(times, n + 1, t) = Counting(times, n, t)
      BY <1>2 DEF Counting
    <2>2. QED
      BY <1>2, <2>1, CountingIsFinite
  <1>3. QED
    BY <1>1, <1>2

\* The same for a list to which a time is appended.
LEMMA CountingAppended ==
  ASSUME NEW s \in Seq(Int), NEW at \in Int, NEW t
  PROVE  /\ Append(s, at) \in Seq(Int) /\ Len(Append(s, at)) = Len(s) + 1
         /\ Cardinality(Counting(Append(s, at), Len(Append(s, at)), t)) =
              Cardinality(Counting(s, Len(s), t)) + IF t - at < BudgetWindow THEN 1 ELSE 0
  <1>1. /\ Len(s) \in Nat /\ Append(s, at) \in Seq(Int) /\ Len(Append(s, at)) = Len(s) + 1
        /\ Append(s, at)[Len(s) + 1] = at /\ \A i \in 1 .. Len(s) : Append(s, at)[i] = s[i]
    OBVIOUS
  <1>2. Counting(Append(s, at), Len(s), t) = Counting(s, Len(s), t)
    BY <1>1 DEF Counting
  <1>3. Cardinality(Counting(Append(s, at), Len(s) + 1, t)) =
          Cardinality(Counting(Append(s, at), Len(s), t)) + IF t - Append(s, at)[Len(s) + 1] < BudgetWindow THEN 1 ELSE 0
    BY <1>1, CountingOneMore
  <1>4. QED
    BY <1>1, <1>2, <1>3

LEMMA RecentTrims ==
  ASSUME NEW times \in Seq(Int), NEW t \in Int
  PROVE  /\ Recent(times, t) \in Seq(Int)
         /\ \A u \in Int : u >= t => Cardinality(Counting(Recent(times, t), Len(Recent(times, t)), u)) =
                                       Cardinality(Counting(times, Len(times), u))
         /\ Len(Recent(times, t)) = Cardinality(Counting(times, Len(times), t))
  <1>1. Len(times) \in Nat /\ \A i \in 1 .. Len(times) : times[i] \in Int
    BY LenProperties, ElementOfSeq
  <1>2. PICK g : Trims(g, times, t, Len(times)) /\ Recent(times, t) = g[Len(times)]
    <2>1. \E g : Trims(g, times, t, Len(times))
      BY <1>1, TrimExists
    <2>2. QED
      BY <2>1 DEF Trims, Recent
  <1>3. BudgetWindow \in Nat
    BY WindowsAssumption DEF Windows
  <1> DEFINE Good(n) == /\ g[n] \in Seq(Int)
                        /\ \A i \in 1 .. Len(g[n]) : t - g[n][i] < BudgetWindow
                        /\ \A u \in Int : u >= t => Cardinality(Counting(g[n], Len(g[n]), u)) =
                                                      Cardinality(Counting(times, n, u))
             T == {n \in 0 .. Len(times) : ~Good(n)}
  <1>4. T = {}
    <2>1. SUFFICES ASSUME T # {} PROVE FALSE
      OBVIOUS
    <2>2. PICK m \in T : \A y \in T : m <= y
      <3>1. T \subseteq Nat
        BY <1>1
      <3>2. QED
        BY <2>1, <3>1, LeastNumber
    <2>3. CASE m = 0
      <3>1. g[0] = << >>
        BY <1>1, <1>2 DEF Trims
      <3>2. g[0] \in Seq(Int) /\ Len(g[0]) = 0
        BY <3>1
      <3>3. \A u : Counting(g[0], Len(g[0]), u) = {} /\ Counting(times, 0, u) = {}
        BY <3>2 DEF Counting
      <3>4. Good(0)
        <4>1. \A i \in 1 .. Len(g[0]) : FALSE
          BY <3>2
        <4>2. \A u : Cardinality(Counting(g[0], Len(g[0]), u)) = Cardinality(Counting(times, 0, u))
          BY <3>3
        <4>3. QED
          BY <3>2, <4>1, <4>2
      <3>5. QED
        BY <2>2, <2>3, <3>4
    <2>4. CASE m # 0
      <3>1. m - 1 \in Nat /\ m - 1 \in 0 .. Len(times) /\ m - 1 \notin T /\ m \in 1 .. Len(times)
            /\ (m - 1) + 1 = m
        BY <1>1, <2>2, <2>4
      <3>2. Good(m - 1)
        BY <3>1
      <3>3. g[m] = IF t - times[m] < BudgetWindow THEN Append(g[m - 1], times[m]) ELSE g[m - 1]
        <4>1. \A i \in 0 .. Len(times) :
                g[i] = IF i = 0 THEN << >>
                       ELSE IF t - times[i] < BudgetWindow THEN Append(g[i - 1], times[i]) ELSE g[i - 1]
          BY <1>2 DEF Trims
        <4>2. m \in 0 .. Len(times)
          BY <3>1
        <4>3. QED
          BY <2>4, <4>1, <4>2
      <3>4. times[m] \in Int
        BY <1>1, <3>1
      <3>5. PICK k \in Seq(Int) : k = g[m - 1]
        BY <3>2
      <3>6. /\ \A i \in 1 .. Len(k) : t - k[i] < BudgetWindow
            /\ \A u \in Int : u >= t => Cardinality(Counting(k, Len(k), u)) = Cardinality(Counting(times, m - 1, u))
        BY <3>2, <3>5
      <3>7. CASE t - times[m] < BudgetWindow
        <4>1. g[m] = Append(k, times[m])
          BY <3>3, <3>5, <3>7
        <4>2. /\ Append(k, times[m]) \in Seq(Int)
              /\ \A i \in 1 .. Len(Append(k, times[m])) :
                   IF i = Len(k) + 1 THEN Append(k, times[m])[i] = times[m]
                   ELSE i \in 1 .. Len(k) /\ Append(k, times[m])[i] = k[i]
          BY <3>4
        <4>3. ASSUME NEW u \in Int, u >= t
              PROVE  Cardinality(Counting(g[m], Len(g[m]), u)) = Cardinality(Counting(times, m, u))
          <5>1. Cardinality(Counting(g[m], Len(g[m]), u)) =
                  Cardinality(Counting(k, Len(k), u)) + IF u - times[m] < BudgetWindow THEN 1 ELSE 0
            BY <4>1, <3>4, CountingAppended
          <5>2. Cardinality(Counting(times, m, u)) =
                  Cardinality(Counting(times, m - 1, u)) + IF u - times[m] < BudgetWindow THEN 1 ELSE 0
            <6>1. PICK j \in Nat : j = m - 1 /\ j + 1 = m
              BY <3>1
            <6>2. Cardinality(Counting(times, j + 1, u)) =
                    Cardinality(Counting(times, j, u)) + IF u - times[j + 1] < BudgetWindow THEN 1 ELSE 0
              BY <6>1, CountingOneMore
            <6>3. QED
              BY <6>1, <6>2
          <5>3. QED
            BY <4>3, <5>1, <5>2, <3>6
        <4>4. \A i \in 1 .. Len(g[m]) : t - g[m][i] < BudgetWindow
          BY <4>1, <4>2, <3>6, <3>7
        <4>5. Good(m)
          BY <4>1, <4>2, <4>3, <4>4
        <4>6. QED
          BY <2>2, <4>5
      <3>8. CASE ~(t - times[m] < BudgetWindow)
        <4>1. g[m] = k
          BY <3>3, <3>5, <3>8
        <4>2. ASSUME NEW u \in Int, u >= t
              PROVE  Cardinality(Counting(g[m], Len(g[m]), u)) = Cardinality(Counting(times, m, u))
          <5>1. ~(u - times[m] < BudgetWindow)
            BY <4>2, <3>4, <3>8, <1>3
          <5>2. Cardinality(Counting(times, m, u)) = Cardinality(Counting(times, m - 1, u)) + 0
            BY <5>1, <3>1, CountingOneMore
          <5>3. Cardinality(Counting(times, m - 1, u)) \in Nat
            BY <3>1, CountingIsFinite
          <5>4. QED
            BY <4>1, <4>2, <5>2, <5>3, <3>6
        <4>3. Good(m)
          BY <4>1, <4>2, <3>6
        <4>4. QED
          BY <2>2, <4>3
      <3>9. QED
        BY <3>7, <3>8
    <2>5. QED
      BY <2>3, <2>4
  <1>5. Good(Len(times))
    BY <1>1, <1>4
  <1>6. PICK r \in Seq(Int) : r = Recent(times, t)
    BY <1>2, <1>5
  <1>7. /\ \A i \in 1 .. Len(r) : t - r[i] < BudgetWindow
        /\ \A u \in Int : u >= t => Cardinality(Counting(r, Len(r), u)) = Cardinality(Counting(times, Len(times), u))
    BY <1>2, <1>5, <1>6
  <1>8. Counting(r, Len(r), t) = 1 .. Len(r) /\ Len(r) \in Nat
    BY <1>7 DEF Counting
  <1>9. Cardinality(1 .. Len(r)) = Len(r)
    <2>1. PICK n \in Nat : n = Len(r)
      BY <1>8
    <2>2. Cardinality(1 .. n) = n
      <3>1. 1 \in Int /\ n \in Int
        OBVIOUS
      <3>2. Cardinality(1 .. n) = IF 1 > n THEN 0 ELSE n - 1 + 1
        BY ONLY <3>1, FS_Interval
      <3>3. QED
        BY <3>2
    <2>3. QED
      BY <2>1, <2>2
  <1>10. QED
    BY <1>6, <1>7, <1>8, <1>9

-----------------------------------------------------------------------------
(***************************************************************************)
(* The engine, for whatever windows and budgets: what one call makes of    *)
(* it.                                                                     *)
(***************************************************************************)
Fields == {"state", "fault", "preference", "present", "hold", "seenAt", "deadline",
           "nextInvitation", "ignored", "interactions", "presentSince", "absentSince",
           "greetingPending", "lastTouch", "lastIdle", "invitations", "proactive", "restUntil"}

IsEngine(f) == /\ f = [x \in Fields |-> f[x]]
               /\ f.state \in EngineState /\ f.fault \in BOOLEAN
               /\ f.ignored \in Nat /\ f.interactions \in Nat /\ f.preference \in Modes
               /\ {f.deadline, f.nextInvitation, f.presentSince} \subseteq Int
               /\ {f.seenAt, f.absentSince, f.lastTouch, f.lastIdle, f.restUntil} \subseteq Int
               /\ {f.present, f.greetingPending} \subseteq BOOLEAN
               /\ f.hold \in Holds \cup {"unknown"}
               /\ f.invitations \in Seq(Int) /\ Len(f.invitations) <= InvitationBudget
               /\ f.proactive \in Seq(Int) /\ Len(f.proactive) <= ProactiveBudget

One(act) == << act >>
Decided  == {<< >>} \cup {One(act) : act \in Actions}

\* Two lists of times that count the same from t on, and a list that grew by
\* t while there was room.
Load(s, u) == Cardinality(Counting(s, Len(s), u))
Alike(s, q, t) == s \in Seq(Int) /\ q \in Seq(Int) /\ \A u \in Int : u >= t => Load(s, u) = Load(q, u)
Grown(s, q, t, budget) == \E p : Alike(p, q, t) /\ Len(p) < budget /\ s = Append(p, t)

Same(g, f) == g.ignored = f.ignored /\ g.nextInvitation = f.nextInvitation
Unmoved(g, f) == /\ g.fault = f.fault /\ g.state = f.state /\ Same(g, f) /\ g.deadline = f.deadline
                 /\ g.proactive = f.proactive /\ g.invitations = f.invitations
GaveUp(g, f, t) == /\ f.state = "inviting" /\ t >= f.deadline
                   /\ g.ignored = IF f.ignored < IgnoredCap THEN f.ignored + 1 ELSE IgnoredCap
                   /\ g.nextInvitation = t + Backoff(g.ignored)

\* What a call does to the engine f, by what it answers.
Rests(r, f, t) == /\ r.acts = << >>
                  /\ Alike(r.e.proactive, f.proactive, t) /\ Alike(r.e.invitations, f.invitations, t)
                  /\ r.e.state = "attending" => f.state = "attending"
                  /\ r.e.state = "inviting" => f.state = "inviting" /\ r.e.deadline = f.deadline
                  /\ Same(r.e, f) \/ GaveUp(r.e, f, t)
Greets(r, f, t) == /\ r.acts = One("greet") /\ r.e.state = "attending" /\ Same(r.e, f)
                   /\ f.presentSince # Never /\ t - f.presentSince >= ArrivalStability
                   /\ Grown(r.e.proactive, f.proactive, t, ProactiveBudget)
                   /\ Alike(r.e.invitations, f.invitations, t)
Invites(r, f, t) == /\ r.acts = One("invite") /\ r.e.state = "inviting"
                    /\ r.e.deadline = t + ResponseWindow /\ t >= f.nextInvitation
                    /\ r.e.ignored = f.ignored /\ r.e.nextInvitation = t + Backoff(f.ignored)
                    /\ Grown(r.e.proactive, f.proactive, t, ProactiveBudget)
                    /\ Grown(r.e.invitations, f.invitations, t, InvitationBudget)
Looks(r, f, t) == /\ r.acts = One("look_around") /\ r.e.state = "quiet" /\ Same(r.e, f)
                  /\ Grown(r.e.proactive, f.proactive, t, ProactiveBudget)
                  /\ Alike(r.e.invitations, f.invitations, t)
Answers(r, f, t) == /\ r.acts = One("acknowledge") /\ r.e.state = "interacting" /\ r.e.ignored = 0
                    /\ Alike(r.e.proactive, f.proactive, t) /\ Alike(r.e.invitations, f.invitations, t)

Moves(r, f, t) == /\ IsEngine(r.e) /\ r.e.presentSince = f.presentSince
                  /\ \/ Rests(r, f, t) \/ Greets(r, f, t) \/ Invites(r, f, t) \/ Looks(r, f, t)
                     \/ Answers(r, f, t)

\* The answer of an engine that was not halted and is not halted by it.
Fits(r, f, t) == Moves(r, f, t) /\ r.e.fault = f.fault /\ r.e.state \notin Halted

LEMMA EngineStates ==
  /\ Halted \subseteq EngineState
  /\ {"quiet", "resting", "attending", "inviting", "interacting"} = EngineState \ Halted
  BY DEF Halted, EngineState

LEMMA MovesDecides ==
  ASSUME NEW r, NEW f, NEW t, Moves(r, f, t)
  PROVE  r.acts \in Decided
  BY DEF Moves, Rests, Greets, Invites, Looks, Answers, Decided, Actions

LEMMA AlikeItself ==
  ASSUME NEW s \in Seq(Int), NEW t
  PROVE  Alike(s, s, t)
  BY DEF Alike

LEMMA AlikeTwice ==
  ASSUME NEW s, NEW q, NEW p, NEW t, Alike(s, q, t), Alike(q, p, t)
  PROVE  Alike(s, p, t)
  BY DEF Alike

LEMMA RecentIsAlike ==
  ASSUME NEW s \in Seq(Int), NEW t \in Int
  PROVE  /\ Recent(s, t) \in Seq(Int) /\ Alike(Recent(s, t), s, t)
         /\ Len(Recent(s, t)) <= Len(s)
  <1>1. Recent(s, t) \in Seq(Int) /\ Alike(Recent(s, t), s, t)
    BY RecentTrims DEF Alike, Load
  <1>2. PICK n \in Nat : n = Len(s)
    BY LenProperties
  <1>3. Counting(s, n, t) \subseteq 1 .. n
    BY DEF Counting
  <1>4. IsFiniteSet(1 .. n) /\ Cardinality(1 .. n) = n
    <2>1. 1 \in Int /\ n \in Int
      OBVIOUS
    <2>2. IsFiniteSet(1 .. n) /\ Cardinality(1 .. n) = IF 1 > n THEN 0 ELSE n - 1 + 1
      BY ONLY <2>1, FS_Interval
    <2>3. QED
      BY <2>2
  <1>5. Cardinality(Counting(s, n, t)) <= n
    BY <1>3, <1>4, FS_Subset
  <1>6. Len(Recent(s, t)) = Cardinality(Counting(s, n, t))
    BY <1>2, RecentTrims
  <1>7. QED
    BY <1>1, <1>2, <1>5, <1>6

LEMMA GrownByOne ==
  ASSUME NEW s, NEW q, NEW p, NEW t, NEW budget
  PROVE  /\ Alike(q, p, t) /\ Len(q) < budget => Grown(Append(q, t), p, t, budget)
         /\ Grown(s, q, t, budget) /\ Alike(q, p, t) => Grown(s, p, t, budget)
  <1>1. ASSUME Grown(s, q, t, budget), Alike(q, p, t) PROVE Grown(s, p, t, budget)
    <2>1. PICK z : Alike(z, q, t) /\ Len(z) < budget /\ s = Append(z, t)
      BY <1>1 DEF Grown
    <2>2. Alike(z, p, t)
      BY <1>1, <2>1, AlikeTwice
    <2>3. QED
      BY <2>1, <2>2 DEF Grown
  <1>2. QED
    BY <1>1 DEF Grown

LEMMA BackoffIsWhole ==
  ASSUME NEW n \in Nat
  PROVE  Backoff(n) \in Int
  <1>1. InvitationCooldown \in Int /\ MaxCooldown \in Int
    BY WindowsAssumption DEF WindowsAssumption, Windows
  <1>2. PICK k \in Int : k = 2 ^ n
    OBVIOUS
  <1>3. InvitationCooldown * k \in Int
    BY <1>1
  <1>4. QED
    BY <1>1, <1>2, <1>3 DEF Backoff

LEMMA Numbers ==
  /\ {ResponseWindow, InteractionWindow, InvitationCooldown, ArrivalStability, GreetingWindow,
      BudgetWindow, RestWindow, Never} \subseteq Int
  /\ IgnoredCap \in Nat /\ ProactiveBudget \in Nat /\ InvitationBudget \in Nat
  BY WindowsAssumption, NeverAssumption, BoundsAssumption
     DEF WindowsAssumption, NeverAssumption, BoundsAssumption, Windows

LEMMA RecentFits ==
  ASSUME NEW s \in Seq(Int), NEW t \in Int, NEW budget \in Nat, Len(s) <= budget
  PROVE  /\ Recent(s, t) \in Seq(Int) /\ Alike(Recent(s, t), s, t)
         /\ Len(Recent(s, t)) <= budget
  <1>1. /\ Recent(s, t) \in Seq(Int) /\ Alike(Recent(s, t), s, t)
        /\ Len(Recent(s, t)) <= Len(s)
    BY RecentIsAlike
  <1>2. Len(s) \in Nat /\ Len(Recent(s, t)) \in Nat
    BY <1>1, LenProperties
  <1>3. QED
    BY <1>1, <1>2

\* A call that only moves the state, to one that it does not wait in.
LEMMA StateMoves ==
  ASSUME NEW f, IsEngine(f), NEW t, NEW g, NEW state \in EngineState \ {"attending", "inviting"},
         g = [f EXCEPT !.state = state]
  PROVE  /\ Moves(Silent(g), f, t) /\ g.fault = f.fault /\ g.state = state
         /\ g.proactive = f.proactive /\ g.presentSince = f.presentSince
         /\ g.invitations = f.invitations /\ Same(g, f) /\ g.deadline = f.deadline
         /\ g.greetingPending = f.greetingPending
  <1>1. /\ IsEngine(g) /\ g.fault = f.fault /\ g.state = state
        /\ g.proactive = f.proactive /\ g.presentSince = f.presentSince
        /\ g.invitations = f.invitations /\ Same(g, f) /\ g.deadline = f.deadline
        /\ g.greetingPending = f.greetingPending
    BY DEF IsEngine, Fields, Same
  <1>2. Alike(f.proactive, f.proactive, t) /\ Alike(f.invitations, f.invitations, t)
    BY AlikeItself DEF IsEngine
  <1>3. QED
    BY <1>1, <1>2 DEF Moves, Rests, Silent

LEMMA StillMoves ==
  ASSUME NEW f, IsEngine(f), NEW t
  PROVE  Moves(Silent(f), f, t)
  <1>1. Alike(f.proactive, f.proactive, t) /\ Alike(f.invitations, f.invitations, t)
    BY AlikeItself DEF IsEngine
  <1>2. QED
    BY <1>1 DEF Moves, Rests, Silent, Same

LEMMA SettleFits ==
  ASSUME NEW f, IsEngine(f), NEW t
  PROVE  Fits(Silent(Settle(f)), f, t)
  <1>1. PICK s \in {"resting", "quiet"} : Settle(f) = [f EXCEPT !.state = s]
    BY DEF Settle
  <1>2. s \in EngineState \ {"attending", "inviting"} /\ s \notin Halted
    BY <1>1, EngineStates
  <1>3. QED
    BY <1>1, <1>2, StateMoves DEF Fits, Silent

LEMMA QuietFits ==
  ASSUME NEW f, IsEngine(f), NEW t
  PROVE  Fits(Silent([f EXCEPT !.state = "quiet"]), f, t)
  <1>1. PICK g : g = [f EXCEPT !.state = "quiet"]
    OBVIOUS
  <1>2. "quiet" \in EngineState \ {"attending", "inviting"} /\ "quiet" \notin Halted
    BY EngineStates
  <1>3. Moves(Silent(g), f, t) /\ g.fault = f.fault /\ g.state = "quiet"
    BY <1>1, <1>2, StateMoves
  <1>4. QED
    BY <1>1, <1>2, <1>3 DEF Fits, Silent

\* What a call makes of f holds of an engine that waits for less.
LEMMA MovesFrom ==
  ASSUME NEW r, NEW g, NEW f, NEW t, Moves(r, g, t), g.presentSince = f.presentSince, Same(g, f),
         g.state = "attending" => f.state = "attending",
         g.state = "inviting" => f.state = "inviting" /\ g.deadline = f.deadline,
         Alike(g.proactive, f.proactive, t), Alike(g.invitations, f.invitations, t)
  PROVE  Moves(r, f, t)
  <1>1. CASE Rests(r, g, t)
    <2>1. Rests(r, f, t)
      BY <1>1, AlikeTwice DEF Rests, Same, GaveUp
    <2>2. QED
      BY <2>1 DEF Moves
  <1>2. CASE Greets(r, g, t)
    <2>1. Greets(r, f, t)
      BY <1>2, AlikeTwice, GrownByOne DEF Greets, Same
    <2>2. QED
      BY <2>1 DEF Moves
  <1>3. CASE Invites(r, g, t)
    <2>1. Invites(r, f, t)
      BY <1>3, GrownByOne DEF Invites, Same
    <2>2. QED
      BY <2>1 DEF Moves
  <1>4. CASE Looks(r, g, t)
    <2>1. Looks(r, f, t)
      BY <1>4, AlikeTwice, GrownByOne DEF Looks, Same
    <2>2. QED
      BY <2>1 DEF Moves
  <1>5. CASE Answers(r, g, t)
    <2>1. Answers(r, f, t)
      BY <1>5, AlikeTwice DEF Answers
    <2>2. QED
      BY <2>1 DEF Moves
  <1>6. QED
    BY <1>1, <1>2, <1>3, <1>4, <1>5 DEF Moves

\* What choosing an action does, whatever the action.
Chosen(r, g, act, state, t) ==
  /\ IsEngine(r.e) /\ r.acts = One(act) /\ r.e.state = state
  /\ r.e.fault = g.fault /\ Same(r.e, g) /\ r.e.deadline = g.deadline
  /\ r.e.presentSince = g.presentSince /\ r.e.invitations = g.invitations
  /\ r.e.proactive = IF act = "acknowledge" THEN g.proactive ELSE Append(g.proactive, t)

LEMMA ChooseMakes ==
  ASSUME NEW g, IsEngine(g), NEW act, NEW state \in EngineState, NEW t \in Int,
         act = "acknowledge" \/ Len(g.proactive) < ProactiveBudget
  PROVE  Chosen(Choose(g, act, state, t), g, act, state, t)
  <1> DEFINE r == Choose(g, act, state, t)
  <1>1. PICK p \in Seq(Int) : /\ p = IF act = "acknowledge" THEN g.proactive ELSE Append(g.proactive, t)
                              /\ Len(p) <= ProactiveBudget
    <2>1. /\ g.proactive \in Seq(Int) /\ Append(g.proactive, t) \in Seq(Int)
          /\ Len(g.proactive) \in Nat /\ Len(Append(g.proactive, t)) = Len(g.proactive) + 1
          /\ Len(g.proactive) <= ProactiveBudget
      BY DEF IsEngine
    <2>2. CASE act = "acknowledge"
      BY <2>1, <2>2
    <2>3. CASE act # "acknowledge"
      <3>1. Len(g.proactive) < ProactiveBudget
        BY <2>3
      <3>2. Len(Append(g.proactive, t)) <= ProactiveBudget
        BY <2>1, <3>1, Numbers
      <3>3. QED
        BY <2>1, <2>3, <3>2
    <2>4. QED
      BY <2>2, <2>3
  <1>2. PICK h : h = [[[g EXCEPT !.state = state] EXCEPT !.lastIdle = t] EXCEPT !.proactive = p]
    OBVIOUS
  <1>3. r.e = h /\ r.acts = One(act)
    BY <1>1, <1>2 DEF Choose, IsEngine, Fields, One
  <1>4. /\ IsEngine(h) /\ h.state = state /\ h.fault = g.fault /\ Same(h, g)
        /\ h.deadline = g.deadline /\ h.presentSince = g.presentSince
        /\ h.invitations = g.invitations /\ h.proactive = p
    BY <1>1, <1>2 DEF IsEngine, Fields, Same
  <1> HIDE DEF r
  <1>5. Chosen(r, g, act, state, t)
    BY <1>1, <1>3, <1>4 DEF Chosen
  <1>6. QED
    BY <1>5 DEF r

LEMMA IdleFits ==
  ASSUME NEW f, IsEngine(f), NEW t \in Int, NEW d
  PROVE  Fits(Idle(f, t, d), f, t)
  <1> DEFINE g == [f EXCEPT !.invitations = Recent(f.invitations, t)]
             h == [g EXCEPT !.deadline = t + ResponseWindow,
                            !.nextInvitation = t + Backoff(g.ignored),
                            !.invitations = Append(g.invitations, t)]
  <1>1. /\ IsEngine(g) /\ g.fault = f.fault /\ Same(g, f) /\ g.state = f.state
        /\ g.deadline = f.deadline /\ g.presentSince = f.presentSince /\ g.proactive = f.proactive
        /\ Alike(g.invitations, f.invitations, t) /\ Alike(g.proactive, f.proactive, t)
    <2>1. PICK q \in Seq(Int) : /\ q = Recent(f.invitations, t) /\ Alike(q, f.invitations, t)
                                /\ Len(q) <= InvitationBudget
      BY RecentFits, Numbers DEF IsEngine
    <2>2. g = [f EXCEPT !.invitations = q]
      BY <2>1
    <2> HIDE DEF g
    <2>3. /\ IsEngine(g) /\ g.fault = f.fault /\ Same(g, f) /\ g.state = f.state
          /\ g.deadline = f.deadline /\ g.presentSince = f.presentSince /\ g.proactive = f.proactive
          /\ g.invitations = q
      BY <2>1, <2>2 DEF IsEngine, Fields, Same
    <2>4. QED
      BY <2>1, <2>3, AlikeItself DEF IsEngine
  <1>2. Fits(Silent([g EXCEPT !.state = "quiet"]), f, t)
    <2> HIDE DEF g
    <2>1. PICK r : r = Silent([g EXCEPT !.state = "quiet"])
      OBVIOUS
    <2>2. Fits(r, g, t)
      BY <1>1, <2>1, QuietFits
    <2>3. Moves(r, f, t)
      BY <1>1, <2>2, MovesFrom DEF Fits
    <2>4. QED
      BY <1>1, <2>1, <2>2, <2>3 DEF Fits
  <1>3. ASSUME Len(g.proactive) < ProactiveBudget
        PROVE  Fits(Choose(g, "look_around", "quiet", t), f, t)
    <2> HIDE DEF g
    <2>1. PICK r : r = Choose(g, "look_around", "quiet", t)
      OBVIOUS
    <2>2. /\ IsEngine(r.e) /\ r.acts = One("look_around") /\ r.e.state = "quiet"
          /\ r.e.fault = g.fault /\ Same(r.e, g)
          /\ r.e.presentSince = g.presentSince /\ r.e.invitations = g.invitations
          /\ r.e.proactive = Append(g.proactive, t)
      <3>1. "quiet" \in EngineState
        BY EngineStates
      <3>2. Chosen(r, g, "look_around", "quiet", t)
        BY <1>1, <1>3, <2>1, <3>1, ChooseMakes
      <3>3. QED
        BY <3>2 DEF Chosen
    <2>3. Grown(r.e.proactive, f.proactive, t, ProactiveBudget)
      BY <1>1, <1>3, <2>2, GrownByOne
    <2>4. Looks(r, f, t)
      BY <1>1, <2>2, <2>3 DEF Looks, Same
    <2>5. QED
      BY <1>1, <2>1, <2>2, <2>4, EngineStates DEF Fits, Moves
  <1>4. ASSUME Len(g.proactive) < ProactiveBudget, t >= g.nextInvitation,
               Len(g.invitations) < InvitationBudget
        PROVE  Fits(Choose(h, "invite", "inviting", t), f, t)
    <2>1. PICK w \in Int : w = t + ResponseWindow
      BY Numbers
    <2>2. PICK n \in Int : n = t + Backoff(g.ignored)
      <3>1. Backoff(g.ignored) \in Int
        BY <1>1, BackoffIsWhole DEF IsEngine
      <3>2. QED
        BY <3>1
    <2>3. PICK q \in Seq(Int) : q = Append(g.invitations, t) /\ Len(q) <= InvitationBudget
      <3>1. g.invitations \in Seq(Int)
        BY <1>1 DEF IsEngine
      <3>2. /\ Append(g.invitations, t) \in Seq(Int)
            /\ Len(Append(g.invitations, t)) <= InvitationBudget
        BY <1>4, <3>1, Numbers
      <3>3. QED
        BY <3>2
    <2> HIDE DEF g
    <2>4. h = [[[g EXCEPT !.deadline = w] EXCEPT !.nextInvitation = n] EXCEPT !.invitations = q]
      BY <1>1, <2>1, <2>2, <2>3 DEF IsEngine, Fields
    <2> HIDE DEF h
    <2>5. /\ IsEngine(h) /\ h.fault = g.fault /\ h.ignored = g.ignored /\ h.nextInvitation = n
          /\ h.deadline = w /\ h.presentSince = g.presentSince /\ h.invitations = q
          /\ h.proactive = g.proactive
      BY <1>1, <2>3, <2>4 DEF IsEngine, Fields
    <2>6. PICK r : r = Choose(h, "invite", "inviting", t)
      OBVIOUS
    <2>7. /\ IsEngine(r.e) /\ r.acts = One("invite") /\ r.e.state = "inviting"
          /\ r.e.fault = h.fault /\ Same(r.e, h) /\ r.e.deadline = h.deadline
          /\ r.e.presentSince = h.presentSince /\ r.e.invitations = h.invitations
          /\ r.e.proactive = Append(h.proactive, t)
      <3>1. "inviting" \in EngineState
        BY EngineStates
      <3>2. Chosen(r, h, "invite", "inviting", t)
        BY <1>4, <2>5, <2>6, <3>1, ChooseMakes
      <3>3. QED
        BY <3>2 DEF Chosen
    <2>8. /\ Grown(r.e.proactive, f.proactive, t, ProactiveBudget)
          /\ Grown(r.e.invitations, f.invitations, t, InvitationBudget)
      BY <1>1, <1>4, <2>3, <2>5, <2>7, GrownByOne
    <2>9. Invites(r, f, t)
      BY <1>1, <1>4, <2>1, <2>2, <2>5, <2>7, <2>8 DEF Invites, Same
    <2>10. QED
      BY <1>1, <2>5, <2>6, <2>7, <2>9, EngineStates DEF Fits, Moves
  <1>5. \/ Idle(f, t, d) = Silent([g EXCEPT !.state = "quiet"])
        \/ /\ Idle(f, t, d) = Choose(g, "look_around", "quiet", t)
           /\ Len(g.proactive) < ProactiveBudget
        \/ /\ Idle(f, t, d) = Choose(h, "invite", "inviting", t)
           /\ Len(g.proactive) < ProactiveBudget /\ t >= g.nextInvitation
           /\ Len(g.invitations) < InvitationBudget
    BY DEF Idle
  <1> HIDE DEF g, h
  <1>6. QED
    BY <1>2, <1>3, <1>4, <1>5

LEMMA AwaitingFits ==
  ASSUME NEW f, IsEngine(f), f.state \notin Halted, NEW t \in Int, NEW d
  PROVE  Fits(Awaiting(f, t, d), f, t)
  <1>1. ASSUME f.state = "inviting", ~(t < f.deadline)
        PROVE  Fits(Silent(Ignored(f, t)), f, t)
    <2>1. PICK n \in Nat : n = IF f.ignored < IgnoredCap THEN f.ignored + 1 ELSE IgnoredCap
      <3>1. f.ignored \in Nat
        BY DEF IsEngine
      <3>2. QED
        BY <3>1, Numbers
    <2>2. PICK b \in Int : b = t + Backoff(n)
      <3>1. Backoff(n) \in Int
        BY <2>1, BackoffIsWhole
      <3>2. QED
        BY <3>1
    <2>3. PICK g : g = Ignored(f, t)
      OBVIOUS
    <2>4. g = [[[f EXCEPT !.ignored = n] EXCEPT !.nextInvitation = b] EXCEPT !.state = "quiet"]
      BY <2>1, <2>2, <2>3 DEF Ignored, IsEngine, Fields
    <2>5. /\ IsEngine(g) /\ g.fault = f.fault /\ g.state = "quiet" /\ g.ignored = n
          /\ g.nextInvitation = b /\ g.presentSince = f.presentSince
          /\ g.proactive = f.proactive /\ g.invitations = f.invitations
      BY <2>1, <2>2, <2>4, EngineStates DEF IsEngine, Fields
    <2>6. Alike(f.proactive, f.proactive, t) /\ Alike(f.invitations, f.invitations, t)
      BY AlikeItself DEF IsEngine
    <2>7. t >= f.deadline
      BY <1>1 DEF IsEngine
    <2>8. Rests(Silent(g), f, t)
      BY <1>1, <2>1, <2>2, <2>5, <2>6, <2>7 DEF Rests, Silent, GaveUp
    <2>9. QED
      BY <2>3, <2>5, <2>8, EngineStates DEF Fits, Moves, Silent
  <1>2. Fits(Silent(f), f, t)
    BY StillMoves DEF Fits, Silent
  <1>3. \/ Awaiting(f, t, d) \in {Idle(f, t, d), Silent(f), Silent([f EXCEPT !.state = "quiet"])}
        \/ Awaiting(f, t, d) = Silent(Ignored(f, t)) /\ f.state = "inviting" /\ ~(t < f.deadline)
    <2>1. CASE f.state \notin {"inviting", "interacting"} \/ t < f.deadline
      BY <2>1 DEF Awaiting
    <2>2. CASE f.state = "inviting" /\ ~(t < f.deadline)
      BY <2>2 DEF Awaiting
    <2>3. CASE f.state = "interacting" /\ ~(t < f.deadline)
      BY <2>3 DEF Awaiting
    <2>4. QED
      BY <2>1, <2>2, <2>3
  <1>4. QED
    BY <1>1, <1>2, <1>3, IdleFits, QuietFits

LEMMA GreetingFits ==
  ASSUME NEW f, IsEngine(f), f.state \notin Halted, NEW t \in Int, NEW d
  PROVE  Fits(Greeting(f, t, d), f, t)
  <1> DEFINE g == [f EXCEPT !.greetingPending = FALSE, !.deadline = t + GreetingWindow]
  <1>1. ASSUME Len(f.proactive) < ProactiveBudget, f.presentSince # Never,
               t - f.presentSince >= ArrivalStability
        PROVE  Fits(Choose(g, "greet", "attending", t), f, t)
    <2>1. PICK w \in Int : w = t + GreetingWindow
      BY Numbers
    <2>2. g = [[f EXCEPT !.greetingPending = FALSE] EXCEPT !.deadline = w]
      BY <2>1 DEF IsEngine, Fields
    <2> HIDE DEF g
    <2>3. /\ IsEngine(g) /\ g.fault = f.fault /\ Same(g, f) /\ g.presentSince = f.presentSince
          /\ g.invitations = f.invitations /\ g.proactive = f.proactive
      BY <2>2 DEF IsEngine, Fields, Same
    <2>4. PICK r : r = Choose(g, "greet", "attending", t)
      OBVIOUS
    <2>5. /\ IsEngine(r.e) /\ r.acts = One("greet") /\ r.e.state = "attending"
          /\ r.e.fault = g.fault /\ Same(r.e, g)
          /\ r.e.presentSince = g.presentSince /\ r.e.invitations = g.invitations
          /\ r.e.proactive = Append(g.proactive, t)
      <3>1. "attending" \in EngineState
        BY EngineStates
      <3>2. Chosen(r, g, "greet", "attending", t)
        BY <1>1, <2>3, <2>4, <3>1, ChooseMakes
      <3>3. QED
        BY <3>2 DEF Chosen
    <2>6. Alike(f.proactive, f.proactive, t) /\ Alike(f.invitations, f.invitations, t)
      BY AlikeItself DEF IsEngine
    <2>7. Grown(r.e.proactive, f.proactive, t, ProactiveBudget)
      BY <1>1, <2>3, <2>5, <2>6, GrownByOne
    <2>8. Greets(r, f, t)
      BY <1>1, <2>3, <2>5, <2>6, <2>7 DEF Greets, Same
    <2>9. QED
      BY <2>3, <2>4, <2>5, <2>8, EngineStates DEF Fits, Moves
  <1>2. \/ Greeting(f, t, d) \in {Awaiting(f, t, d), Silent([f EXCEPT !.state = "quiet"])}
        \/ /\ Greeting(f, t, d) = Choose(g, "greet", "attending", t)
           /\ Len(f.proactive) < ProactiveBudget /\ f.presentSince # Never
           /\ t - f.presentSince >= ArrivalStability
    <2>1. Len(f.proactive) \in Int /\ f.presentSince \in Int /\ ProactiveBudget \in Int
          /\ ArrivalStability \in Int
      BY Numbers DEF IsEngine
    <2>2. QED
      BY <2>1 DEF Greeting
  <1> HIDE DEF g
  <1>3. QED
    BY <1>1, <1>2, AwaitingFits, QuietFits

\* tick() of a running engine; a halted one does not move.
LEMMA TickFits ==
  ASSUME NEW f, IsEngine(f), NEW t \in Int, NEW d
  PROVE  /\ f.state \in Halted => Tick(f, t, d) = Silent(f)
         /\ f.state \notin Halted => Fits(Tick(f, t, d), f, t)
  <1>1. f.state \in Halted => Tick(f, t, d) = Silent(f)
    BY DEF Tick
  <1> SUFFICES ASSUME f.state \notin Halted PROVE Fits(Tick(f, t, d), f, t)
    BY <1>1
  <1> DEFINE g == [f EXCEPT !.state = IF f.state = "attending" THEN "quiet" ELSE f.state,
                            !.proactive = Recent(f.proactive, t)]
             h == [f EXCEPT !.restUntil = t + RestWindow, !.state = "resting"]
  <1>2. Fits(Silent(h), f, t)
    <2>1. PICK w \in Int : w = t + RestWindow
      BY Numbers
    <2>2. h = [[f EXCEPT !.restUntil = w] EXCEPT !.state = "resting"]
      BY <2>1 DEF IsEngine, Fields
    <2> HIDE DEF h
    <2>3. /\ IsEngine(h) /\ h.fault = f.fault /\ h.state = "resting" /\ Same(h, f)
          /\ h.presentSince = f.presentSince /\ h.proactive = f.proactive
          /\ h.invitations = f.invitations
      BY <2>2, EngineStates DEF IsEngine, Fields, Same
    <2>4. Alike(f.proactive, f.proactive, t) /\ Alike(f.invitations, f.invitations, t)
      BY AlikeItself DEF IsEngine
    <2>5. QED
      BY <2>3, <2>4, EngineStates DEF Fits, Moves, Rests, Silent
  <1>3. Fits(Greeting(g, t, d), f, t)
    <2>1. PICK s : s = IF f.state = "attending" THEN "quiet" ELSE f.state
      OBVIOUS
    <2>2. s \in EngineState \ Halted /\ s # "attending" /\ (s = "inviting" => f.state = "inviting")
      BY <2>1, EngineStates DEF IsEngine
    <2>3. PICK p \in Seq(Int) : /\ p = Recent(f.proactive, t) /\ Alike(p, f.proactive, t)
                                /\ Len(p) <= ProactiveBudget
      BY RecentFits, Numbers DEF IsEngine
    <2>4. g = [[f EXCEPT !.state = s] EXCEPT !.proactive = p]
      BY <2>1, <2>3 DEF IsEngine, Fields
    <2> HIDE DEF g
    <2>5. /\ IsEngine(g) /\ g.fault = f.fault /\ g.state = s /\ Same(g, f) /\ g.deadline = f.deadline
          /\ g.presentSince = f.presentSince /\ g.proactive = p /\ g.invitations = f.invitations
      BY <2>2, <2>3, <2>4 DEF IsEngine, Fields, Same
    <2>6. PICK r : r = Greeting(g, t, d)
      OBVIOUS
    <2>7. Fits(r, g, t)
      BY <2>2, <2>5, <2>6, GreetingFits
    <2>8. Alike(f.invitations, f.invitations, t)
      BY AlikeItself DEF IsEngine
    <2>9. Moves(r, f, t)
      BY <2>2, <2>3, <2>5, <2>7, <2>8, MovesFrom DEF Fits
    <2>10. QED
      BY <2>5, <2>6, <2>7, <2>9 DEF Fits
  <1>4. Fits(Silent(f), f, t)
    BY StillMoves DEF Fits, Silent
  <1>5. Tick(f, t, d) \in {Silent(f), Silent(Settle(f)), Silent(h), Greeting(g, t, d)}
    BY DEF Tick, IsEngine
  <1> HIDE DEF g, h
  <1>6. QED
    BY <1>2, <1>3, <1>4, <1>5, SettleFits


Dated(f, t, obs, since, pending, absent) ==
  [f EXCEPT !.present = obs.present, !.hold = obs.hold, !.seenAt = t,
            !.presentSince = since, !.greetingPending = pending, !.absentSince = absent]

LEMMA ObserveFits ==
  ASSUME NEW f, IsEngine(f), NEW t \in Int, NEW obs \in Observation, NEW g, g = Observe(f, t, obs)
  PROVE  /\ IsEngine(g) /\ g.fault = f.fault /\ g.state = f.state /\ Same(g, f)
         /\ g.deadline = f.deadline /\ g.proactive = f.proactive /\ g.invitations = f.invitations
         /\ g.present = obs.present /\ g.seenAt = t
         /\ obs.present => g.presentSince \in {f.presentSince, t}
         /\ ~obs.present => g.presentSince = Never
  <1>1. PICK s, b, c : /\ s \in Int /\ b \in BOOLEAN /\ c \in Int
                       /\ obs.present => s \in {f.presentSince, t}
                       /\ ~obs.present => s = Never
                       /\ g = Dated(f, t, obs, s, b, c)
    <2> DEFINE seen == [f EXCEPT !.present = obs.present, !.hold = obs.hold, !.seenAt = t]
    <2>1. f.presentSince \in Int /\ f.absentSince \in Int /\ Never \in Int
      BY Numbers DEF IsEngine
    <2>2. CASE obs.present
      <3>1. PICK s \in Int : s = IF f.present THEN f.presentSince ELSE t
        BY <2>1
      <3>2. PICK b \in BOOLEAN : b = (f.greetingPending \/ Rearmed(f, t))
        OBVIOUS
      <3>3. g = [seen EXCEPT !.presentSince = s, !.greetingPending = b, !.absentSince = Never]
        BY <2>2, <3>1, <3>2 DEF Observe, IsEngine, Fields
      <3>4. g = Dated(f, t, obs, s, b, Never)
        BY <3>3 DEF Dated, IsEngine, Fields
      <3>5. s \in {f.presentSince, t}
        BY <3>1
      <3>6. QED
        BY <2>1, <2>2, <3>4, <3>5
    <2>3. CASE ~obs.present
      <3>1. PICK c \in Int : c = IF f.absentSince = Never THEN t ELSE f.absentSince
        BY <2>1
      <3>2. g = [seen EXCEPT !.presentSince = Never, !.absentSince = c]
        BY <2>3, <3>1 DEF Observe, IsEngine, Fields
      <3>3. PICK b \in BOOLEAN : b = f.greetingPending
        BY DEF IsEngine
      <3>4. g = Dated(f, t, obs, Never, b, c)
        BY <3>2, <3>3 DEF Dated, IsEngine, Fields
      <3>5. QED
        BY <2>1, <2>3, <3>4
    <2>4. QED
      BY <2>2, <2>3
  <1>2. PICK y \in BOOLEAN, z \in Holds : y = obs.present /\ z = obs.hold
    BY DEF Observation
  <1>3. g = [f EXCEPT !.present = y, !.hold = z, !.seenAt = t,
                      !.presentSince = s, !.greetingPending = b, !.absentSince = c]
    BY <1>1, <1>2 DEF Dated
  <1>4. /\ IsEngine(g) /\ g.fault = f.fault /\ g.state = f.state /\ Same(g, f)
        /\ g.deadline = f.deadline /\ g.proactive = f.proactive /\ g.invitations = f.invitations
        /\ g.present = y /\ g.seenAt = t /\ g.presentSince = s
    <2>1. PICK n \in Int, o \in BOOLEAN, m \in Int : n = s /\ o = b /\ m = c
      BY <1>1
    <2>2. g = [f EXCEPT !.present = y, !.hold = z, !.seenAt = t,
                        !.presentSince = n, !.greetingPending = o, !.absentSince = m]
      BY <1>3, <2>1
    <2>3. PICK h : h = [f EXCEPT !.present = y, !.hold = z, !.seenAt = t]
      OBVIOUS
    <2>4. /\ IsEngine(h) /\ Unmoved(h, f) /\ h.present = y /\ h.seenAt = t
      BY <1>2, <2>3 DEF IsEngine, Fields, Unmoved, Same
    <2>5. PICK k : k = [h EXCEPT !.presentSince = n, !.absentSince = m]
      OBVIOUS
    <2>6. /\ IsEngine(k) /\ Unmoved(k, h) /\ k.present = h.present /\ k.seenAt = h.seenAt
          /\ k.presentSince = n
      BY <2>1, <2>4, <2>5 DEF IsEngine, Fields, Unmoved, Same
    <2>7. g = [k EXCEPT !.greetingPending = o]
      BY <2>2, <2>3, <2>5 DEF IsEngine, Fields
    <2>8. IsEngine(k) /\ o \in BOOLEAN
      BY <2>1, <2>6
    <2>9. IsEngine(g)
      BY ONLY <2>7, <2>8 DEF IsEngine, Fields
    <2>10. /\ Unmoved(g, k) /\ g.present = k.present /\ g.seenAt = k.seenAt
           /\ g.presentSince = k.presentSince
      BY ONLY <2>7, <2>8 DEF IsEngine, Fields, Unmoved, Same
    <2>11. Unmoved(g, f) /\ g.present = y /\ g.seenAt = t /\ g.presentSince = s
      BY <2>1, <2>4, <2>6, <2>10 DEF Unmoved, Same
    <2>12. QED
      BY <2>9, <2>11 DEF Unmoved
  <1>5. QED
    BY <1>1, <1>2, <1>4

LEMMA AnswerFits ==
  ASSUME NEW f, IsEngine(f), f.state \notin Halted, NEW t \in Int, NEW kind, NEW d
  PROVE  Fits(Answer(f, t, kind, d), f, t)
  <1> DEFINE g == [f EXCEPT !.interactions = f.interactions + 1, !.ignored = 0, !.lastTouch = t,
                            !.greetingPending = FALSE,
                            !.deadline = t + InteractionWindow,
                            !.nextInvitation = t + InvitationCooldown]
  <1>1. /\ IsEngine(g) /\ g.fault = f.fault /\ g.ignored = 0 /\ g.presentSince = f.presentSince
        /\ g.proactive = f.proactive /\ g.invitations = f.invitations
    <2>1. PICK n \in Nat : n = f.interactions + 1
      <3>1. f.interactions \in Nat
        BY DEF IsEngine
      <3>2. QED
        BY <3>1
    <2>2. PICK w \in Int, c \in Int : w = t + InteractionWindow /\ c = t + InvitationCooldown
      BY Numbers
    <2>3. g = [f EXCEPT !.interactions = n, !.ignored = 0, !.lastTouch = t,
                        !.greetingPending = FALSE, !.deadline = w, !.nextInvitation = c]
      BY <2>1, <2>2
    <2> HIDE DEF g
    <2>4. PICK no \in BOOLEAN : no = FALSE
      OBVIOUS
    <2>5. PICK h : h = [f EXCEPT !.interactions = n, !.ignored = 0, !.lastTouch = t,
                                 !.deadline = w, !.nextInvitation = c]
      OBVIOUS
    <2>6. /\ IsEngine(h) /\ h.fault = f.fault /\ h.ignored = 0 /\ h.presentSince = f.presentSince
          /\ h.proactive = f.proactive /\ h.invitations = f.invitations
      BY <2>1, <2>2, <2>5 DEF IsEngine, Fields
    <2>7. g = [h EXCEPT !.greetingPending = no]
      BY <2>3, <2>4, <2>5 DEF IsEngine, Fields
    <2>8. IsEngine(h) /\ no \in BOOLEAN
      BY <2>4, <2>6
    <2>9. /\ IsEngine(g) /\ g.fault = h.fault /\ g.ignored = h.ignored
          /\ g.presentSince = h.presentSince /\ g.proactive = h.proactive
          /\ g.invitations = h.invitations
      BY ONLY <2>7, <2>8 DEF IsEngine, Fields
    <2>10. QED
      BY <2>6, <2>9
  <1>2. Fits(Choose(g, "acknowledge", "interacting", t), f, t)
    <2> HIDE DEF g
    <2>1. PICK r : r = Choose(g, "acknowledge", "interacting", t)
      OBVIOUS
    <2>2. "interacting" \in EngineState
      BY EngineStates
    <2>3. Chosen(r, g, "acknowledge", "interacting", t)
      BY <1>1, <2>1, <2>2, ChooseMakes
    <2>4. Alike(f.proactive, f.proactive, t) /\ Alike(f.invitations, f.invitations, t)
      BY AlikeItself DEF IsEngine
    <2>5. Answers(r, f, t)
      BY <1>1, <2>3, <2>4 DEF Answers, Chosen, Same
    <2>6. QED
      BY <1>1, <2>1, <2>3, <2>5, EngineStates DEF Fits, Moves, Chosen
  <1>3. Answer(f, t, kind, d) \in {Silent(f), Tick(f, t, d), Choose(g, "acknowledge", "interacting", t)}
    BY DEF Answer
  <1>4. Fits(Silent(f), f, t)
    BY StillMoves DEF Fits, Silent
  <1> HIDE DEF g
  <1>5. QED
    BY <1>2, <1>3, <1>4, TickFits

LEMMA ActFits ==
  ASSUME NEW f, IsEngine(f), NEW t \in Int, NEW kind, NEW d
  PROVE  /\ Moves(Act(f, t, kind, d), f, t)
         /\ f.state \in Halted => Act(f, t, kind, d) = Silent(f)
         /\ f.state \notin Halted => Fits(Act(f, t, kind, d), f, t)
  <1>1. CASE f.state \in Halted
    BY <1>1, StillMoves DEF Act
  <1>2. CASE f.state \notin Halted
    <2>1. Act(f, t, kind, d) \in {Silent(Settle(f)), Answer(f, t, kind, d), Tick(f, t, d)}
      BY <1>2 DEF Act
    <2>2. QED
      BY <1>2, <2>1, SettleFits, AnswerFits, TickFits DEF Fits
  <1>3. QED
    BY <1>1, <1>2

Sensed == {"observation", "tick", "touch", "respond"}
Ordered == {"start", "pause", "reset_fault", "preference"}
Legal(ev) ==
  \/ \E kind \in {"start", "pause", "reset_fault", "failure", "tick", "touch", "respond"}, mode \in Modes :
       ev = Control(kind, mode)
  \/ \E mode \in Modes : ev = Control("preference", mode)
  \/ \E obs \in Observation : ev = Sample(obs)

\* What one event does to the engine; an observation is first taken in.
LEMMA EventMoves ==
  ASSUME NEW f, IsEngine(f), NEW t \in Int, NEW d, NEW ev, Legal(ev), NEW r, r = Event(f, t, ev, d)
  PROVE  /\ IsEngine(r.e) /\ r.acts \in Decided /\ ev.kind \in Sensed \cup Ordered \cup {"failure"}
         /\ ev.kind # "observation" => Moves(r, f, t)
         /\ ev.kind = "observation" => Moves(r, Observe(f, t, ev.obs), t)
         /\ ev.kind \in Interrupts \ {"touch"} => r.acts = << >>
         /\ ev.kind \in Sensed =>
              /\ r.e.fault = f.fault /\ (r.e.state \in Halted <=> f.state \in Halted)
              /\ f.state \in Halted => r.acts = << >>
         /\ ev.kind = "preference" =>
              r.e.fault = f.fault /\ (r.e.state \in Halted <=> f.state \in Halted)
         /\ ev.kind = "pause" => r.e.fault = f.fault /\ r.e.state = "paused"
         /\ ev.kind = "reset_fault" => r.e.state = "paused"
         /\ ev.kind = "failure" => r.e.fault /\ r.e.state = "fault"
         /\ ev.kind = "start" =>
              /\ r.e.fault = f.fault
              /\ f.fault \/ f.state # "paused" => r.e = f /\ r.acts = << >>
  <1>0. /\ Halted = {"paused", "fault"} /\ Halted \subseteq EngineState \ {"attending", "inviting"}
        /\ Alike(f.proactive, f.proactive, t) /\ Alike(f.invitations, f.invitations, t)
    BY AlikeItself DEF IsEngine, Halted, EngineState
  <1>1. ASSUME NEW mode \in Modes, ev = Control("preference", mode)
        PROVE  /\ r.acts = << >> /\ Moves(r, f, t) /\ r.e.fault = f.fault
               /\ r.e.state \in Halted <=> f.state \in Halted
    <2>1. PICK s : s = IF f.state \in Halted THEN f.state ELSE IF mode = "rest" THEN "resting" ELSE "quiet"
      OBVIOUS
    <2>2. /\ s \in EngineState /\ s \notin {"attending", "inviting"}
          /\ (s \in Halted <=> f.state \in Halted)
      BY <2>1, EngineStates, <1>0 DEF IsEngine
    <2>3. r = Silent([f EXCEPT !.preference = mode, !.state = s])
      BY <1>1, <2>1 DEF Event, Control
    <2>4. PICK g : g = [[f EXCEPT !.preference = mode] EXCEPT !.state = s]
      OBVIOUS
    <2>5. r.acts = << >> /\ r.e = g
      BY <2>3, <2>4 DEF Silent
    <2>6. /\ IsEngine(g) /\ g.fault = f.fault /\ g.state = s /\ Same(g, f)
          /\ g.presentSince = f.presentSince /\ g.proactive = f.proactive
          /\ g.invitations = f.invitations
      BY <1>1, <2>2, <2>4 DEF IsEngine, Fields, Same
    <2>7. Moves(r, f, t)
      BY <1>0, <2>2, <2>5, <2>6 DEF Moves, Rests
    <2>8. QED
      BY <2>2, <2>5, <2>6, <2>7
  <1>2. ASSUME NEW mode, ev = Control("pause", mode)
        PROVE  r.acts = << >> /\ Moves(r, f, t) /\ r.e.fault = f.fault /\ r.e.state = "paused"
    <2>1. PICK g : g = [f EXCEPT !.state = "paused"]
      OBVIOUS
    <2>2. Moves(Silent(g), f, t) /\ g.fault = f.fault /\ g.state = "paused"
      <3>1. "paused" \in EngineState \ {"attending", "inviting"}
        BY <1>0
      <3>2. QED
        BY <2>1, <3>1, StateMoves
    <2>3. r = Silent(g)
      BY <1>2, <2>1 DEF Event, Control
    <2>4. QED
      BY <2>2, <2>3 DEF Silent
  <1>3. ASSUME NEW fault \in BOOLEAN, NEW state \in Halted,
               r = Silent([f EXCEPT !.fault = fault, !.state = state])
        PROVE  r.acts = << >> /\ Moves(r, f, t) /\ r.e.state = state /\ r.e.fault = fault
    <2>1. PICK g : g = [[f EXCEPT !.fault = fault] EXCEPT !.state = state]
      OBVIOUS
    <2>2. r.acts = << >> /\ r.e = g
      BY <1>3, <2>1 DEF Silent, IsEngine, Fields
    <2>3. /\ IsEngine(g) /\ g.fault = fault /\ g.state = state /\ Same(g, f)
          /\ g.presentSince = f.presentSince /\ g.proactive = f.proactive
          /\ g.invitations = f.invitations
      BY <1>0, <1>3, <2>1 DEF IsEngine, Fields, Same
    <2>4. Moves(r, f, t)
      BY <1>0, <1>3, <2>2, <2>3 DEF Moves, Rests
    <2>5. QED
      BY <2>2, <2>3, <2>4
  <1>4. ASSUME NEW mode, ev = Control("reset_fault", mode)
        PROVE  r.acts = << >> /\ Moves(r, f, t) /\ r.e.state = "paused"
    <2>1. r = Silent([f EXCEPT !.fault = FALSE, !.state = "paused"])
      BY <1>4 DEF Event, Control
    <2>2. QED
      BY <1>0, <1>3, <2>1
  <1>5. ASSUME NEW mode, ev = Control("failure", mode)
        PROVE  r.acts = << >> /\ Moves(r, f, t) /\ r.e.state = "fault" /\ r.e.fault
    <2>1. r = Silent([f EXCEPT !.fault = TRUE, !.state = "fault"])
      BY <1>5 DEF Event, Control
    <2>2. QED
      BY <1>0, <1>3, <2>1
  <1>6. ASSUME NEW mode, ev = Control("start", mode)
        PROVE  /\ Moves(r, f, t) /\ r.e.fault = f.fault
               /\ f.fault \/ f.state # "paused" => r.e = f /\ r.acts = << >>
    <2>1. PICK g : g = [f EXCEPT !.state = "quiet"]
      OBVIOUS
    <2>2. /\ IsEngine(g) /\ g.fault = f.fault /\ g.state = "quiet" /\ g.state \notin Halted
          /\ g.proactive = f.proactive /\ g.presentSince = f.presentSince
          /\ g.invitations = f.invitations /\ Same(g, f)
      BY <1>0, <2>1, EngineStates DEF IsEngine, Fields, Same
    <2>3. r = IF Startable(f) THEN Tick(g, t, d) ELSE Silent(f)
      BY <1>6, <2>1 DEF Event, Control
    <2>4. CASE Startable(f)
      <3>1. Fits(r, g, t)
        BY <2>2, <2>3, <2>4, TickFits
      <3>2. Moves(r, f, t)
        BY <1>0, <2>2, <3>1, MovesFrom DEF Fits
      <3>3. QED
        BY <2>2, <2>4, <3>1, <3>2 DEF Fits, Startable
    <2>5. CASE ~Startable(f)
      BY <2>3, <2>5, StillMoves DEF Silent
    <2>6. QED
      BY <2>4, <2>5
  <1>7. ASSUME NEW g, IsEngine(g), g.fault = f.fault, g.state = f.state, NEW kind, r = Act(g, t, kind, d)
        PROVE  /\ Moves(r, g, t)
               /\ r.e.fault = f.fault /\ (r.e.state \in Halted <=> f.state \in Halted)
               /\ f.state \in Halted => r.acts = << >>
    BY <1>7, ActFits DEF Fits, Silent
  <1>8. ASSUME NEW obs \in Observation, ev = Sample(obs)
        PROVE  /\ Moves(r, Observe(f, t, obs), t)
               /\ r.e.fault = f.fault /\ (r.e.state \in Halted <=> f.state \in Halted)
               /\ f.state \in Halted => r.acts = << >>
    <2>1. r = Act(Observe(f, t, obs), t, "observation", d)
      BY <1>8 DEF Event, Sample
    <2>2. PICK g : g = Observe(f, t, obs)
      OBVIOUS
    <2>3. IsEngine(g) /\ g.fault = f.fault /\ g.state = f.state
      BY <2>2, ObserveFits
    <2>4. QED
      BY <2>1, <2>2, <2>3, <1>7
  <1>9. ASSUME NEW kind \in {"tick", "touch", "respond"}, NEW mode, ev = Control(kind, mode)
        PROVE  /\ Moves(r, f, t)
               /\ r.e.fault = f.fault /\ (r.e.state \in Halted <=> f.state \in Halted)
               /\ f.state \in Halted => r.acts = << >>
    <2>1. r = Act(f, t, kind, d)
      BY <1>9 DEF Event, Control
    <2>2. QED
      BY <2>1, <1>7
  <1>10. ASSUME NEW g, Moves(r, g, t) PROVE IsEngine(r.e) /\ r.acts \in Decided
    BY <1>10, MovesDecides DEF Moves
  <1> USE DEF Sensed, Ordered, Interrupts
  <1>11. CASE \E mode \in Modes : ev = Control("preference", mode)
    BY <1>11, <1>1, <1>10 DEF Control
  <1>12. CASE \E mode \in Modes : ev = Control("pause", mode)
    BY <1>12, <1>2, <1>10 DEF Control
  <1>13. CASE \E mode \in Modes : ev = Control("reset_fault", mode)
    BY <1>13, <1>4, <1>10 DEF Control
  <1>14. CASE \E mode \in Modes : ev = Control("failure", mode)
    BY <1>14, <1>5, <1>10 DEF Control
  <1>15. CASE \E mode \in Modes : ev = Control("start", mode)
    BY <1>15, <1>6, <1>10 DEF Control
  <1>16. CASE \E kind \in {"tick", "touch", "respond"}, mode \in Modes : ev = Control(kind, mode)
    BY <1>16, <1>9, <1>10 DEF Control
  <1>17. CASE \E obs \in Observation : ev = Sample(obs)
    BY <1>17, <1>8, <1>10 DEF Sample
  <1>18. QED
    BY <1>11, <1>12, <1>13, <1>14, <1>15, <1>16, <1>17 DEF Legal

-----------------------------------------------------------------------------
(***************************************************************************)
(* The server: every decision still queued or under way is of an earlier   *)
(* epoch or of the operator's last word; an approval still owed finds the  *)
(* engine halted; and what is under way in the current epoch was decided   *)
(* with the memory on disk.                                                *)
(***************************************************************************)
ServerFields == {"e", "epoch", "pending", "saved", "file", "ok"}

IsServer(s) == /\ s = [x \in ServerFields |-> s[x]]
               /\ IsEngine(s.e) /\ s.epoch \in Nat
               /\ s.pending \in Seq(Decision) /\ Len(s.pending) <= QueueLimit
               /\ s.saved \in {Null, s.file} /\ s.file \in Memories /\ s.ok \in BOOLEAN

Clears == {"reset", "start", "none"}
Typed == /\ IsServer(srv) /\ srv.ok /\ job \in Job \cup {Null} /\ running \in BOOLEAN
         /\ ghost \in [cuts : Nat, clear : Clears] /\ now \in Int

Clocked == /\ now \in 0 .. MaxTime /\ looped \in -1 .. now /\ world \in Observation \cup {Null}
           /\ touchedAt \in 0 .. now \cup {Never} /\ events \in 0 .. MaxEvents

Fresh(item, epoch, up, cuts) == /\ item.epoch <= epoch
                                /\ up /\ item.epoch = epoch => item.cuts = cuts
Queued(s, up, cuts) == \A i \in 1 .. Len(s.pending) : Fresh(s.pending[i], s.epoch, up, cuts)

Carried  == job # Null => Fresh(job.item, srv.epoch, running, ghost.cuts)
Approved == /\ ghost.clear # "none" => srv.e.state \in Halted
            /\ ghost.clear = "reset" => srv.e.fault
Stopped  == ~running => srv.e.state \in Halted
OnDisk   == job # Null /\ running /\ job.item.epoch = srv.epoch =>
              srv.e.state \notin Halted /\ srv.file = Memory(srv.e)

ServerInv == /\ Typed /\ Clocked /\ Queued(srv, running, ghost.cuts) /\ Carried
             /\ Approved /\ Stopped /\ OnDisk /\ HaltedIsQuiet

LEMMA MemoryIsOne ==
  ASSUME NEW f, IsEngine(f)
  PROVE  Memory(f) \in Memories /\ Memory(f) # Null
  BY NullAssumption DEF Memory, Memories, IsEngine

LEMMA PersistKeeps ==
  ASSUME NEW s, IsServer(s), NEW writes \in BOOLEAN, NEW u, u = Persist(s, writes)
  PROVE  /\ IsServer(u) /\ u.e = s.e /\ u.epoch = s.epoch /\ u.pending = s.pending
         /\ s.ok /\ u.ok => u.file = Memory(u.e)
         /\ s.file = Memory(s.e) => u.file = Memory(u.e)
  <1>1. Memory(s.e) \in Memories /\ Memory(s.e) # Null
    BY MemoryIsOne DEF IsServer
  <1>2. CASE Memory(s.e) = s.saved
    BY <1>1, <1>2 DEF Persist, IsServer
  <1> DEFINE m == Memory(s.e)
  <1>3. CASE Memory(s.e) # s.saved /\ writes
    <2>1. u = [[s EXCEPT !.saved = m] EXCEPT !.file = m]
      BY <1>3 DEF Persist, IsServer, ServerFields
    <2>2. m \in Memories
      BY <1>1
    <2> HIDE DEF m
    <2>3. IsServer(u) /\ u.e = s.e /\ u.epoch = s.epoch /\ u.pending = s.pending /\ u.file = m
      BY <2>1, <2>2 DEF IsServer, ServerFields
    <2>4. QED
      BY <2>3 DEF m
  <1>4. CASE Memory(s.e) # s.saved /\ ~writes
    <2>1. u = [s EXCEPT !.ok = FALSE]
      BY <1>4 DEF Persist
    <2>2. IsServer(u) /\ u.e = s.e /\ u.epoch = s.epoch /\ u.pending = s.pending /\ u.file = s.file
          /\ ~u.ok
      BY <2>1 DEF IsServer, ServerFields
    <2>3. QED
      BY <2>2
  <1>5. QED
    BY <1>2, <1>3, <1>4

\* The entries that one event adds to the queue.
Added(acts, ep) == [i \in 1 .. Len(acts) |-> [epoch |-> ep, act |-> acts[i], cuts |-> ghost.cuts]]

LEMMA AddedDecisions ==
  ASSUME NEW acts \in Decided, NEW ep \in Nat, ghost.cuts \in Nat
  PROVE  /\ Added(acts, ep) \in Seq(Decision)
         /\ \A i \in 1 .. Len(Added(acts, ep)) :
              Added(acts, ep)[i].epoch = ep /\ Added(acts, ep)[i].cuts = ghost.cuts
         /\ acts = << >> => Added(acts, ep) = << >>
  <1>1. CASE acts = << >>
    <2>1. Added(acts, ep) = << >>
      BY <1>1 DEF Added
    <2>2. QED
      BY <2>1, <1>1, EmptySeq
  <1>2. ASSUME NEW act \in Actions, acts = One(act)
        PROVE  /\ Added(acts, ep) \in Seq(Decision) /\ acts # << >>
               /\ \A i \in 1 .. Len(Added(acts, ep)) :
                    Added(acts, ep)[i].epoch = ep /\ Added(acts, ep)[i].cuts = ghost.cuts
    <2> DEFINE one == [epoch |-> ep, act |-> act, cuts |-> ghost.cuts]
    <2>1. Added(acts, ep) = << one >>
      BY <1>2 DEF Added, One
    <2>2. one \in Decision /\ one.epoch = ep /\ one.cuts = ghost.cuts
      BY DEF Decision
    <2> HIDE DEF one
    <2>3. /\ << one >> \in Seq(Decision) /\ Len(<< one >>) = 1 /\ << one >>[1] = one
          /\ << act >> # << >>
      BY <2>2
    <2>4. \A i \in 1 .. Len(<< one >>) : << one >>[i] = one
      BY <2>3
    <2>5. QED
      BY <1>2, <2>1, <2>2, <2>3, <2>4 DEF One
  <1>3. QED
    BY <1>1, <1>2 DEF Decided

LEMMA EmptyQueue == << >> \in Seq(Decision) /\ Len(<< >>) <= QueueLimit
  <1>1. QueueLimit \in Nat
    BY ServerAssumption DEF ServerAssumption
  <1>2. << >> \in Seq(Decision) /\ Len(<< >>) = 0
    BY EmptySeq
  <1>3. QED
    BY <1>1, <1>2

\* What is put into the queue is what was there or what is new, and no more
\* than it holds.
HeldOf(p, q, new) ==
  /\ p \in Seq(Decision) /\ Len(p) <= QueueLimit
  /\ \A i \in 1 .. Len(p) : \/ \E j \in 1 .. Len(q) : p[i] = q[j]
                            \/ \E j \in 1 .. Len(new) : p[i] = new[j]
  /\ q = << >> /\ new = << >> => p = << >>

LEMMA EnqueueKeeps ==
  ASSUME NEW q \in Seq(Decision), NEW new \in Seq(Decision), NEW p, p = Enqueue(q, new)
  PROVE  HeldOf(p, q, new)
  <1>1. QueueLimit \in Nat
    BY ServerAssumption DEF ServerAssumption
  <1>2. PICK all : all = q \o new
    OBVIOUS
  <1>3. /\ all \in Seq(Decision) /\ Len(all) = Len(q) + Len(new)
        /\ Len(q) \in Nat /\ Len(new) \in Nat
        /\ \A k \in 1 .. Len(all) : all[k] = IF k <= Len(q) THEN q[k] ELSE new[k - Len(q)]
    BY <1>2, ConcatProperties, LenProperties
  <1>4. PICK n \in Nat : n = Len(all)
    BY <1>3
  <1>5. PICK lost \in Nat : /\ lost = IF n > QueueLimit THEN n - QueueLimit ELSE 0
                            /\ lost <= n /\ n - lost <= QueueLimit
    <2>1. CASE n > QueueLimit
      <3>1. n - QueueLimit \in Nat /\ n - QueueLimit <= n /\ n - (n - QueueLimit) <= QueueLimit
        BY <1>1, <2>1
      <3>2. QED
        BY <2>1, <3>1
    <2>2. CASE ~(n > QueueLimit)
      BY <1>1, <2>2
    <2>3. QED
      BY <2>1, <2>2
  <1>6. p = SubSeq(all, lost + 1, n)
    BY <1>2, <1>4, <1>5 DEF Enqueue
  <1>7. /\ p \in Seq(Decision) /\ Len(p) = n - lost
        /\ \A i \in 1 .. Len(p) : p[i] = all[lost + i]
    <2>1. all \in Seq(Decision) /\ n = Len(all)
      BY <1>3, <1>4
    <2>2. PICK m \in Int : m = lost + 1 /\ m >= 1
      OBVIOUS
    <2>3. \A i \in m .. n : all[i] \in Decision
      BY <2>1, <2>2, ElementOfSeq
    <2>4. n \in Int /\ p = SubSeq(all, m, n)
      BY <1>6, <2>2
    <2>5. /\ p \in Seq(Decision) /\ Len(p) = IF m <= n THEN n - m + 1 ELSE 0
          /\ \A i \in 1 .. n - m + 1 : p[i] = all[m + i - 1]
      BY <2>3, <2>4, SubSeqProperties
    <2>6. n - m + 1 = n - lost /\ (~(m <= n) => n - lost = 0)
      BY <1>5, <2>2
    <2>7. \A i \in 1 .. n - lost : m + i - 1 = lost + i
      BY <2>2
    <2>8. QED
      BY <2>5, <2>6, <2>7
  <1>8. ASSUME NEW i \in 1 .. Len(p)
        PROVE  \/ \E j \in 1 .. Len(q) : p[i] = q[j]
               \/ \E j \in 1 .. Len(new) : p[i] = new[j]
    <2>1. PICK k \in 1 .. Len(all) : p[i] = all[k]
      <3>1. i \in 1 .. n - lost /\ p[i] = all[lost + i]
        BY <1>7, <1>8
      <3>2. lost + i \in 1 .. Len(all)
        BY ONLY <3>1, <1>4, <1>5
      <3>3. QED
        BY ONLY <3>1, <3>2
    <2>2. CASE k <= Len(q)
      BY <1>3, <2>1, <2>2
    <2>3. CASE ~(k <= Len(q))
      <3>1. k - Len(q) \in 1 .. Len(new)
        BY <1>3, <2>1, <2>3
      <3>2. QED
        BY <1>3, <2>1, <2>3, <3>1
    <2>4. QED
      BY <2>2, <2>3
  <1>9. ASSUME q = << >>, new = << >> PROVE p = << >>
    <2>1. Len(p) = 0
      BY <1>3, <1>4, <1>5, <1>7, <1>9, EmptySeq
    <2>2. QED
      BY <1>7, <2>1, EmptySeq
  <1>10. QED
    BY <1>5, <1>7, <1>8, <1>9 DEF HeldOf

LEMMA ApplyKeeps ==
  ASSUME NEW s, IsServer(s), s.ok, NEW ev, Legal(ev), NEW d, NEW writes \in BOOLEAN,
         ghost.cuts \in Nat, now \in Int, NEW u, u = ApplyEvent(s, ev, d, writes)
  PROVE  /\ IsServer(u) /\ u.e = Event(s.e, now, ev, d).e
         /\ u.epoch \in {s.epoch, s.epoch + 1}
         /\ ev.kind \in Interrupts => u.epoch = s.epoch + 1
         /\ ev.kind \in Interrupts \ {"touch"} => u.pending = << >>
         /\ \A up \in BOOLEAN : Queued(s, up, ghost.cuts) => Queued(u, up, ghost.cuts)
         /\ u.ok => u.file = Memory(u.e)
         /\ s.file = Memory(s.e) /\ u.e = s.e => u.file = Memory(u.e)
  <1>1. PICK r : r = Event(s.e, now, ev, d)
    OBVIOUS
  <1>2. PICK cut \in BOOLEAN : cut <=> ev.kind \in Interrupts \/ Blocked(r.e, now)
    OBVIOUS
  <1>3. PICK ep : ep = IF cut THEN s.epoch + 1 ELSE s.epoch
    OBVIOUS
  <1>4. PICK q : q = IF cut THEN << >> ELSE s.pending
    OBVIOUS
  <1>5. PICK w : w = [s EXCEPT !.e = r.e, !.epoch = ep, !.pending = Enqueue(q, Added(r.acts, ep))]
    OBVIOUS
  <1>6. u = Persist(w, writes)
    BY <1>1, <1>2, <1>3, <1>4, <1>5 DEF ApplyEvent, Added
  <1>7. IsEngine(r.e) /\ r.acts \in Decided /\ (ev.kind \in Interrupts \ {"touch"} => r.acts = << >>)
    BY <1>1, EventMoves DEF IsServer
  <1>8. ep \in Nat /\ ep \in {s.epoch, s.epoch + 1} /\ (ev.kind \in Interrupts => ep = s.epoch + 1)
    BY <1>2, <1>3 DEF IsServer
  <1>9. q \in Seq(Decision)
    BY <1>4, EmptySeq DEF IsServer
  <1>10. /\ Added(r.acts, ep) \in Seq(Decision)
         /\ \A i \in 1 .. Len(Added(r.acts, ep)) :
              Added(r.acts, ep)[i].epoch = ep /\ Added(r.acts, ep)[i].cuts = ghost.cuts
         /\ r.acts = << >> => Added(r.acts, ep) = << >>
    BY <1>7, <1>8, AddedDecisions
  <1>11. PICK p : p = Enqueue(q, Added(r.acts, ep))
    OBVIOUS
  <1>12. /\ p \in Seq(Decision) /\ Len(p) <= QueueLimit
         /\ \A i \in 1 .. Len(p) : \/ p[i].epoch = ep /\ p[i].cuts = ghost.cuts
                                   \/ \E j \in 1 .. Len(q) : p[i] = q[j]
         /\ q = << >> /\ r.acts = << >> => p = << >>
    <2>1. PICK new \in Seq(Decision) : new = Added(r.acts, ep)
      BY <1>10
    <2>2. /\ p \in Seq(Decision) /\ Len(p) <= QueueLimit
          /\ \A i \in 1 .. Len(p) : \/ \E j \in 1 .. Len(q) : p[i] = q[j]
                                    \/ \E j \in 1 .. Len(new) : p[i] = new[j]
          /\ q = << >> /\ new = << >> => p = << >>
      <3>1. p = Enqueue(q, new)
        BY <1>11, <2>1
      <3>2. HeldOf(p, q, new)
        BY ONLY <1>9, <2>1, <3>1, EnqueueKeeps
      <3>3. QED
        BY <3>2 DEF HeldOf
    <2>3. \A j \in 1 .. Len(new) : new[j].epoch = ep /\ new[j].cuts = ghost.cuts
      BY <1>10, <2>1
    <2>4. ASSUME NEW i \in 1 .. Len(p)
          PROVE  \/ p[i].epoch = ep /\ p[i].cuts = ghost.cuts
                 \/ \E j \in 1 .. Len(q) : p[i] = q[j]
      BY <2>2, <2>3, <2>4
    <2>5. QED
      BY <1>10, <2>1, <2>2, <2>4
  <1>13. w = [[[s EXCEPT !.e = r.e] EXCEPT !.epoch = ep] EXCEPT !.pending = p]
    BY <1>5, <1>11 DEF IsServer, ServerFields
  <1>14. /\ IsServer(w) /\ w.e = r.e /\ w.epoch = ep /\ w.pending = p
         /\ w.ok = s.ok /\ w.file = s.file
    BY <1>13, <1>12, <1>8, <1>7 DEF IsServer, ServerFields
  <1>15. /\ IsServer(u) /\ u.e = r.e /\ u.epoch = ep /\ u.pending = p
         /\ u.ok => u.file = Memory(u.e)
         /\ s.file = Memory(s.e) /\ u.e = s.e => u.file = Memory(u.e)
    <2>1. /\ IsServer(u) /\ u.e = w.e /\ u.epoch = w.epoch /\ u.pending = w.pending
          /\ w.ok /\ u.ok => u.file = Memory(u.e)
          /\ w.file = Memory(w.e) => u.file = Memory(u.e)
      BY <1>6, <1>14, PersistKeeps
    <2>2. QED
      BY <2>1, <1>14
  <1>16. ASSUME NEW up \in BOOLEAN, Queued(s, up, ghost.cuts) PROVE Queued(u, up, ghost.cuts)
    <2>1. ASSUME NEW i \in 1 .. Len(p) PROVE Fresh(p[i], ep, up, ghost.cuts)
      <3>1. CASE p[i].epoch = ep /\ p[i].cuts = ghost.cuts
        BY <3>1, <1>8 DEF Fresh
      <3>2. CASE \E j \in 1 .. Len(q) : p[i] = q[j]
        <4>1. ~cut
          BY <3>2, <1>4, EmptySeq
        <4>2. q = s.pending /\ ep = s.epoch
          BY <4>1, <1>3, <1>4
        <4>3. QED
          BY <3>2, <4>2, <1>16 DEF Queued
      <3>3. QED
        BY <2>1, <3>1, <3>2, <1>12
    <2>2. QED
      BY <2>1, <1>15 DEF Queued
  <1>17. ev.kind \in Interrupts \ {"touch"} => p = << >>
    <2>1. ASSUME ev.kind \in Interrupts \ {"touch"} PROVE p = << >>
      <3>1. q = << >> /\ r.acts = << >>
        BY <2>1, <1>2, <1>4, <1>7
      <3>2. QED
        BY <3>1, <1>12
    <2>2. QED
      BY <2>1
  <1>18. QED
    BY <1>1, <1>8, <1>15, <1>16, <1>17

\* A server in the middle of a round of the loop.
Held(s) == /\ IsServer(s) /\ Queued(s, running, ghost.cuts)
           /\ s.e.state \in Halted <=> srv.e.state \in Halted
           /\ s.e.fault = srv.e.fault

LEMMA SenseKeeps ==
  ASSUME Typed, NEW s, Held(s), NEW ev, Legal(ev), ev.kind \in Sensed, NEW d, NEW writes \in BOOLEAN
  PROVE  /\ Held(ApplyEvent(s, ev, d, writes))
         /\ ApplyEvent(s, ev, d, writes).ok =>
              ApplyEvent(s, ev, d, writes).file = Memory(ApplyEvent(s, ev, d, writes).e)
  <1>1. CASE ~s.ok
    BY <1>1 DEF ApplyEvent
  <1>2. CASE s.ok
    <2>1. PICK u : u = ApplyEvent(s, ev, d, writes)
      OBVIOUS
    <2>2. ghost.cuts \in Nat /\ running \in BOOLEAN /\ now \in Int
      BY DEF Typed
    <2>3. /\ IsServer(u) /\ u.e = Event(s.e, now, ev, d).e
          /\ Queued(s, running, ghost.cuts) => Queued(u, running, ghost.cuts)
          /\ u.ok => u.file = Memory(u.e)
      BY <1>2, <2>1, <2>2, ApplyKeeps DEF Held
    <2>4. u.e.fault = s.e.fault /\ (u.e.state \in Halted <=> s.e.state \in Halted)
      BY <2>2, <2>3, EventMoves DEF Held, IsServer
    <2>5. QED
      BY <2>1, <2>3, <2>4 DEF Held
  <1>3. QED
    BY <1>1, <1>2 DEF Held, IsServer

LEMMA LegalEvents ==
  /\ \A obs \in Observation : Legal(Sample(obs)) /\ Sample(obs).kind \in Sensed
  /\ \A kind \in {"start", "pause", "reset_fault", "failure", "tick", "touch"} :
       Legal(Control(kind, "free")) /\ Control(kind, "free").kind = kind
  /\ \A mode \in Modes : Legal(Control("preference", mode)) /\ Control("preference", mode).kind = "preference"
  /\ {"tick", "touch"} \subseteq Sensed
  BY DEF Legal, Sample, Control, Sensed, Modes

LEMMA RoundKeeps ==
  ASSUME Typed, world \in Observation \cup {Null}, Queued(srv, running, ghost.cuts),
         NEW d, NEW writes \in BOOLEAN,
         NEW s, s = ApplyEvent(Touched(Sampled(srv, d, writes), d, writes), Control("tick", "free"), d, writes)
  PROVE  Held(s) /\ (s.ok => s.file = Memory(s.e))
  <1>1. Held(srv)
    BY DEF Held, Typed
  <1>2. Held(Sampled(srv, d, writes))
    <2>1. CASE world = Null
      <3>1. Sampled(srv, d, writes) = [srv EXCEPT !.e = [srv.e EXCEPT !.seenAt = Never]]
        BY <2>1 DEF Sampled
      <3>2. PICK g : g = [srv.e EXCEPT !.seenAt = Never]
        OBVIOUS
      <3>3. IsEngine(g) /\ g.state = srv.e.state /\ g.fault = srv.e.fault
        BY <3>2, Numbers DEF Typed, IsServer, IsEngine, Fields
      <3>4. PICK w : w = [srv EXCEPT !.e = g]
        OBVIOUS
      <3>5. IsServer(w) /\ w.e = g /\ w.pending = srv.pending /\ w.epoch = srv.epoch
        BY <3>3, <3>4 DEF Typed, IsServer, ServerFields
      <3>6. QED
        BY <3>1, <3>2, <3>3, <3>4, <3>5 DEF Held, Queued
    <2>2. CASE world # Null
      BY <1>1, <2>2, SenseKeeps, LegalEvents DEF Sampled
    <2>3. QED
      BY <2>1, <2>2
  <1>3. Held(Touched(Sampled(srv, d, writes), d, writes))
    BY <1>2, SenseKeeps, LegalEvents DEF Touched
  <1>4. QED
    BY <1>3, SenseKeeps, LegalEvents

LEMMA RecoverKeeps ==
  ASSUME NEW s, IsServer(s), now \in Int, NEW u, u = Recover(s)
  PROVE  /\ IsServer(u) /\ u.ok /\ u.e.state = "fault" /\ u.e.fault
         /\ u.pending = << >> /\ u.epoch = s.epoch
  <1>1. PICK g : g = Event(s.e, now, Control("failure", "free"),
                           [sociable |-> FALSE, curious |-> FALSE, tired |-> FALSE]).e
    OBVIOUS
  <1>2. IsEngine(g) /\ g.fault /\ g.state = "fault"
    BY <1>1, EventMoves, LegalEvents DEF IsServer
  <1>3. u = [[[s EXCEPT !.e = g] EXCEPT !.pending = << >>] EXCEPT !.ok = TRUE]
    BY <1>1 DEF Recover, IsServer, ServerFields
  <1>4. << >> \in Seq(Decision) /\ Len(<< >>) <= QueueLimit
    BY EmptyQueue
  <1>5. QED
    BY <1>2, <1>3, <1>4 DEF IsServer, ServerFields

LEMMA EmptyIsQueued ==
  ASSUME NEW s, s.pending = << >>, NEW up, NEW cuts
  PROVE  Queued(s, up, cuts)
  BY DEF Queued

LEMMA JobIsNotNull == Null \notin Job /\ Null \notin Decision /\ Null \notin Observation
  BY NullAssumption

\* One round of the loop, for its choices.
Round(d, writes, steps) ==
    LET s == ApplyEvent(Touched(Sampled(srv, d, writes), d, writes), Control("tick", "free"), d, writes)
        item == Taken(s)
    IN  /\ LockFree /\ job = Null
        /\ looped # now
        /\ looped' = now
        /\ touchedAt' = Never
        /\ srv' = IF ~s.ok THEN Recover(s)
                  ELSE IF s.pending = << >> THEN s
                  ELSE [s EXCEPT !.pending = Tail(@)]
        /\ job' = IF ~s.ok \/ item = Null THEN Null
                  ELSE [item |-> item, left |-> steps, phase |-> "between"]
        /\ ghost' = [ghost EXCEPT !.clear = IF s.ok THEN @ ELSE "reset"]
        /\ UNCHANGED << now, world, running, events >>

LEMMA RoundDoes ==
  ASSUME LoopRound
  PROVE  \E d \in Drives, writes \in {TRUE, ~WriteMayFail}, steps \in Steps : Round(d, writes, steps)
  BY DEF LoopRound, Round

LEMMA LoopKeeps ==
  ASSUME ServerInv, LoopRound
  PROVE  ServerInv'
  <1>0. PICK d \in Drives, writes \in {TRUE, ~WriteMayFail}, steps \in Steps : Round(d, writes, steps)
    BY RoundDoes
  <1>s. PICK s : s = ApplyEvent(Touched(Sampled(srv, d, writes), d, writes), Control("tick", "free"), d, writes)
    OBVIOUS
  <1>1. /\ LockFree /\ job = Null /\ looped' = now /\ touchedAt' = Never
        /\ srv' = IF ~s.ok THEN Recover(s)
                  ELSE IF s.pending = << >> THEN s ELSE [s EXCEPT !.pending = Tail(s.pending)]
        /\ job' = IF ~s.ok \/ Taken(s) = Null THEN Null
                  ELSE [item |-> Taken(s), left |-> steps, phase |-> "between"]
        /\ ghost' = [ghost EXCEPT !.clear = IF s.ok THEN ghost.clear ELSE "reset"]
        /\ UNCHANGED << now, world, running, events >>
    BY <1>0, <1>s DEF Round
  <1>2. writes \in BOOLEAN /\ steps \in Nat \ {0}
    BY ServerAssumption DEF ServerAssumption
  <1>3. Held(s) /\ (s.ok => s.file = Memory(s.e))
    BY <1>s, <1>2, RoundKeeps DEF ServerInv, Clocked
  <1>4. IsServer(s) /\ s.pending \in Seq(Decision)
    BY <1>3 DEF Held, IsServer
  <1>5. ghost'.cuts = ghost.cuts /\ ghost' \in [cuts : Nat, clear : Clears]
        /\ ghost'.clear = (IF s.ok THEN ghost.clear ELSE "reset")
    BY <1>1 DEF ServerInv, Typed, Clears
  <1>6. Clocked'
    BY <1>1 DEF ServerInv, Clocked
  <1>7. CASE ~s.ok
    <2>1. srv' = Recover(s) /\ job' = Null
      BY <1>1, <1>7
    <2>2. /\ IsServer(srv') /\ srv'.ok /\ srv'.e.state = "fault" /\ srv'.e.fault
          /\ srv'.pending = << >>
      BY <1>4, <2>1, RecoverKeeps DEF ServerInv, Typed
    <2>3. Queued(srv', running', ghost'.cuts)
      BY <2>2, EmptyIsQueued
    <2>4. srv'.e.state \in Halted
      BY <2>2 DEF Halted
    <2>5. QED
      BY <1>1, <1>5, <1>6, <2>1, <2>2, <2>3, <2>4
         DEF ServerInv, Typed, Carried, Approved, Stopped, OnDisk, HaltedIsQuiet, Calling
  <1>8. CASE s.ok /\ s.pending = << >>
    <2>1. srv' = s /\ job' = Null
      BY <1>1, <1>8 DEF Taken
    <2>2. Queued(srv', running', ghost'.cuts)
      BY <2>1, <1>8, EmptyIsQueued
    <2>3. QED
      BY <1>1, <1>3, <1>4, <1>5, <1>6, <1>8, <2>1, <2>2
         DEF ServerInv, Typed, Carried, Approved, Stopped, OnDisk, HaltedIsQuiet, Calling, Held
  <1>9. CASE s.ok /\ s.pending # << >>
    <2>1. srv' = [s EXCEPT !.pending = Tail(s.pending)]
      BY <1>1, <1>9
    <2>2. /\ Tail(s.pending) \in Seq(Decision) /\ Len(Tail(s.pending)) <= QueueLimit
          /\ \A i \in 1 .. Len(Tail(s.pending)) :
               i + 1 \in 1 .. Len(s.pending) /\ Tail(s.pending)[i] = s.pending[i + 1]
          /\ 1 \in 1 .. Len(s.pending) /\ s.pending[1] \in Decision
      <3>1. QueueLimit \in Nat /\ Len(s.pending) <= QueueLimit
        BY <1>4, ServerAssumption DEF ServerAssumption, IsServer
      <3>2. Len(Tail(s.pending)) = Len(s.pending) - 1 /\ Len(s.pending) \in Nat
        BY <1>4, <1>9, HeadTailProperties, LenProperties, EmptySeq
      <3>3. QED
        BY <1>4, <1>9, <3>1, <3>2, LenProperties, EmptySeq
    <2>3. /\ IsServer(srv') /\ srv'.ok /\ srv'.e = s.e /\ srv'.epoch = s.epoch /\ srv'.file = s.file
          /\ srv'.pending = Tail(s.pending)
      BY <1>4, <1>9, <2>1, <2>2 DEF IsServer, ServerFields
    <2>4. Queued(srv', running', ghost'.cuts)
      <3>1. Queued(s, running, ghost.cuts)
        BY <1>3 DEF Held
      <3>2. ASSUME NEW i \in 1 .. Len(Tail(s.pending))
            PROVE  Fresh(Tail(s.pending)[i], s.epoch, running, ghost.cuts)
        <4>1. PICK j \in 1 .. Len(s.pending) : Tail(s.pending)[i] = s.pending[j]
          BY <2>2
        <4>2. QED
          BY <3>1, <4>1 DEF Queued
      <3>3. QED
        BY <1>1, <1>5, <2>3, <3>2 DEF Queued
    <2>5. \/ job' = Null
          \/ /\ job' = [item |-> s.pending[1], left |-> steps, phase |-> "between"]
             /\ s.e.state \notin Halted
      BY <1>1, <1>9 DEF Taken
    <2>6. job' \in Job \cup {Null} /\ (job' # Null => job'.item = s.pending[1] /\ job'.phase = "between")
      BY <1>2, <2>2, <2>5 DEF Job
    <2>7. Fresh(s.pending[1], s.epoch, running, ghost.cuts)
      BY <1>3, <2>2 DEF Held, Queued
    <2>8. Carried'
      BY <1>1, <1>5, <2>3, <2>6, <2>7 DEF Carried
    <2>9. OnDisk' /\ HaltedIsQuiet'
      BY <1>1, <1>3, <1>9, <2>3, <2>5, <2>6 DEF OnDisk, HaltedIsQuiet, Calling
    <2>10. Approved' /\ Stopped'
      BY <1>1, <1>3, <1>5, <1>9, <2>3 DEF Held, Approved, Stopped, ServerInv
    <2>11. QED
      BY <1>1, <1>5, <1>6, <2>3, <2>4, <2>6, <2>8, <2>9, <2>10 DEF ServerInv, Typed
  <1>10. QED
    BY <1>7, <1>8, <1>9

LEMMA CallStartsKeeps ==
  ASSUME ServerInv, CallStarts PROVE ServerInv'
  <1>1. /\ job \in Job /\ srv.e.state \notin Halted /\ job' = [job EXCEPT !.phase = "calling"]
        /\ UNCHANGED << srv, now, looped, world, touchedAt, running, events, ghost >>
    BY DEF CallStarts, MayCall, ServerInv, Typed
  <1>2. job' \in Job /\ job'.item = job.item
    BY <1>1 DEF Job
  <1>3. job # Null /\ job' # Null
    BY <1>1, <1>2, JobIsNotNull
  <1>4. QED
    BY <1>1, <1>2, <1>3 DEF ServerInv, Typed, Clocked, Queued, Carried, Approved, Stopped, OnDisk, HaltedIsQuiet

LEMMA CallEndsKeeps ==
  ASSUME ServerInv, Cancelled \/ CallSucceeds \/ CallFails
  PROVE  ServerInv'
  <1>1. UNCHANGED << srv, now, looped, world, touchedAt, running, events, ghost >>
    BY DEF Cancelled, CallSucceeds, CallFails
  <1>2. job \in Job
    BY DEF Cancelled, CallSucceeds, CallFails, Calling, ServerInv, Typed
  <1>3. \/ job' = Null
        \/ job' \in Job /\ job'.item = job.item /\ job'.phase # "calling"
    <2>1. CASE Cancelled
      BY <2>1 DEF Cancelled
    <2>2. CASE CallSucceeds
      <3>1. CASE job.left = 1
        BY <2>2, <3>1 DEF CallSucceeds
      <3>2. CASE job.left # 1
        <4>1. job' = [[job EXCEPT !.left = job.left - 1] EXCEPT !.phase = "between"]
          BY <1>2, <2>2, <3>2 DEF CallSucceeds, Job
        <4>2. job.left - 1 \in Nat \ {0}
          BY <1>2, <3>2 DEF Job
        <4>3. QED
          BY <1>2, <4>1, <4>2 DEF Job
      <3>3. QED
        BY <3>1, <3>2
    <2>3. CASE CallFails
      BY <1>2, <2>3 DEF CallFails, Job
    <2>4. QED
      BY <2>1, <2>2, <2>3
  <1>4. job # Null
    BY <1>2, JobIsNotNull
  <1>5. QED
    BY <1>1, <1>3, <1>4 DEF ServerInv, Typed, Clocked, Queued, Carried, Approved, Stopped, OnDisk,
                            HaltedIsQuiet, Calling

LEMMA FailureKeeps ==
  ASSUME ServerInv, FailureRecorded
  PROVE  ServerInv'
  <1>1. PICK d \in Drives, writes \in {TRUE, ~WriteMayFail} :
          LET s == ApplyEvent(srv, Control("failure", "free"), d, writes)
          IN  /\ srv' = IF s.ok THEN s ELSE Recover(s)
              /\ job' = Null
              /\ ghost' = [ghost EXCEPT !.clear = "reset"]
              /\ UNCHANGED << now, looped, world, touchedAt, running, events >>
    BY DEF FailureRecorded
  <1>2. PICK s : s = ApplyEvent(srv, Control("failure", "free"), d, writes)
    OBVIOUS
  <1>3. writes \in BOOLEAN /\ ghost.cuts \in Nat /\ now \in Int /\ IsServer(srv) /\ srv.ok
    BY ServerAssumption DEF ServerAssumption, ServerInv, Typed
  <1>4. /\ IsServer(s) /\ s.e = Event(srv.e, now, Control("failure", "free"), d).e
        /\ Control("failure", "free").kind \in Interrupts \ {"touch"} => s.pending = << >>
    BY <1>2, <1>3, ApplyKeeps, LegalEvents
  <1>5. s.e.fault /\ s.e.state = "fault" /\ s.pending = << >>
    BY <1>3, <1>4, EventMoves, LegalEvents DEF IsServer, Interrupts
  <1>6. /\ IsServer(srv') /\ srv'.ok /\ srv'.e.state = "fault" /\ srv'.e.fault
        /\ srv'.pending = << >>
    BY <1>1, <1>2, <1>3, <1>4, <1>5, RecoverKeeps DEF IsServer
  <1>7. Queued(srv', running', ghost'.cuts)
    BY <1>6, EmptyIsQueued
  <1>8. ghost' \in [cuts : Nat, clear : Clears] /\ ghost'.clear = "reset"
    BY <1>1 DEF ServerInv, Typed, Clears
  <1>9. QED
    BY <1>1, <1>6, <1>7, <1>8
       DEF ServerInv, Typed, Clocked, Carried, Approved, Stopped, OnDisk, HaltedIsQuiet, Calling, Halted

\* One of the operator's requests.
LEMMA PostKeeps ==
  ASSUME ServerInv, NEW kind \in Ordered, NEW mode \in Modes,
         kind = "preference" \/ mode = "free", Post(kind, mode)
  PROVE  ServerInv'
  <1>1. PICK d \in Drives, writes \in {TRUE, ~WriteMayFail} :
          /\ running /\ LockFree /\ events < MaxEvents /\ events' = events + 1
          /\ srv' = [ApplyEvent(srv, Control(kind, mode), d, writes) EXCEPT !.ok = TRUE]
          /\ ghost' = [ghost EXCEPT !.cuts = IF kind = "start" THEN ghost.cuts ELSE ghost.cuts + 1,
                                    !.clear = Cleared(ghost.clear, kind)]
          /\ UNCHANGED << now, looped, world, touchedAt, job, running >>
    BY DEF Post
  <1>2. PICK u : u = ApplyEvent(srv, Control(kind, mode), d, writes)
    OBVIOUS
  <1>3. writes \in BOOLEAN /\ ghost.cuts \in Nat /\ now \in Int /\ IsServer(srv) /\ srv.ok /\ running \in BOOLEAN
    BY ServerAssumption DEF ServerAssumption, ServerInv, Typed
  <1>4. Legal(Control(kind, mode)) /\ Control(kind, mode).kind = kind
    BY LegalEvents DEF Ordered, Control
  <1>5. /\ IsServer(u) /\ u.e = Event(srv.e, now, Control(kind, mode), d).e
        /\ u.epoch \in {srv.epoch, srv.epoch + 1}
        /\ kind \in Interrupts => u.epoch = srv.epoch + 1
        /\ kind \in Interrupts \ {"touch"} => u.pending = << >>
        /\ Queued(srv, running, ghost.cuts) => Queued(u, running, ghost.cuts)
        /\ srv.file = Memory(srv.e) /\ u.e = srv.e => u.file = Memory(u.e)
    BY <1>2, <1>3, <1>4, ApplyKeeps
  <1>6. /\ srv' = [u EXCEPT !.ok = TRUE]
        /\ IsServer(srv') /\ srv'.ok /\ srv'.e = u.e /\ srv'.epoch = u.epoch /\ srv'.pending = u.pending
        /\ srv'.file = u.file
    BY <1>1, <1>2, <1>5 DEF IsServer, ServerFields
  <1>7. PICK n \in Nat : n = IF kind = "start" THEN ghost.cuts ELSE ghost.cuts + 1
    BY <1>3
  <1>8. Cleared(ghost.clear, kind) \in Clears
    BY DEF Cleared, Clears, ServerInv, Typed
  <1>9. ghost' \in [cuts : Nat, clear : Clears] /\ ghost'.cuts = n /\ ghost'.clear = Cleared(ghost.clear, kind)
    <2>1. ghost' = [[ghost EXCEPT !.cuts = n] EXCEPT !.clear = Cleared(ghost.clear, kind)]
      BY <1>1, <1>7 DEF ServerInv, Typed
    <2>2. QED
      BY <2>1, <1>8 DEF ServerInv, Typed
  <1>10. Typed' /\ Clocked'
    <2>1. events' \in 0 .. MaxEvents
      <3>1. events \in 0 .. MaxEvents /\ MaxEvents \in Nat
        BY ServerAssumption DEF ServerAssumption, ServerInv, Clocked
      <3>2. QED
        BY <1>1, <3>1
    <2>2. QED
      BY <1>1, <1>6, <1>9, <2>1 DEF ServerInv, Typed, Clocked
  <1>11. ASSUME kind # "start" PROVE srv'.epoch = srv.epoch + 1 /\ srv'.pending = << >>
    BY <1>5, <1>6, <1>11 DEF Ordered, Interrupts
  <1>12. Queued(srv', running', ghost'.cuts)
    <2>1. CASE kind = "start"
      BY <2>1, <1>1, <1>5, <1>6, <1>7, <1>9 DEF Queued, ServerInv
    <2>2. CASE kind # "start"
      BY <2>2, <1>11, EmptyIsQueued
    <2>3. QED
      BY <2>1, <2>2
  <1>13. ASSUME job # Null PROVE job.item \in Decision /\ Fresh(job.item, srv.epoch, TRUE, ghost.cuts)
    BY <1>1, <1>13 DEF ServerInv, Typed, Carried, Job
  <1>14. srv.epoch \in Nat
    BY <1>3 DEF IsServer
  <1>15. Carried'
    <2>1. ASSUME job # Null PROVE Fresh(job.item, srv'.epoch, TRUE, ghost'.cuts)
      <3>1. job.item.epoch \in Nat /\ job.item.epoch <= srv.epoch
            /\ (job.item.epoch = srv.epoch => job.item.cuts = ghost.cuts)
        BY <2>1, <1>13 DEF Decision, Fresh
      <3>2. CASE kind = "start"
        BY <3>1, <3>2, <1>5, <1>6, <1>7, <1>9, <1>14 DEF Fresh
      <3>3. CASE kind # "start"
        BY <3>1, <3>3, <1>11, <1>14 DEF Fresh
      <3>4. QED
        BY <3>2, <3>3
    <2>2. QED
      BY <1>1, <2>1 DEF Carried
  <1>16. /\ kind = "preference" =>
              srv'.e.fault = srv.e.fault /\ (srv'.e.state \in Halted <=> srv.e.state \in Halted)
         /\ kind = "pause" => srv'.e.fault = srv.e.fault /\ srv'.e.state = "paused"
         /\ kind = "reset_fault" => srv'.e.state = "paused"
         /\ kind = "start" => /\ srv'.e.fault = srv.e.fault
                              /\ srv.e.fault \/ srv.e.state # "paused" => srv'.e = srv.e
    BY <1>3, <1>4, <1>5, <1>6, EventMoves DEF IsServer
  <1>17. Approved'
    <2>1. ghost.clear \in Clears
      BY DEF ServerInv, Typed
    <2>2. CASE kind = "preference"
      BY <2>2, <1>9, <1>16 DEF Cleared, Approved, ServerInv
    <2>3. CASE kind = "pause"
      BY <2>1, <2>3, <1>9, <1>16 DEF Cleared, Clears, Approved, ServerInv, Halted
    <2>4. CASE kind = "reset_fault"
      BY <2>4, <1>9, <1>16 DEF Cleared, Approved, Halted
    <2>5. CASE kind = "start"
      BY <2>1, <2>5, <1>9, <1>16 DEF Cleared, Clears, Approved, ServerInv
    <2>6. QED
      BY <2>2, <2>3, <2>4, <2>5 DEF Ordered
  <1>18. OnDisk'
    <2>1. ASSUME job # Null, job.item.epoch = srv'.epoch
          PROVE  srv'.e.state \notin Halted /\ srv'.file = Memory(srv'.e)
      <3>1. job.item.epoch \in Nat /\ job.item.epoch <= srv.epoch
        BY <2>1, <1>13 DEF Decision, Fresh
      <3>2. kind = "start" /\ srv'.epoch = srv.epoch
        BY <2>1, <3>1, <1>5, <1>6, <1>11, <1>14
      <3>3. srv.e.state \notin Halted /\ srv.file = Memory(srv.e)
        BY <2>1, <3>2, <1>1 DEF ServerInv, OnDisk
      <3>4. srv'.e = srv.e
        BY <3>2, <3>3, <1>16 DEF Halted
      <3>5. QED
        BY <3>3, <3>4, <1>5, <1>6
    <2>2. QED
      BY <1>1, <2>1 DEF OnDisk
  <1>19. Stopped' /\ HaltedIsQuiet'
    BY <1>1 DEF Stopped, HaltedIsQuiet, LockFree, Calling
  <1>20. QED
    BY <1>10, <1>12, <1>15, <1>17, <1>18, <1>19 DEF ServerInv

LEMMA ShutdownKeeps ==
  ASSUME ServerInv, Shutdown
  PROVE  ServerInv'
  <1>1. /\ LockFree /\ running' = FALSE
        /\ srv' = [srv EXCEPT !.pending = << >>, !.e = [srv.e EXCEPT !.state = "paused"]]
        /\ ghost' = [ghost EXCEPT !.cuts = ghost.cuts + 1]
        /\ UNCHANGED << now, looped, world, touchedAt, job, events >>
    BY DEF Shutdown, ServerInv, Typed, IsServer, ServerFields
  <1>2. PICK g : g = [srv.e EXCEPT !.state = "paused"]
    OBVIOUS
  <1>3. IsEngine(g) /\ g.state = "paused" /\ g.fault = srv.e.fault
    BY <1>2, EngineStates DEF ServerInv, Typed, IsServer, IsEngine, Fields, Halted
  <1>4. << >> \in Seq(Decision) /\ Len(<< >>) <= QueueLimit
    BY EmptyQueue
  <1>5. srv' = [[srv EXCEPT !.pending = << >>] EXCEPT !.e = g]
    BY <1>1, <1>2
  <1>6. /\ IsServer(srv') /\ srv'.e = g /\ srv'.epoch = srv.epoch /\ srv'.pending = << >>
        /\ srv'.ok = srv.ok
    BY <1>3, <1>4, <1>5 DEF ServerInv, Typed, IsServer, ServerFields
  <1>7. ghost' \in [cuts : Nat, clear : Clears] /\ ghost'.clear = ghost.clear
    <2>1. PICK n \in Nat : n = ghost.cuts + 1
      <3>1. ghost.cuts \in Nat
        BY DEF ServerInv, Typed
      <3>2. QED
        BY <3>1
    <2>2. ghost' = [ghost EXCEPT !.cuts = n]
      BY <1>1, <2>1
    <2>3. QED
      BY <2>2 DEF ServerInv, Typed
  <1>8. Queued(srv', running', ghost'.cuts)
    BY <1>6, EmptyIsQueued
  <1>9. srv'.e.state \in Halted
    BY <1>3, <1>6 DEF Halted
  <1>10. Carried'
    BY <1>1, <1>6 DEF Carried, Fresh, ServerInv
  <1>11. Approved'
    BY <1>3, <1>6, <1>7, <1>9 DEF Approved, ServerInv
  <1>12. Typed' /\ Clocked'
    BY <1>1, <1>6, <1>7 DEF Typed, Clocked, ServerInv
  <1>13. Stopped' /\ OnDisk' /\ HaltedIsQuiet'
    BY <1>1, <1>9 DEF Stopped, OnDisk, HaltedIsQuiet, LockFree, Calling
  <1>14. QED
    BY <1>8, <1>10, <1>11, <1>12, <1>13 DEF ServerInv

LEMMA NewServerStarts ==
  ASSUME NEW memory \in Memories, NEW s, s = NewServer(memory)
  PROVE  /\ IsServer(s) /\ s.ok /\ s.pending = << >> /\ s.e.state = "paused" /\ s.e.fault = FALSE
         /\ s.epoch = 0
  <1>1. PICK g : g = NewEngine(memory)
    OBVIOUS
  <1>2. IsEngine(g) /\ g.state = "paused" /\ g.fault = FALSE
    <2>1. /\ Never \in Int /\ << >> \in Seq(Int)
          /\ Len(<< >>) <= InvitationBudget /\ Len(<< >>) <= ProactiveBudget
      BY Numbers, EmptySeq
    <2>2. QED
      BY <1>1, <2>1, EngineStates DEF NewEngine, IsEngine, Fields, Memories, Halted
  <1>3. s = [e |-> g, epoch |-> 0, pending |-> << >>, saved |-> Null, file |-> memory, ok |-> TRUE]
    BY <1>1 DEF NewServer
  <1>4. << >> \in Seq(Decision) /\ Len(<< >>) <= QueueLimit
    BY EmptyQueue
  <1>5. QED
    BY <1>2, <1>3, <1>4 DEF IsServer, ServerFields

LEMMA RestartKeeps ==
  ASSUME ServerInv, Restart
  PROVE  ServerInv'
  <1>1. srv.file \in Memories
    BY DEF ServerInv, Typed, IsServer
  <1>2. /\ IsServer(srv') /\ srv'.ok /\ srv'.pending = << >> /\ srv'.e.state = "paused"
    BY <1>1, NewServerStarts DEF Restart
  <1>3. ghost' \in [cuts : Nat, clear : Clears] /\ ghost'.clear = "start"
    <2>1. PICK n \in Nat : n = ghost.cuts + 1
      <3>1. ghost.cuts \in Nat
        BY DEF ServerInv, Typed
      <3>2. QED
        BY <3>1
    <2>2. ghost' = [[ghost EXCEPT !.cuts = n] EXCEPT !.clear = "start"]
      BY <2>1 DEF Restart, ServerInv, Typed
    <2>3. QED
      BY <2>2 DEF ServerInv, Typed, Clears
  <1>4. Queued(srv', running', ghost'.cuts)
    BY <1>2, EmptyIsQueued
  <1>5. Clocked'
    <2>1. events \in 0 .. MaxEvents /\ MaxEvents \in Nat /\ now \in 0 .. MaxTime
      BY ServerAssumption DEF ServerAssumption, ServerInv, Clocked
    <2>2. QED
      BY <2>1 DEF Restart, ServerInv, Clocked
  <1>6. srv'.e.state \in Halted
    BY <1>2 DEF Halted
  <1>7. QED
    BY <1>2, <1>3, <1>4, <1>5, <1>6
       DEF Restart, ServerInv, Typed, Carried, Approved, Stopped, OnDisk, HaltedIsQuiet, Calling

LEMMA OutsideKeeps ==
  ASSUME ServerInv, TimePasses \/ WorldChanges \/ TouchFelt
  PROVE  ServerInv'
  <1>1. UNCHANGED << srv, job, running, ghost >>
    BY DEF TimePasses, WorldChanges, TouchFelt
  <1>2. Clocked'
    <2>1. /\ now \in 0 .. MaxTime /\ MaxTime \in Nat /\ looped \in -1 .. now
          /\ world \in Observation \cup {Null} /\ touchedAt \in 0 .. now \cup {Never}
          /\ events \in 0 .. MaxEvents
      BY BoundsAssumption DEF BoundsAssumption, ServerInv, Clocked
    <2>2. CASE TimePasses
      BY <2>1, <2>2 DEF TimePasses, Clocked
    <2>3. CASE WorldChanges
      BY <2>1, <2>3 DEF WorldChanges, Clocked
    <2>4. CASE TouchFelt
      BY <2>1, <2>4 DEF TouchFelt, Clocked
    <2>5. QED
      BY <2>2, <2>3, <2>4
  <1>3. now' \in Int
    BY <1>2, Numbers, BoundsAssumption DEF BoundsAssumption, Clocked
  <1>4. QED
    BY <1>1, <1>2, <1>3 DEF ServerInv, Typed, Queued, Carried, Approved, Stopped, OnDisk, HaltedIsQuiet,
                            Calling

LEMMA ServerStarts == ServerInit => ServerInv
  <1> SUFFICES ASSUME ServerInit PROVE ServerInv
    OBVIOUS
  <1>1. NoMemory \in Memories
    BY DEF NoMemory, Memories, Modes
  <1>2. IsServer(srv) /\ srv.ok /\ srv.pending = << >> /\ srv.e.state = "paused"
    BY <1>1, NewServerStarts DEF ServerInit
  <1>3. Queued(srv, running, ghost.cuts)
    BY <1>2, EmptyIsQueued
  <1>4. ghost \in [cuts : Nat, clear : Clears] /\ ghost.clear = "start"
    BY DEF ServerInit, Clears
  <1>5. Clocked /\ now \in Int
    <2>1. MaxTime \in Nat /\ MaxEvents \in Nat
      BY BoundsAssumption, ServerAssumption DEF BoundsAssumption, ServerAssumption
    <2>2. QED
      BY <2>1 DEF ServerInit, Clocked
  <1>6. QED
    BY <1>2, <1>3, <1>4, <1>5
       DEF ServerInit, ServerInv, Typed, Carried, Approved, Stopped, OnDisk, HaltedIsQuiet, Calling, Halted

LEMMA ServerStep ==
  ASSUME ServerInv, [ServerNext]_serverVars
  PROVE  ServerInv'
  <1>1. CASE LoopRound
    BY <1>1, LoopKeeps
  <1>2. CASE CallStarts
    BY <1>2, CallStartsKeeps
  <1>3. CASE Cancelled \/ CallSucceeds \/ CallFails
    BY <1>3, CallEndsKeeps
  <1>4. CASE FailureRecorded
    BY <1>4, FailureKeeps
  <1>5. CASE Start \/ Pause \/ ResetFault \/ Prefer
    <2>1. "free" \in Modes /\ {"start", "pause", "reset_fault", "preference"} = Ordered
      BY DEF Modes, Ordered
    <2>2. CASE Start \/ Pause \/ ResetFault
      BY <2>1, <2>2, PostKeeps DEF Start, Pause, ResetFault
    <2>3. CASE Prefer
      BY <2>1, <2>3, PostKeeps DEF Prefer
    <2>4. QED
      BY <1>5, <2>2, <2>3
  <1>6. CASE Shutdown
    BY <1>6, ShutdownKeeps
  <1>7. CASE Restart
    BY <1>7, RestartKeeps
  <1>8. CASE TimePasses \/ WorldChanges \/ TouchFelt
    BY <1>8, OutsideKeeps
  <1>9. CASE UNCHANGED serverVars
    BY <1>9 DEF serverVars, ServerInv, Typed, Clocked, Queued, Carried, Approved, Stopped, OnDisk,
                HaltedIsQuiet, Calling
  <1>10. QED
    BY <1>1, <1>2, <1>3, <1>4, <1>5, <1>6, <1>7, <1>8, <1>9 DEF ServerNext

LEMMA ServerInvariance == ServerSpec => []ServerInv
  <1>1. QED
    BY ServerStarts, ServerStep, PTL DEF ServerSpec

LEMMA EngineIsTyped ==
  ASSUME NEW f, IsEngine(f)
  PROVE  EngineTypeOK(f)
  BY DEF IsEngine, Fields, EngineTypeOK, Engine

\* The types of the server's variables, apps/companion/server.py, main: of all
\* fields of the engine, its two lists never longer than their budgets, and the
\* queue never longer than its deque allows.
THEOREM ServerIsTyped == ServerSpec => []ServerTypeOK
  <1>1. ServerInv => ServerTypeOK
    <2> SUFFICES ASSUME ServerInv PROVE ServerTypeOK
      OBVIOUS
    <2>1. EngineTypeOK(srv.e)
      BY EngineIsTyped DEF ServerInv, Typed, IsServer
    <2>2. QED
      BY <2>1 DEF ServerInv, Typed, Clocked, ServerTypeOK, IsServer, Clears
  <1>2. QED
    BY <1>1, ServerInvariance, PTL

\* While the engine is paused or at fault no native call is running, whatever
\* the windows and budgets and however many requests and restarts: a POST
\* takes the lock that dispatch() holds during a call, and dispatch() looks at
\* the engine under the same lock.
THEOREM PauseWaits == ServerSpec => []HaltedIsQuiet
  <1>1. ServerInv => HaltedIsQuiet
    BY DEF ServerInv
  <1>2. QED
    BY <1>1, ServerInvariance, PTL

\* After a failure no native call runs before reset_fault and then start, and
\* after a pause, a restart or a shutdown not before start: what the operator
\* still owes finds the engine halted, through every exception and fault.
THEOREM FaultsNeedApproval == ServerSpec => []FaultNeedsApproval
  <1>1. ServerInv => FaultNeedsApproval
    BY DEF ServerInv, FaultNeedsApproval, HaltedIsQuiet, Approved
  <1>2. QED
    BY <1>1, ServerInvariance, PTL

\* A native call only starts when the worker passes dispatch().
LEMMA OnlyDispatchCalls ==
  ASSUME ServerInv, [ServerNext]_serverVars, ~Calling, Calling'
  PROVE  CallStarts
  <1>1. job' # Null /\ job'.phase = "calling" /\ job' # job
    BY DEF Calling
  <1>2. ~LoopRound
    <2>1. ASSUME LoopRound PROVE job' = Null \/ job'.phase = "between"
      <3>1. PICK d \in Drives, writes \in {TRUE, ~WriteMayFail}, steps \in Steps :
              Round(d, writes, steps)
        BY <2>1, RoundDoes
      <3>2. QED
        BY <3>1 DEF Round
    <2>2. QED
      BY <1>1, <2>1
  <1>3. ~(Cancelled \/ CallSucceeds \/ CallFails \/ FailureRecorded \/ Restart)
    BY <1>1 DEF Cancelled, CallSucceeds, CallFails, FailureRecorded, Restart
  <1>4. ~(Start \/ Pause \/ ResetFault \/ Prefer \/ Shutdown \/ TimePasses \/ WorldChanges \/ TouchFelt)
    BY <1>1 DEF Start, Pause, ResetFault, Prefer, Post, Shutdown, TimePasses, WorldChanges, TouchFelt
  <1>5. job' # job => ~UNCHANGED serverVars
    BY DEF serverVars
  <1>6. QED
    BY <1>1, <1>2, <1>3, <1>4, <1>5 DEF ServerNext

\* No native call starts of an action that was decided before the operator's
\* last pause, reset or preference, or before the shutdown: an interruption
\* moves to a new epoch or leaves the engine halted for good, and dispatch()
\* compares epochs before each call.
THEOREM InterruptsAreFinal == ServerSpec => NoCallAfterInterrupt
  <1>1. ServerInv /\ [ServerNext]_serverVars
          => [~Calling /\ Calling' => job.item.cuts = ghost.cuts]_serverVars
    <2> SUFFICES ASSUME ServerInv, [ServerNext]_serverVars, ~Calling, Calling'
                 PROVE  job.item.cuts = ghost.cuts
      OBVIOUS
    <2>1. job # Null /\ job.item.epoch = srv.epoch /\ srv.e.state \notin Halted
      BY OnlyDispatchCalls DEF CallStarts, MayCall
    <2>2. QED
      BY <2>1 DEF ServerInv, Carried, Stopped, Fresh
  <1>2. QED
    BY <1>1, ServerInvariance, PTL DEF ServerSpec, NoCallAfterInterrupt

\* When a native call starts, the memory file holds what the engine remembers:
\* an apply() whose write failed ends in a new epoch or in a fault.
THEOREM MemoryComesFirst == ServerSpec => ActsOnSavedMemory
  <1>1. ServerInv /\ [ServerNext]_serverVars
          => [~Calling /\ Calling' => srv.file = Memory(srv.e)]_serverVars
    <2> SUFFICES ASSUME ServerInv, [ServerNext]_serverVars, ~Calling, Calling'
                 PROVE  srv.file = Memory(srv.e)
      OBVIOUS
    <2>1. job # Null /\ job.item.epoch = srv.epoch /\ srv.e.state \notin Halted
      BY OnlyDispatchCalls DEF CallStarts, MayCall
    <2>2. running
      BY <2>1 DEF ServerInv, Stopped
    <2>3. QED
      BY <2>1, <2>2 DEF ServerInv, OnDisk
  <1>2. QED
    BY <1>1, ServerInvariance, PTL DEF ServerSpec, ActsOnSavedMemory

-----------------------------------------------------------------------------
(***************************************************************************)
(* The policy: the engine's two lists count at least what it did unasked,  *)
(* now and at any later moment; its counter is the number of strikes, and  *)
(* the time it put the next invitation off to is far enough; and it was    *)
(* not seen away since it believes somebody is there.                      *)
(***************************************************************************)
Entry == [act : Actions, at : Int]

Within(log, acts, u) == {i \in 1 .. Len(log) : log[i].act \in acts /\ u - log[i].at < BudgetWindow}
Spent(log, acts, u) == Cardinality(Within(log, acts, u))

Covers(f, log, t) == \A u \in Int : u >= t =>
    /\ Spent(log, Actions, u) <= Load(f.proactive, u)
    /\ Load(f.proactive, u) <= ProactiveBudget
    /\ Spent(log, {"invite"}, u) <= Load(f.invitations, u)
    /\ Load(f.invitations, u) <= InvitationBudget

PutOff(log, s) == \A i \in 1 .. Len(log) :
    log[i].act = "invite" /\ s.count > 0 /\ log[i].at >= s.at => log[i].at - s.at >= Backoff(s.count)

Owes(f, log, s) == /\ s.count = f.ignored
                   /\ s.count > 0 => f.nextInvitation >= s.at + Backoff(s.count)
                   /\ ResponseWindow > 0 => PutOff(log, s)

Waits(f, log) == f.state = "inviting" =>
    \A i \in 1 .. Len(log) : log[i].act = "invite" => log[i].at + ResponseWindow <= f.deadline

Past(log, s, t) == /\ log \in Seq(Entry) /\ \A i \in 1 .. Len(log) : log[i].at <= t
                   /\ s \in [count : Nat, at : Int] /\ (s.count > 0 => s.at <= t)

Honest(f, log, s, t) == Covers(f, log, t) /\ Owes(f, log, s) /\ Waits(f, log) /\ Past(log, s, t)

Stayed(f, away, t) == away \in Int /\ away <= t /\ (f.presentSince # Never => away <= f.presentSince)

PolicyInv == /\ IsEngine(engine) /\ clock \in Nat
             /\ Honest(engine, did, strikes, clock) /\ Stayed(engine, awayAt, clock)

-----------------------------------------------------------------------------
LEMMA LoadIsBounded ==
  ASSUME NEW s \in Seq(Int), NEW u
  PROVE  Load(s, u) \in Nat /\ Load(s, u) <= Len(s)
  <1>1. PICK n \in Nat : n = Len(s)
    OBVIOUS
  <1>2. IsFiniteSet(1 .. n) /\ Cardinality(1 .. n) = n
    <2>1. 1 \in Int /\ n \in Int
      OBVIOUS
    <2>2. IsFiniteSet(1 .. n) /\ Cardinality(1 .. n) = IF 1 > n THEN 0 ELSE n - 1 + 1
      BY ONLY <2>1, FS_Interval
    <2>3. QED
      BY <2>2
  <1>3. Counting(s, n, u) \subseteq 1 .. n
    BY DEF Counting
  <1>4. Cardinality(Counting(s, n, u)) <= Cardinality(1 .. n)
    BY <1>2, <1>3, FS_Subset
  <1>5. Cardinality(Counting(s, n, u)) \in Nat
    BY CountingIsFinite
  <1>6. QED
    BY <1>1, <1>2, <1>4, <1>5 DEF Load

LEMMA GrownCounts ==
  ASSUME NEW s, NEW q, NEW t \in Int, NEW budget \in Nat, Grown(s, q, t, budget), NEW u \in Int, u >= t
  PROVE  /\ Load(s, u) = Load(q, u) + IF u - t < BudgetWindow THEN 1 ELSE 0
         /\ Load(q, u) \in Nat /\ Load(s, u) <= budget
  <1>1. PICK p : Alike(p, q, t) /\ Len(p) < budget /\ s = Append(p, t)
    BY DEF Grown
  <1>2. p \in Seq(Int) /\ Load(p, u) = Load(q, u)
    BY <1>1 DEF Alike
  <1>3. Load(s, u) = Load(p, u) + IF u - t < BudgetWindow THEN 1 ELSE 0
    BY <1>1, <1>2, CountingAppended DEF Load
  <1>4. Load(p, u) \in Nat /\ Load(p, u) <= Len(p) /\ Len(p) \in Nat
    BY <1>2, LoadIsBounded
  <1>5. QED
    BY <1>1, <1>2, <1>3, <1>4

LEMMA SpentAppended ==
  ASSUME NEW log \in Seq(Entry), NEW act \in Actions, NEW t \in Int, NEW acts, NEW u
  PROVE  /\ Spent(log, acts, u) \in Nat
         /\ Spent(Append(log, [act |-> act, at |-> t]), acts, u) =
              Spent(log, acts, u) + IF act \in acts /\ u - t < BudgetWindow THEN 1 ELSE 0
  <1>1. PICK entry \in Entry : entry = [act |-> act, at |-> t]
    BY DEF Entry
  <1>2. PICK new : new = Append(log, entry)
    OBVIOUS
  <1>3. PICK n \in Nat : n = Len(log)
    OBVIOUS
  <1>4. Len(new) = n + 1 /\ new[n + 1] = entry /\ \A i \in 1 .. n : new[i] = log[i]
    BY <1>1, <1>2, <1>3
  <1>5. IsFiniteSet(Within(log, acts, u)) /\ Spent(log, acts, u) \in Nat
    <2>1. IsFiniteSet(1 .. n) /\ Within(log, acts, u) \subseteq 1 .. n
      BY <1>3, FS_Interval DEF Within
    <2>2. QED
      BY <2>1, FS_Subset, FS_CardinalityType DEF Spent
  <1>6. CASE act \in acts /\ u - t < BudgetWindow
    <2>1. /\ Within(new, acts, u) = Within(log, acts, u) \cup {n + 1}
          /\ n + 1 \notin Within(log, acts, u)
      BY <1>1, <1>3, <1>4, <1>6 DEF Within
    <2>2. QED
      BY <1>1, <1>2, <1>5, <1>6, <2>1, FS_AddElement DEF Spent
  <1>7. CASE ~(act \in acts /\ u - t < BudgetWindow)
    <2>1. Within(new, acts, u) = Within(log, acts, u)
      BY <1>1, <1>3, <1>4, <1>7 DEF Within
    <2>2. QED
      BY <1>1, <1>2, <1>5, <1>7, <2>1 DEF Spent
  <1>8. QED
    BY <1>6, <1>7


-----------------------------------------------------------------------------
\* The history after one call, as Recall writes it.
Logged(log, acts, t) == IF acts \in {<< >>, << "acknowledge" >>} THEN log
                        ELSE Append(log, [act |-> acts[1], at |-> t])
Struck(s, f, g, acts, t) ==
    IF acts = << "acknowledge" >> THEN NoStrikes
    ELSE IF acts = << >> /\ << g.ignored, g.nextInvitation >> # << f.ignored, f.nextInvitation >>
    THEN [count |-> IF s.count < IgnoredCap THEN s.count + 1 ELSE IgnoredCap, at |-> t]
    ELSE s

LEMMA OneAct ==
  ASSUME NEW act \in Actions
  PROVE  One(act) # << >> /\ One(act)[1] = act /\ (One(act) = << "acknowledge" >> <=> act = "acknowledge")
  BY DEF One

\* An answer that logs nothing and strikes nothing.
LEMMA NothingLogged ==
  ASSUME NEW log, NEW t, NEW s, NEW f, NEW g
  PROVE  /\ Logged(log, << >>, t) = log
         /\ Same(g, f) => Struck(s, f, g, << >>, t) = s
  <1>1. << >> # << "acknowledge" >>
    OBVIOUS
  <1>2. Same(g, f) => << g.ignored, g.nextInvitation >> = << f.ignored, f.nextInvitation >>
    BY DEF Same
  <1>3. QED
    BY <1>1, <1>2 DEF Logged, Struck

LEMMA SomethingLogged ==
  ASSUME NEW log, NEW t, NEW s, NEW f, NEW g, NEW act \in Actions
  PROVE  /\ act # "acknowledge" => /\ Logged(log, One(act), t) = Append(log, [act |-> act, at |-> t])
                                   /\ Struck(s, f, g, One(act), t) = s
         /\ act = "acknowledge" => Logged(log, One(act), t) = log /\ Struck(s, f, g, One(act), t) = NoStrikes
  BY OneAct DEF Logged, Struck

LEMMA AlikeCovers ==
  ASSUME NEW f, NEW g, NEW log, NEW t, Covers(f, log, t),
         Alike(g.proactive, f.proactive, t), Alike(g.invitations, f.invitations, t)
  PROVE  Covers(g, log, t)
  BY DEF Covers, Alike

LEMMA GrownCovers ==
  ASSUME NEW f, NEW g, NEW log \in Seq(Entry), NEW t \in Int, Covers(f, log, t),
         NEW act \in Actions, NEW new, new = Append(log, [act |-> act, at |-> t]),
         Grown(g.proactive, f.proactive, t, ProactiveBudget),
         IF act = "invite" THEN Grown(g.invitations, f.invitations, t, InvitationBudget)
         ELSE Alike(g.invitations, f.invitations, t)
  PROVE  Covers(g, new, t)
  <1> SUFFICES ASSUME NEW u \in Int, u >= t
               PROVE  /\ Spent(new, Actions, u) <= Load(g.proactive, u)
                      /\ Load(g.proactive, u) <= ProactiveBudget
                      /\ Spent(new, {"invite"}, u) <= Load(g.invitations, u)
                      /\ Load(g.invitations, u) <= InvitationBudget
    BY DEF Covers
  <1>1. PICK one \in Nat : one = IF u - t < BudgetWindow THEN 1 ELSE 0
    OBVIOUS
  <1>2. /\ Spent(log, Actions, u) <= Load(f.proactive, u)
        /\ Spent(log, {"invite"}, u) <= Load(f.invitations, u)
        /\ Load(f.invitations, u) <= InvitationBudget
    BY DEF Covers
  <1>3. /\ Load(g.proactive, u) = Load(f.proactive, u) + one /\ Load(f.proactive, u) \in Nat
        /\ Load(g.proactive, u) <= ProactiveBudget
    BY <1>1, Numbers, GrownCounts
  <1>4. Spent(log, Actions, u) \in Nat /\ Spent(new, Actions, u) = Spent(log, Actions, u) + one
    BY <1>1, SpentAppended
  <1>5. Spent(log, {"invite"}, u) \in Nat
        /\ Spent(new, {"invite"}, u) = Spent(log, {"invite"}, u) + IF act = "invite" THEN one ELSE 0
    BY <1>1, SpentAppended
  <1>6. CASE act = "invite"
    <2>1. /\ Load(g.invitations, u) = Load(f.invitations, u) + one /\ Load(f.invitations, u) \in Nat
          /\ Load(g.invitations, u) <= InvitationBudget
      <3>1. Grown(g.invitations, f.invitations, t, InvitationBudget)
        BY <1>6
      <3>2. PICK x, y : x = g.invitations /\ y = f.invitations
        OBVIOUS
      <3>3. PICK budget \in Nat : budget = InvitationBudget
        BY Numbers
      <3>4. Grown(x, y, t, budget) /\ u \in Int /\ u >= t /\ t \in Int /\ budget \in Nat
        BY <3>1, <3>2, <3>3
      <3>5. /\ Load(x, u) = Load(y, u) + IF u - t < BudgetWindow THEN 1 ELSE 0
            /\ Load(y, u) \in Nat /\ Load(x, u) <= budget
        BY ONLY <3>4, GrownCounts
      <3>6. QED
        BY <1>1, <3>2, <3>3, <3>5
    <2>2. QED
      BY <1>2, <1>3, <1>4, <1>5, <1>6, <2>1
  <1>7. CASE act # "invite"
    <2>1. Load(g.invitations, u) = Load(f.invitations, u)
      BY <1>7 DEF Alike
    <2>2. QED
      BY <1>2, <1>3, <1>4, <1>5, <1>7, <2>1
  <1>8. QED
    BY <1>6, <1>7

\* A call of the engine keeps the history honest.
LEMMA CallKeeps ==
  ASSUME NEW f, IsEngine(f), NEW t \in Int, NEW r, Moves(r, f, t),
         NEW log, NEW s, Honest(f, log, s, t)
  PROVE  Honest(r.e, Logged(log, r.acts, t), Struck(s, f, r.e, r.acts, t), t)
  <1>1. PICK g : g = r.e
    OBVIOUS
  <1>2. /\ IsEngine(g) /\ log \in Seq(Entry) /\ s \in [count : Nat, at : Int]
        /\ \A i \in 1 .. Len(log) : log[i] \in Entry /\ log[i].at <= t
        /\ Len(log) \in Nat /\ IgnoredCap \in Nat /\ ResponseWindow \in Int /\ Never \in Int
    <2>1. IsEngine(g) /\ Past(log, s, t)
      BY <1>1 DEF Moves, Honest
    <2>2. /\ log \in Seq(Entry) /\ s \in [count : Nat, at : Int]
          /\ \A i \in 1 .. Len(log) : log[i].at <= t
      BY <2>1 DEF Past
    <2>3. Len(log) \in Nat /\ \A i \in 1 .. Len(log) : log[i] \in Entry
      BY <2>2, LenProperties, ElementOfSeq
    <2>4. QED
      BY <2>1, <2>2, <2>3, Numbers
  <1>3. ASSUME NEW act \in Actions, NEW new, new = Append(log, [act |-> act, at |-> t])
        PROVE  /\ new \in Seq(Entry) /\ Len(new) = Len(log) + 1 /\ new[Len(new)].act = act
               /\ new[Len(new)].at = t /\ Past(new, s, t)
               /\ \A i \in 1 .. Len(new) : (i \in 1 .. Len(log) /\ new[i] = log[i]) \/ i = Len(new)
    <2>1. PICK entry \in Entry : entry = [act |-> act, at |-> t]
      BY DEF Entry
    <2>2. /\ new \in Seq(Entry) /\ Len(new) = Len(log) + 1 /\ new[Len(new)] = entry
          /\ \A i \in 1 .. Len(new) : (i \in 1 .. Len(log) /\ new[i] = log[i]) \/ i = Len(new)
      BY <1>2, <1>3, <2>1
    <2>3. entry.act = act /\ entry.at = t
      BY <2>1
    <2>4. \A i \in 1 .. Len(new) : new[i].at <= t
      BY <1>2, <2>2, <2>3
    <2>5. Len(new) \in 1 .. Len(new)
      BY <1>2, <2>2
    <2>6. Past(new, s, t)
      BY <2>2, <2>4 DEF Past, Honest
    <2>7. QED
      BY <2>2, <2>3, <2>6
  <1>4. CASE Rests(r, f, t)
    <2>1. Covers(g, log, t) /\ Past(log, s, t)
      BY <1>1, <1>4, AlikeCovers DEF Rests, Honest
    <2>2. Waits(g, log)
      BY <1>1, <1>4 DEF Rests, Honest, Waits
    <2>3. CASE Same(g, f)
      BY <1>1, <1>4, <2>1, <2>2, <2>3, NothingLogged DEF Rests, Honest, Owes, Same
    <2>4. CASE GaveUp(g, f, t) /\ ~Same(g, f)
      <3>1. PICK n \in Nat : n = IF s.count < IgnoredCap THEN s.count + 1 ELSE IgnoredCap
        BY <1>2
      <3>2. PICK z : z = [count |-> n, at |-> t]
        OBVIOUS
      <3>3. r.acts = << >> /\ Logged(log, << >>, t) = log
        BY <1>4, NothingLogged DEF Rests
      <3>4. Struck(s, f, g, << >>, t) = z
        <4>1. << >> # << "acknowledge" >>
          OBVIOUS
        <4>2. << g.ignored, g.nextInvitation >> # << f.ignored, f.nextInvitation >>
          BY <2>4 DEF Same
        <4>3. QED
          BY <3>1, <3>2, <4>1, <4>2 DEF Struck
      <3>5. g.ignored = n /\ g.nextInvitation = t + Backoff(n)
        BY <2>4, <3>1 DEF GaveUp, Honest, Owes
      <3>6. ASSUME ResponseWindow > 0, NEW i \in 1 .. Len(log), log[i].act = "invite"
            PROVE  log[i].at < t
        <4>1. log[i].at + ResponseWindow <= f.deadline /\ f.deadline <= t
              /\ f.deadline \in Int /\ log[i].at \in Int
          BY <1>2, <2>4, <3>6 DEF GaveUp, Honest, Waits, IsEngine, Entry
        <4>2. QED
          BY <1>2, <4>1, <3>6
      <3>7. ResponseWindow > 0 => PutOff(log, z)
        <4>1. \A i \in 1 .. Len(log) : log[i].at \in Int
          BY <1>2 DEF Entry
        <4>2. QED
          BY <3>2, <3>6, <4>1 DEF PutOff
      <3>8. t + Backoff(n) \in Int
        <4>1. Backoff(n) \in Int
          BY BackoffIsWhole
        <4>2. QED
          BY <4>1
      <3>9. Owes(g, log, z) /\ Past(log, z, t)
        BY <2>1, <3>2, <3>5, <3>7, <3>8 DEF Owes, Past
      <3>10. QED
        BY <1>1, <2>1, <2>2, <3>3, <3>4, <3>9 DEF Honest
    <2>5. QED
      BY <1>1, <1>4, <2>3, <2>4 DEF Rests
  <1>5. CASE Answers(r, f, t)
    <2>1. PICK z : z = NoStrikes
      OBVIOUS
    <2>2. /\ Logged(log, r.acts, t) = log /\ Struck(s, f, g, r.acts, t) = z
      <3>1. PICK act \in Actions : act = "acknowledge"
        BY DEF Actions
      <3>2. r.acts = One(act)
        BY <1>5, <3>1 DEF Answers
      <3>3. Logged(log, One(act), t) = log
        BY <3>1, SomethingLogged
      <3>4. Struck(s, f, g, One(act), t) = NoStrikes
        BY <3>1, OneAct DEF Struck
      <3>5. QED
        BY <2>1, <3>2, <3>3, <3>4
    <2>3. z.count = 0 /\ z \in [count : Nat, at : Int]
      BY <1>2, <2>1 DEF NoStrikes
    <2>4. Covers(g, log, t) /\ Past(log, s, t)
      BY <1>1, <1>5, AlikeCovers DEF Answers, Honest
    <2>5. g.ignored = 0 /\ g.state = "interacting"
      BY <1>1, <1>5 DEF Answers
    <2>6. Honest(g, log, z, t)
      BY <2>3, <2>4, <2>5 DEF Honest, Owes, PutOff, Waits, Past
    <2>7. QED
      BY <1>1, <2>2, <2>6
  <1>6. ASSUME NEW act \in {"greet", "look_around"}, r.acts = One(act), Same(g, f), g.state # "inviting",
               Grown(g.proactive, f.proactive, t, ProactiveBudget),
               Alike(g.invitations, f.invitations, t)
        PROVE  Honest(g, Logged(log, r.acts, t), Struck(s, f, g, r.acts, t), t)
    <2>1. act \in Actions /\ act # "acknowledge" /\ act # "invite"
      BY <1>6 DEF Actions
    <2>2. PICK new : new = Append(log, [act |-> act, at |-> t])
      OBVIOUS
    <2>3. Logged(log, r.acts, t) = new /\ Struck(s, f, g, r.acts, t) = s
      <3>1. r.acts = One(act)
        BY <1>6
      <3>2. QED
        BY <2>1, <2>2, <3>1, SomethingLogged
    <2>4. Covers(g, new, t)
      BY <1>2, <1>6, <2>1, <2>2, GrownCovers DEF Honest
    <2>5. /\ Past(new, s, t)
          /\ \A i \in 1 .. Len(new) : new[i].act = "invite" => i \in 1 .. Len(log) /\ new[i] = log[i]
      BY <1>3, <2>1, <2>2
    <2>6. Owes(g, new, s)
      BY <1>6, <2>5 DEF Honest, Owes, PutOff, Same
    <2>7. Waits(g, new)
      BY <1>6 DEF Waits
    <2>8. QED
      BY <2>3, <2>4, <2>5, <2>6, <2>7 DEF Honest
  <1>7. CASE Greets(r, f, t)
    <2>1. r.acts = One("greet") /\ Same(g, f) /\ g.state = "attending"
          /\ Grown(g.proactive, f.proactive, t, ProactiveBudget) /\ Alike(g.invitations, f.invitations, t)
      BY <1>1, <1>7 DEF Greets
    <2>2. QED
      BY <1>1, <1>6, <2>1
  <1>8. CASE Looks(r, f, t)
    <2>1. r.acts = One("look_around") /\ Same(g, f) /\ g.state = "quiet"
          /\ Grown(g.proactive, f.proactive, t, ProactiveBudget) /\ Alike(g.invitations, f.invitations, t)
      BY <1>1, <1>8 DEF Looks
    <2>2. QED
      BY <1>1, <1>6, <2>1
  <1>9. CASE Invites(r, f, t)
    <2>1. PICK act : act = "invite" /\ act \in Actions /\ act # "acknowledge"
      BY DEF Actions
    <2>2. PICK new : new = Append(log, [act |-> act, at |-> t])
      OBVIOUS
    <2>3. Logged(log, r.acts, t) = new /\ Struck(s, f, g, r.acts, t) = s
      <3>1. r.acts = One(act)
        BY <1>9, <2>1 DEF Invites
      <3>2. QED
        BY <2>1, <2>2, <3>1, SomethingLogged
    <2>4. Covers(g, new, t)
      BY <1>1, <1>2, <1>9, <2>1, <2>2, GrownCovers DEF Honest, Invites
    <2>5. /\ Past(new, s, t) /\ new \in Seq(Entry) /\ new[Len(new)].at = t
          /\ \A i \in 1 .. Len(new) : new[i].at <= t
          /\ \A i \in 1 .. Len(new) : (i \in 1 .. Len(log) /\ new[i] = log[i]) \/ i = Len(new)
      BY <1>3, <2>1, <2>2 DEF Past
    <2>6. PICK b \in Int : b = Backoff(s.count)
      <3>1. Backoff(s.count) \in Int
        BY <1>2, BackoffIsWhole
      <3>2. QED
        BY <3>1
    <2>7. /\ s.count = f.ignored /\ g.ignored = f.ignored /\ g.nextInvitation = t + b
          /\ s.count > 0 => f.nextInvitation >= s.at + b
          /\ t >= f.nextInvitation /\ f.nextInvitation \in Int /\ s.at \in Int
      BY <1>1, <1>2, <1>9, <2>6 DEF Invites, Honest, Owes, IsEngine
    <2>8. s.count > 0 => t >= s.at + b /\ t >= s.at
      BY <2>7 DEF Honest, Past
    <2>9. ResponseWindow > 0 => PutOff(new, s)
      <3>1. SUFFICES ASSUME ResponseWindow > 0, NEW i \in 1 .. Len(new), new[i].act = "invite",
                            s.count > 0, new[i].at >= s.at
                     PROVE  new[i].at - s.at >= Backoff(s.count)
        BY DEF PutOff
      <3>2. CASE i \in 1 .. Len(log) /\ new[i] = log[i]
        BY <3>1, <3>2 DEF Honest, Owes, PutOff
      <3>3. CASE i = Len(new)
        BY <2>5, <2>6, <2>7, <2>8, <3>1, <3>3
      <3>4. QED
        BY <2>5, <3>2, <3>3
    <2>10. Owes(g, new, s)
      <3>1. s.count > 0 => g.nextInvitation >= s.at + b
        BY <2>7, <2>8
      <3>2. QED
        BY <2>6, <2>7, <2>9, <3>1 DEF Owes
    <2>11. Waits(g, new)
      <3>1. g.deadline = t + ResponseWindow
        BY <1>1, <1>9 DEF Invites
      <3>2. \A i \in 1 .. Len(new) : new[i] \in Entry
        BY <2>5
      <3>3. \A i \in 1 .. Len(new) : new[i].at + ResponseWindow <= t + ResponseWindow
        BY <1>2, <2>5, <3>2 DEF Entry
      <3>4. QED
        BY <3>1, <3>3 DEF Waits
    <2>12. QED
      BY <1>1, <2>3, <2>4, <2>5, <2>10, <2>11 DEF Honest
  <1>10. QED
    BY <1>4, <1>5, <1>7, <1>8, <1>9 DEF Moves


-----------------------------------------------------------------------------
LEMMA RecallLogs ==
  ASSUME NEW f, NEW acts, Recall(f, acts)
  PROVE  did' = Logged(did, acts, clock) /\ strikes' = Struck(strikes, engine, f, acts, clock)
  BY DEF Recall, Logged, Struck

LEMMA PolicyStarts == PolicyInit => PolicyInv
  <1> SUFFICES ASSUME PolicyInit PROVE PolicyInv
    OBVIOUS
  <1>1. Never \in Int /\ Never < 0
    <2>1. PICK w \in Nat : -Never > w
      BY NeverAssumption, WindowsAssumption DEF NeverAssumption, WindowsAssumption, Windows
    <2>2. QED
      BY <2>1, Numbers
  <1>2. PICK f : f = NewEngine(NoMemory)
    OBVIOUS
  <1>3. /\ IsEngine(f) /\ f.state = "paused" /\ f.ignored = 0 /\ f.presentSince = Never
        /\ f.proactive = << >> /\ f.invitations = << >>
    <2>1. /\ << >> \in Seq(Int)
          /\ Len(<< >>) <= InvitationBudget /\ Len(<< >>) <= ProactiveBudget
      BY Numbers, EmptySeq
    <2>2. QED
      BY <1>1, <1>2, <2>1, EngineStates DEF NewEngine, NoMemory, IsEngine, Fields, Modes, Halted
  <1>4. engine = f /\ clock = 0 /\ did = << >> /\ strikes = NoStrikes /\ awayAt = Never
    BY <1>2 DEF PolicyInit
  <1>5. Covers(f, did, 0)
    <2>1. ASSUME NEW u, NEW acts PROVE Within(did, acts, u) = {} /\ Counting(<< >>, Len(<< >>), u) = {}
      BY <1>4 DEF Within, Counting
    <2>2. Cardinality({}) = 0
      BY FS_EmptySet
    <2>3. ASSUME NEW u, NEW acts PROVE Spent(did, acts, u) = 0 /\ Load(<< >>, u) = 0
      BY <2>1, <2>2 DEF Spent, Load
    <2>4. QED
      BY <1>3, <2>3, Numbers DEF Covers
  <1>6. PICK s : s = NoStrikes
    OBVIOUS
  <1>7. s.count = 0 /\ s \in [count : Nat, at : Int]
    BY <1>1, <1>6 DEF NoStrikes
  <1>8. Owes(f, did, s) /\ Waits(f, did)
    BY <1>3, <1>7 DEF Owes, PutOff, Waits
  <1>9. Past(did, s, 0)
    BY <1>4, <1>7, EmptySeq DEF Past
  <1>10. Stayed(f, Never, 0)
    BY <1>1, <1>3 DEF Stayed
  <1>11. QED
    BY <1>3, <1>4, <1>5, <1>6, <1>8, <1>9, <1>10 DEF PolicyInv, Honest

LEMMA ClockKeeps ==
  ASSUME PolicyInv, ClockMoves
  PROVE  PolicyInv'
  <1>1. /\ clock \in Nat /\ clock' = clock + 1 /\ UNCHANGED << engine, did, strikes, awayAt >>
        /\ Honest(engine, did, strikes, clock) /\ Stayed(engine, awayAt, clock) /\ IsEngine(engine)
    BY DEF ClockMoves, PolicyInv
  <1>2. PICK t \in Nat : t = clock + 1 /\ clock \in Nat
    BY <1>1
  <1>3. Covers(engine, did, t)
    BY <1>1, <1>2 DEF Honest, Covers
  <1>4. Past(did, strikes, t)
    <2>1. /\ did \in Seq(Entry) /\ \A i \in 1 .. Len(did) : did[i].at <= clock
          /\ strikes \in [count : Nat, at : Int] /\ (strikes.count > 0 => strikes.at <= clock)
      BY <1>1 DEF Honest, Past
    <2>2. \A i \in 1 .. Len(did) : did[i] \in Entry
      BY <2>1
    <2>3. \A i \in 1 .. Len(did) : did[i].at <= t
      BY <1>2, <2>1, <2>2 DEF Entry
    <2>4. QED
      BY <1>2, <2>1, <2>3 DEF Past
  <1>5. Stayed(engine, awayAt, t)
    BY <1>1, <1>2 DEF Stayed
  <1>6. QED
    BY <1>1, <1>2, <1>3, <1>4, <1>5 DEF PolicyInv, Honest

\* One call of the engine, after what it has taken in.
LEMMA EngineKeeps ==
  ASSUME PolicyInv, NEW f, IsEngine(f), Same(f, engine), f.state = engine.state,
         f.deadline = engine.deadline, f.proactive = engine.proactive,
         f.invitations = engine.invitations,
         NEW r, Moves(r, f, clock), engine' = r.e, Recall(r.e, r.acts), clock' = clock,
         Stayed(f, awayAt', clock)
  PROVE  PolicyInv'
  <1>1. Honest(f, did, strikes, clock)
    <2>1. Honest(engine, did, strikes, clock)
      BY DEF PolicyInv
    <2>2. Covers(f, did, clock)
      BY <2>1 DEF Honest, Covers
    <2>3. Owes(f, did, strikes) /\ Waits(f, did)
      BY <2>1 DEF Honest, Owes, Waits, Same
    <2>4. QED
      BY <2>1, <2>2, <2>3 DEF Honest
  <1>2. did' = Logged(did, r.acts, clock) /\ strikes' = Struck(strikes, f, r.e, r.acts, clock)
    BY RecallLogs DEF Struck, Same
  <1>3. clock \in Nat
    BY DEF PolicyInv
  <1>4. Honest(r.e, did', strikes', clock)
    BY <1>1, <1>2, <1>3, CallKeeps
  <1>5. IsEngine(r.e) /\ Stayed(r.e, awayAt', clock)
    BY DEF Moves, Stayed
  <1>6. QED
    BY <1>3, <1>4, <1>5 DEF PolicyInv

\* The engine's call in a step of the policy: it starts from f, which is the
\* engine with the observation, if any, taken in.
Calls(f, r) == /\ IsEngine(f) /\ Same(f, engine) /\ f.state = engine.state
               /\ f.deadline = engine.deadline /\ f.proactive = engine.proactive
               /\ f.invitations = engine.invitations
               /\ Moves(r, f, clock) /\ engine' = r.e /\ Recall(r.e, r.acts) /\ clock' = clock
               /\ Stayed(f, awayAt', clock)
               /\ f.presentSince # Never => awayAt <= f.presentSince

LEMMA PolicyCalls ==
  ASSUME PolicyInv, PolicyNext, ~ClockMoves
  PROVE  \E f, r : Calls(f, r)
  <1>1. /\ clock \in Nat /\ clock \in Int /\ IsEngine(engine) /\ Stayed(engine, awayAt, clock)
        /\ Same(engine, engine)
    BY DEF PolicyInv, Same
  <1>2. ASSUME NEW r, Moves(r, engine, clock), engine' = r.e, Recall(r.e, r.acts),
               UNCHANGED << clock, awayAt >>
        PROVE  Calls(engine, r)
    BY <1>1, <1>2 DEF Calls, Stayed
  <1>3. ASSUME NEW kind \in {"start", "pause", "reset_fault", "failure", "respond", "touch", "preference"},
               NEW mode \in Modes, kind = "preference" \/ mode = "free", Step(Control(kind, mode)),
               UNCHANGED << clock, awayAt >>
        PROVE  \E f, r : Calls(f, r)
    <2>1. PICK ev : ev = Control(kind, mode)
      OBVIOUS
    <2>2. PICK d, r : r = Event(engine, clock, ev, d) /\ engine' = r.e /\ Recall(r.e, r.acts)
      BY <1>3, <2>1 DEF Step
    <2>3. Legal(ev) /\ ev.kind = kind /\ kind # "observation"
      BY <1>3, <2>1 DEF Legal, Control
    <2>4. Moves(r, engine, clock)
      BY <1>1, <2>2, <2>3, EventMoves
    <2>5. QED
      BY <1>2, <1>3, <2>2, <2>4
  <1>4. CASE \E obs \in Observation : Observed(obs)
    <2>1. PICK obs \in Observation : Observed(obs)
      BY <1>4
    <2>2. PICK ev : ev = Sample(obs)
      OBVIOUS
    <2>3. PICK d, r : r = Event(engine, clock, ev, d) /\ engine' = r.e /\ Recall(r.e, r.acts)
      BY <2>1, <2>2 DEF Observed, Step
    <2>4. Legal(ev) /\ ev.kind = "observation" /\ ev.obs = obs
      BY <2>2 DEF Legal, Sample
    <2>5. PICK f : f = Observe(engine, clock, obs)
      OBVIOUS
    <2>6. Moves(r, f, clock)
      BY <1>1, <2>3, <2>4, <2>5, EventMoves
    <2>7. /\ IsEngine(f) /\ f.state = engine.state /\ Same(f, engine)
          /\ f.deadline = engine.deadline /\ f.proactive = engine.proactive
          /\ f.invitations = engine.invitations
          /\ obs.present => f.presentSince \in {engine.presentSince, clock}
          /\ ~obs.present => f.presentSince = Never
      BY <1>1, <2>5, ObserveFits
    <2>8. clock' = clock /\ awayAt' = IF obs.present THEN awayAt ELSE clock
      BY <2>1 DEF Observed
    <2>9. Stayed(f, awayAt', clock) /\ (f.presentSince # Never => awayAt <= f.presentSince)
      BY <1>1, <2>7, <2>8 DEF Stayed
    <2>10. Calls(f, r)
      BY <2>3, <2>6, <2>7, <2>8, <2>9 DEF Calls
    <2>11. QED
      BY <2>10
  <1>5. CASE \E kind \in {"start", "pause", "reset_fault", "failure", "respond", "touch"} : Commanded(kind)
    <2>1. "free" \in Modes
      BY DEF Modes
    <2>2. QED
      BY <1>3, <1>5, <2>1 DEF Commanded
  <1>6. CASE \E mode \in Modes : Preferred(mode)
    BY <1>3, <1>6 DEF Preferred
  <1>7. CASE Ticked
    <2>1. PICK d, r : /\ r = Tick(engine, clock, d) /\ engine' = r.e /\ Recall(r.e, r.acts)
                      /\ UNCHANGED << clock, awayAt >>
      BY <1>7 DEF Ticked
    <2>2. Moves(r, engine, clock)
      BY <1>1, <2>1, TickFits, StillMoves DEF Fits
    <2>3. QED
      BY <1>2, <2>1, <2>2
  <1>8. QED
    BY <1>4, <1>5, <1>6, <1>7 DEF PolicyNext

LEMMA PolicyStep ==
  ASSUME PolicyInv, [PolicyNext]_policyVars
  PROVE  PolicyInv'
  <1>1. CASE ClockMoves
    BY <1>1, ClockKeeps
  <1>2. CASE PolicyNext /\ ~ClockMoves
    <2>1. PICK f, r : Calls(f, r)
      BY <1>2, PolicyCalls
    <2>2. QED
      BY <2>1, EngineKeeps DEF Calls
  <1>3. CASE UNCHANGED policyVars
    BY <1>3 DEF policyVars, PolicyInv
  <1>4. QED
    BY <1>1, <1>2, <1>3

LEMMA PolicyInvariance == PolicySpec => []PolicyInv
  <1>1. QED
    BY PolicyStarts, PolicyStep, PTL DEF PolicySpec

\* In any window of BudgetWindow the engine does at most ProactiveBudget things
\* unasked and invites at most InvitationBudget times, whatever the windows and
\* the budgets: tick() only drops a time that no later window counts.
THEOREM BudgetIsKept == PolicySpec => []BudgetHolds
  <1>1. PolicyInv => BudgetHolds
    <2> SUFFICES ASSUME PolicyInv PROVE BudgetHolds
      OBVIOUS
    <2>1. Covers(engine, did, clock) /\ clock \in Int /\ clock >= clock
          /\ did \in Seq(Entry) /\ IsEngine(engine)
      BY DEF PolicyInv, Honest, Past
    <2>2. /\ Spent(did, Actions, clock) <= Load(engine.proactive, clock)
          /\ Load(engine.proactive, clock) <= ProactiveBudget
          /\ Spent(did, {"invite"}, clock) <= Load(engine.invitations, clock)
          /\ Load(engine.invitations, clock) <= InvitationBudget
      BY <2>1 DEF Covers
    <2>3. /\ Spent(did, Actions, clock) \in Nat /\ Spent(did, {"invite"}, clock) \in Nat
          /\ Load(engine.proactive, clock) \in Nat /\ Load(engine.invitations, clock) \in Nat
      <3>1. "greet" \in Actions
        BY DEF Actions
      <3>2. QED
        BY <2>1, <3>1, SpentAppended, LoadIsBounded DEF IsEngine
    <2>4. /\ Spent(did, Actions, clock) <= ProactiveBudget
          /\ Spent(did, {"invite"}, clock) <= InvitationBudget
      BY <2>2, <2>3, Numbers
    <2>5. \A acts : Done(acts) = Within(did, acts, clock)
      BY DEF Done, Within
    <2>6. QED
      BY <2>4, <2>5 DEF BudgetHolds, Spent
  <1>2. QED
    BY <1>1, PolicyInvariance, PTL

\* After n invitations in a row were given up the next waits out Backoff(n),
\* whatever happens in between.  The hypothesis is Config's: an invitation
\* leaves some time to answer.
THEOREM IgnoringIsHeard ==
  ASSUME ResponseWindow > 0
  PROVE  PolicySpec => []IgnoredBacksOff
  <1>1. PolicyInv => IgnoredBacksOff
    BY DEF PolicyInv, Honest, Owes, PutOff, IgnoredBacksOff, Done
  <1>2. QED
    BY <1>1, PolicyInvariance, PTL

\* Nobody was observed absent during the last ArrivalStability when the engine
\* greets: presence is dated by the observation that began it, and an absence
\* ends it.
THEOREM GreetingsWait == PolicySpec => GreetsWhoStays
  <1>1. PolicyInv /\ [PolicyNext]_policyVars
          => [engine.state # "attending" /\ engine'.state = "attending"
                => clock - awayAt >= ArrivalStability]_policyVars
    <2> SUFFICES ASSUME PolicyInv, [PolicyNext]_policyVars,
                        engine.state # "attending", engine'.state = "attending"
                 PROVE  clock - awayAt >= ArrivalStability
      OBVIOUS
    <2>1. PolicyNext /\ ~ClockMoves
      BY DEF ClockMoves, policyVars
    <2>2. PICK f, r : Calls(f, r)
      BY <2>1, PolicyCalls
    <2>3. f.state # "attending" /\ r.e.state = "attending" /\ Moves(r, f, clock)
          /\ f.presentSince \in Int
      BY <2>2 DEF Calls, IsEngine
    <2>4. Greets(r, f, clock)
      BY <2>3 DEF Moves, Rests, Invites, Looks, Answers
    <2>5. clock - f.presentSince >= ArrivalStability /\ awayAt <= f.presentSince
      BY <2>2, <2>4 DEF Greets, Calls
    <2>6. clock \in Int /\ awayAt \in Int /\ ArrivalStability \in Int
      BY Numbers DEF PolicyInv, Stayed
    <2>7. QED
      BY <2>3, <2>5, <2>6
  <1>2. QED
    BY <1>1, PolicyInvariance, PTL DEF PolicySpec, GreetsWhoStays

=============================================================================
