-------------------------- MODULE PairSessionProofs --------------------------
(***************************************************************************)
(* Theorems about PairSession, for every number of processes, sessions and *)
(* faults, every configuration of the two dogs and every observation time; *)
(* and, at the end, about the EncounterGate that stands before a session.  *)
(***************************************************************************)
EXTENDS PairSession, EncounterGate, MemoryStoreProofs, FiniteSetTheorems, SequenceTheorems

-----------------------------------------------------------------------------
(* The order of the databases: what a loop over them has behind it.        *)

Lefts == {Order, Tail(Order), << >>}

Done(left) == IF left = Order THEN {} ELSE IF left = << >> THEN Pair ELSE {Order[1]}

LEMMA OrderFacts ==
  /\ Order # << >> /\ Tail(Order) # << >> /\ Tail(Order) # Order
  /\ Head(Order) = Order[1] /\ Head(Tail(Order)) = Order[2] /\ Tail(Tail(Order)) = << >>
  /\ Pair = {Order[1], Order[2]}
  <1>1. /\ Order \in Seq(Pair) /\ Len(Order) = 2 /\ Order # << >>
        /\ Order[1] \in Pair /\ Order[2] \in Pair /\ Order[1] # Order[2]
    BY RolesAssumption, ElementOfSeq, EmptySeq
  <1>2. /\ Tail(Order) \in Seq(Pair) /\ Len(Tail(Order)) = 1 /\ Tail(Order)[1] = Order[2]
        /\ Head(Order) = Order[1]
    BY <1>1, HeadTailProperties
  <1>3. Tail(Order) # << >> /\ Head(Tail(Order)) = Order[2]
    <2>1. Tail(Order) # << >>
      BY <1>2, EmptySeq
    <2>2. Head(Tail(Order)) = Tail(Order)[1]
      BY <1>2, <2>1, HeadTailProperties
    <2>3. QED
      BY <1>2, <2>1, <2>2
  <1>4. Tail(Tail(Order)) \in Seq(Pair) /\ Len(Tail(Tail(Order))) = 0
    BY <1>2, <1>3, HeadTailProperties
  <1>5. Tail(Tail(Order)) = << >>
    BY <1>4, EmptySeq
  <1>6. QED
    BY <1>1, <1>2, <1>3, <1>5 DEF Pair

\* One round of a loop has one more database behind it.
LEMMA RoundDone ==
  ASSUME NEW left \in Lefts, left # << >>
  PROVE  /\ Head(left) \in Pair /\ Tail(left) \in Lefts
         /\ Head(left) \notin Done(left)
         /\ Done(Tail(left)) = Done(left) \cup {Head(left)}
  <1>1. CASE left = Order
    BY <1>1, OrderFacts DEF Lefts, Done
  <1>2. CASE left = Tail(Order)
    BY <1>2, OrderFacts, RolesAssumption DEF Lefts, Done
  <1>3. QED
    BY <1>1, <1>2 DEF Lefts

LEMMA LoopEnds == Done(Order) = {} /\ Done(<< >>) = Pair /\ Order \in Lefts
  BY OrderFacts DEF Done, Lefts

LEMMA OtherDog ==
  \A d \in Pair : Other(d) \in Pair /\ Other(d) # d /\ Other(Other(d)) = d
                  /\ Pair = {d, Other(d)}
  BY RolesAssumption DEF Other, Pair

-----------------------------------------------------------------------------
(* The inductive invariant.                                                *)

At(d, c) == db[d].rows[c].at
Known(c) == \E d \in Pair : Recorded(d, c)

\* Every row is what persist makes of its command.
RowsInv == \A d \in Pair, c \in Ids : Recorded(d, c) => db[d].rows[c] = Completion(d, c, At(d, c))

\* What a run has behind it holds, whoever else runs.
Behind(p) ==
  LET r == run[p] IN
  pc[p] # "idle" =>
    /\ r \in Run
    /\ pc[p] # "recall" => r.plan \in Pair
    /\ pc[p] \in {"recall", "list"} => r.step = 1
    /\ pc[p] = "recall" => r.left = Order /\ r.seen = {}
    /\ pc[p] = "execute" => r.left = Order
    /\ pc[p] = "persist" /\ ~r.issues =>
         \A d \in Done(r.left) : Recorded(d, Command(r)) /\ At(d, Command(r)) = r.when
    /\ r.step = 2 => Shared(<< r.session, r.plan, 1 >>)

\* All that is remembered of a session belongs to the plan with this initiator.
Follows(s, first) ==
  \A c \in Ids : c[1] = s /\ Known(c) => c \in {<< s, first, 1 >>, << s, Other(first), 2 >>}

\* What a run has read is still so, as long as no other is under way.
Sees(p) ==
  LET r == run[p] IN
  /\ pc[p] = "list" =>
       r.seen = {c \in Ids : c[1] = r.session /\ \E d \in Done(r.left) : Recorded(d, c)}
  /\ pc[p] \in {"step", "find", "execute", "persist"} => Follows(r.session, r.plan)
  /\ pc[p] = "find" =>
       \A d \in Pair : r.found[d] = IF d \in Done(r.left) /\ Recorded(d, Command(r))
                                    THEN At(d, Command(r)) ELSE None
  /\ pc[p] = "execute" => ~Known(Command(r))
  /\ pc[p] = "persist" =>
       \A d \in Pair : Recorded(d, Command(r)) => At(d, Command(r)) = r.when

OneAtATime == \A p, q \in Procs : pc[p] # "idle" /\ pc[q] # "idle" => p = q
OnePlan == \A s \in Sessions : \E first \in Pair : Follows(s, first)

AloneInv == OneAtATime /\ MemoriesAgree /\ OnePlan /\ \A p \in Procs : Sees(p)

IInv ==
  /\ TypeOK /\ RowsInv
  /\ \A p \in Procs : Behind(p)
  /\ alone => AloneInv

-----------------------------------------------------------------------------
(* A step of one process as the others see it.                             *)

Acts(p) ==
  /\ pc[p] # "idle" /\ alone' = alone
  /\ \A q \in Procs \ {p} : pc'[q] = pc[q] /\ run'[q] = run[q]

\* Rows are never taken away or replaced.
Grows == \A d \in Pair, c \in Ids : Recorded(d, c) => db'[d].rows[c] = db[d].rows[c]

LEMMA CommandId ==
  ASSUME NEW r \in Run, r.plan \in Pair
  PROVE  /\ Command(r) \in Ids /\ << r.session, r.plan, 1 >> \in Ids
         /\ Command(r) = IF r.step = 1 THEN << r.session, r.plan, 1 >>
                         ELSE << r.session, Other(r.plan), 2 >>
         /\ Command(r)[1] = r.session /\ Command(r)[2] \in Pair
  BY IdsAssumption, OtherDog DEF Run, Command

LEMMA BehindIsKept ==
  ASSUME NEW q \in Procs, Behind(q), Grows, pc'[q] = pc[q], run'[q] = run[q]
  PROVE  Behind(q)'
  <1> SUFFICES ASSUME pc[q] # "idle" PROVE Behind(q)'
    BY DEF Behind
  <1> DEFINE r == run[q]
  <1>1. r \in Run /\ (pc[q] # "recall" => r.plan \in Pair)
        /\ (pc[q] \in {"recall", "list"} => r.step = 1)
        /\ (pc[q] = "recall" => r.left = Order /\ r.seen = {})
        /\ (pc[q] = "execute" => r.left = Order)
    BY DEF Behind
  <1>2. ASSUME NEW d \in Pair, NEW c \in Ids, Recorded(d, c)
        PROVE  Recorded(d, c)' /\ At(d, c)' = At(d, c)
    BY <1>2 DEF Grows, Recorded, At
  <1>3. ASSUME pc[q] = "persist", ~r.issues
        PROVE  \A d \in Done(r.left) : Recorded(d, Command(r))' /\ At(d, Command(r))' = r.when
    <2>1. Command(r) \in Ids /\ Done(r.left) \subseteq Pair
      BY <1>1, <1>3, CommandId, OrderFacts DEF Done
    <2>2. QED
      BY <1>2, <1>3, <2>1 DEF Behind
  <1>4. ASSUME r.step = 2
        PROVE  Shared(<< r.session, r.plan, 1 >>)'
    <2>1. << r.session, r.plan, 1 >> \in Ids
      BY <1>1, <1>4, CommandId
    <2>2. Shared(<< r.session, r.plan, 1 >>)
      BY <1>4 DEF Behind
    <2>3. QED
      BY <1>2, <2>1, <2>2 DEF Shared, SameTime, At, Pair
  <1>5. QED
    BY <1>1, <1>3, <1>4 DEF Behind, Command

\* When only one runs, what the others do not know cannot become wrong.
LEMMA QuietInv ==
  ASSUME IInv, NEW p \in Procs, Acts(p), UNCHANGED db,
         TypeOK', Behind(p)', alone => Sees(p)'
  PROVE  IInv'
  <1>1. RowsInv'
    BY DEF IInv, RowsInv, Recorded, At, Completion
  <1>2. Grows
    BY DEF Grows
  <1>3. ASSUME NEW q \in Procs
        PROVE  Behind(q)'
    BY <1>2, <1>3, BehindIsKept DEF Acts, IInv
  <1>4. ASSUME alone
        PROVE  AloneInv'
    <2>1. \A q \in Procs \ {p} : pc'[q] = "idle"
      BY <1>4 DEF Acts, IInv, AloneInv, OneAtATime
    <2>2. \A q \in Procs : Sees(q)'
      BY <1>4, <2>1 DEF Sees
    <2>3. OneAtATime'
      BY <2>1 DEF OneAtATime
    <2>4. MemoriesAgree' /\ OnePlan'
      BY <1>4 DEF IInv, AloneInv, MemoriesAgree, OnePlan, Follows, Known, Recorded, SameTime, Acts
    <2>5. QED
      BY <2>2, <2>3, <2>4 DEF AloneInv
  <1>5. QED
    BY <1>1, <1>3, <1>4 DEF IInv, Acts

\* The end of a run, however it ends.
LEMMA OverInv ==
  ASSUME IInv, NEW p \in Procs, pc[p] # "idle", UNCHANGED << db, alone, performed >>,
         faults' \in 0..MaxFaults, outcome' \in [Procs -> {"none", "completed", "aborted"}],
         pc' = [pc EXCEPT ![p] = "idle"], run' = [run EXCEPT ![p] = None]
  PROVE  IInv'
  <1>1. TypeOK'
    BY DEF IInv, TypeOK
  <1>2. pc'[p] = "idle" /\ Acts(p)
    BY DEF IInv, TypeOK, Acts
  <1>3. Behind(p)' /\ Sees(p)'
    BY <1>2 DEF Behind, Sees
  <1>4. QED
    BY <1>1, <1>2, <1>3, QuietInv

\* What a step that reads leaves alone; it only has to know what it has read.
LEMMA ReadInv ==
  ASSUME IInv, NEW p \in Procs, pc[p] # "idle",
         NEW label \in {"list", "step", "find", "execute", "persist"}, NEW r \in Run,
         Goto(p, label, r), UNCHANGED << db, performed >>, faults' \in 0..MaxFaults,
         Behind(p)', alone => Sees(p)'
  PROVE  IInv'
  <1>1. TypeOK'
    BY DEF IInv, TypeOK, Goto
  <1>2. Acts(p)
    BY DEF IInv, TypeOK, Acts, Goto
  <1>3. QED
    BY <1>1, <1>2, QuietInv

LEMMA InitInv == Init => IInv
  <1> SUFFICES ASSUME Init PROVE IInv
    OBVIOUS
  <1>1. \A d \in Pair, c \in Ids : ~Recorded(d, c)
    BY DEF Init, EmptyDatabase, Recorded
  <1>2. db \in [Pair -> Database]
    BY RolesAssumption DEF Init, EmptyDatabase, Database, Modes
  <1>3. TypeOK
    BY <1>2, ConfigAssumption DEF Init, TypeOK
  <1>4. \A p \in Procs : Behind(p) /\ Sees(p) /\ pc[p] = "idle"
    BY DEF Init, Behind, Sees
  <1>5. OnePlan /\ MemoriesAgree /\ OneAtATime
    BY <1>1, <1>4 DEF OnePlan, MemoriesAgree, Follows, Known, OneAtATime, Pair
  <1>6. QED
    BY <1>1, <1>3, <1>4, <1>5 DEF IInv, AloneInv, RowsInv

LEMMA BeginInv ==
  ASSUME IInv, NEW p \in Procs, NEW s \in Sessions, NEW t \in Times, Begin(p, s, t)
  PROVE  IInv'
  <1> DEFINE r == [session |-> s, at |-> t, plan |-> None, step |-> 1, left |-> Order, seen |-> {},
                   found |-> NobodyFound, when |-> 0, issues |-> FALSE]
  <1>1. r \in Run
    BY DEF Run, NobodyFound
  <1>2. /\ pc' = [pc EXCEPT ![p] = "recall"] /\ run' = [run EXCEPT ![p] = r]
        /\ UNCHANGED << db, performed, faults >>
    BY DEF Begin
  <1>3. pc'[p] = "recall" /\ run'[p] = r /\ r.step = 1
        /\ r.left = Order /\ r.seen = {}
    BY <1>2 DEF IInv, TypeOK
  <1>4. TypeOK'
    BY <1>1, <1>2 DEF Begin, IInv, TypeOK
  <1> HIDE DEF r
  <1>5. RowsInv'
    BY <1>2 DEF IInv, RowsInv, Recorded, At, Completion
  <1>6. ASSUME NEW q \in Procs
        PROVE  Behind(q)'
    <2>1. CASE q = p
      BY <1>1, <1>3, <2>1 DEF Behind
    <2>2. CASE q # p
      <3>1. Grows /\ pc'[q] = pc[q] /\ run'[q] = run[q]
        BY <1>2, <2>2 DEF Grows, IInv, TypeOK
      <3>2. QED
        BY <3>1, BehindIsKept DEF IInv
    <2>3. QED
      BY <2>1, <2>2
  <1>7. ASSUME alone'
        PROVE  AloneInv'
    <2>1. alone /\ \A q \in Procs : pc[q] = "idle"
      BY <1>7 DEF Begin
    <2>2. \A q \in Procs \ {p} : pc'[q] = "idle"
      BY <1>2, <2>1 DEF IInv, TypeOK
    <2>3. OneAtATime' /\ \A q \in Procs : Sees(q)'
      BY <1>3, <2>2 DEF OneAtATime, Sees
    <2>4. MemoriesAgree' /\ OnePlan'
      BY <1>2, <2>1 DEF IInv, AloneInv, MemoriesAgree, OnePlan, Follows, Known, Recorded, SameTime
    <2>5. QED
      BY <2>3, <2>4 DEF AloneInv
  <1>8. QED
    BY <1>4, <1>5, <1>6, <1>7 DEF IInv

-----------------------------------------------------------------------------
(* The steps of a run.                                                     *)

\* With the databases unchanged, what is known of a session stays the same.
LEMMA SameRows ==
  ASSUME UNCHANGED db
  PROVE  /\ \A d, c : Recorded(d, c)' = Recorded(d, c) /\ At(d, c)' = At(d, c)
         /\ \A c : Shared(c)' = Shared(c) /\ Known(c)' = Known(c)
         /\ \A s, first : Follows(s, first)' = Follows(s, first)
  BY DEF Recorded, At, Shared, SameTime, Known, Follows

LEMMA RecallInv ==
  ASSUME IInv, NEW p \in Procs, Recall(p)
  PROVE  IInv'
  <1>1. /\ run[p] \in Run /\ run[p].step = 1 /\ pc[p] = "recall"
        /\ run[p].left = Order /\ run[p].seen = {}
    BY DEF Recall, IInv, Behind
  <1>2. PICK first \in Pair : Goto(p, "list", [run[p] EXCEPT !.plan = first])
    BY DEF Recall, Pair
  <1>3. PICK r \in Run : r = [run[p] EXCEPT !.plan = first]
    BY <1>1 DEF Run
  <1>4. /\ r.plan = first /\ r.step = 1 /\ r.left = Order /\ r.seen = {}
        /\ Goto(p, "list", r) /\ UNCHANGED << db, performed, faults >>
    BY <1>1, <1>2, <1>3 DEF Recall, Run
  <1>5. pc'[p] = "list" /\ run'[p] = r
    BY <1>4 DEF Goto, IInv, TypeOK
  <1>6. Behind(p)'
    BY <1>4, <1>5 DEF Behind
  <1>7. Sees(p)'
    BY <1>4, <1>5, LoopEnds DEF Sees
  <1>8. QED
    BY <1>1, <1>4, <1>6, <1>7, ReadInv DEF IInv, TypeOK

LEMMA StepBeginInv ==
  ASSUME IInv, NEW p \in Procs, StepBegin(p)
  PROVE  IInv'
  <1>1. run[p] \in Run /\ run[p].plan \in Pair /\ pc[p] = "step"
    BY DEF StepBegin, IInv, Behind
  <1>2. PICK r \in Run :
          r = [run[p] EXCEPT !.left = Order, !.found = NobodyFound, !.issues = FALSE]
    BY <1>1 DEF Run, NobodyFound
  <1>3. /\ r.left = Order /\ r.found = NobodyFound
        /\ r.session = run[p].session /\ r.plan = run[p].plan /\ r.step = run[p].step
        /\ Goto(p, "find", r) /\ UNCHANGED << db, performed, faults >>
    BY <1>1, <1>2 DEF Run, StepBegin
  <1>4. pc'[p] = "find" /\ run'[p] = r
    BY <1>3 DEF Goto, IInv, TypeOK
  <1>5. r.step = 2 => Shared(<< r.session, r.plan, 1 >>)
    BY <1>1, <1>3 DEF IInv, Behind
  <1>6. Behind(p)'
    BY <1>1, <1>3, <1>4, <1>5, SameRows DEF Behind
  <1>7. ASSUME alone
        PROVE  Sees(p)'
    <2>1. Follows(r.session, r.plan)
      BY <1>1, <1>3, <1>7 DEF IInv, AloneInv, Sees
    <2>2. \A d \in Pair : r.found[d] = None
      BY <1>3 DEF NobodyFound
    <2>3. QED
      BY <1>3, <1>4, <2>1, <2>2, LoopEnds, SameRows DEF Sees
  <1>8. QED
    BY <1>1, <1>3, <1>6, <1>7, ReadInv DEF IInv, TypeOK

\* A step of a run that stays in its loop over the databases, or leaves it.
LEMMA NextRun ==
  ASSUME IInv, NEW p \in Procs, NEW label, NEW r, Goto(p, label, r)
  PROVE  pc'[p] = label /\ run'[p] = r
  BY DEF Goto, IInv, TypeOK

LEMMA ListSessionInv ==
  ASSUME IInv, NEW p \in Procs, ListSession(p)
  PROVE  IInv'
  <1>1. /\ run[p] \in Run /\ run[p].plan \in Pair /\ run[p].step = 1 /\ pc[p] = "list"
        /\ run[p].left \in Lefts /\ run[p].session \in Sessions
    BY DEF ListSession, IInv, Behind, Run, Lefts
  <1>2. UNCHANGED << db, performed, faults >> /\ faults \in 0..MaxFaults
    BY DEF ListSession, IInv, TypeOK
  <1>3. ASSUME alone
        PROVE  run[p].seen = {c \in Ids : /\ c[1] = run[p].session
                                          /\ \E d \in Done(run[p].left) : Recorded(d, c)}
    BY <1>1, <1>3 DEF IInv, AloneInv, Sees
  <1> DEFINE actors == {i[2] : i \in {j \in run[p].seen : j[3] = 1}}
  <1>4. ASSUME run[p].left # << >>,
               Goto(p, "list",
                 [run[p] EXCEPT !.left = Tail(@),
                                !.seen = @ \cup {i \in Ids : /\ i[1] = run[p].session
                                               /\ db[Head(run[p].left)].rows[i] # None}])
        PROVE  IInv'
    <2>1. PICK r \in Run :
            r = [run[p] EXCEPT !.left = Tail(@),
                               !.seen = @ \cup {i \in Ids : /\ i[1] = run[p].session
                                              /\ db[Head(run[p].left)].rows[i] # None}]
      BY <1>1, <1>4, RoundDone DEF Run, Lefts
    <2>2. /\ r.plan = run[p].plan /\ r.step = 1 /\ r.left = Tail(run[p].left)
          /\ r.session = run[p].session
          /\ r.seen = run[p].seen \cup {i \in Ids : /\ i[1] = run[p].session
                                                    /\ Recorded(Head(run[p].left), i)}
      BY <1>1, <2>1 DEF Run, Recorded
    <2>3. pc'[p] = "list" /\ run'[p] = r
      BY <1>4, <2>1, NextRun
    <2>4. Behind(p)'
      BY <1>1, <2>2, <2>3 DEF Behind
    <2>5. alone => Sees(p)'
      BY <1>1, <1>2, <1>3, <1>4, <2>2, <2>3, RoundDone, SameRows DEF Sees
    <2>6. QED
      BY <1>1, <1>2, <1>4, <2>1, <2>4, <2>5, ReadInv
  <1>5. ASSUME run[p].left = << >>, NEW first \in Pair,
               alone => Follows(run[p].session, first),
               Goto(p, "step", [run[p] EXCEPT !.left = Order, !.plan = first])
        PROVE  IInv'
    <2>1. PICK r \in Run : r = [run[p] EXCEPT !.left = Order, !.plan = first]
      BY <1>1 DEF Run
    <2>2. r.plan = first /\ r.step = 1 /\ r.session = run[p].session
      BY <1>1, <2>1 DEF Run
    <2>3. pc'[p] = "step" /\ run'[p] = r
      BY <1>5, <2>1, NextRun
    <2>4. Behind(p)' /\ (alone => Sees(p)')
      BY <1>2, <1>5, <2>2, <2>3, SameRows DEF Behind, Sees
    <2>5. QED
      BY <1>1, <1>2, <1>5, <2>1, <2>4, ReadInv
  <1>6. ASSUME run[p].left = << >>, alone
        PROVE  run[p].seen = {c \in Ids : c[1] = run[p].session /\ Known(c)}
    BY <1>3, <1>6, LoopEnds DEF Known
  <1>7. ASSUME run[p].left = << >>, run[p].seen = {},
               Goto(p, "step", [run[p] EXCEPT !.left = Order])
        PROVE  IInv'
    <2>1. alone => Follows(run[p].session, run[p].plan)
      BY <1>6, <1>7 DEF Follows
    <2>2. [run[p] EXCEPT !.left = Order] = [run[p] EXCEPT !.left = Order, !.plan = run[p].plan]
      BY <1>1 DEF Run
    <2>3. QED
      BY <1>1, <1>5, <1>7, <2>1, <2>2
  <1>8. ASSUME run[p].left = << >>, Cardinality(actors) = 1,
               Goto(p, "step", [run[p] EXCEPT !.left = Order, !.plan = CHOOSE d \in actors : TRUE])
        PROVE  IInv'
    <2>1. actors \subseteq Pair
      BY <1>1, IdsAssumption DEF Run
    <2>2. PICK first \in Pair : actors = {first}
      <3>1. IsFiniteSet(Pair)
        <4>1. IsFiniteSet({Cautious})
          BY FS_Singleton
        <4>2. IsFiniteSet({Cautious} \cup {Outgoing})
          BY <4>1, FS_AddElement
        <4>3. QED
          BY <4>2 DEF Pair
      <3>2. IsFiniteSet(actors)
        BY <2>1, <3>1, FS_Subset
      <3>3. QED
        BY <1>8, <2>1, <3>2, FS_Singleton
    <2>3. (CHOOSE d \in actors : TRUE) = first
      BY <2>2
    <2>4. ASSUME alone
          PROVE  Follows(run[p].session, first)
      <3>1. PICK i \in Pair : Follows(run[p].session, i)
        BY <1>1, <2>4 DEF IInv, AloneInv, OnePlan
      <3>2. PICK c \in run[p].seen : c[3] = 1 /\ c[2] = first
        BY <2>2
      <3>3. c \in {<< run[p].session, i, 1 >>, << run[p].session, Other(i), 2 >>}
        BY <1>6, <1>8, <2>4, <3>1, <3>2 DEF Follows
      <3>4. first = i
        BY <3>2, <3>3
      <3>5. QED
        BY <3>1, <3>4
    <2>5. QED
      BY <1>5, <1>8, <2>3, <2>4
  <1>9. ASSUME Finish(p, "aborted")
        PROVE  IInv'
    BY <1>1, <1>2, <1>9, OverInv DEF Finish, IInv, TypeOK
  <1>10. QED
    BY <1>4, <1>7, <1>8, <1>9 DEF ListSession

LEMMA FindInv ==
  ASSUME IInv, NEW p \in Procs, Find(p)
  PROVE  IInv'
  <1> DEFINE c == Command(run[p])
  <1>1. /\ run[p] \in Run /\ run[p].plan \in Pair /\ pc[p] = "find"
        /\ run[p].left \in Lefts /\ run[p].found \in [Pair -> Nat \cup {None}]
        /\ run[p].step = 2 => Shared(<< run[p].session, run[p].plan, 1 >>)
    BY DEF Find, IInv, Behind, Run, Lefts
  <1>2. UNCHANGED << db, performed, faults >> /\ faults \in 0..MaxFaults
    BY DEF Find, IInv, TypeOK
  <1>3. ASSUME alone
        PROVE  /\ Follows(run[p].session, run[p].plan)
               /\ \A d \in Pair : run[p].found[d] = IF d \in Done(run[p].left) /\ Recorded(d, c)
                                                     THEN At(d, c) ELSE None
    BY <1>1, <1>3 DEF IInv, AloneInv, Sees
  <1>4. c \in Ids /\ \A d \in Pair : Recorded(d, c) => At(d, c) \in Nat
    <2>1. c \in Ids
      BY <1>1, CommandId
    <2>2. QED
      BY <2>1 DEF IInv, TypeOK, Database, Memory, Recorded, At
  <1>5. ASSUME NEW r \in Run, NEW label \in {"find", "execute", "persist"}, Goto(p, label, r),
               r.session = run[p].session, r.plan = run[p].plan, r.step = run[p].step,
               label \in {"execute", "persist"} => r.left = Order,
               label = "find" /\ alone =>
                 \A d \in Pair : r.found[d] = IF d \in Done(r.left) /\ Recorded(d, c)
                                              THEN At(d, c) ELSE None,
               label = "execute" /\ alone => ~Known(c),
               label = "persist" /\ alone => \A d \in Pair : Recorded(d, c) => At(d, c) = r.when
        PROVE  IInv'
    <2>1. pc'[p] = label /\ run'[p] = r
      BY <1>5, NextRun
    <2>2. Command(r) = c
      BY <1>5 DEF Command
    <2>3. Behind(p)'
      BY <1>1, <1>2, <1>5, <2>1, LoopEnds, SameRows DEF Behind
    <2>4. alone => Sees(p)'
      BY <1>2, <1>3, <1>5, <2>1, <2>2, SameRows DEF Sees
    <2>5. QED
      BY <1>1, <1>2, <1>5, <2>3, <2>4, ReadInv
  <1> DEFINE d == Head(run[p].left)
  <1>6. ASSUME run[p].left # << >>,
               Goto(p, "find", [run[p] EXCEPT !.left = Tail(@),
                                  !.found[d] = IF db[d].rows[c] = None THEN None ELSE db[d].rows[c].at])
        PROVE  IInv'
    <2>1. d \in Pair /\ Tail(run[p].left) \in Lefts /\ d \notin Done(run[p].left)
          /\ Done(Tail(run[p].left)) = Done(run[p].left) \cup {d}
      BY <1>1, <1>6, RoundDone
    <2>2. PICK n \in Nat \cup {None} : n = IF Recorded(d, c) THEN At(d, c) ELSE None
      BY <1>4, <2>1
    <2>3. n = IF db[d].rows[c] = None THEN None ELSE db[d].rows[c].at
      BY <2>2 DEF Recorded, At
    <2>4. PICK r \in Run : r = [run[p] EXCEPT !.left = Tail(@), !.found[d] = n]
      BY <1>1, <2>1, <2>2 DEF Run, Lefts
    <2>5. /\ r.session = run[p].session /\ r.plan = run[p].plan /\ r.step = run[p].step
          /\ r.left = Tail(run[p].left) /\ r.found = [run[p].found EXCEPT ![d] = n]
      BY <1>1, <2>4 DEF Run
    <2>6. Goto(p, "find", r)
      BY <1>6, <2>3, <2>4
    <2>7. alone => \A e \in Pair : r.found[e] = IF e \in Done(r.left) /\ Recorded(e, c)
                                               THEN At(e, c) ELSE None
      BY <1>1, <1>3, <2>1, <2>2, <2>5
    <2>8. QED
      BY <1>5, <2>5, <2>6, <2>7
  <1>7. ASSUME run[p].left = << >>, alone, NEW e \in Pair
        PROVE  run[p].found[e] = IF Recorded(e, c) THEN At(e, c) ELSE None
    BY <1>3, <1>7, LoopEnds
  <1>8. ASSUME run[p].left = << >>, {e \in Pair : run[p].found[e] # None} = {},
               Goto(p, "execute", [run[p] EXCEPT !.left = Order])
        PROVE  IInv'
    <2>1. PICK r \in Run : r = [run[p] EXCEPT !.left = Order]
      BY <1>1 DEF Run
    <2>2. /\ r.session = run[p].session /\ r.plan = run[p].plan /\ r.step = run[p].step
          /\ r.left = Order
      BY <1>1, <2>1 DEF Run
    <2>3. alone => ~Known(c)
      BY <1>4, <1>7, <1>8, ConfigAssumption DEF Known
    <2>4. QED
      BY <1>5, <1>8, <2>1, <2>2, <2>3
  <1>9. ASSUME run[p].left = << >>, NEW anchor \in Nat \cup {None}, anchor # None,
               \A e \in {e \in Pair : run[p].found[e] # None} : run[p].found[e] = anchor,
               Goto(p, "persist", [run[p] EXCEPT !.left = Order, !.when = anchor])
        PROVE  IInv'
    <2>1. PICK r \in Run : r = [run[p] EXCEPT !.left = Order, !.when = anchor]
      BY <1>1, <1>9 DEF Run
    <2>2. /\ r.session = run[p].session /\ r.plan = run[p].plan /\ r.step = run[p].step
          /\ r.left = Order /\ r.when = anchor
      BY <1>1, <2>1 DEF Run
    <2>3. alone => \A e \in Pair : Recorded(e, c) => At(e, c) = anchor
      BY <1>4, <1>7, <1>9, ConfigAssumption
    <2>4. QED
      BY <1>5, <1>9, <2>1, <2>2, <2>3
  <1>10. ASSUME Finish(p, "aborted")
         PROVE  IInv'
    BY <1>1, <1>2, <1>10, OverInv DEF Finish, IInv, TypeOK
  <1>11. ASSUME {e \in Pair : run[p].found[e] # None} # {}
         PROVE  (IF run[p].found[Order[1]] # None THEN run[p].found[Order[1]]
                 ELSE run[p].found[Order[2]]) \in Nat
    BY <1>1, <1>11, OrderFacts
  <1>12. QED
    BY <1>6, <1>8, <1>9, <1>10, <1>11, ConfigAssumption DEF Find

LEMMA ExecuteInv ==
  ASSUME IInv, NEW p \in Procs, Execute(p)
  PROVE  IInv'
  <1> DEFINE c == Command(run[p])
  <1>1. /\ run[p] \in Run /\ run[p].plan \in Pair /\ pc[p] = "execute" /\ run[p].left = Order
        /\ run[p].step = 2 => Shared(<< run[p].session, run[p].plan, 1 >>)
    BY DEF Execute, IInv, Behind
  <1>2. run[p].at + run[p].step - 1 \in Nat
    <2>1. run[p].at \in Nat /\ run[p].step \in 1..2
      BY <1>1, ConfigAssumption DEF Run
    <2>2. QED
      BY <2>1
  <1>3. PICK r \in Run : r = [run[p] EXCEPT !.when = run[p].at + run[p].step - 1]
    BY <1>1, <1>2 DEF Run
  <1>4. /\ r.session = run[p].session /\ r.plan = run[p].plan /\ r.step = run[p].step
        /\ r.left = Order
    BY <1>1, <1>3 DEF Run
  <1>5. /\ performed' = [performed EXCEPT ![c] = @ + 1] /\ Goto(p, "persist", r)
        /\ UNCHANGED << db, faults >>
    BY <1>3 DEF Execute
  <1>6. pc'[p] = "persist" /\ run'[p] = r /\ Command(r) = c
    BY <1>4, <1>5, NextRun DEF Command
  <1>7. TypeOK'
    <2>1. performed' \in [Ids -> Nat]
      <3>1. c \in Ids /\ performed \in [Ids -> Nat]
        BY <1>1, CommandId DEF IInv, TypeOK
      <3>2. performed[c] + 1 \in Nat
        BY <3>1
      <3>3. QED
        BY <1>5, <3>1, <3>2
    <2>2. QED
      BY <1>3, <1>5, <2>1 DEF IInv, TypeOK, Goto
  <1>8. Behind(p)'
    BY <1>1, <1>4, <1>5, <1>6, LoopEnds, SameRows DEF Behind
  <1>9. ASSUME alone
        PROVE  Sees(p)'
    <2>1. Follows(r.session, r.plan) /\ ~Known(c)
      BY <1>1, <1>4, <1>9 DEF IInv, AloneInv, Sees
    <2>2. QED
      BY <1>5, <1>6, <2>1, SameRows DEF Sees, Known
  <1>10. Acts(p)
    BY <1>1, <1>5 DEF Acts, Goto, IInv, TypeOK
  <1>11. QED
    BY <1>5, <1>7, <1>8, <1>9, <1>10, QuietInv

-----------------------------------------------------------------------------
(* The only step that writes: one append to one database.                  *)

LEMMA CompletionType ==
  ASSUME NEW d \in Pair, NEW c \in Ids, NEW when \in Nat
  PROVE  /\ Completion(d, c, when) \in Memory
         /\ Completion(d, c, when).id = c /\ Completion(d, c, when).at = when
  BY IdsAssumption, RolesAssumption, ConfigAssumption, OtherDog
     DEF Completion, Memory, Kinds, Facts, Sources, Results

Appends(d, c, when) == db' = [db EXCEPT ![d] = Appended(db[d], Completion(d, c, when))]

\* The database that is written takes the row when the id is free; every other
\* row of both databases stays.
TakesRow(d, c, when) ==
  /\ db' \in [Pair -> Database] /\ Grows
  /\ \A e \in Pair, i \in Ids : e # d \/ i # c => db'[e].rows[i] = db[e].rows[i]
  /\ db'[d].rows[c] \in {db[d].rows[c], Completion(d, c, when)}
  /\ ~Refuses(db[d], Completion(d, c, when)) => db'[d].rows[c] = Completion(d, c, when)

LEMMA AppendRows ==
  ASSUME IInv, NEW d \in Pair, NEW c \in Ids, NEW when \in Nat,
         Appends(d, c, when)
  PROVE  TakesRow(d, c, when)
  <1> DEFINE m == Completion(d, c, when)
  <1>1. db \in [Pair -> Database] /\ db[d] \in Database
    BY DEF IInv, TypeOK
  <1>2. m \in Memory /\ m.id = c
    BY CompletionType
  <1> HIDE DEF m
  <1>3. db' = [db EXCEPT ![d] = Appended(db[d], m)]
    BY DEF m, Appends
  <1>4. Appended(db[d], m) \in Database
    BY <1>1, <1>2, AppendedType
  <1>5. \A i \in Ids : /\ db[d].rows[i] # None => Appended(db[d], m).rows[i] = db[d].rows[i]
                       /\ i # c => Appended(db[d], m).rows[i] = db[d].rows[i]
                       /\ Appended(db[d], m).rows[i] \in {db[d].rows[i], m}
    BY <1>1, <1>2, AppendedKeeps
  <1>6. ~Refuses(db[d], m) => Appended(db[d], m).rows[c] = m
    BY <1>1, <1>2, AppendedHolds
  <1>7. db'[d] = Appended(db[d], m) /\ \A e \in Pair \ {d} : db'[e] = db[e]
    BY <1>1, <1>3
  <1>8. db' \in [Pair -> Database]
    BY <1>1, <1>3, <1>4
  <1>9. Grows
    BY <1>5, <1>7 DEF Grows, Recorded
  <1>10. QED
    BY <1>5, <1>6, <1>7, <1>8, <1>9 DEF m, TakesRow

LEMMA AppendInv ==
  ASSUME IInv, NEW p \in Procs, pc[p] = "persist", run[p].left # << >>,
         db' = [db EXCEPT ![Head(run[p].left)] =
                  Appended(@, Completion(Head(run[p].left), Command(run[p]), run[p].when))],
         Goto(p, "persist",
           [run[p] EXCEPT !.left = Tail(@),
              !.issues = @ \/ Refuses(db[Head(run[p].left)],
                               Completion(Head(run[p].left), Command(run[p]), run[p].when))]),
         UNCHANGED << performed, faults >>
  PROVE  IInv'
  <1>1. /\ run[p] \in Run /\ run[p].plan \in Pair /\ run[p].left \in Lefts
        /\ run[p].when \in Nat
    BY DEF IInv, Behind, Run, Lefts
  <1>2. PICK c \in Ids : c = Command(run[p])
    BY <1>1, CommandId
  <1>3. PICK d \in Pair : d = Head(run[p].left)
    BY <1>1, RoundDone
  <1>a. Tail(run[p].left) \in Lefts /\ Done(Tail(run[p].left)) = Done(run[p].left) \cup {d}
    BY <1>1, <1>3, RoundDone
  <1>b. PICK when \in Nat : when = run[p].when
    BY <1>1
  <1> DEFINE refused == Refuses(db[d], Completion(d, c, when))
  <1>c. /\ db' = [db EXCEPT ![d] = Appended(@, Completion(d, c, when))]
        /\ Goto(p, "persist", [run[p] EXCEPT !.left = Tail(@), !.issues = @ \/ refused])
    BY <1>2, <1>3, <1>b
  <1>4. PICK r \in Run : r = [run[p] EXCEPT !.left = Tail(@), !.issues = @ \/ refused]
    BY <1>1, <1>a DEF Run, Lefts
  <1>5. /\ r.session = run[p].session /\ r.plan = run[p].plan /\ r.step = run[p].step
        /\ r.left = Tail(run[p].left) /\ r.when = when
        /\ (~r.issues => ~run[p].issues /\ ~refused)
    BY <1>1, <1>4, <1>b DEF Run
  <1>6. pc'[p] = "persist" /\ run'[p] = r /\ Command(r) = c
    BY <1>2, <1>4, <1>5, <1>c, NextRun DEF Command
  <1>7. Acts(p)
    BY <1>c DEF Acts, Goto, IInv, TypeOK
  <1>8. /\ db' \in [Pair -> Database] /\ Grows
        /\ \A e \in Pair, i \in Ids : e # d \/ i # c => db'[e].rows[i] = db[e].rows[i]
        /\ db'[d].rows[c] \in {db[d].rows[c], Completion(d, c, when)}
        /\ ~refused => db'[d].rows[c] = Completion(d, c, when)
    <2>1. Appends(d, c, when)
      BY <1>c DEF Appends
    <2>2. TakesRow(d, c, when)
      BY <2>1, AppendRows
    <2>3. QED
      BY <2>2 DEF TakesRow
  <1>9. Completion(d, c, when) # None /\ Completion(d, c, when).at = when
    BY CompletionType, MemoryAssumption
  <1> HIDE DEF refused
  <1>10. TypeOK'
    BY <1>4, <1>8, <1>c DEF IInv, TypeOK, Goto
  <1>11. ASSUME NEW e \in Pair, NEW i \in Ids
         PROVE  /\ Recorded(e, i) => Recorded(e, i)' /\ At(e, i)' = At(e, i)
                /\ e # d \/ i # c => Recorded(e, i)' = Recorded(e, i) /\ At(e, i)' = At(e, i)
                /\ Recorded(d, c)' => db'[d].rows[c] = db[d].rows[c]
                                      \/ At(d, c)' = when
                /\ ~refused => Recorded(d, c)' /\ At(d, c)' = when
    BY <1>8, <1>9 DEF Grows, Recorded, At
  <1>12. RowsInv'
    <2> SUFFICES ASSUME NEW e \in Pair, NEW i \in Ids, Recorded(e, i)'
                 PROVE  db'[e].rows[i] = Completion(e, i, At(e, i)')
      BY DEF RowsInv, Completion
    <2>1. CASE db'[e].rows[i] = db[e].rows[i]
      BY <2>1 DEF IInv, RowsInv, Recorded, At
    <2>2. CASE e = d /\ i = c /\ db'[d].rows[c] = Completion(d, c, when)
      BY <1>9, <2>2 DEF At
    <2>3. QED
      BY <1>8, <2>1, <2>2
  <1>13. ASSUME NEW q \in Procs
         PROVE  Behind(q)'
    <2>1. CASE q # p
      BY <1>7, <1>8, <2>1, BehindIsKept DEF Acts, IInv
    <2>2. CASE q = p
      <3>1. ASSUME ~r.issues, NEW e \in Done(r.left)
            PROVE  Recorded(e, c)' /\ At(e, c)' = r.when
        <4>1. e \in Pair /\ e \in Done(run[p].left) \cup {d}
          BY <1>3, <1>5, <3>1, <1>a, OrderFacts DEF Done
        <4>2. CASE e = d
          BY <1>2, <1>5, <1>11, <3>1, <4>1, <4>2
        <4>3. CASE e \in Done(run[p].left)
          <5>1. Recorded(e, c) /\ At(e, c) = when
            BY <1>2, <1>5, <1>b, <3>1, <4>3 DEF IInv, Behind
          <5>2. QED
            BY <1>2, <1>5, <1>11, <4>1, <5>1
        <4>4. QED
          BY <4>1, <4>2, <4>3
      <3>2. ASSUME r.step = 2
            PROVE  Shared(<< r.session, r.plan, 1 >>)'
        <4>1. << r.session, r.plan, 1 >> \in Ids /\ Shared(<< r.session, r.plan, 1 >>)
          BY <1>1, <1>5, <3>2, CommandId DEF IInv, Behind
        <4>2. QED
          BY <1>11, <4>1 DEF Shared, SameTime, At, Pair
      <3>3. QED
        BY <1>1, <1>5, <1>6, <2>2, <3>1, <3>2 DEF Behind, Recorded, At
    <2>3. QED
      BY <2>1, <2>2
  <1>14. ASSUME alone
         PROVE  AloneInv'
    <2>1. /\ OneAtATime /\ MemoriesAgree /\ OnePlan
          /\ Follows(run[p].session, run[p].plan)
          /\ \A e \in Pair : Recorded(e, c) => At(e, c) = when
      BY <1>2, <1>14, <1>b DEF IInv, AloneInv, Sees
    <2>2. \A q \in Procs \ {p} : pc'[q] = "idle"
      BY <1>7, <2>1 DEF Acts, OneAtATime
    <2>3. OneAtATime'
      BY <2>2 DEF OneAtATime
    <2>4. \A e \in Pair : Recorded(e, c)' => At(e, c)' = when
      <3>1. ASSUME NEW e \in Pair, Recorded(e, c)', db'[e].rows[c] = db[e].rows[c]
            PROVE  At(e, c)' = when
        BY <2>1, <3>1 DEF Recorded, At
      <3>2. ASSUME NEW e \in Pair, e = d, db'[d].rows[c] = Completion(d, c, when)
            PROVE  At(e, c)' = when
        BY <1>9, <3>2 DEF At
      <3>3. QED
        BY <1>8, <3>1, <3>2
    <2>5. MemoriesAgree'
      BY <1>2, <1>11, <1>14, <2>1, <2>4 DEF MemoriesAgree, SameTime, At, Pair
    <2>6. \A i \in Ids : i # c => Known(i)' = Known(i)
      BY <1>11 DEF Known
    <2>7. c[1] = run[p].session
          /\ c \in {<< run[p].session, run[p].plan, 1 >>, << run[p].session, Other(run[p].plan), 2 >>}
      BY <1>1, <1>2, CommandId
    <2>8. \A s \in Sessions, first \in Pair :
            Follows(s, first) /\ (s = run[p].session => first = run[p].plan) => Follows(s, first)'
      BY <2>6, <2>7 DEF Follows
    <2>9. OnePlan'
      BY <1>1, <2>1, <2>8 DEF OnePlan
    <2>10. Sees(p)'
      BY <1>1, <1>5, <1>6, <2>1, <2>4, <2>8 DEF Sees, Run, Follows, Known, Recorded, At
    <2>11. QED
      BY <2>2, <2>3, <2>5, <2>9, <2>10 DEF AloneInv, Sees
  <1>15. QED
    BY <1>7, <1>10, <1>12, <1>13, <1>14 DEF IInv, Acts

\* A loop that ends, or a database that fails: nothing is written.
LEMMA PassInv ==
  ASSUME IInv, NEW p \in Procs, pc[p] = "persist", run[p].left # << >>,
         Goto(p, "persist", [run[p] EXCEPT !.left = Tail(@), !.issues = TRUE]),
         UNCHANGED << db, performed >>, faults' \in 0..MaxFaults
  PROVE  IInv'
  <1>1. /\ run[p] \in Run /\ run[p].plan \in Pair /\ run[p].left \in Lefts
        /\ run[p].step = 2 => Shared(<< run[p].session, run[p].plan, 1 >>)
    BY DEF IInv, Behind, Run, Lefts
  <1>2. PICK r \in Run : r = [run[p] EXCEPT !.left = Tail(@), !.issues = TRUE]
    BY <1>1, RoundDone DEF Run, Lefts
  <1>3. /\ r.session = run[p].session /\ r.plan = run[p].plan /\ r.step = run[p].step
        /\ r.issues /\ r.when = run[p].when
    BY <1>1, <1>2 DEF Run
  <1>4. pc'[p] = "persist" /\ run'[p] = r /\ Command(r) = Command(run[p])
    BY <1>2, <1>3, NextRun DEF Command
  <1>5. Behind(p)'
    BY <1>1, <1>3, <1>4, SameRows DEF Behind
  <1>6. ASSUME alone
        PROVE  Sees(p)'
    <2>1. /\ Follows(r.session, r.plan)
          /\ \A d \in Pair : Recorded(d, Command(r)) => At(d, Command(r)) = r.when
      BY <1>3, <1>4, <1>6 DEF IInv, AloneInv, Sees
    <2>2. QED
      BY <1>4, <2>1, SameRows DEF Sees
  <1>7. QED
    BY <1>2, <1>5, <1>6, ReadInv

\* Both databases hold a command that was persisted without an issue.
LEMMA PersistedIsShared ==
  ASSUME IInv, NEW p \in Procs, pc[p] = "persist", run[p].left = << >>, ~run[p].issues
  PROVE  Shared(Command(run[p]))
  <1>1. \A d \in Pair : Recorded(d, Command(run[p])) /\ At(d, Command(run[p])) = run[p].when
    BY LoopEnds DEF IInv, Behind
  <1>2. QED
    BY <1>1 DEF Shared, SameTime, At, Pair

LEMMA PersistInv ==
  ASSUME IInv, NEW p \in Procs, Persist(p)
  PROVE  IInv'
  <1>1. /\ run[p] \in Run /\ run[p].plan \in Pair /\ pc[p] = "persist"
    BY DEF Persist, IInv, Behind
  <1>2. UNCHANGED << performed, faults >> /\ faults \in 0..MaxFaults
    BY DEF Persist, IInv, TypeOK
  <1>3. CASE run[p].left # << >>
    BY <1>1, <1>3, AppendInv DEF Persist
  <1>4. ASSUME UNCHANGED db, Finish(p, "aborted") \/ Finish(p, "completed")
        PROVE  IInv'
    BY <1>1, <1>2, <1>4, OverInv DEF Finish, IInv, TypeOK
  <1>5. ASSUME UNCHANGED db, run[p].left = << >>, ~run[p].issues, run[p].step = 1,
               Goto(p, "step", [run[p] EXCEPT !.step = 2])
        PROVE  IInv'
    <2>0. [run[p] EXCEPT !.step = 2] \in Run
      <3>1. 2 \in 1..2
        OBVIOUS
      <3>2. QED
        BY <1>1, <3>1 DEF Run
    <2>1. PICK r \in Run : r = [run[p] EXCEPT !.step = 2]
      BY <2>0
    <2>2. r.session = run[p].session /\ r.plan = run[p].plan /\ r.step = 2
      BY <1>1, <2>1 DEF Run
    <2>3. pc'[p] = "step" /\ run'[p] = r
      BY <1>5, <2>1, NextRun
    <2>4. Shared(<< r.session, r.plan, 1 >>)
      BY <1>1, <1>5, <2>2, PersistedIsShared DEF Command
    <2>5. Behind(p)'
      BY <1>1, <1>5, <2>2, <2>3, <2>4, SameRows DEF Behind
    <2>6. ASSUME alone
          PROVE  Sees(p)'
      <3>1. Follows(r.session, r.plan)
        BY <1>1, <2>2, <2>6 DEF IInv, AloneInv, Sees
      <3>2. QED
        BY <1>5, <2>3, <3>1, SameRows DEF Sees
    <2>7. QED
      BY <1>1, <1>2, <1>5, <2>1, <2>5, <2>6, ReadInv
  <1>6. QED
    BY <1>3, <1>4, <1>5 DEF Persist

LEMMA TroubleInv ==
  ASSUME IInv, NEW p \in Procs, Trouble(p)
  PROVE  IInv'
  <1>1. pc[p] # "idle" /\ faults' \in 0..MaxFaults
    BY ConfigAssumption DEF Trouble, Stop, ExecuteUnconfirmed, PersistFails, Crash, Fault, IInv, TypeOK
  <1>2. CASE Stop(p) \/ ExecuteUnconfirmed(p) \/ Crash(p)
    BY <1>1, <1>2, OverInv DEF Stop, ExecuteUnconfirmed, Crash, Finish, IInv, TypeOK
  <1>3. CASE PersistFails(p)
    BY <1>1, <1>3, PassInv DEF PersistFails
  <1>4. QED
    BY <1>2, <1>3 DEF Trouble

LEMMA StepInv == IInv /\ [Next]_vars => IInv'
  <1> SUFFICES ASSUME IInv, [Next]_vars PROVE IInv'
    OBVIOUS
  <1>1. ASSUME NEW p \in Procs, NEW s \in Sessions, NEW t \in Times, Begin(p, s, t)
        PROVE  IInv'
    BY <1>1, BeginInv
  <1>2. ASSUME NEW p \in Procs, Step(p)
        PROVE  IInv'
    BY <1>2, RecallInv, ListSessionInv, StepBeginInv, FindInv, ExecuteInv, PersistInv DEF Step
  <1>3. ASSUME NEW p \in Procs, Trouble(p)
        PROVE  IInv'
    BY <1>3, TroubleInv
  <1>4. CASE UNCHANGED vars
    BY <1>4 DEF vars, IInv, TypeOK, RowsInv, Behind, AloneInv, OneAtATime, MemoriesAgree, OnePlan,
       Sees, Follows, Known, Recorded, At, Shared, SameTime
  <1>5. QED
    BY <1>1, <1>2, <1>3, <1>4 DEF Next

LEMMA Invariance == Spec => []IInv
  <1>1. QED
    BY InitInv, StepInv, PTL DEF Spec

-----------------------------------------------------------------------------
(* Theorems.                                                               *)

\* The locals of every run and both databases keep their types.
THEOREM TypeCorrect == Spec => []TypeOK
  <1>1. IInv => TypeOK
    BY DEF IInv
  <1>2. QED
    BY Invariance, <1>1, PTL

\* The two dogs never remember one action with different times, unless runs
\* overlapped: whatever died between the two appends of an earlier run.
THEOREM OneTimePerAction == Spec => []MemoriesAgree
  <1>1. IInv => MemoriesAgree
    BY DEF IInv, AloneInv, MemoriesAgree
  <1>2. QED
    BY Invariance, <1>1, PTL

\* A session credits each dog once at most, however often it is repeated, with
\* any gains, thresholds and other sessions in between: all that is recorded of
\* a session follows one plan, the recorded one.
THEOREM CreditedOnce == Spec => []CreditOncePerSession
  <1>1. IInv => CreditOncePerSession
    <2> SUFFICES ASSUME IInv, alone, NEW s \in Sessions, NEW d \in Pair
                 PROVE  Cardinality({c \in Ids : c[1] = s /\ Recorded(d, c)
                                                /\ db[d].rows[c].delta > 0}) <= 1
      BY DEF CreditOncePerSession
    <2> DEFINE credits == {c \in Ids : c[1] = s /\ Recorded(d, c) /\ db[d].rows[c].delta > 0}
    <2>1. PICK first \in Pair : Follows(s, first)
      BY DEF IInv, AloneInv, OnePlan
    <2>2. ASSUME NEW c \in credits
          PROVE  c[2] = Other(d) /\ c \in {<< s, first, 1 >>, << s, Other(first), 2 >>}
      <3>0. db[d].rows[c] = Completion(d, c, At(d, c))
        BY DEF IInv, RowsInv
      <3>1. db[d].rows[c].delta = IF d = Other(c[2]) THEN Gain[d] ELSE 0
        BY <3>0 DEF Completion
      <3>2. c[2] \in Pair
        BY IdsAssumption
      <3>3. d = Other(c[2])
        BY <3>1
      <3>4. c[2] = Other(d)
        BY <3>2, <3>3, OtherDog
      <3>5. Known(c)
        BY DEF Known
      <3>6. QED
        BY <2>1, <3>4, <3>5 DEF Follows
    <2>3. PICK one : credits \subseteq {one}
      <3>1. CASE first = Other(d)
        BY <2>2, <3>1, OtherDog
      <3>2. CASE first # Other(d)
        BY <2>2, <3>2, OtherDog
      <3>3. QED
        BY <3>1, <3>2
    <2>4. Cardinality(credits) <= Cardinality({one}) /\ Cardinality({one}) = 1
      BY <2>3, FS_Singleton, FS_Subset
    <2>5. QED
      BY <2>4
  <1>2. QED
    BY Invariance, <1>1, PTL

\* Completed is reported only when both memories hold both actions with the
\* same times, whatever other runs of the session did meanwhile.
THEOREM CompletedMeansShared == Spec => CompletedIsShared
  <1> DEFINE A == \A p \in Procs : outcome[p] # "completed" /\ outcome'[p] = "completed" =>
                                     SessionShared(run[p].session)
  <1>1. IInv /\ [Next]_vars => [A]_vars
    <2> SUFFICES ASSUME IInv, Next, NEW p \in Procs, outcome[p] # "completed",
                        outcome'[p] = "completed"
                 PROVE  SessionShared(run[p].session)
      OBVIOUS
    <2>1. PICK q \in Procs : (\E s \in Sessions, t \in Times : Begin(q, s, t))
                              \/ Step(q) \/ Trouble(q)
      BY DEF Next
    <2>2. outcome \in [Procs -> {"none", "completed", "aborted"}]
      BY DEF IInv, TypeOK
    <2>3. /\ q = p /\ Persist(p) /\ run[p].left = << >> /\ ~run[p].issues /\ run[p].step # 1
      BY <2>1, <2>2 DEF Begin, Step, Trouble, Recall, ListSession, StepBegin, Find, Execute,
         Persist, Stop, ExecuteUnconfirmed, PersistFails, Crash, Goto, Finish
    <2>4. /\ run[p] \in Run /\ run[p].plan \in Pair /\ run[p].step = 2
          /\ Shared(<< run[p].session, run[p].plan, 1 >>)
      BY <2>3 DEF Persist, IInv, Behind, Run
    <2>5. Shared(<< run[p].session, Other(run[p].plan), 2 >>)
      BY <2>3, <2>4, PersistedIsShared DEF Persist, Command
    <2>6. QED
      BY <2>4, <2>5 DEF SessionShared
  <1>2. QED
    BY Invariance, <1>1, PTL DEF Spec, CompletedIsShared

\* The robots never perform an action again that a dog remembers, as long as
\* runs do not overlap.
THEOREM NotRepeated == Spec => RecordedIsNotRepeated
  <1> DEFINE A == \A c \in Ids : alone /\ performed'[c] > performed[c] =>
                                    ~Recorded(Cautious, c) /\ ~Recorded(Outgoing, c)
  <1>1. IInv /\ [Next]_vars => [A]_vars
    <2> SUFFICES ASSUME IInv, Next, NEW c \in Ids, alone, performed'[c] > performed[c]
                 PROVE  ~Recorded(Cautious, c) /\ ~Recorded(Outgoing, c)
      OBVIOUS
    <2>1. performed \in [Ids -> Nat] /\ performed' # performed
      BY DEF IInv, TypeOK
    <2>2. PICK p \in Procs : Execute(p)
      BY <2>1 DEF Next, Begin, Step, Trouble, Recall, ListSession, StepBegin, Find, Persist,
         Stop, ExecuteUnconfirmed, PersistFails, Crash
    <2>3. c = Command(run[p])
      BY <2>1, <2>2 DEF Execute
    <2>4. ~Known(c)
      BY <2>2, <2>3 DEF Execute, IInv, AloneInv, Sees
    <2>5. QED
      BY <2>4 DEF Known, Pair
  <1>2. QED
    BY Invariance, <1>1, PTL DEF Spec, RecordedIsNotRepeated

-----------------------------------------------------------------------------
(* The gate, for every configuration that DemoConfig accepts and whatever  *)
(* its two cameras and the operator report, in any order.                  *)

LastReport == log[Len(log)]

GateType ==
  /\ stable \in 0..(StableFrames - 1) /\ candidate \in {Peer, Unseen} /\ (stable = 0 <=> candidate = Unseen)
  /\ lastFrame \in Instants \cup {Unseen}
  /\ log \in Seq(Report) /\ Len(log) <= StableFrames

\* What is counted was reported, and the last report is the last frame.
Counted == stable > 0 => Len(log) >= stable /\ LastReport.status # "rejected"
InStep == log # << >> /\ LastReport.status # "rejected" => lastFrame = LastReport.at

\* An accepted frame is followed by accepted frames only, and those that wait
\* for the peer to become stable at the end of the log were all counted.
Accepted ==
  \A j \in 1..Len(log) : log[j].status = "rejected" => \A i \in 1..j : log[i].status = "rejected"
Waiting ==
  \A k \in 1..Len(log) :
    (\A i \in k..Len(log) : log[i].status = "pending") => stable >= Len(log) - k + 1

GateInv == GateType /\ Counted /\ InStep /\ Accepted /\ Waiting /\ TagsAreStable

LEMMA GateConfig == StableFrames \in Nat \ {0} /\ MaxGap \in Nat \ {0} /\ Instants \subseteq Nat
  BY GateAssumption DEF GateAssumption

(* What one report does to the log.                                        *)
LEMMA LogType ==
  ASSUME log \in Seq(Report), Len(log) <= StableFrames,
         NEW at \in Instants, NEW good \in BOOLEAN, NEW status \in Statuses, Noted(at, good, status)
  PROVE  /\ log' \in Seq(Report) /\ Len(log') <= StableFrames
         /\ ~good => log' = << >>
         /\ good => Len(log') >= 1 /\ log'[Len(log')] = [at |-> at, status |-> status]
         /\ good /\ ~Regular(at) => Len(log') = 1
  <1> DEFINE r == [at |-> at, status |-> status]
             kept == IF Regular(at) THEN log ELSE << >>
             all == Append(kept, r)
  <1>1. r \in Report /\ StableFrames \in Nat \ {0}
    BY GateConfig DEF Report
  <1>2. kept \in Seq(Report) /\ Len(kept) <= StableFrames
    BY <1>1
  <1>3. /\ all \in Seq(Report) /\ Len(all) = Len(kept) + 1 /\ all[Len(all)] = r
        /\ ~Regular(at) => Len(all) = 1
    BY <1>1, <1>2
  <1>4. log' = IF ~good THEN << >> ELSE IF Len(all) > StableFrames THEN Tail(all) ELSE all
    BY DEF Noted
  <1> HIDE DEF r, all, kept
  <1>5. Tail(all) \in Seq(Report) /\ Len(Tail(all)) = Len(all) - 1
    BY <1>3
  <1>6. ASSUME Len(all) > 1 PROVE Tail(all)[Len(all) - 1] = all[Len(all)]
    BY <1>3, <1>6
  <1>7. CASE ~good
    BY <1>1, <1>4, <1>7
  <1>8. CASE good /\ Len(all) > StableFrames
    BY <1>1, <1>2, <1>3, <1>4, <1>5, <1>6, <1>8 DEF r
  <1>9. CASE good /\ ~(Len(all) > StableFrames)
    BY <1>1, <1>2, <1>3, <1>4, <1>9 DEF r
  <1>10. QED
    BY <1>7, <1>8, <1>9

LEMMA LogGrows ==
  ASSUME log \in Seq(Report), Len(log) <= StableFrames,
         NEW at \in Instants, NEW status \in Statuses, Noted(at, TRUE, status), Regular(at)
  PROVE  \E s \in {0, 1} :
           /\ s = 1 => Len(log) = StableFrames
           /\ Len(log') = Len(log) + 1 - s
           /\ \A i \in 1..(Len(log') - 1) : log'[i] = log[i + s]
  <1> DEFINE r == [at |-> at, status |-> status]
             all == Append(log, r)
  <1>1. r \in Report /\ StableFrames \in Nat \ {0}
    BY GateConfig DEF Report
  <1>2. all \in Seq(Report) /\ Len(all) = Len(log) + 1 /\ \A i \in 1..Len(log) : all[i] = log[i]
    BY <1>1
  <1>3. log' = IF Len(all) > StableFrames THEN Tail(all) ELSE all
    BY DEF Noted
  <1> HIDE DEF r, all
  <1>4. Len(Tail(all)) = Len(all) - 1 /\ \A i \in 1..(Len(all) - 1) : Tail(all)[i] = all[i + 1]
    BY <1>2
  <1>5. CASE Len(all) > StableFrames
    <2>1. \A i \in 1..(Len(log') - 1) : log'[i] = log[i + 1]
      BY <1>2, <1>3, <1>4, <1>5
    <2>2. Len(log) = StableFrames /\ Len(log') = Len(log) + 1 - 1
      BY <1>1, <1>2, <1>3, <1>4, <1>5
    <2>3. QED
      BY <2>1, <2>2
  <1>6. CASE ~(Len(all) > StableFrames)
    <2>1. \A i \in 1..(Len(log') - 1) : log'[i] = log[i + 0]
      BY <1>2, <1>3, <1>6
    <2>2. Len(log') = Len(log) + 1 - 0
      BY <1>2, <1>3, <1>6
    <2>3. QED
      BY <2>1, <2>2
  <1>7. QED
    BY <1>5, <1>6

(* A frame that comes in order after counted ones and does not exceed the  *)
(* gap continues the log.                                                  *)
Held(at) == IF Exceeds(at) \/ candidate # Peer THEN 0 ELSE stable
InOrder(at) == lastFrame # Unseen => at > lastFrame

LEMMA AcceptedGrows ==
  ASSUME GateInv, NEW at \in Instants,
         NEW status \in Statuses \ {"rejected"}, Noted(at, TRUE, status)
  PROVE  Accepted'
  <1>1. log \in Seq(Report) /\ Len(log) <= StableFrames /\ TRUE \in BOOLEAN
    BY DEF GateInv, GateType
  <1>2. /\ log' \in Seq(Report) /\ log'[Len(log')] = [at |-> at, status |-> status]
        /\ ~Regular(at) => Len(log') = 1
    BY <1>1, LogType
  <1>3. CASE ~Regular(at)
    <2>1. Len(log') = 1
      BY <1>2, <1>3
    <2>2. log'[Len(log')].status # "rejected"
      BY <1>2
    <2>3. QED
      BY <2>1, <2>2 DEF Accepted
  <1>4. CASE Regular(at)
    <2>1. PICK s \in {0, 1} : /\ Len(log') = Len(log) + 1 - s
                              /\ \A i \in 1..(Len(log') - 1) : log'[i] = log[i + s]
      BY <1>1, <1>4, LogGrows
    <2> SUFFICES ASSUME NEW j \in 1..Len(log'), log'[j].status = "rejected", NEW i \in 1..j
                 PROVE  log'[i].status = "rejected"
      BY DEF Accepted
    <2>2. j # Len(log')
      BY <1>2
    <2>3. /\ i \in 1..(Len(log') - 1) /\ j \in 1..(Len(log') - 1)
          /\ j + s \in 1..Len(log) /\ i + s \in 1..(j + s)
      BY <1>1, <1>2, <2>1, <2>2
    <2>4. QED
      BY <2>1, <2>3 DEF GateInv, Accepted
  <1>5. QED
    BY <1>3, <1>4

LEMMA HeldType ==
  ASSUME GateType, NEW at \in Instants
  PROVE  Held(at) \in 0..(StableFrames - 1)
  BY GateConfig DEF Held, GateType

LEMMA HeldIsRegular ==
  ASSUME GateType, Counted, InStep, NEW at \in Instants, InOrder(at), Held(at) > 0
  PROVE  Regular(at) /\ Len(log) >= Held(at)
  <1>1. Held(at) = stable /\ stable > 0 /\ ~Exceeds(at)
    BY GateConfig DEF Held
  <1>2. Len(log) >= stable /\ LastReport.status # "rejected" /\ log # << >>
    BY <1>1, GateConfig DEF Counted, GateType
  <1>3. LastReport \in Report
    BY <1>2 DEF GateType, LastReport
  <1>4. lastFrame = LastReport.at /\ lastFrame # Unseen
    BY <1>2, <1>3, GateAssumption DEF GateAssumption, InStep, Report
  <1>5. at - lastFrame \in 1..MaxGap
    <2>1. at \in Nat /\ lastFrame \in Nat /\ MaxGap \in Nat
      BY <1>3, <1>4, GateConfig DEF Report
    <2>2. at > lastFrame /\ ~(at - lastFrame > MaxGap)
      BY <1>1, <1>4 DEF InOrder, Exceeds
    <2>3. QED
      BY <2>1, <2>2
  <1>6. QED
    BY <1>1, <1>2, <1>4, <1>5 DEF Regular, LastReport

LEMMA LogHolds ==
  ASSUME GateType, Counted, InStep,
         NEW at \in Instants, InOrder(at), NEW status \in Statuses,
         Noted(at, TRUE, status)
  PROVE  Len(log') >= Held(at) + 1
  <1>1. log \in Seq(Report) /\ Len(log) <= StableFrames /\ TRUE \in BOOLEAN
    BY DEF GateType
  <1>2. log' \in Seq(Report) /\ Len(log') >= 1
    BY <1>1, LogType
  <1>3. CASE Held(at) = 0
    BY <1>2, <1>3
  <1>4. CASE Held(at) > 0
    <2>1. Regular(at) /\ Len(log) >= Held(at)
      BY <1>4, HeldIsRegular
    <2>2. PICK s \in {0, 1} : (s = 1 => Len(log) = StableFrames) /\ Len(log') = Len(log) + 1 - s
      BY <2>1, LogGrows DEF GateType
    <2>3. QED
      BY <2>1, <2>2, HeldType, GateConfig DEF GateType
  <1>5. QED
    BY <1>3, <1>4, HeldType, GateConfig

(* One lemma for each way in which a report ends.                          *)
LEMMA RejectInv ==
  ASSUME GateInv, NEW reason,
         NEW at \in Instants, NEW good \in BOOLEAN, Reject(reason, at, good),
         lastFrame' \in Instants \cup {Unseen},
         good => lastFrame \in Instants /\ at <= lastFrame
  PROVE  GateInv'
  <1>0. "rejected" \in Statuses /\ log \in Seq(Report) /\ Len(log) <= StableFrames
        /\ Noted(at, good, "rejected")
    BY DEF Statuses, GateInv, GateType, Reject
  <1>1. GateType' /\ stable' = 0
    <2>1. log' \in Seq(Report) /\ Len(log') <= StableFrames
      BY <1>0, LogType
    <2>2. QED
      BY <2>1, GateConfig DEF GateType, Reject, ClearStability
  <1>2. TagsAreStable'
    BY DEF Reject, TagsAreStable
  <1>3. CASE ~good
    <2>1. log' = << >>
      BY <1>0, <1>3, LogType
    <2>2. QED
      BY <1>1, <1>2, <2>1 DEF GateInv, Counted, InStep, Accepted, Waiting
  <1>4. CASE good
    <2>0. /\ log' \in Seq(Report) /\ Len(log') >= 1
          /\ LastReport' = [at |-> at, status |-> "rejected"]
          /\ ~Regular(at) => Len(log') = 1
      BY <1>0, <1>4, LogType DEF LastReport
    <2>1. /\ log' \in Seq(Report) /\ Len(log') >= 1 /\ LastReport'.status = "rejected"
          /\ ~Regular(at) => Len(log') = 1
      BY <2>0
    <2>2. ASSUME Regular(at) PROVE \A i \in 1..(Len(log') - 1) : log'[i].status = "rejected"
      <3>1. log # << >> /\ LastReport \in Report /\ at - LastReport.at >= 1
        BY <2>2 DEF Regular, LastReport, GateInv, GateType
      <3>2. LastReport.status = "rejected"
        <4>1. LastReport.at \in Nat /\ at \in Nat /\ lastFrame \in Nat
          BY <1>4, <3>1, GateConfig DEF Report
        <4>2. lastFrame # LastReport.at
          BY <1>4, <3>1, <4>1
        <4>3. QED
          BY <3>1, <4>2 DEF GateInv, InStep
      <3>3. \A i \in 1..Len(log) : log[i].status = "rejected"
        <4>1. Len(log) \in 1..Len(log)
          BY <3>1 DEF GateInv, GateType
        <4>2. QED
          BY <3>2, <4>1 DEF GateInv, Accepted, LastReport
      <3>4. PICK s \in {0, 1} : /\ Len(log') = Len(log) + 1 - s
                                /\ \A i \in 1..(Len(log') - 1) : log'[i] = log[i + s]
        BY <1>4, <2>2, LogGrows DEF GateInv, GateType, Reject, Statuses
      <3>5. \A i \in 1..(Len(log') - 1) : i + s \in 1..Len(log)
        BY <3>4 DEF GateInv, GateType
      <3>6. QED
        BY <3>3, <3>4, <3>5
    <2>3. \A i \in 1..Len(log') : log'[i].status = "rejected"
      BY <2>1, <2>2 DEF LastReport
    <2>4. Accepted' /\ InStep' /\ Counted'
      BY <1>1, <2>1, <2>3, GateConfig DEF Accepted, InStep, Counted, GateType
    <2>5. Waiting'
      <3>1. \A k \in 1..Len(log') : k \in k..Len(log')
        BY <2>1
      <3>2. QED
        BY <2>3, <3>1 DEF Waiting
    <2>6. QED
      BY <1>1, <1>2, <2>4, <2>5 DEF GateInv
  <1>5. QED
    BY <1>3, <1>4

LEMMA ConfirmInv ==
  ASSUME GateInv, NEW at \in Instants, NEW frames, NEW source, NEW good \in BOOLEAN,
         Confirm(at, frames, source, good),
         lastFrame' \in Instants \cup {Unseen},
         good => lastFrame' = at,
         source = "tag" => good /\ InOrder(at) /\ Held(at) + 1 >= StableFrames
  PROVE  GateInv'
  <1>1. PICK status \in {"confirmed", "suppressed"} :
          Noted(at, good, status) /\ decision'.source = source
    BY DEF Confirm
  <1>2. GateType' /\ stable' = 0
    <2>1. log' \in Seq(Report) /\ Len(log') <= StableFrames
      BY <1>1, LogType DEF GateInv, GateType, Statuses
    <2>2. QED
      BY <2>1, GateConfig DEF GateType, Confirm, ClearStability
  <1>3. TagsAreStable'
    <2> SUFFICES ASSUME source = "tag" PROVE Len(log') >= StableFrames
      BY <1>1 DEF TagsAreStable
    <2>1. Len(log') >= Held(at) + 1
      BY <1>1, LogHolds DEF GateInv, Statuses
    <2>2. QED
      BY <1>2, <2>1, HeldType, GateConfig DEF GateInv, GateType
  <1>4. /\ ~good => log' = << >>
        /\ good => LastReport' = [at |-> at, status |-> status]
    BY <1>1, LogType DEF GateInv, GateType, Statuses, LastReport
  <1>5. Counted' /\ InStep' /\ Accepted'
    <2>1. CASE good
      <3>1. good = TRUE /\ status \in Statuses \ {"rejected"}
        BY <2>1, <1>1 DEF Statuses
      <3>2. Noted(at, TRUE, status)
        BY <1>1, <3>1
      <3>3. Accepted'
        BY <3>1, <3>2, AcceptedGrows
      <3>4. QED
        BY <1>2, <1>4, <2>1, <3>3, GateConfig DEF Counted, InStep
    <2>2. CASE ~good
      BY <1>2, <1>4, <2>2, GateConfig DEF Counted, InStep, Accepted
    <2>3. QED
      BY <2>1, <2>2
  <1>6. Waiting'
    <2>1. \A k \in 1..Len(log') : Len(log') \in k..Len(log')
      BY <1>2 DEF GateType
    <2>2. log' # << >> => log'[Len(log')].status # "pending"
      BY <1>1, <1>4 DEF LastReport
    <2>3. QED
      BY <1>2, <2>1, <2>2 DEF Waiting, GateType
  <1>7. QED
    BY <1>2, <1>3, <1>5, <1>6 DEF GateInv

LEMMA PendingInv ==
  ASSUME GateInv, NEW at \in Instants, InOrder(at),
         lastFrame' = at, Held(at) + 1 < StableFrames,
         candidate' = Peer, stable' = Held(at) + 1, decision'.status = "pending",
         Noted(at, TRUE, "pending")
  PROVE  GateInv'
  <1>1. /\ log \in Seq(Report) /\ Len(log) <= StableFrames
        /\ TRUE \in BOOLEAN /\ "pending" \in Statuses
    BY DEF GateInv, GateType, Statuses
  <1>2. /\ log' \in Seq(Report) /\ Len(log') <= StableFrames
        /\ Len(log') >= 1 /\ LastReport' = [at |-> at, status |-> "pending"]
        /\ ~Regular(at) => Len(log') = 1
    BY <1>1, LogType DEF LastReport
  <1>3. Held(at) \in Nat
    BY HeldType, GateConfig DEF GateInv
  <1>4. GateType'
    BY <1>2, <1>3, GateAssumption DEF GateAssumption, GateType
  <1>5. Counted' /\ InStep' /\ Accepted' /\ TagsAreStable'
    <2>1. Len(log') >= Held(at) + 1
      BY <1>1, LogHolds DEF GateInv
    <2>2. "pending" \in Statuses \ {"rejected"}
      BY DEF Statuses
    <2>3. Accepted'
      BY <2>2, AcceptedGrows
    <2>4. QED
      BY <1>2, <2>1, <2>3 DEF Counted, InStep, TagsAreStable
  <1>6. Waiting'
    <2> SUFFICES ASSUME NEW k \in 1..Len(log'), \A i \in k..Len(log') : log'[i].status = "pending"
                 PROVE  Held(at) + 1 >= Len(log') - k + 1
      BY DEF Waiting
    <2>1. CASE k = Len(log')
      BY <1>2, <1>3, <2>1
    <2>2. CASE k < Len(log')
      <3>1. Regular(at)
        BY <1>2, <2>2
      <3>2. PICK s \in {0, 1} : /\ Len(log') = Len(log) + 1 - s
                                /\ \A i \in 1..(Len(log') - 1) : log'[i] = log[i + s]
        BY <1>1, <3>1, LogGrows
      <3>3. k + s \in 1..Len(log)
        BY <1>1, <1>2, <2>2, <3>2
      <3>4. ASSUME NEW j \in (k + s)..Len(log) PROVE log[j].status = "pending"
        <4>1. j - s \in k..Len(log') /\ j - s \in 1..(Len(log') - 1) /\ (j - s) + s = j
          BY <1>1, <1>2, <3>2
        <4>2. QED
          BY <3>2, <4>1
      <3>5. stable >= Len(log) - (k + s) + 1
        BY <3>3, <3>4 DEF GateInv, Waiting
      <3>6. stable \in Nat /\ stable > 0 /\ candidate = Peer
        BY <1>1, <3>3, <3>5, GateConfig DEF GateInv, GateType
      <3>7. ~Exceeds(at)
        <4>1. Len(log) \in k + s..Len(log)
          BY <1>1, <3>3
        <4>2. log # << >> /\ LastReport.status = "pending"
          BY <1>1, <3>3, <3>4, <4>1 DEF LastReport
        <4>3. lastFrame = LastReport.at
          BY <4>2 DEF GateInv, InStep
        <4>4. QED
          BY <3>1, <4>3, GateConfig DEF Exceeds, Regular, LastReport
      <3>8. Held(at) = stable
        BY <3>6, <3>7 DEF Held
      <3>9. QED
        BY <1>1, <1>2, <3>2, <3>5, <3>6, <3>8
    <2>3. QED
      BY <1>2, <2>1, <2>2
  <1>7. QED
    BY <1>4, <1>5, <1>6 DEF GateInv

LEMMA ObserveInv ==
  ASSUME GateInv,
         NEW owner, NEW at \in Instants, NEW left, NEW right, Observe(owner, at, left, right)
  PROVE  GateInv'
  <1> DEFINE good == owner = Own /\ Resolution(left, right) = "peer"
  <1>1. good \in BOOLEAN /\ lastFrame \in Instants \cup {Unseen} /\ (good => good = TRUE)
    BY DEF GateInv, GateType
  <1>2. CASE /\ owner # Own
             /\ Reject("owner_mismatch", at, good) /\ UNCHANGED lastFrame
    BY <1>1, <1>2, RejectInv
  <1>3. CASE /\ owner = Own /\ lastFrame # Unseen /\ at <= lastFrame
             /\ Reject("out_of_order", at, good) /\ UNCHANGED lastFrame
    BY <1>1, <1>3, RejectInv
  <1>4. CASE /\ owner = Own /\ lastFrame' = at /\ Resolution(left, right) # "peer"
             /\ Reject(Resolution(left, right), at, good)
    BY <1>1, <1>4, RejectInv
  <1>5. CASE /\ InOrder(at) /\ lastFrame' = at /\ Held(at) + 1 < StableFrames
             /\ candidate' = Peer /\ stable' = Held(at) + 1
             /\ decision'.status = "pending" /\ good /\ Noted(at, good, "pending")
    <2>1. Noted(at, TRUE, "pending")
      BY <1>1, <1>5
    <2>2. QED
      BY <1>5, <2>1, PendingInv
  <1>6. CASE /\ InOrder(at) /\ lastFrame' = at /\ Held(at) + 1 >= StableFrames
             /\ good /\ Confirm(at, Held(at) + 1, "tag", good)
    BY <1>1, <1>6, ConfirmInv
  <1>7. QED
    <2>1. CASE owner = Own /\ (lastFrame # Unseen => at > lastFrame) /\ Resolution(left, right) = "peer"
      BY <1>3, <1>5, <1>6, <2>1 DEF Observe, Held, InOrder
    <2>2. CASE ~(owner = Own /\ (lastFrame # Unseen => at > lastFrame) /\ Resolution(left, right) = "peer")
      BY <1>2, <1>3, <1>4, <2>2 DEF Observe
    <2>3. QED
      BY <2>1, <2>2

LEMMA ManualInv ==
  ASSUME GateInv,
         NEW owner, NEW peer, NEW at \in Instants, ConfirmManual(owner, peer, at)
  PROVE  GateInv'
  <1>1. lastFrame' = lastFrame /\ lastFrame \in Instants \cup {Unseen} /\ FALSE \in BOOLEAN
    BY DEF ConfirmManual, GateInv, GateType
  <1>2. ASSUME NEW reason, Reject(reason, at, FALSE) PROVE GateInv'
    BY <1>1, <1>2, RejectInv
  <1>3. CASE Confirm(at, stable, "operator", FALSE)
    BY <1>1, <1>3, ConfirmInv
  <1>4. QED
    BY <1>2, <1>3 DEF ConfirmManual

LEMMA GateInvariance == GateSpec => []GateInv
  <1>1. GateInit => GateInv
    BY GateConfig DEF GateInit, GateInv, GateType, Counted, InStep, Accepted, Waiting, TagsAreStable
  <1>2. GateInv /\ [GateNext]_gateVars => GateInv'
    <2>1. GateInv /\ GateNext => GateInv'
      BY ObserveInv, ManualInv DEF GateNext
    <2>2. GateInv /\ UNCHANGED gateVars => GateInv'
      BY DEF gateVars, gate, GateInv, GateType, Counted, InStep, Accepted, Waiting, TagsAreStable, LastReport
    <2>3. QED
      BY <2>1, <2>2
  <1>3. QED
    BY <1>1, <1>2, PTL DEF GateSpec

(* A tag confirms an encounter only after as many reports in a row, in     *)
(* order and without a gap, that showed the peer and nobody else: frames   *)
(* that come late, twice or with a gap never count, and the operator's     *)
(* confirmations and rejections in between start the count anew.           *)
THEOREM EncountersAreStable == GateSpec => []TagsAreStable
  <1>1. GateInv => TagsAreStable
    BY DEF GateInv
  <1>2. QED
    BY <1>1, GateInvariance, PTL

(* The gate overlooks nobody: a log full of regular frames, the first one  *)
(* accepted, contains an answer, or all of them would have been counted,   *)
(* more than the gate ever counts.                                         *)
THEOREM NobodyIsOverlooked == GateSpec => []SightingsAreAnswered
  <1>1. GateInv => SightingsAreAnswered
    <2> SUFFICES ASSUME GateInv, Len(log) = StableFrames, log[1].status # "rejected",
                        \A i \in 1..StableFrames : log[i].status \notin {"confirmed", "suppressed"}
                 PROVE  FALSE
      BY DEF SightingsAreAnswered
    <2>1. ASSUME NEW i \in 1..Len(log) PROVE log[i].status = "pending"
      <3>1. log[i] \in Report
        BY DEF GateInv, GateType
      <3>2. log[i].status # "rejected"
        BY DEF GateInv, Accepted
      <3>3. QED
        BY <3>1, <3>2, GateConfig DEF Report, Statuses
    <2>2. stable >= Len(log) - 1 + 1
      BY <2>1, GateConfig DEF GateInv, Waiting
    <2>3. QED
      BY <2>2, GateConfig DEF GateInv, GateType
  <1>2. QED
    BY <1>1, GateInvariance, PTL
=============================================================================
