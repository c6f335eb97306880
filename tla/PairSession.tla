----------------------------- MODULE PairSession -----------------------------
(***************************************************************************)
(* packages/dogos_demo: a session of two dogs.  A run reads what the dogs  *)
(* remember, plans two actions, and for each one either recovers it from   *)
(* the two databases or performs it, and then appends the completion to    *)
(* both.  Each read, each action and each append is a step: a run may die  *)
(* between any two, runs of one session may be repeated, and another       *)
(* process may run the same session at the same time.                      *)
(***************************************************************************)
EXTENDS MemoryStore, Sequences, FiniteSets

CONSTANTS Procs,     \* command-line processes
          Sessions,  \* session ids
          Cautious, Outgoing, \* the two dogs, by role
          Order,     \* the dogs as config.dogs lists them
          Gain,      \* Gain[d]: affinity_gain of dog d
          Threshold, \* familiar_threshold of the cautious dog
          Times,     \* observed_at_ms a run may be started with
          MaxFaults  \* bound on crashes, failed actions, store errors and stops

VARIABLES db,        \* db[d]: the database of dog d
          pc,        \* pc[p]: where process p is in its run
          run,       \* run[p]: the locals of that run
          outcome,   \* outcome[p]: what its last run reported
          performed, \* performed[c]: how often the robots completed command c
          alone,     \* history: no two runs were ever under way at the same time
          faults

vars == << db, pc, run, outcome, performed, alone, faults >>

Pair == {Cautious, Outgoing}
Other(d) == IF d = Cautious THEN Outgoing ELSE Cautious

ASSUME RolesAssumption ==
  /\ Cautious # Outgoing /\ Pair = Dogs
  /\ Order \in Seq(Pair) /\ Len(Order) = 2 /\ Order[1] # Order[2]
ASSUME ConfigAssumption ==
  /\ Gain \in [Pair -> 1..100] /\ "action_completed" \in Texts
  /\ Times \subseteq Nat /\ MaxFaults \in Nat /\ None \notin Nat \cup Pair
\* command_id is session/actor/step; the stored id only adds "/completed".
ASSUME IdsAssumption == Ids = Sessions \X Pair \X (1..2)

\* The locals of SessionCoordinator.run and of the command it executes.
Run == [session : Sessions, at : Times, plan : Pair \cup {None}, step : 1..2,
        left : {Order, Tail(Order), << >>}, seen : SUBSET Ids,
        found : [Pair -> Nat \cup {None}], when : Nat, issues : BOOLEAN]

TypeOK ==
  /\ db \in [Pair -> Database]
  /\ pc \in [Procs -> {"idle", "recall", "list", "step", "find", "execute", "persist"}]
  /\ run \in [Procs -> Run \cup {None}]
  /\ outcome \in [Procs -> {"none", "completed", "aborted"}]
  /\ performed \in [Ids -> Nat] /\ alone \in BOOLEAN /\ faults \in 0..MaxFaults

Init ==
  /\ db = [d \in Pair |-> EmptyDatabase(d, "simulation")]
  /\ pc = [p \in Procs |-> "idle"]
  /\ run = [p \in Procs |-> None]
  /\ outcome = [p \in Procs |-> "none"]
  /\ performed = [c \in Ids |-> 0]
  /\ alone = TRUE /\ faults = 0

Command(r) == << r.session, IF r.step = 1 THEN r.plan ELSE Other(r.plan), r.step >>
NobodyFound == [d \in Pair |-> None]

\* CompletionPersistence._memory: what dog d remembers of command c.
Completion(d, c, when) ==
  LET target == Other(c[2])
  IN [id |-> c, peer |-> Other(d), kind |-> "event", text |-> "action_completed", at |-> when,
      source |-> "simulation", result |-> "completed",
      delta |-> IF d = target THEN Gain[d] ELSE 0, evidence |-> {}]

Finish(p, result) ==
  /\ pc' = [pc EXCEPT ![p] = "idle"] /\ run' = [run EXCEPT ![p] = None]
  /\ outcome' = [outcome EXCEPT ![p] = result] /\ UNCHANGED alone
Goto(p, label, locals) ==
  /\ pc' = [pc EXCEPT ![p] = label] /\ run' = [run EXCEPT ![p] = locals]
  /\ UNCHANGED << outcome, alone >>
Fault == faults < MaxFaults /\ faults' = faults + 1

Begin(p, s, t) ==
  /\ pc[p] = "idle"
  /\ pc' = [pc EXCEPT ![p] = "recall"]
  /\ run' = [run EXCEPT ![p] =
       [session |-> s, at |-> t, plan |-> None, step |-> 1, left |-> Order, seen |-> {},
        found |-> NobodyFound, when |-> 0, issues |-> FALSE]]
  /\ outcome' = [outcome EXCEPT ![p] = "none"]
  /\ alone' = (alone /\ \A q \in Procs : pc[q] = "idle")
  /\ UNCHANGED << db, performed, faults >>

\* build_plan: a familiar cautious dog takes the first step.
Recall(p) ==
  /\ pc[p] = "recall"
  /\ LET familiar == db[Cautious].score[Outgoing] >= Threshold
     IN Goto(p, "list", [run[p] EXCEPT !.plan = IF familiar THEN Cautious ELSE Outgoing])
  /\ UNCHANGED << db, performed, faults >>

\* Mutant: a repeated session is planned from today's familiarity.
ListSessionIgnored(p) ==
  /\ pc[p] = "list"
  /\ Goto(p, "step", [run[p] EXCEPT !.left = Order])
  /\ UNCHANGED << db, performed, faults >>

\* original_initiator: the plan of a session on record is the recorded one.
ListSession(p) ==
  /\ pc[p] = "list"
  /\ LET r == run[p]
         actors == {i[2] : i \in {j \in r.seen : j[3] = 1}}
     IN \/ /\ r.left # << >>
           /\ Goto(p, "list",
                [r EXCEPT !.left = Tail(@),
                          !.seen = @ \cup {i \in Ids : /\ i[1] = r.session
                                                       /\ db[Head(r.left)].rows[i] # None}])
        \/ /\ r.left = << >> /\ r.seen = {} /\ Goto(p, "step", [r EXCEPT !.left = Order])
        \/ /\ r.left = << >> /\ r.seen # {}
           /\ IF Cardinality(actors) = 1
              THEN Goto(p, "step", [r EXCEPT !.left = Order, !.plan = CHOOSE d \in actors : TRUE])
              ELSE Finish(p, "aborted")
  /\ UNCHANGED << db, performed, faults >>

\* The stop signal is looked at before every command.
StepBegin(p) ==
  /\ pc[p] = "step"
  /\ Goto(p, "find", [run[p] EXCEPT !.left = Order, !.found = NobodyFound, !.issues = FALSE])
  /\ UNCHANGED << db, performed, faults >>

Stop(p) ==
  /\ pc[p] = "step" /\ Fault
  /\ Finish(p, "aborted")
  /\ UNCHANGED << db, performed >>

\* Mutant: only the actor's own memory is asked.
FindActorOnly(p) ==
  /\ pc[p] = "find"
  /\ LET r == run[p]
         m == db[Command(r)[2]].rows[Command(r)]
     IN IF m = None THEN Goto(p, "execute", [r EXCEPT !.left = Order])
        ELSE Goto(p, "persist", [r EXCEPT !.left = Order, !.when = m.at])
  /\ UNCHANGED << db, performed, faults >>

\* Mutant: a command found in one memory counts as done, nothing is backfilled.
FindWithoutBackfill(p) ==
  /\ pc[p] = "find"
  /\ LET r == run[p]
     IN IF \E d \in Pair : db[d].rows[Command(r)] # None
        THEN Goto(p, "persist", [r EXCEPT !.left = << >>])
        ELSE Goto(p, "execute", [r EXCEPT !.left = Order])
  /\ UNCHANGED << db, performed, faults >>

\* CompletionPersistence.recover: both databases are asked for the command.
Find(p) ==
  /\ pc[p] = "find"
  /\ LET r == run[p]
         present == {d \in Pair : r.found[d] # None}
         anchor == IF r.found[Order[1]] # None THEN r.found[Order[1]] ELSE r.found[Order[2]]
     IN \/ /\ r.left # << >>
           /\ LET m == db[Head(r.left)].rows[Command(r)]
              IN Goto(p, "find", [r EXCEPT !.left = Tail(@),
                                           !.found[Head(r.left)] = IF m = None THEN None ELSE m.at])
        \/ /\ r.left = << >> /\ present = {} /\ Goto(p, "execute", [r EXCEPT !.left = Order])
        \/ /\ r.left = << >> /\ present # {}
           /\ IF \A d \in present : r.found[d] = anchor
              THEN Goto(p, "persist", [r EXCEPT !.left = Order, !.when = anchor])
              ELSE Finish(p, "aborted") \* completion_conflict
  /\ UNCHANGED << db, performed, faults >>

\* The robot completes the action; the receipt carries the planned time.
Execute(p) ==
  /\ pc[p] = "execute"
  /\ LET r == run[p]
     IN /\ performed' = [performed EXCEPT ![Command(r)] = @ + 1]
        /\ Goto(p, "persist", [r EXCEPT !.when = r.at + r.step - 1])
  /\ UNCHANGED << db, faults >>

\* Only acknowledged, failed, cancelled, or completed for another route or source.
ExecuteUnconfirmed(p) ==
  /\ pc[p] = "execute" /\ Fault
  /\ Finish(p, "aborted")
  /\ UNCHANGED << db, performed >>

\* Mutant: one database that took the row is enough.
PersistAnyway(p) ==
  /\ pc[p] = "persist"
  /\ LET r == run[p]
         d == Head(r.left)
     IN \/ /\ r.left # << >>
           /\ db' = [db EXCEPT ![d] = Appended(@, Completion(d, Command(r), r.when))]
           /\ Goto(p, "persist", [r EXCEPT !.left = Tail(@)])
        \/ /\ r.left = << >> /\ UNCHANGED db
           /\ IF r.step = 1 THEN Goto(p, "step", [r EXCEPT !.step = 2]) ELSE Finish(p, "completed")
  /\ UNCHANGED << performed, faults >>

\* CompletionPersistence.persist: both are tried, each refusal is an issue.
Persist(p) ==
  /\ pc[p] = "persist"
  /\ LET r == run[p]
         d == Head(r.left)
         m == Completion(d, Command(r), r.when)
     IN \/ /\ r.left # << >>
           /\ db' = [db EXCEPT ![d] = Appended(@, m)]
           /\ Goto(p, "persist", [r EXCEPT !.left = Tail(@), !.issues = @ \/ Refuses(db[d], m)])
        \/ /\ r.left = << >> /\ UNCHANGED db
           /\ IF r.issues THEN Finish(p, "aborted")
              ELSE IF r.step = 1 THEN Goto(p, "step", [r EXCEPT !.step = 2])
              ELSE Finish(p, "completed")
  /\ UNCHANGED << performed, faults >>

\* A database answers with an error of its own: nothing written, one issue.
PersistFails(p) ==
  /\ pc[p] = "persist" /\ run[p].left # << >> /\ Fault
  /\ Goto(p, "persist", [run[p] EXCEPT !.left = Tail(@), !.issues = TRUE])
  /\ UNCHANGED << db, performed >>

Crash(p) ==
  /\ pc[p] # "idle" /\ Fault
  /\ pc' = [pc EXCEPT ![p] = "idle"] /\ run' = [run EXCEPT ![p] = None]
  /\ UNCHANGED << db, outcome, performed, alone >>

Step(p) == \/ Recall(p) \/ ListSession(p) \/ StepBegin(p) \/ Find(p) \/ Execute(p) \/ Persist(p)
Trouble(p) == Stop(p) \/ ExecuteUnconfirmed(p) \/ PersistFails(p) \/ Crash(p)

Next == \E p \in Procs : \/ \E s \in Sessions, t \in Times : Begin(p, s, t)
                         \/ Step(p) \/ Trouble(p)

Spec == Init /\ [][Next]_vars

\* A started run goes on, and the operator repeats every session.
LiveSpec ==
  /\ Spec
  /\ \A p \in Procs : WF_vars(Step(p))
  /\ \A p \in Procs, s \in Sessions : SF_vars(\E t \in Times : Begin(p, s, t))

-----------------------------------------------------------------------------
Recorded(d, c) == db[d].rows[c] # None
SameTime(c) == db[Cautious].rows[c].at = db[Outgoing].rows[c].at
Shared(c) == Recorded(Cautious, c) /\ Recorded(Outgoing, c) /\ SameTime(c)
SessionShared(s) ==
  \E first \in Pair : Shared(<< s, first, 1 >>) /\ Shared(<< s, Other(first), 2 >>)

\* A session is reported completed only when both dogs remember both actions,
\* with the same time in both memories: also when two runs of it overlap.
CompletedIsShared ==
  [][\A p \in Procs : outcome[p] # "completed" /\ outcome'[p] = "completed" =>
       SessionShared(run[p].session)]_vars

\* The two dogs never remember one action differently, unless runs overlapped:
\* otherwise every later run of the session would end in completion_conflict.
MemoriesAgree ==
  alone => \A c \in Ids : Recorded(Cautious, c) /\ Recorded(Outgoing, c) => SameTime(c)

\* A session credits a dog once at most, however often it is repeated and
\* although the relationship it and other sessions build would change the plan,
\* unless runs overlapped: two runs of one session may plan differently when a
\* third one, of another session, ends between their looks at the relationship.
CreditOncePerSession ==
  alone =>
    \A s \in Sessions, d \in Pair :
      Cardinality({c \in Ids : c[1] = s /\ Recorded(d, c) /\ db[d].rows[c].delta > 0}) <= 1

\* An action some dog remembers is not performed again by a later run.
RecordedIsNotRepeated ==
  [][\A c \in Ids : alone /\ performed'[c] > performed[c] =>
       ~Recorded(Cautious, c) /\ ~Recorded(Outgoing, c)]_vars

\* A session one dog remembers a part of is, after enough repetitions,
\* remembered in full by both, unless two runs overlapped.
PartialSessionsComplete ==
  \A s \in Sessions :
    (\E d \in Pair, c \in Ids : c[1] = s /\ Recorded(d, c)) ~> SessionShared(s) \/ ~alone

=============================================================================
