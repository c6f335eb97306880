------------------------------ MODULE LiveProofs ------------------------------
(***************************************************************************)
(* Theorems about the parts at work around a live robot: the voice         *)
(* administrator (VoiceAdmin), the stage console (StageLive) and the       *)
(* policy that decides on vendor calls (ActionPolicy).  The three are      *)
(* independent of each other.                                              *)
(***************************************************************************)
EXTENDS VoiceAdmin, StageLive, ActionPolicy, TLAPS

-----------------------------------------------------------------------------
(***************************************************************************)
(* The voice administrator, for any number of faults: the saved file, what *)
(* is left without one, and what a command reports.                        *)
(***************************************************************************)
Names == {"agent", "chat", "mode", "continuous"}

\* Once the requests of todo are made, a voice v is what state says of one
\* switch, and of all of them.
Settled(v, todo, state, s) ==
  \/ v[s] = state[s] /\ \A i \in 1..Len(todo) : todo[i].switch # s
  \/ \E i \in 1..Len(todo) :
       /\ todo[i].switch = s /\ todo[i].value = state[s]
       /\ \A j \in 1..Len(todo) : j > i => todo[j].switch # s
Settles(v, todo, state) == \A s \in Names : Settled(v, todo, state, s)

LEMMA SwitchType ==
  ASSUME NEW v \in Voice, NEW r \in Requests
  PROVE  /\ [v EXCEPT ![r.switch] = r.value] \in Voice
         /\ \A s \in Names : [v EXCEPT ![r.switch] = r.value][s] = IF s = r.switch THEN r.value ELSE v[s]
  <1>1. CASE r.switch = "agent"
    BY <1>1 DEF Voice, Requests, Names
  <1>2. CASE r.switch = "chat"
    BY <1>2 DEF Voice, Requests, Names
  <1>3. CASE r.switch = "mode"
    BY <1>3 DEF Voice, Requests, Names
  <1>4. CASE r.switch = "continuous"
    BY <1>4 DEF Voice, Requests, Names
  <1>5. QED
    BY <1>1, <1>2, <1>3, <1>4 DEF Requests

\* The requests of apply_voice_state settle the switches from anywhere.
LEMMA ApplySettles ==
  ASSUME NEW v \in Voice, NEW state \in Voice
  PROVE  Apply(state) \in Seq(Requests) /\ Settles(v, Apply(state), state)
  <1> DEFINE r1 == Request("agent", FALSE)
             r2 == Request("continuous", state.continuous)
             r3 == Request("mode", state.mode)
             r4 == Request("chat", state.chat)
             r5 == Request("agent", TRUE)
  <1>1. r1 \in Requests /\ r2 \in Requests /\ r3 \in Requests /\ r4 \in Requests /\ r5 \in Requests
    BY DEF Request, Requests, Voice
  <1>2. /\ r1.switch = "agent" /\ r2.switch = "continuous" /\ r2.value = state["continuous"]
        /\ r3.switch = "mode" /\ r3.value = state["mode"] /\ r4.switch = "chat" /\ r4.value = state["chat"]
        /\ r5.switch = "agent"
    BY DEF Request, Voice
  <1>3. /\ state.agent => r5.value = state["agent"]
        /\ ~state.agent => r1.value = state["agent"]
    BY DEF Voice, Request
  <1> DEFINE todo == Apply(state)
             last == IF state.agent THEN << r5 >> ELSE << >>
  <1>4. /\ todo \in Seq(Requests) /\ Len(todo) = IF state.agent THEN 5 ELSE 4
        /\ todo[1] = r1 /\ todo[2] = r2 /\ todo[3] = r3 /\ todo[4] = r4
        /\ state.agent => todo[5] = r5
    <2>1. Apply(state) = (<< r1 >> \o << r2, r3, r4 >>) \o last
      BY DEF Apply, AgentOff, Switches
    <2> HIDE DEF r1, r2, r3, r4, r5
    <2>2. << r1 >> \in Seq(Requests) /\ << r2, r3, r4 >> \in Seq(Requests) /\ last \in Seq(Requests)
      BY <1>1
    <2>3. CASE state.agent
      BY <1>1, <2>1, <2>2, <2>3
    <2>4. CASE ~state.agent
      BY <1>1, <2>1, <2>2, <2>4
    <2>5. QED
      BY <2>3, <2>4
  <1> HIDE DEF r1, r2, r3, r4, r5, todo
  <1>5. Settled(v, todo, state, "agent")
    <2>1. CASE state.agent
      <3>1. /\ 5 \in 1..Len(todo) /\ todo[5].switch = "agent" /\ todo[5].value = state["agent"]
            /\ \A j \in 1..Len(todo) : ~(j > 5)
        BY <1>2, <1>3, <1>4, <2>1
      <3>2. QED
        BY <3>1 DEF Settled
    <2>2. CASE ~state.agent
      <3>1. 1 \in 1..Len(todo) /\ todo[1].switch = "agent" /\ todo[1].value = state["agent"]
        BY <1>2, <1>3, <1>4, <2>2
      <3>2. \A j \in 1..Len(todo) : j > 1 => todo[j].switch # "agent"
        BY <1>2, <1>4, <2>2
      <3>3. QED
        BY <3>1, <3>2 DEF Settled
    <2>3. QED
      BY <2>1, <2>2
  <1>6. Settled(v, todo, state, "continuous")
    BY <1>2, <1>4 DEF Settled
  <1>7. Settled(v, todo, state, "mode")
    BY <1>2, <1>4 DEF Settled
  <1>8. Settled(v, todo, state, "chat")
    BY <1>2, <1>4 DEF Settled
  <1>9. QED
    BY <1>4, <1>5, <1>6, <1>7, <1>8 DEF Settles, Names, todo

LEMMA OneSettled ==
  ASSUME NEW v \in Voice, NEW state \in Voice, NEW todo \in Seq(Requests), todo # << >>,
         Settles(v, todo, state)
  PROVE  Settles([v EXCEPT ![Head(todo).switch] = Head(todo).value], Tail(todo), state)
  <1> DEFINE w == [v EXCEPT ![Head(todo).switch] = Head(todo).value]
             rest == Tail(todo)
  <1>1. Head(todo) = todo[1] /\ todo[1] \in Requests
    OBVIOUS
  <1>2. \A s \in Names : w[s] = IF s = todo[1].switch THEN todo[1].value ELSE v[s]
    <2>1. Head(todo) \in Requests
      BY <1>1
    <2>2. \A s \in Names : w[s] = IF s = Head(todo).switch THEN Head(todo).value ELSE v[s]
      BY <2>1, SwitchType
    <2> HIDE DEF w
    <2>3. QED
      BY <1>1, <2>2
  <1>3. /\ Len(todo) \in Nat \ {0} /\ Len(rest) = Len(todo) - 1
        /\ \A i \in 1..(Len(todo) - 1) : rest[i] = todo[i + 1]
    OBVIOUS
  <1> HIDE DEF w, rest
  <1>4. ASSUME NEW s \in Names PROVE Settled(w, rest, state, s)
    <2>1. CASE v[s] = state[s] /\ \A i \in 1..Len(todo) : todo[i].switch # s
      BY <1>2, <1>3, <2>1 DEF Settled
    <2>2. ASSUME NEW i \in 1..Len(todo), todo[i].switch = s, todo[i].value = state[s],
                 \A j \in 1..Len(todo) : j > i => todo[j].switch # s
          PROVE  Settled(w, rest, state, s)
      <3>1. CASE i = 1
        <4>1. w[s] = state[s]
          BY <1>2, <2>2, <3>1
        <4>2. \A j \in 1..Len(rest) : rest[j].switch # s
          BY <1>3, <2>2, <3>1
        <4>3. QED
          BY <4>1, <4>2 DEF Settled
      <3>2. CASE i > 1
        <4>1. i - 1 \in 1..Len(rest) /\ rest[i - 1] = todo[i]
          BY <1>3, <3>2
        <4>2. \A j \in 1..Len(rest) : j > i - 1 => rest[j].switch # s
          BY <1>3, <2>2
        <4>3. QED
          BY <2>2, <4>1, <4>2 DEF Settled
      <3>3. QED
        BY <3>1, <3>2
    <2>3. QED
      BY <2>1, <2>2 DEF Settles, Settled
  <1>5. QED
    BY <1>4 DEF Settles, w, rest

LEMMA AllSettled ==
  ASSUME NEW v \in Voice, NEW state \in Voice, Settles(v, << >>, state)
  PROVE  v = state
  <1>1. \A s \in Names : v[s] = state[s]
    BY DEF Settles, Settled
  <1>2. v.agent = state.agent /\ v.chat = state.chat /\ v.mode = state.mode /\ v.continuous = state.continuous
    BY <1>1 DEF Names, Voice
  <1>3. QED
    BY <1>2 DEF Voice

(* What is true between any two steps.                                     *)
WithRunner == {"install", "postflight", "remove"}
Doing(kinds) == op # None /\ op.kind \in kinds

VoiceType == /\ voice \in Voice /\ saved \in Voice \cup {None} /\ original \in Voice \cup {None}
             /\ op \in Op \cup {None}
Keeps == Doing({"enable", "undo", "restore"}) => saved = op.state
NothingLeft ==
  (op = None \/ op.kind \in WithRunner) /\ honest /\ saved = None /\ original # None => voice = original
SavedUnknown == Doing(Disables) /\ saved = None => original = None
Undoes == Doing({"undo"}) /\ honest => Settles(voice, op.todo, op.state)
Still == Doing(WithRunner) => voice = Off /\ op.todo = << >> /\ (op.kind = "remove" => saved = None)

VoiceInv == VoiceType /\ Keeps /\ SavedIsOriginal /\ NothingLeft /\ SavedUnknown /\ Undoes /\ Still

LEMMA OpType ==
  ASSUME NEW kind \in Kinds, NEW state \in Voice, NEW todo \in Seq(Requests), NEW managed \in BOOLEAN,
         Launch(kind, state, todo, managed)
  PROVE  /\ op' \in Op /\ op' # None
         /\ op'.kind = kind /\ op'.state = state /\ op'.todo = todo /\ op'.managed = managed
  <1>1. op' = [kind |-> kind, state |-> state, todo |-> todo, managed |-> managed]
    BY DEF Launch
  <1>2. op' \in Op
    BY <1>1 DEF Op
  <1>3. QED
    BY <1>1, <1>2, VoiceAssumption

LEMMA Constants ==
  /\ Off \in Voice /\ Active \in Voice /\ None \notin Voice /\ << >> \in Seq(Requests)
  /\ TRUE \in BOOLEAN /\ FALSE \in BOOLEAN
  /\ {"disable", "disable_any", "rollback", "enable", "undo", "restore", "install", "postflight", "remove"}
       \subseteq Kinds
  BY VoiceAssumption DEF Off, Active, Voice, Kinds, Disables

(* What a command that fails leaves: nothing, or the undo of an activation. *)
LEMMA FailInv ==
  ASSUME VoiceInv, op # None, Fail, voice' \in Voice, voice' # voice => op.kind \notin WithRunner,
         UNCHANGED << original, honest >>
  PROVE  VoiceInv'
  <1>1. op \in Op /\ op.state \in Voice /\ op.kind \in Kinds /\ saved' = saved
    BY DEF VoiceInv, VoiceType, Op, Fail
  <1>2. CASE op.kind = "enable"
    <2>1. Apply(op.state) \in Seq(Requests) /\ Settles(voice', Apply(op.state), op.state)
      BY <1>1, ApplySettles
    <2>2. Launch("undo", op.state, Apply(op.state), FALSE)
      BY <1>2 DEF Fail
    <2>3. op' \in Op /\ op' # None /\ op'.kind = "undo" /\ op'.state = op.state /\ op'.todo = Apply(op.state)
      BY <1>1, <2>1, <2>2, Constants, OpType
    <2>4. saved = op.state
      BY <1>2 DEF VoiceInv, Keeps, Doing
    <2>5. QED
      BY <1>1, <2>1, <2>3, <2>4, Constants
         DEF VoiceInv, VoiceType, Keeps, SavedIsOriginal, NothingLeft, SavedUnknown, Undoes, Still, Doing,
             WithRunner, Disables
  <1>3. CASE op.kind # "enable"
    <2>1. op' = None
      BY <1>3 DEF Fail, Finish
    <2>2. CASE op.kind \in WithRunner
      BY <1>1, <2>1, <2>2
         DEF VoiceInv, VoiceType, Keeps, SavedIsOriginal, NothingLeft, SavedUnknown, Undoes, Still, Doing
    <2>3. CASE op.kind \in {"undo", "restore"}
      <3>1. saved # None
        BY <1>1, <2>3, Constants DEF VoiceInv, Keeps, Doing
      <3>2. QED
        BY <1>1, <2>1, <3>1
           DEF VoiceInv, VoiceType, Keeps, SavedIsOriginal, NothingLeft, SavedUnknown, Undoes, Still, Doing
    <2>4. CASE op.kind \in Disables
      <3>1. saved = None => original = None
        BY <2>4 DEF VoiceInv, SavedUnknown, Doing
      <3>2. QED
        BY <1>1, <2>1, <3>1
           DEF VoiceInv, VoiceType, Keeps, SavedIsOriginal, NothingLeft, SavedUnknown, Undoes, Still, Doing
    <2>5. QED
      BY <1>1, <1>3, <2>2, <2>3, <2>4 DEF Kinds, WithRunner
  <1>4. QED
    BY <1>2, <1>3

LEMMA WorldInv ==
  ASSUME VoiceInv, World
  PROVE  VoiceInv'
  <1>1. ASSUME NEW state \in Voice, User(state) PROVE VoiceInv'
    BY <1>1 DEF User, VoiceInv, VoiceType, Keeps, SavedIsOriginal, NothingLeft, SavedUnknown, Undoes, Still, Doing
  <1>2. ASSUME NEW conditions, Surroundings(conditions) PROVE VoiceInv'
    BY <1>2 DEF Surroundings, VoiceInv, VoiceType, Keeps, SavedIsOriginal, NothingLeft, SavedUnknown,
                Undoes, Still, Doing
  <1>3. QED
    BY <1>1, <1>2 DEF World

(* A command is begun, or refused.                                         *)
LEMMA BeginInv ==
  ASSUME VoiceInv, Begin
  PROVE  VoiceInv'
  <1>1. op = None /\ UNCHANGED << voice, honest >> /\ voice \in Voice
    BY DEF Begin, EnableBegin, RestoreBegin, InstallBegin, Refused, DisableBegin, VoiceInv, VoiceType
  <1>2. CASE UNCHANGED << saved, op, original >>
    BY <1>1, <1>2 DEF VoiceInv, VoiceType, Keeps, SavedIsOriginal, NothingLeft, SavedUnknown, Undoes, Still, Doing
  <1>3. ASSUME NEW managed \in BOOLEAN, saved = None, saved' = voice,
               Launch("enable", voice, Apply(Active), managed),
               original' = IF original = None THEN voice ELSE original
        PROVE  VoiceInv'
    <2>1. Apply(Active) \in Seq(Requests)
      BY Constants, ApplySettles
    <2>2. op' \in Op /\ op' # None /\ op'.kind = "enable" /\ op'.state = voice
      BY <1>1, <1>3, <2>1, Constants, OpType
    <2>3. honest => original' = voice
      BY <1>1, <1>3 DEF VoiceInv, NothingLeft
    <2>4. QED
      BY <1>1, <1>3, <2>2, <2>3, Constants
         DEF VoiceInv, VoiceType, Keeps, SavedIsOriginal, NothingLeft, SavedUnknown, Undoes, Still, Doing,
             WithRunner, Disables
  <1>4. ASSUME NEW kind \in Disables, Launch(kind, voice, Apply(Off), FALSE),
               original' = IF saved = None THEN None ELSE original, saved' = saved
        PROVE  VoiceInv'
    <2>1. Apply(Off) \in Seq(Requests) /\ kind \in Kinds
      BY Constants, ApplySettles DEF Kinds
    <2>2. op' \in Op /\ op' # None /\ op'.kind = kind
      BY <1>1, <1>4, <2>1, Constants, OpType
    <2>3. QED
      BY <1>1, <1>4, <2>2
         DEF VoiceInv, VoiceType, Keeps, SavedIsOriginal, NothingLeft, SavedUnknown, Undoes, Still, Doing,
             WithRunner, Disables
  <1>5. ASSUME NEW todo \in Seq(Requests), saved # None, Launch("restore", saved, todo, FALSE),
               UNCHANGED << saved, original >>
        PROVE  VoiceInv'
    <2>1. saved \in Voice
      BY <1>5 DEF VoiceInv, VoiceType
    <2>2. op' \in Op /\ op' # None /\ op'.kind = "restore" /\ op'.state = saved
      BY <1>5, <2>1, Constants, OpType
    <2>3. QED
      BY <1>1, <1>5, <2>2
         DEF VoiceInv, VoiceType, Keeps, SavedIsOriginal, NothingLeft, SavedUnknown, Undoes, Still, Doing,
             WithRunner, Disables
  <1>6. ASSUME voice = Off, Launch("install", voice, << >>, TRUE), UNCHANGED << saved, original >>
        PROVE  VoiceInv'
    <2>1. op' \in Op /\ op' # None /\ op'.kind = "install" /\ op'.todo = << >>
      BY <1>1, <1>6, Constants, OpType
    <2>2. QED
      BY <1>1, <1>6, <2>1
         DEF VoiceInv, VoiceType, Keeps, SavedIsOriginal, NothingLeft, SavedUnknown, Undoes, Still, Doing,
             WithRunner, Disables
  <1>7. ASSUME NEW managed \in BOOLEAN, EnableBegin(managed) PROVE VoiceInv'
    BY <1>2, <1>3, <1>7 DEF EnableBegin
  <1>8. CASE RestoreBegin
    <2>1. saved # None => saved \in Voice
      BY DEF VoiceInv, VoiceType
    <2>2. QED
      BY <1>5, <1>8, <2>1, Constants, ApplySettles DEF RestoreBegin
  <1>9. CASE InstallBegin
    BY <1>2, <1>6, <1>9 DEF InstallBegin, MayInstall
  <1>10. CASE Refused
    BY <1>2, <1>10 DEF Refused
  <1>11. ASSUME NEW kind \in Disables, DisableBegin(kind) PROVE VoiceInv'
    BY <1>4, <1>11 DEF DisableBegin
  <1>12. QED
    BY <1>7, <1>8, <1>9, <1>10, <1>11 DEF Begin

(* One request is made, with its effect on the voice or without.           *)
LEMMA RequestType ==
  ASSUME VoiceInv, op # None, op.todo # << >>
  PROVE  /\ op \in Op /\ op.todo \in Seq(Requests) /\ Head(op.todo) \in Requests
         /\ [voice EXCEPT ![Head(op.todo).switch] = Head(op.todo).value] \in Voice
         /\ [op EXCEPT !.todo = Tail(@)] \in Op
         /\ op.kind \notin WithRunner
  <1>1. op \in Op /\ op.todo \in Seq(Requests)
    BY DEF VoiceInv, VoiceType, Op
  <1>2. Head(op.todo) \in Requests /\ Tail(op.todo) \in Seq(Requests)
    BY <1>1
  <1>3. op.kind \notin WithRunner
    BY DEF VoiceInv, Still, Doing
  <1>4. [op EXCEPT !.todo = Tail(@)] \in Op
    BY <1>1, <1>2 DEF Op
  <1>5. QED
    BY <1>1, <1>2, <1>3, <1>4, SwitchType DEF VoiceInv, VoiceType

LEMMA SwitchInv ==
  ASSUME VoiceInv, Switch
  PROVE  VoiceInv'
  <1>1. op # None /\ op.todo # << >>
    BY DEF Switch
  <1>2. /\ voice' = [voice EXCEPT ![Head(op.todo).switch] = Head(op.todo).value]
        /\ op' = [op EXCEPT !.todo = Tail(@)]
        /\ UNCHANGED << saved, original, honest >>
    BY DEF Switch, Effect
  <1>3. /\ op \in Op /\ op.todo \in Seq(Requests) /\ op.state \in Voice
        /\ voice' \in Voice /\ op' \in Op /\ op.kind \notin WithRunner
        /\ op'.kind = op.kind /\ op'.state = op.state /\ op'.todo = Tail(op.todo)
    BY <1>1, <1>2, RequestType DEF Op
  <1>4. Undoes'
    <2> SUFFICES ASSUME op.kind = "undo", honest PROVE Settles(voice', Tail(op.todo), op.state)
      BY <1>2, <1>3 DEF Undoes, Doing
    <2>1. Settles(voice, op.todo, op.state)
      BY <1>1 DEF VoiceInv, Undoes, Doing
    <2>2. QED
      BY <1>1, <1>2, <1>3, <2>1, OneSettled DEF VoiceInv, VoiceType
  <1>5. QED
    BY <1>1, <1>2, <1>3, <1>4, VoiceAssumption
       DEF VoiceInv, VoiceType, Keeps, SavedIsOriginal, NothingLeft, SavedUnknown, Still, Doing

LEMMA AnswerInv ==
  ASSUME VoiceInv, RunnerAnswers
  PROVE  VoiceInv'
  <1>1. op # None /\ op \in Op /\ UNCHANGED << voice, saved, original, honest >>
    BY DEF RunnerAnswers, VoiceInv, VoiceType
  <1>2. CASE op.kind = "install" /\ op' = [op EXCEPT !.kind = "postflight"]
    <2>1. /\ op' \in Op /\ op' # None /\ op'.kind = "postflight"
          /\ op'.todo = op.todo /\ op'.state = op.state
      BY <1>1, <1>2, Constants, VoiceAssumption DEF Op
    <2>2. QED
      BY <1>1, <1>2, <2>1
         DEF VoiceInv, VoiceType, Keeps, SavedIsOriginal, NothingLeft, SavedUnknown, Undoes, Still, Doing,
             WithRunner, Disables
  <1>3. CASE op.kind = "remove" /\ op' = None
    BY <1>1, <1>3
       DEF VoiceInv, VoiceType, Keeps, SavedIsOriginal, NothingLeft, SavedUnknown, Undoes, Still, Doing, WithRunner
  <1>4. QED
    BY <1>2, <1>3 DEF RunnerAnswers, Finish

LEMMA VerifyInv ==
  ASSUME VoiceInv, Verify
  PROVE  VoiceInv'
  <1>1. /\ op # None /\ op \in Op /\ op.todo = << >> /\ op.state \in Voice
        /\ voice \in Voice /\ UNCHANGED << voice, honest >>
    BY DEF Verify, VoiceInv, VoiceType, Op
  <1>2. ASSUME Fail, UNCHANGED original PROVE VoiceInv'
    BY <1>1, <1>2, FailInv
  <1>3. CASE op.kind = "enable" /\ op' = None /\ UNCHANGED << saved, original >>
    <2>1. saved # None
      BY <1>1, <1>3, Constants DEF VoiceInv, Keeps, Doing
    <2>2. QED
      BY <1>1, <1>3, <2>1
         DEF VoiceInv, VoiceType, Keeps, SavedIsOriginal, NothingLeft, SavedUnknown, Undoes, Still, Doing
  <1>4. CASE op.kind = "undo" /\ op' = None /\ saved' = None /\ UNCHANGED original
    <2>1. saved = op.state
      BY <1>1, <1>4 DEF VoiceInv, Keeps, Doing
    <2>2. ASSUME honest PROVE voice = op.state
      BY <1>1, <1>4, <2>2, AllSettled DEF VoiceInv, Undoes, Doing
    <2>3. honest => saved = original
      BY <1>1, <2>1, Constants DEF VoiceInv, SavedIsOriginal
    <2>4. QED
      BY <1>1, <1>4, <2>1, <2>2, <2>3
         DEF VoiceInv, VoiceType, Keeps, SavedIsOriginal, NothingLeft, SavedUnknown, Undoes, Still, Doing
  <1>5. CASE op.kind = "restore" /\ voice = op.state /\ op' = None /\ saved' = None /\ UNCHANGED original
    <2>1. saved = op.state /\ (honest => saved = original)
      BY <1>1, <1>5, Constants DEF VoiceInv, Keeps, Doing, SavedIsOriginal
    <2>2. QED
      BY <1>1, <1>5, <2>1
         DEF VoiceInv, VoiceType, Keeps, SavedIsOriginal, NothingLeft, SavedUnknown, Undoes, Still, Doing
  <1>6. CASE /\ op.kind \in Disables /\ voice = Off
             /\ saved' = IF op.kind = "disable_any" THEN saved ELSE None
             /\ original' = IF saved' = None THEN Off ELSE original
             /\ \/ op.kind = "rollback" /\ op' = [op EXCEPT !.kind = "remove"]
                \/ op.kind # "rollback" /\ op' = None
    <2>1. original' \in Voice \cup {None} /\ saved' \in Voice \cup {None}
      BY <1>6, Constants DEF VoiceInv, VoiceType
    <2>2. SavedIsOriginal' /\ (saved' = None => original' = voice)
      BY <1>1, <1>6 DEF VoiceInv, SavedIsOriginal
    <2>3. CASE op' = None
      BY <1>1, <2>1, <2>2, <2>3
         DEF VoiceInv, VoiceType, Keeps, NothingLeft, SavedUnknown, Undoes, Still, Doing
    <2>4. CASE op.kind = "rollback" /\ op' = [op EXCEPT !.kind = "remove"]
      <3>1. op' \in Op /\ op' # None /\ op'.kind = "remove" /\ op'.todo = << >>
        BY <1>1, <2>4, Constants, VoiceAssumption DEF Op
      <3>2. saved' = None
        BY <1>6, <2>4
      <3>3. QED
        BY <1>1, <1>6, <2>1, <2>2, <3>1, <3>2
           DEF VoiceInv, VoiceType, Keeps, NothingLeft, SavedUnknown, Undoes, Still, Doing, WithRunner, Disables
    <2>5. QED
      BY <1>6, <2>3, <2>4
  <1>7. CASE op.kind = "postflight" /\ op' = None /\ UNCHANGED << saved, original >>
    BY <1>1, <1>7
       DEF VoiceInv, VoiceType, Keeps, SavedIsOriginal, NothingLeft, SavedUnknown, Undoes, Still, Doing, WithRunner
  <1>8. CASE op.kind \in Disables
    <2>1. op.kind \notin {"enable", "undo", "restore", "postflight"}
      BY <1>8 DEF Disables
    <2>2. QED
      BY <1>2, <1>6, <1>8, <2>1 DEF Verify, Finish
  <1>9. CASE op.kind \notin Disables
    BY <1>2, <1>3, <1>4, <1>5, <1>7, <1>9 DEF Verify, Finish
  <1>10. QED
    BY <1>8, <1>9

LEMMA TroubleInv ==
  ASSUME VoiceInv, Trouble
  PROVE  VoiceInv'
  <1>1. CASE SwitchWithoutEffect
    <2>1. /\ op # None /\ op' = [op EXCEPT !.todo = Tail(@)] /\ ~honest'
          /\ UNCHANGED << voice, saved, original >>
      BY <1>1 DEF SwitchWithoutEffect
    <2>2. /\ op \in Op /\ op' \in Op /\ op.kind \notin WithRunner
          /\ op'.kind = op.kind /\ op'.state = op.state
      BY <1>1, <2>1, RequestType DEF SwitchWithoutEffect, Op
    <2>3. QED
      BY <2>1, <2>2, VoiceAssumption
         DEF VoiceInv, VoiceType, Keeps, SavedIsOriginal, NothingLeft, SavedUnknown, Undoes, Still, Doing
  <1>2. CASE SwitchFails
    <2>1. op # None /\ op.todo # << >> /\ Fail /\ UNCHANGED << original, honest >>
      BY <1>2 DEF SwitchFails
    <2>2. voice' \in Voice /\ op.kind \notin WithRunner
      BY <1>2, <2>1, RequestType DEF SwitchFails, Effect, VoiceInv, VoiceType
    <2>3. QED
      BY <2>1, <2>2, FailInv
  <1>3. CASE RunnerFails \/ VerifyFails
    <2>1. op # None /\ Fail /\ UNCHANGED << voice, original, honest >>
      BY <1>3 DEF RunnerFails, VerifyFails
    <2>2. QED
      BY <2>1, FailInv DEF VoiceInv, VoiceType
  <1>4. CASE Die
    <2>1. op # None /\ op' = None /\ UNCHANGED << voice, saved, original, honest >>
      BY <1>4 DEF Die, Finish
    <2>2. op.kind \in Kinds /\ op.state # None
      BY <2>1, Constants DEF VoiceInv, VoiceType, Op
    <2>3. op.kind \in {"enable", "undo", "restore"} => saved # None
      BY <2>1, <2>2 DEF VoiceInv, Keeps, Doing
    <2>4. op.kind \in Disables /\ saved = None => original = None
      BY <2>1 DEF VoiceInv, SavedUnknown, Doing
    <2>5. NothingLeft'
      BY <2>1, <2>2, <2>3, <2>4 DEF VoiceInv, NothingLeft, Kinds, WithRunner
    <2>6. QED
      BY <2>1, <2>5 DEF VoiceInv, VoiceType, Keeps, SavedIsOriginal, SavedUnknown, Undoes, Still, Doing
  <1>5. QED
    BY <1>1, <1>2, <1>3, <1>4 DEF Trouble

LEMMA Invariance == VoiceSpec => []VoiceInv
  <1>1. VoiceInit => VoiceInv
    BY DEF VoiceInit, VoiceInv, VoiceType, Keeps, SavedIsOriginal, NothingLeft, SavedUnknown, Undoes, Still, Doing
  <1>2. VoiceInv /\ [VoiceNext]_voiceVars => VoiceInv'
    <2>1. VoiceInv /\ VoiceNext => VoiceInv'
      BY WorldInv, BeginInv, SwitchInv, AnswerInv, VerifyInv, TroubleInv DEF VoiceNext, Work
    <2>2. VoiceInv /\ UNCHANGED voiceVars => VoiceInv'
      BY DEF voiceVars, VoiceInv, VoiceType, Keeps, SavedIsOriginal, NothingLeft, SavedUnknown, Undoes, Still, Doing
    <2>3. QED
      BY <2>1, <2>2
  <1>3. QED
    BY <1>1, <1>2, PTL DEF VoiceSpec

(* The saved file is the voice from before the first activation, whatever  *)
(* failed, was repeated or was cut off since, unless a service lied.       *)
THEOREM SavedStaysOriginal == VoiceSpec => []SavedIsOriginal
  <1>1. VoiceInv => SavedIsOriginal
    BY DEF VoiceInv
  <1>2. QED
    BY <1>1, Invariance, PTL

(* Between commands and without a saved file the voice is what it was or   *)
(* what was asked for last: no failure leaves it half switched unrecorded. *)
THEOREM NothingIsForgotten == VoiceSpec => []NothingLeftBehind
  <1>1. VoiceInv => NothingLeftBehind
    BY DEF VoiceInv, NothingLeft, NothingLeftBehind
  <1>2. QED
    BY <1>1, Invariance, PTL

(* What a step reports is so.                                              *)
TrueReport ==
  /\ outcome' \in {"ready", "already_ready"} => voice' = Active /\ unmet' \subseteq {"release"}
  /\ outcome' = "disabled" => voice' = Off
  /\ outcome' = "restored" => voice' = saved
  /\ outcome' = "installed" => voice' = Off /\ "release" \notin unmet'
  /\ outcome' = "rolled_back" => voice' = Off /\ saved' = None

\* Most steps report nothing or an error.
LEMMA Silent ==
  ASSUME outcome' = outcome \/ outcome' \in {"none", "error"}
  PROVE  outcome' # outcome => TrueReport
  BY DEF TrueReport

LEMMA StepIsTrue ==
  ASSUME VoiceInv, VoiceNext
  PROVE  outcome' # outcome => TrueReport
  <1>1. CASE World
    BY <1>1, Silent DEF World, User, Surroundings
  <1>2. CASE Trouble
    BY <1>2, Silent DEF Trouble, SwitchWithoutEffect, SwitchFails, RunnerFails, VerifyFails, Die,
                        Fail, Launch, Finish
  <1>3. ASSUME NEW managed \in BOOLEAN, EnableBegin(managed)
        PROVE  outcome' # outcome => TrueReport
    <2>1. CASE MayActivate(managed) /\ voice = Active /\ outcome' = "already_ready"
      BY <1>3, <2>1 DEF EnableBegin, MayActivate, TrueReport
    <2>2. QED
      BY <1>3, <2>1, Silent DEF EnableBegin, Launch
  <1>4. CASE RestoreBegin \/ InstallBegin \/ Refused \/ \E kind \in Disables : DisableBegin(kind)
    BY <1>4, Silent DEF RestoreBegin, InstallBegin, Refused, DisableBegin, Launch
  <1>5. CASE Switch
    BY <1>5, Silent DEF Switch
  <1>6. CASE RunnerAnswers
    <2>1. op.kind \in WithRunner => voice' = Off /\ (op.kind = "remove" => saved' = None)
      BY <1>6 DEF RunnerAnswers, VoiceInv, Still, Doing
    <2>2. QED
      BY <1>6, <2>1, Silent DEF RunnerAnswers, Finish, WithRunner, TrueReport
  <1>7. CASE Verify
    <2>1. CASE outcome' = "ready"
      BY <1>7, <2>1 DEF Verify, Fail, Launch, Finish, MayActivate, TrueReport, Disables
    <2>2. CASE outcome' = "disabled"
      BY <1>7, <2>2 DEF Verify, Fail, Launch, Finish, TrueReport
    <2>3. CASE outcome' = "restored" /\ outcome' # outcome
      <3>1. op # None /\ op.kind = "restore" /\ voice' = op.state
        BY <1>7, <2>3 DEF Verify, Fail, Launch, Finish
      <3>2. saved = op.state
        BY <3>1 DEF VoiceInv, Keeps, Doing
      <3>3. QED
        BY <2>3, <3>1, <3>2 DEF TrueReport
    <2>4. CASE outcome' = "installed" /\ outcome' # outcome
      <3>1. op # None /\ op.kind = "postflight" /\ "release" \notin unmet' /\ voice' = voice
        BY <1>7, <2>4 DEF Verify, Fail, Launch, Finish
      <3>2. voice = Off
        BY <3>1 DEF VoiceInv, Still, Doing, WithRunner
      <3>3. QED
        BY <2>4, <3>1, <3>2 DEF TrueReport
    <2>5. \/ outcome' = outcome
          \/ outcome' \in {"none", "error", "ready", "disabled", "restored", "installed"}
      BY <1>7 DEF Verify, Fail, Launch, Finish
    <2>6. QED
      BY <2>1, <2>2, <2>3, <2>4, <2>5, Silent
  <1>8. QED
    BY <1>1, <1>2, <1>3, <1>4, <1>5, <1>6, <1>7 DEF VoiceNext, Begin, Work

(* What a command reports is what the robot shows, even when the services  *)
(* acknowledge what they did not do: every success is read back.           *)
THEOREM ReportsHold == VoiceSpec => ReportsAreTrue
  <1>1. VoiceInv /\ [VoiceNext]_voiceVars => [outcome' # outcome => TrueReport]_voiceVars
    BY StepIsTrue
  <1>2. QED
    BY <1>1, Invariance, PTL DEF VoiceSpec, ReportsAreTrue, TrueReport

-----------------------------------------------------------------------------
(***************************************************************************)
(* The live stage console, StageLive, for every routine, any number of     *)
(* runs and of stops.                                                      *)
(***************************************************************************)
Begun(r) == Alive(r) /\ pc[r] # "born"

\* One worker at a time is at work.
Single == \A r \in Runs : Alive(r) => worker = r

\* A run whose routine has not begun has left no trace.
Untouched == \A r \in Runs : pc[r] \in {"unborn", "born"} =>
  /\ ~marks[r].stopped /\ ~marks[r].expired /\ marks[r].sinceStop = 0 /\ marks[r].sinceExpiry = 0
  /\ \A output \in Outputs : lit[output] # r

\* From begin_routine to the end of the thread the flag says whether x was
\* pressed for this run, and the deadline whether its time ran out, until an x.
FlagIsTrue == \A r \in Runs : Begun(r) => (cancel <=> marks[r].stopped)
LimitIsTrue == \A r \in Runs : Begun(r) /\ marks[r].expired /\ ~marks[r].pressed => deadline = "past"
Pressed == \A r \in Runs : /\ marks[r].stopped => marks[r].pressed
                           /\ keys = "unlimit" /\ Alive(r) => marks[r].pressed

\* Where a worker is after its one late output.
LateStop == \A r \in Runs :
  \/ marks[r].sinceStop = 0
  \/ /\ marks[r].sinceStop = 1 /\ marks[r].stopped
     /\ pc[r] \in {"sent", "pauseFlag", "checkFlag", "ended", "gone"}
LateExpiry == \A r \in Runs :
  \/ marks[r].sinceExpiry = 0
  \/ /\ marks[r].sinceExpiry = 1 /\ marks[r].expired
     /\ \/ marks[r].pressed
        \/ pc[r] \in {"sent", "pauseFlag", "pauseDeadline", "checkFlag", "checkDeadline", "ended", "gone"}

\* What the stop has cleared when the keyboard loop is at k.
Cleared(k) == CASE k = "unlimit"        -> {}
                [] k = "light"          -> {"emotion"}
                [] k = "light, emotion" -> {}
                [] k = "say"            -> {"light", "emotion"}
                [] k = "say, emotion"   -> {"light"}
                [] k = "emotion"        -> {"light", "say"}
                [] k = "head"           -> {"light", "say", "emotion"}
                [] k = "read"           -> Outputs

\* A run of which the stop must clear everything.
Owed(r) == marks[r].stopped /\ ~marks[r].missed

\* It sends nothing more, and shows nothing of what was cleared so far.  The
\* stop will know of its emotion, also when another thread is about to begin.
Clearing == \A r \in Runs : Owed(r) =>
  /\ pc[r] \notin UnderWay
  /\ \A output \in Cleared(keys) : lit[output] # r
  /\ keys = "unlimit" /\ lit["emotion"] = r => emotion # Nothing
  /\ keys = "unlimit" /\ (\E q \in Runs : pc[q] = "born") => lit["emotion"] # r

\* The driver knows the emotion that the running routine shows or sends.
Emotional == \A r \in Runs :
  /\ Begun(r) /\ lit["emotion"] = r => emotion # Nothing
  /\ pc[r] = "sent" /\ Routine[step[r]].action = "emotion" => emotion # Nothing

Sendable == \A r \in Runs : pc[r] \in {"send", "sent"} => Routine[step[r]].action \in Outputs

StageInv == /\ Single /\ Untouched /\ FlagIsTrue /\ LimitIsTrue /\ Pressed /\ LateStop /\ LateExpiry
            /\ Clearing /\ Emotional /\ Sendable
            /\ CancelledWasStopped

-----------------------------------------------------------------------------
LEMMA RoutineHasSteps == Len(Routine) \in Nat /\ Len(Routine) >= 1
  BY RoutineAssumption DEF RoutineAssumption

LEMMA StageStarts ==
  ASSUME StageInit
  PROVE  StageTypeOK /\ StageInv
  <1>1. 1 \in 1 .. Len(Routine) /\ 0 \in 0 .. MaxStops
    BY RoutineHasSteps, StageBoundsAssumption DEF StageBoundsAssumption
  <1>2. StageTypeOK
    BY <1>1 DEF StageInit, StageTypeOK, Labels, Clean
  <1>3. /\ \A r \in Runs : pc[r] = "unborn" /\ status[r] = Nothing /\ marks[r] = Clean
        /\ \A output \in Outputs : lit[output] = Nothing
        /\ keys = "read" /\ Nothing \notin Runs /\ Nothing # "cancelled"
    BY NothingAssumption DEF NothingAssumption, StageInit, Runs, Results
  <1>4. Single /\ Untouched /\ FlagIsTrue /\ LimitIsTrue /\ Pressed
    BY <1>3 DEF Single, Untouched, FlagIsTrue, LimitIsTrue, Pressed, Begun, Alive, Clean
  <1>5. LateStop /\ LateExpiry /\ Clearing
    BY <1>3 DEF LateStop, LateExpiry, Clearing, Owed, Clean
  <1>6. Emotional /\ Sendable /\ CancelledWasStopped
    BY <1>3 DEF Emotional, Sendable, CancelledWasStopped, Begun, Alive
  <1>7. QED
    BY <1>2, <1>4, <1>5, <1>6 DEF StageInv

\* The worker q moves, and the others stay where they are.
Only(q) ==
  /\ pc' \in [Runs -> Labels] /\ step' \in [Runs -> 1 .. Len(Routine)]
  /\ status' \in [Runs -> Results \cup {Nothing}]
  /\ \A r \in Runs \ {q} : pc'[r] = pc[r] /\ step'[r] = step[r] /\ status'[r] = status[r]

LEMMA EndMoves ==
  ASSUME StageTypeOK, NEW q \in Runs, NEW s \in Results, End(q, s)
  PROVE  Only(q) /\ pc'[q] = "ended" /\ status'[q] = s
  BY DEF End, Goto, StageTypeOK, Labels, Runs, Only

\* After a step of the routine, done or failed, comes the next or the end.
Onward(q) == /\ Only(q) /\ pc'[q] \in {"checkFlag", "ended"}
             /\ status'[q] \in {status[q], "completed", "failed"}

LEMMA AdvanceMoves ==
  ASSUME StageTypeOK, NEW q \in Runs, Advance(q) \/ Failed(q)
  PROVE  Onward(q)
  <1>1. Len(Routine) \in Nat /\ Len(Routine) >= 1 /\ step[q] \in 1 .. Len(Routine)
    BY RoutineHasSteps DEF StageTypeOK
  <1>2. ASSUME NEW s \in {"completed", "failed"}, End(q, s) PROVE Onward(q)
    BY <1>2, EndMoves DEF Results, Onward
  <1>3. CASE Advance(q)
    <2>1. CASE step[q] = Len(Routine)
      BY <1>2, <1>3, <2>1 DEF Advance
    <2>2. CASE step[q] # Len(Routine)
      <3>1. /\ step' = [step EXCEPT ![q] = step[q] + 1] /\ pc' = [pc EXCEPT ![q] = "checkFlag"]
            /\ status' = status
        BY <1>3, <2>2 DEF Advance, Goto
      <3>2. step[q] + 1 \in 1 .. Len(Routine)
        BY <1>1, <2>2
      <3>3. QED
        BY <3>1, <3>2 DEF StageTypeOK, Labels, Onward, Only
    <2>3. QED
      BY <2>1, <2>2
  <1>4. QED
    BY <1>2, <1>3 DEF Failed

\* The steps of a worker between begin_routine and its end, the calls to the
\* robot apart: the flag ends the routine where it is looked at, a passed
\* deadline the step.
Walks(q) ==
  /\ Begun(q) /\ Begun(q)' /\ pc[q] \notin {"sent", "ended"} /\ pc'[q] # "sent"
  /\ Only(q)
  /\ status'[q] = "cancelled" => status[q] = "cancelled" \/ cancel
  /\ pc[q] \in {"checkFlag", "pauseFlag"} /\ cancel => pc'[q] = "ended"
  /\ pc[q] = "checkFlag" => pc'[q] \in {"checkDeadline", "ended"}
  /\ pc[q] = "pauseFlag" => pc'[q] \in {"pauseDeadline", "ended"}
  /\ pc[q] \in {"checkDeadline", "pauseDeadline"} /\ deadline = "past" => pc'[q] \in {"checkFlag", "ended"}
  /\ pc'[q] \in UnderWay => pc[q] \in UnderWay \/ pc[q] = "checkFlag"
  /\ pc'[q] = "send" => Routine[step'[q]].action \in Outputs

Quiet == UNCHANGED << cancel, deadline, emotion, worker, keys, stops, lit, marks >>

Looks(q) == \/ Open(q) \/ CheckFlag(q) \/ CheckDeadline(q) \/ Execute(q)
            \/ Subtract(q) \/ Wait(q)

\* Where the worker is when it looks, and where a look that ends neither the
\* step nor the routine may lead.
Looking == {"open", "checkFlag", "checkDeadline", "act", "pauseFlag", "pauseDeadline", "subtract", "wait"}
Reaches(here, l) ==
  \/ here = "open" /\ l = "checkFlag"
  \/ here = "checkFlag" /\ l = "checkDeadline" /\ ~cancel
  \/ here = "pauseFlag" /\ l = "pauseDeadline" /\ ~cancel
  \/ here = "checkDeadline" /\ l = "act" /\ deadline # "past"
  \/ here = "pauseDeadline" /\ l = "subtract" /\ deadline # "past"
  \/ here = "act" /\ l \in {"pauseFlag", "send"}
  \/ here = "subtract" /\ l = "wait"

LEMMA LooksAreWalks ==
  ASSUME StageTypeOK, NEW q \in Runs, Looks(q)
  PROVE  Walks(q) /\ Quiet /\ safe' = safe
  <1>1. Quiet /\ safe' = safe
    BY DEF Looks, Open, CheckFlag, CheckDeadline, Execute, Subtract, Wait, driver, Quiet
  <1>2. SUFFICES Walks(q)
    BY <1>1
  <1>3. ASSUME NEW here \in Looking, NEW l \in Labels, pc[q] = here,
               pc' = [pc EXCEPT ![q] = l], step' = step, status' = status,
               Reaches(here, l), l = "send" => Routine[step[q]].action \in Outputs
        PROVE  Walks(q)
    <2>1. Only(q) /\ pc'[q] = l /\ status'[q] = status[q] /\ step'[q] = step[q]
      BY <1>3 DEF Only, StageTypeOK
    <2>2. QED
      BY <1>3, <2>1 DEF Walks, Begun, Alive, Reaches, Looking, UnderWay
  <1>4. ASSUME NEW here \in Looking, pc[q] = here, Onward(q), here \notin {"open", "checkFlag", "pauseFlag"}
        PROVE  Walks(q)
    BY <1>4 DEF Onward, Walks, Begun, Alive, Looking, UnderWay
  <1>5. ASSUME NEW here \in Looking, pc[q] = here, NEW s \in {"cancelled", "blocked"},
               status' = [status EXCEPT ![q] = s], pc' = [pc EXCEPT ![q] = "ended"], step' = step,
               s = "cancelled" => cancel
        PROVE  Walks(q)
    <2>1. Only(q) /\ pc'[q] = "ended" /\ status'[q] = s
      BY <1>5 DEF Results, Labels, Only, StageTypeOK
    <2>2. QED
      BY <1>5, <2>1 DEF Walks, Begun, Alive, Looking, UnderWay
  <1>6. CASE Open(q)
    <2>1. /\ pc[q] = "open" /\ step' = step
          /\ \/ status' = [status EXCEPT ![q] = "blocked"] /\ pc' = [pc EXCEPT ![q] = "ended"]
             \/ status' = status /\ pc' = [pc EXCEPT ![q] = "checkFlag"]
      BY <1>6 DEF Open, At, End, Goto
    <2>2. "open" \in Looking /\ "checkFlag" \in Labels /\ Reaches("open", "checkFlag")
      BY DEF Looking, Labels, Reaches
    <2>3. QED
      BY <1>3, <1>5, <2>1, <2>2
  <1>7. CASE CheckFlag(q)
    <2>1. PICK where \in {"check", "pause"} : 
            /\ pc[q] = FlagOf(where)
            /\ step' = step
            /\ cancel => status' = [status EXCEPT ![q] = "cancelled"] /\ pc' = [pc EXCEPT ![q] = "ended"]
            /\ ~cancel => status' = status /\ pc' = [pc EXCEPT ![q] = DeadlineOf(where)]
      BY <1>7 DEF CheckFlag, At, End, Goto
    <2>2. FlagOf(where) \in Looking /\ DeadlineOf(where) \in Labels
      BY DEF DeadlineOf, FlagOf, Labels, Looking
    <2>3. CASE cancel
      BY <1>5, <2>1, <2>2, <2>3 DEF Looking
    <2>4. CASE ~cancel
      <3>1. Reaches(FlagOf(where), DeadlineOf(where)) /\ DeadlineOf(where) # "send"
        BY <2>4 DEF Reaches, DeadlineOf, FlagOf
      <3>2. QED
        BY <1>3, <2>1, <2>2, <2>4, <3>1
    <2>5. QED
      BY <2>3, <2>4
  <1>8. CASE CheckDeadline(q)
    <2>1. PICK where \in {"check", "pause"} : 
            /\ pc[q] = DeadlineOf(where)
            /\ (InTime /\ Checked(q, where)) \/ Failed(q)
      BY <1>8 DEF CheckDeadline, At
    <2>2. DeadlineOf(where) \in Looking \ {"open", "checkFlag", "pauseFlag"}
      BY DEF DeadlineOf, Looking
    <2>3. CASE Failed(q)
      BY <1>4, <2>1, <2>2, <2>3, AdvanceMoves
    <2>4. CASE InTime /\ Checked(q, where)
      <3>1. deadline # "past"
        BY <2>4, NothingAssumption DEF InTime, NothingAssumption
      <3>2. PICK l \in {"act", "subtract"} : 
              /\ pc' = [pc EXCEPT ![q] = l] /\ step' = step /\ status' = status
              /\ l = "act" <=> where = "check"
        BY <2>4 DEF Checked, Goto
      <3>3. Reaches(DeadlineOf(where), l) /\ l \in Labels
        BY <3>1, <3>2 DEF Reaches, DeadlineOf, Labels
      <3>4. QED
        BY <1>3, <2>1, <2>2, <3>2, <3>3
    <2>5. QED
      BY <2>1, <2>3, <2>4
  <1>9. CASE Execute(q)
    <2>1. Routine[step[q]].action \in StepKinds
      <3>1. step[q] \in 1 .. Len(Routine)
        BY DEF StageTypeOK
      <3> DEFINE Entry == [action : StepKinds, onFailure : {"abort", "continue"}]
      <3>2. Routine \in Seq(Entry)
        BY RoutineAssumption DEF RoutineAssumption
      <3> HIDE DEF Entry
      <3>3. Routine[step[q]] \in Entry
        BY <3>1, <3>2
      <3>4. QED
        BY <3>3 DEF Entry
    <2>2. /\ pc[q] = "act"
          /\ \/ Advance(q) \/ Failed(q)
             \/ pc' = [pc EXCEPT ![q] = "pauseFlag"] /\ step' = step /\ status' = status
             \/ /\ pc' = [pc EXCEPT ![q] = "send"] /\ step' = step /\ status' = status
                /\ Routine[step[q]].action \notin {"native_dag", "wait"}
      BY <1>9 DEF Execute, At, Goto
    <2>3. "act" \in Looking /\ Reaches("act", "pauseFlag") /\ Reaches("act", "send")
      BY DEF Looking, Reaches
    <2>4. CASE Advance(q) \/ Failed(q)
      BY <1>4, <2>2, <2>3, <2>4, AdvanceMoves
    <2>5. CASE pc' = [pc EXCEPT ![q] = "pauseFlag"] /\ step' = step /\ status' = status
      BY <1>3, <2>2, <2>3, <2>5 DEF Labels
    <2>6. CASE /\ pc' = [pc EXCEPT ![q] = "send"] /\ step' = step /\ status' = status
               /\ Routine[step[q]].action \notin {"native_dag", "wait"}
      BY <1>3, <2>1, <2>2, <2>3, <2>6 DEF Labels, StepKinds
    <2>7. QED
      BY <2>2, <2>4, <2>5, <2>6
  <1>10. CASE Subtract(q)
    <2>1. /\ pc[q] = "subtract"
          /\ \/ Failed(q)
             \/ pc' = [pc EXCEPT ![q] = "wait"] /\ step' = step /\ status' = status
      BY <1>10 DEF Subtract, At, Goto
    <2>2. "subtract" \in Looking /\ Reaches("subtract", "wait") /\ "wait" \in Labels
      BY DEF Looking, Reaches, Labels
    <2>3. QED
      BY <1>3, <1>4, <2>1, <2>2, AdvanceMoves
  <1>11. CASE Wait(q)
    <2>1. /\ pc[q] = "wait"
          /\ \/ Advance(q) \/ Failed(q)
             \/ /\ cancel /\ step' = step
                /\ status' = [status EXCEPT ![q] = "cancelled"] /\ pc' = [pc EXCEPT ![q] = "ended"]
      BY <1>11 DEF Wait, At, End, Goto
    <2>2. "wait" \in Looking
      BY DEF Looking
    <2>3. QED
      BY <1>4, <1>5, <2>1, <2>2, AdvanceMoves
  <1>12. QED
    BY <1>1, <1>6, <1>7, <1>8, <1>9, <1>10, <1>11 DEF Looks

LEMMA WalkKeeps ==
  ASSUME StageTypeOK, StageInv, NEW q \in Runs, Walks(q), Quiet
  PROVE  StageInv'
  <1> USE DEF Quiet, Runs
  <1>1. /\ \A r \in Runs \ {q} : pc'[r] = pc[r] /\ step'[r] = step[r] /\ status'[r] = status[r]
        /\ \A r \in Runs : Begun(r)' <=> Begun(r)
        /\ \A r \in Runs : Alive(r)' <=> Alive(r)
        /\ Begun(q)
    BY DEF Walks, Only, Begun, Alive
  <1>2. Single'
    BY <1>1 DEF StageInv, Single
  <1>3. Untouched'
    BY <1>1 DEF StageInv, Untouched, Begun, Alive
  <1>4. FlagIsTrue' /\ LimitIsTrue' /\ Pressed'
    BY <1>1 DEF StageInv, FlagIsTrue, LimitIsTrue, Pressed
  <1>5. CancelledWasStopped'
    BY <1>1 DEF StageInv, CancelledWasStopped, FlagIsTrue, Walks
  <1>6. LateStop'
    <2>1. marks[q].sinceStop # 0 => marks[q].stopped /\ cancel /\ pc[q] \in {"pauseFlag", "checkFlag"}
      BY <1>1 DEF StageInv, LateStop, FlagIsTrue, Walks, Begun, Alive
    <2>2. marks[q].sinceStop # 0 => pc'[q] = "ended"
      BY <2>1 DEF Walks
    <2>3. QED
      BY <1>1, <2>1, <2>2 DEF StageInv, LateStop
  <1>7. LateExpiry'
    <2>1. marks[q].sinceExpiry # 0 /\ ~marks[q].pressed
            => /\ deadline = "past"
               /\ pc[q] \in {"pauseFlag", "pauseDeadline", "checkFlag", "checkDeadline"}
      BY <1>1 DEF StageInv, LateExpiry, LimitIsTrue, Walks, Begun, Alive
    <2>2. marks[q].sinceExpiry # 0 /\ ~marks[q].pressed
            => pc'[q] \in {"pauseDeadline", "checkFlag", "checkDeadline", "ended"}
      BY <2>1 DEF Walks
    <2>3. QED
      BY <1>1, <2>2 DEF StageInv, LateExpiry
  <1>8. Clearing'
    <2>1. (\E p \in Runs : pc'[p] = "born") => \E p \in Runs : pc[p] = "born"
      BY <1>1 DEF Begun, Alive
    <2>2. \A r \in Runs : Owed(r)' <=> Owed(r)
      BY DEF Owed
    <2>3. Owed(q) => pc'[q] \notin UnderWay
      BY <1>1 DEF StageInv, Clearing, FlagIsTrue, Owed, Walks, UnderWay
    <2>4. Cleared(keys)' = Cleared(keys)
      BY DEF Cleared, Outputs
    <2>5. QED
      BY <1>1, <2>1, <2>2, <2>3, <2>4 DEF StageInv, Clearing
  <1>9. Emotional' /\ Sendable'
    BY <1>1 DEF StageInv, Emotional, Sendable, Walks
  <1>10. QED
    BY <1>2, <1>3, <1>4, <1>5, <1>6, <1>7, <1>8, <1>9 DEF StageInv

-----------------------------------------------------------------------------
LEMMA BeginKeeps ==
  ASSUME StageTypeOK, StageInv, NEW q \in Runs, BeginRoutine(q)
  PROVE  StageInv'
  <1>1. /\ pc[q] = "born" /\ pc'[q] = "open" /\ \A r \in Runs \ {q} : pc'[r] = pc[r]
        /\ ~cancel' /\ emotion' = Nothing
        /\ UNCHANGED << step, status, worker, keys, lit, marks >>
    BY DEF BeginRoutine, At, Goto, StageTypeOK
  <1>2. /\ \A r \in Runs : Alive(r)' <=> Alive(r)
        /\ worker = q
        /\ \A r \in Runs : Begun(r)' => r = q
        /\ \A r \in Runs : pc'[r] = "sent" => FALSE
    BY <1>1 DEF StageInv, Single, Begun, Alive
  <1>3. Single' /\ Untouched' /\ FlagIsTrue' /\ LimitIsTrue' /\ Pressed'
    BY <1>1, <1>2 DEF StageInv, Single, Untouched, FlagIsTrue, LimitIsTrue, Pressed
  <1>4. LateStop' /\ LateExpiry'
    BY <1>1 DEF StageInv, Untouched, LateStop, LateExpiry
  <1>5. Clearing'
    <2>1. \A r \in Runs : Owed(r)' <=> Owed(r)
      BY <1>1 DEF Owed
    <2>2. ~Owed(q)
      BY <1>1 DEF Owed, StageInv, Untouched
    <2>3. Cleared(keys)' = Cleared(keys)
      BY <1>1 DEF Cleared, Outputs
    <2>4. QED
      BY <1>1, <2>1, <2>2, <2>3 DEF StageInv, Clearing
  <1>6. Emotional' /\ Sendable' /\ CancelledWasStopped'
    BY <1>1, <1>2 DEF StageInv, Untouched, Emotional, Sendable, CancelledWasStopped, Outputs
  <1>7. QED
    BY <1>3, <1>4, <1>5, <1>6 DEF StageInv

LEMMA SendKeeps ==
  ASSUME StageTypeOK, StageInv, NEW q \in Runs, Send(q)
  PROVE  StageInv'
  <1>1. /\ pc[q] = "send" /\ pc'[q] = "sent" /\ \A r \in Runs \ {q} : pc'[r] = pc[r]
        /\ emotion' = IF Routine[step[q]].action = "emotion" THEN "shown" ELSE emotion
        /\ UNCHANGED << cancel, deadline, step, status, worker, keys, lit >>
        /\ Nothing # "shown"
    BY NothingAssumption DEF NothingAssumption, Send, At, Goto, StageTypeOK
  <1>2. /\ \A r \in Runs : /\ marks'[r].stopped = marks[r].stopped /\ marks'[r].missed = marks[r].missed
                           /\ marks'[r].pressed = marks[r].pressed /\ marks'[r].expired = marks[r].expired
        /\ \A r \in Runs \ {q} : marks'[r] = marks[r]
        /\ marks'[q].sinceStop = IF marks[q].stopped THEN marks[q].sinceStop + 1 ELSE marks[q].sinceStop
        /\ marks'[q].sinceExpiry = IF marks[q].expired /\ ~marks[q].pressed
                                   THEN marks[q].sinceExpiry + 1 ELSE marks[q].sinceExpiry
    BY DEF Send, StageTypeOK
  <1>3. /\ \A r \in Runs : Alive(r)' <=> Alive(r)
        /\ \A r \in Runs : Begun(r)' <=> Begun(r)
    BY <1>1 DEF Begun, Alive
  <1>4. Single' /\ Untouched' /\ FlagIsTrue' /\ LimitIsTrue' /\ Pressed'
    BY <1>1, <1>2, <1>3 DEF StageInv, Single, Untouched, FlagIsTrue, LimitIsTrue, Pressed
  <1>5. LateStop' /\ LateExpiry'
    BY <1>1, <1>2 DEF StageInv, LateStop, LateExpiry
  <1>6. Clearing'
    <2>1. \A r \in Runs : Owed(r)' <=> Owed(r)
      BY <1>2 DEF Owed
    <2>2. ~Owed(q)
      BY <1>1 DEF StageInv, Clearing, UnderWay
    <2>3. Cleared(keys)' = Cleared(keys)
      BY <1>1 DEF Cleared, Outputs
    <2>4. QED
      BY <1>1, <2>1, <2>2, <2>3 DEF StageInv, Clearing
  <1>7. Emotional' /\ Sendable' /\ CancelledWasStopped'
    BY <1>1, <1>2, <1>3 DEF StageInv, Emotional, Sendable, CancelledWasStopped, Outputs
  <1>8. QED
    BY <1>4, <1>5, <1>6, <1>7 DEF StageInv

LEMMA AnswerKeeps ==
  ASSUME StageTypeOK, StageInv, NEW q \in Runs, Answered(q) \/ OutputFails(q)
  PROVE  StageInv'
  <1>1. /\ pc[q] = "sent" /\ lit' \in {lit, Shown(q)}
        /\ UNCHANGED << cancel, deadline, emotion, worker, keys, marks >>
    BY DEF Answered, OutputFails, At, driver
  <1>2. /\ Only(q) /\ pc'[q] \in {"pauseFlag", "checkFlag", "ended"}
        /\ status'[q] \in {status[q], "completed", "failed"}
    <2>1. CASE Answered(q)
      BY <2>1 DEF Answered, Goto, StageTypeOK, Labels, Only
    <2>2. CASE OutputFails(q)
      BY <2>2, AdvanceMoves DEF OutputFails, Onward
    <2>3. QED
      BY <2>1, <2>2
  <1>3. /\ \A r \in Runs \ {q} : pc'[r] = pc[r] /\ step'[r] = step[r] /\ status'[r] = status[r]
        /\ \A r \in Runs : Alive(r)' <=> Alive(r)
        /\ \A r \in Runs : Begun(r)' <=> Begun(r)
        /\ Begun(q)
    BY <1>1, <1>2 DEF Only, Begun, Alive
  <1>4. /\ \A output \in Outputs, r \in Runs \ {q} : lit'[output] = r => lit[output] = r
        /\ lit'["emotion"] = q => lit["emotion"] = q \/ emotion # Nothing
    <2>1. Routine[step[q]].action \in Outputs
      BY <1>1 DEF StageInv, Sendable
    <2>2. QED
      BY <1>1, <2>1 DEF StageInv, Emotional, Shown, StageTypeOK, Outputs
  <1>5. Single' /\ FlagIsTrue' /\ LimitIsTrue' /\ Pressed'
    BY <1>1, <1>3 DEF StageInv, Single, FlagIsTrue, LimitIsTrue, Pressed
  <1>6. Untouched'
    BY <1>1, <1>2, <1>3, <1>4 DEF StageInv, Untouched
  <1>7. LateStop' /\ LateExpiry'
    BY <1>1, <1>2, <1>3 DEF StageInv, LateStop, LateExpiry
  <1>8. Clearing'
    <2>1. \A r \in Runs : Owed(r)' <=> Owed(r)
      BY <1>1 DEF Owed
    <2>2. ~Owed(q)
      BY <1>1 DEF StageInv, Clearing, UnderWay
    <2>3. Cleared(keys)' = Cleared(keys) /\ \A output \in Cleared(keys) : output \in Outputs
      BY <1>1 DEF Cleared, Outputs, StageTypeOK
    <2>4. QED
      BY <1>1, <1>2, <1>3, <1>4, <2>1, <2>2, <2>3 DEF StageInv, Clearing, Outputs
  <1>9. Emotional' /\ Sendable' /\ CancelledWasStopped'
    BY <1>1, <1>2, <1>3, <1>4 DEF StageInv, Emotional, Sendable, CancelledWasStopped, Outputs
  <1>10. QED
    BY <1>5, <1>6, <1>7, <1>8, <1>9 DEF StageInv

LEMMA ReleaseKeeps ==
  ASSUME StageTypeOK, StageInv, NEW q \in Runs, Release(q)
  PROVE  StageInv'
  <1>1. /\ pc[q] = "ended" /\ pc'[q] = "gone" /\ \A r \in Runs \ {q} : pc'[r] = pc[r]
        /\ UNCHANGED << cancel, deadline, emotion, step, status, keys, lit, marks >>
    BY DEF Release, At, Goto, driver, StageTypeOK
  <1>2. \A r \in Runs : ~Alive(r)' /\ ~Begun(r)'
    BY <1>1 DEF StageInv, Single, Begun, Alive
  <1>3. Single' /\ Untouched' /\ FlagIsTrue' /\ LimitIsTrue' /\ Pressed'
    BY <1>1, <1>2 DEF StageInv, Single, Untouched, FlagIsTrue, LimitIsTrue, Pressed
  <1>4. LateStop' /\ LateExpiry'
    BY <1>1 DEF StageInv, LateStop, LateExpiry
  <1>5. Clearing'
    <2>1. \A r \in Runs : Owed(r)' <=> Owed(r)
      BY <1>1 DEF Owed
    <2>2. Cleared(keys)' = Cleared(keys)
      BY <1>1 DEF Cleared, Outputs
    <2>3. QED
      BY <1>1, <2>1, <2>2 DEF StageInv, Clearing, UnderWay
  <1>6. Emotional' /\ Sendable' /\ CancelledWasStopped'
    BY <1>1, <1>2 DEF StageInv, Emotional, Sendable, CancelledWasStopped
  <1>7. QED
    BY <1>3, <1>4, <1>5, <1>6 DEF StageInv

LEMMA CueKeeps ==
  ASSUME StageTypeOK, StageInv, NEW q \in Runs, Cue(q)
  PROVE  StageInv'
  <1>1. /\ keys = "read" /\ pc[q] = "unborn" /\ pc'[q] = "born" /\ \A r \in Runs \ {q} : pc'[r] = pc[r]
        /\ worker' = q
        /\ UNCHANGED << cancel, deadline, emotion, step, status, keys, lit, marks >>
    BY DEF Cue, Goto, driver, StageTypeOK
  <1>2. \A r \in Runs : ~Alive(r)
    BY NothingAssumption DEF NothingAssumption, Cue, Busy, StageInv, Single
  <1>3. \A r \in Runs : /\ Alive(r)' <=> r = q
                        /\ ~Begun(r)'
    BY <1>1, <1>2 DEF Begun, Alive
  <1>4. Single' /\ Untouched' /\ FlagIsTrue' /\ LimitIsTrue' /\ Pressed'
    BY <1>1, <1>3 DEF StageInv, Single, Untouched, FlagIsTrue, LimitIsTrue, Pressed
  <1>5. LateStop' /\ LateExpiry'
    BY <1>1 DEF StageInv, Untouched, LateStop, LateExpiry
  <1>6. Clearing'
    <2>1. \A r \in Runs : Owed(r)' <=> Owed(r)
      BY <1>1 DEF Owed
    <2>2. Cleared(keys)' = Cleared(keys)
      BY <1>1 DEF Cleared, Outputs
    <2>3. QED
      BY <1>1, <2>1, <2>2 DEF StageInv, Clearing, UnderWay
  <1>7. Emotional' /\ Sendable' /\ CancelledWasStopped'
    BY <1>1, <1>3 DEF StageInv, Emotional, Sendable, CancelledWasStopped
  <1>8. QED
    BY <1>4, <1>5, <1>6, <1>7 DEF StageInv

LEMMA StopKeeps ==
  ASSUME StageTypeOK, StageInv, Stop
  PROVE  StageInv'
  <1>1. /\ keys = "read" /\ keys' = "unlimit" /\ cancel'
        /\ UNCHANGED << deadline, emotion, pc, step, status, worker, lit >>
    BY DEF Stop
  <1>2. \A r \in Runs : /\ marks'[r].pressed <=> marks[r].pressed \/ Alive(r)
                        /\ marks'[r].stopped <=> marks[r].stopped \/ Begun(r)
                        /\ marks'[r].missed <=> marks[r].missed \/ pc[r] \in UnderWay
                        /\ marks'[r].expired = marks[r].expired
                        /\ marks'[r].sinceStop = marks[r].sinceStop
                        /\ marks'[r].sinceExpiry = marks[r].sinceExpiry
    BY DEF Stop, Begun, StageTypeOK
  <1>3. \A r \in Runs : /\ Alive(r)' <=> Alive(r)
                        /\ Begun(r)' <=> Begun(r)
                        /\ Begun(r) => Alive(r) /\ pc[r] \notin {"unborn", "born"}
                        /\ pc[r] = "born" => Alive(r)
    BY <1>1 DEF Begun, Alive
  <1>4. Single' /\ Untouched' /\ FlagIsTrue'
    BY <1>1, <1>2, <1>3 DEF StageInv, Single, Untouched, FlagIsTrue
  <1>5. LimitIsTrue' /\ Pressed'
    BY <1>1, <1>2, <1>3 DEF StageInv, LimitIsTrue, Pressed
  <1>6. LateStop' /\ LateExpiry'
    BY <1>1, <1>2 DEF StageInv, LateStop, LateExpiry
  <1>7. Clearing'
    <2>1. ASSUME NEW r \in Runs, Owed(r)'
          PROVE  /\ pc[r] \notin UnderWay
                 /\ (Owed(r) /\ lit["emotion"] # r) \/ Begun(r)
      BY <1>1, <1>2, <2>1 DEF StageInv, Clearing, Owed, Cleared, Outputs
    <2>2. Cleared(keys)' = {}
      BY <1>1 DEF Cleared
    <2>3. ASSUME NEW r \in Runs, Begun(r), NEW p \in Runs, pc[p] = "born" PROVE FALSE
      BY <1>3, <2>3 DEF StageInv, Single
    <2>4. QED
      BY <1>1, <2>1, <2>2, <2>3 DEF StageInv, Clearing, Emotional
  <1>8. Emotional' /\ Sendable' /\ CancelledWasStopped'
    BY <1>1, <1>2, <1>3 DEF StageInv, Emotional, Sendable, CancelledWasStopped
  <1>9. QED
    BY <1>4, <1>5, <1>6, <1>7, <1>8 DEF StageInv

LEMMA UnlimitKeeps ==
  ASSUME StageTypeOK, StageInv, Unlimit
  PROVE  StageInv'
  <1>1. /\ keys = "unlimit" /\ keys' = IF emotion = Nothing THEN "light" ELSE "light, emotion"
        /\ UNCHANGED << cancel, emotion, pc, step, status, worker, lit, marks >>
    BY DEF Unlimit
  <1>2. \A r \in Runs : (Alive(r)' <=> Alive(r)) /\ (Begun(r)' <=> Begun(r)) /\ (Begun(r) => Alive(r))
    BY <1>1 DEF Begun, Alive
  <1>3. Single' /\ Untouched' /\ FlagIsTrue' /\ LimitIsTrue' /\ Pressed'
    BY <1>1, <1>2 DEF StageInv, Single, Untouched, FlagIsTrue, LimitIsTrue, Pressed
  <1>4. LateStop' /\ LateExpiry'
    BY <1>1 DEF StageInv, LateStop, LateExpiry
  <1>5. Clearing'
    <2>1. \A r \in Runs : Owed(r)' <=> Owed(r)
      BY <1>1 DEF Owed
    <2>2. Cleared(keys)' = IF emotion = Nothing THEN {"emotion"} ELSE {}
      BY <1>1 DEF Cleared
    <2>3. QED
      BY <1>1, <2>1, <2>2 DEF StageInv, Clearing
  <1>6. Emotional' /\ Sendable' /\ CancelledWasStopped'
    BY <1>1, <1>2 DEF StageInv, Emotional, Sendable, CancelledWasStopped
  <1>7. QED
    BY <1>3, <1>4, <1>5, <1>6 DEF StageInv

\* Outputs go out, because a call clears them or by themselves, and a refused
\* call leaves nothing owed.
LEMMA OutputsGoOut ==
  ASSUME StageTypeOK, StageInv, keys # "unlimit" \/ keys' = keys,
         UNCHANGED << cancel, deadline, emotion, pc, step, status, worker >>,
         \A output \in Outputs : lit'[output] \in {lit[output], Nothing},
         \A r \in Runs : /\ marks'[r].pressed = marks[r].pressed /\ marks'[r].stopped = marks[r].stopped
                         /\ marks'[r].expired = marks[r].expired
                         /\ marks'[r].sinceStop = marks[r].sinceStop
                         /\ marks'[r].sinceExpiry = marks[r].sinceExpiry
                         /\ marks'[r].missed \/ marks'[r].missed = marks[r].missed,
         keys' # "unlimit" \/ keys' = keys,
         \/ \A r \in Runs : marks'[r].missed
         \/ \A output \in Cleared(keys) \cup Cleared(keys') :
              output \in Outputs /\ (output \in Cleared(keys) \/ lit'[output] = Nothing)
  PROVE  StageInv'
  <1>1. \A r \in Runs : (Alive(r)' <=> Alive(r)) /\ (Begun(r)' <=> Begun(r)) /\ Nothing # r
    BY NothingAssumption DEF NothingAssumption, Begun, Alive
  <1>2. "emotion" \in Outputs
    BY DEF Outputs
  <1>3. Single' /\ Untouched' /\ FlagIsTrue' /\ LimitIsTrue' /\ Pressed'
    BY <1>1 DEF StageInv, Single, Untouched, FlagIsTrue, LimitIsTrue, Pressed
  <1>4. LateStop' /\ LateExpiry'
    BY DEF StageInv, LateStop, LateExpiry
  <1>5. Clearing'
    <2>1. ASSUME NEW r \in Runs, Owed(r)' PROVE Owed(r) /\ ~marks'[r].missed
      BY <2>1 DEF Owed
    <2>2. Cleared(keys)' = Cleared(keys')
      BY DEF Cleared, Outputs
    <2>3. QED
      BY <1>1, <1>2, <2>1, <2>2 DEF StageInv, Clearing
  <1>6. Emotional' /\ Sendable' /\ CancelledWasStopped'
    BY <1>1, <1>2 DEF StageInv, Emotional, Sendable, CancelledWasStopped
  <1>7. QED
    BY <1>3, <1>4, <1>5, <1>6 DEF StageInv

LEMMA ClearedSoFar ==
  /\ Cleared("light") = {"emotion"} /\ Cleared("light, emotion") = {}
  /\ Cleared("say") = {"light", "emotion"} /\ Cleared("say, emotion") = {"light"}
  /\ Cleared("emotion") = {"light", "say"} /\ Cleared("head") = {"light", "say", "emotion"}
  /\ Cleared("read") = Outputs
  BY DEF Cleared

LEMMA ClearKeeps ==
  ASSUME StageTypeOK, StageInv,
         NEW here \in {"light", "light, emotion", "say", "say, emotion", "emotion", "head"},
         NEW output \in Outputs, NEW next \in {"say", "say, emotion", "head", "emotion", "read"},
         Clear(here, output, next), Cleared(next) \subseteq Cleared(here) \cup {output}
  PROVE  StageInv' /\ StageTypeOK'
  <1>1. /\ keys = here /\ keys' = next
        /\ UNCHANGED << cancel, deadline, emotion, pc, step, status, worker, stops, safe >>
        /\ \/ lit' = [lit EXCEPT ![output] = Nothing] /\ marks' = marks
           \/ lit' = lit /\ marks' = [r \in Runs |-> [marks[r] EXCEPT !.missed = TRUE]]
    BY DEF Clear, driver
  <1>2. Cleared(here) \subseteq Outputs
    BY ClearedSoFar DEF Outputs
  <1>3. marks' \in [Runs -> [pressed : BOOLEAN, stopped : BOOLEAN, expired : BOOLEAN,
                             sinceStop : Nat, sinceExpiry : Nat, missed : BOOLEAN]]
    <2>1. marks \in [Runs -> [pressed : BOOLEAN, stopped : BOOLEAN, expired : BOOLEAN,
                             sinceStop : Nat, sinceExpiry : Nat, missed : BOOLEAN]]
      BY DEF StageTypeOK
    <2>2. CASE marks' = marks
      BY <2>1, <2>2
    <2>3. CASE marks' = [r \in Runs |-> [marks[r] EXCEPT !.missed = TRUE]]
      <3>1. \A r \in Runs : [marks[r] EXCEPT !.missed = TRUE] \in
                [pressed : BOOLEAN, stopped : BOOLEAN, expired : BOOLEAN,
                             sinceStop : Nat, sinceExpiry : Nat, missed : BOOLEAN]
        BY <2>1
      <3>2. QED
        BY <2>3, <3>1
    <2>4. QED
      BY <1>1, <2>2, <2>3
  <1>4. lit' \in [Outputs -> Runs \cup {Nothing}]
    BY <1>1 DEF StageTypeOK
  <1>5. StageTypeOK'
    BY <1>1, <1>3, <1>4 DEF StageTypeOK
  <1>6. keys # "unlimit" /\ keys' # "unlimit"
    BY <1>1
  <1>7. CASE lit' = [lit EXCEPT ![output] = Nothing] /\ marks' = marks
    <2>1. \A o \in Outputs : lit'[o] \in {lit[o], Nothing} /\ lit'[output] = Nothing
      BY <1>7 DEF StageTypeOK
    <2>2. \A o \in Cleared(keys) \cup Cleared(keys') :
            o \in Outputs /\ (o \in Cleared(keys) \/ lit'[o] = Nothing)
      BY <1>1, <1>2, <2>1
    <2>3. QED
      BY <1>1, <1>5, <1>6, <1>7, <2>1, <2>2, OutputsGoOut
  <1>8. CASE lit' = lit /\ marks' = [r \in Runs |-> [marks[r] EXCEPT !.missed = TRUE]]
    <2>1. \A r \in Runs : /\ marks'[r].pressed = marks[r].pressed /\ marks'[r].stopped = marks[r].stopped
                          /\ marks'[r].expired = marks[r].expired
                          /\ marks'[r].sinceStop = marks[r].sinceStop
                          /\ marks'[r].sinceExpiry = marks[r].sinceExpiry
                          /\ marks'[r].missed
      BY <1>8 DEF StageTypeOK
    <2>2. QED
      BY <1>1, <1>5, <1>6, <1>8, <2>1, OutputsGoOut
  <1>9. QED
    BY <1>1, <1>7, <1>8

LEMMA FadesKeeps ==
  ASSUME StageTypeOK, StageInv, Fades
  PROVE  StageInv' /\ StageTypeOK'
  <1>1. PICK output \in Outputs : lit' = [lit EXCEPT ![output] = Nothing]
    BY DEF Fades
  <1>2. UNCHANGED << cancel, deadline, emotion, pc, step, status, worker, keys, stops, safe, marks >>
    BY DEF Fades, driver
  <1>3. StageTypeOK'
    BY <1>1, <1>2 DEF StageTypeOK
  <1>4. \A o \in Outputs : lit'[o] \in {lit[o], Nothing}
    BY <1>1 DEF StageTypeOK
  <1>5. Cleared(keys) \subseteq Outputs
    BY DEF Cleared, Outputs, StageTypeOK
  <1>6. StageInv'
    BY <1>2, <1>4, <1>5, OutputsGoOut
  <1>7. QED
    BY <1>3, <1>6

LEMMA TimeKeeps ==
  ASSUME StageTypeOK, StageInv, TimeIsUp
  PROVE  StageInv' /\ StageTypeOK'
  <1>1. /\ deadline = "ahead" /\ deadline' = "past"
        /\ UNCHANGED << cancel, emotion, pc, step, status, worker, keys, stops, lit, safe >>
        /\ marks' = [r \in Runs |-> [marks[r] EXCEPT !.expired = @ \/ Begun(r)]]
    BY DEF TimeIsUp, Begun
  <1>2. \A r \in Runs : /\ marks'[r].pressed = marks[r].pressed /\ marks'[r].stopped = marks[r].stopped
                        /\ marks'[r].missed = marks[r].missed
                        /\ marks'[r].sinceStop = marks[r].sinceStop
                        /\ marks'[r].sinceExpiry = marks[r].sinceExpiry
                        /\ marks'[r].expired <=> marks[r].expired \/ Begun(r)
    BY <1>1 DEF StageTypeOK
  <1>3. \A r \in Runs : /\ (Alive(r)' <=> Alive(r)) /\ (Begun(r)' <=> Begun(r))
                        /\ Begun(r) => pc[r] \notin {"unborn", "born"}
    BY <1>1 DEF Begun, Alive
  <1>4. Single' /\ Untouched' /\ FlagIsTrue' /\ LimitIsTrue' /\ Pressed'
    BY <1>1, <1>2, <1>3 DEF StageInv, Single, Untouched, FlagIsTrue, LimitIsTrue, Pressed
  <1>5. LateStop'
    BY <1>1, <1>2 DEF StageInv, LateStop
  <1>10. LateExpiry'
    <2>1. \A r \in Runs : marks[r].expired => marks'[r].expired
      BY <1>2
    <2>2. QED
      BY <1>1, <1>2, <2>1 DEF StageInv, LateExpiry
  <1>6. Clearing'
    <2>1. \A r \in Runs : Owed(r)' <=> Owed(r)
      BY <1>2 DEF Owed
    <2>2. Cleared(keys)' = Cleared(keys)
      BY <1>1 DEF Cleared, Outputs
    <2>3. QED
      BY <1>1, <2>1, <2>2 DEF StageInv, Clearing
  <1>7. Emotional' /\ Sendable' /\ CancelledWasStopped'
    BY <1>1, <1>2, <1>3 DEF StageInv, Emotional, Sendable, CancelledWasStopped
  <1>8. StageTypeOK'
    <2>1. \A r \in Runs : (marks[r].expired \/ Begun(r)) \in BOOLEAN
      BY DEF StageTypeOK, Begun
    <2>2. QED
      BY <1>1, <2>1 DEF StageTypeOK
  <1>9. QED
    BY <1>4, <1>5, <1>6, <1>7, <1>8, <1>10 DEF StageInv

LEMMA PlayKeeps ==
  ASSUME StageTypeOK, StageInv, NEW q \in Runs, Play(q)
  PROVE  StageInv' /\ StageTypeOK'
  <1>1. CASE Looks(q)
    <2>1. Walks(q) /\ Quiet /\ safe' = safe /\ stops' = stops
      BY <1>1, LooksAreWalks DEF Quiet
    <2>2. Only(q)
      BY <2>1 DEF Walks
    <2>3. StageTypeOK'
      BY <2>1, <2>2 DEF StageTypeOK, Quiet, Only
    <2>4. QED
      BY <2>1, <2>3, WalkKeeps
  <1>2. CASE BeginRoutine(q)
    <2>1. StageTypeOK'
      BY <1>2 DEF BeginRoutine, Goto, StageTypeOK, Labels
    <2>2. QED
      BY <1>2, <2>1, BeginKeeps
  <1>3. CASE Send(q)
    <2>1. marks[q].sinceStop \in Nat /\ marks[q].sinceExpiry \in Nat
      BY DEF StageTypeOK
    <2>2. marks' \in [Runs -> [pressed : BOOLEAN, stopped : BOOLEAN, expired : BOOLEAN,
                             sinceStop : Nat, sinceExpiry : Nat, missed : BOOLEAN]]
      <3> DEFINE MarkRec == [pressed : BOOLEAN, stopped : BOOLEAN, expired : BOOLEAN,
                             sinceStop : Nat, sinceExpiry : Nat, missed : BOOLEAN]
      <3>1. marks \in [Runs -> MarkRec] /\ marks[q] \in MarkRec
        BY DEF StageTypeOK
      <3>2. PICK s \in Nat, e \in Nat :
                marks' = [marks EXCEPT ![q] = [[marks[q] EXCEPT !.sinceStop = s] EXCEPT !.sinceExpiry = e]]
        <4>1. marks' = [marks EXCEPT ![q] = [[marks[q] EXCEPT
                  !.sinceStop = IF marks[q].stopped THEN marks[q].sinceStop + 1 ELSE marks[q].sinceStop]
                  EXCEPT !.sinceExpiry = IF marks[q].expired /\ ~marks[q].pressed
                                         THEN marks[q].sinceExpiry + 1 ELSE marks[q].sinceExpiry]]
          BY <1>3, <3>1 DEF Send
        <4>2. /\ (IF marks[q].stopped THEN marks[q].sinceStop + 1 ELSE marks[q].sinceStop) \in Nat
              /\ (IF marks[q].expired /\ ~marks[q].pressed
                  THEN marks[q].sinceExpiry + 1 ELSE marks[q].sinceExpiry) \in Nat
          BY <2>1
        <4>3. QED
          BY <4>1, <4>2
      <3>3. [[marks[q] EXCEPT !.sinceStop = s] EXCEPT !.sinceExpiry = e] \in MarkRec
        BY <3>1
      <3>4. QED
        BY <3>1, <3>2, <3>3
    <2>3. StageTypeOK'
      BY <1>3, <2>2 DEF Send, Goto, StageTypeOK, Labels
    <2>4. QED
      BY <1>3, <2>3, SendKeeps
  <1>4. CASE Answered(q)
    <2>1. pc[q] = "sent"
      BY <1>4 DEF Answered, At
    <2>2. Routine[step[q]].action \in Outputs
      BY <2>1 DEF StageInv, Sendable
    <2>3. StageTypeOK'
      BY <1>4, <2>2 DEF Answered, Goto, driver, Shown, StageTypeOK, Labels
    <2>4. QED
      BY <1>4, <2>3, AnswerKeeps
  <1>5. CASE OutputFails(q)
    <2>1. pc[q] = "sent" /\ Only(q)
      BY <1>5, AdvanceMoves DEF OutputFails, At, Onward
    <2>2. Routine[step[q]].action \in Outputs
      BY <2>1 DEF StageInv, Sendable
    <2>3. lit' \in [Outputs -> Runs \cup {Nothing}]
      BY <1>5, <2>2 DEF OutputFails, Shown, StageTypeOK
    <2>4. StageTypeOK'
      BY <1>5, <2>1, <2>3 DEF OutputFails, driver, StageTypeOK, Only
    <2>5. QED
      BY <1>5, <2>4, AnswerKeeps
  <1>6. CASE Release(q)
    <2>1. StageTypeOK'
      BY <1>6 DEF Release, Goto, driver, StageTypeOK, Labels
    <2>2. QED
      BY <1>6, <2>1, ReleaseKeeps
  <1>7. QED
    BY <1>1, <1>2, <1>3, <1>4, <1>5, <1>6 DEF Play, Looks

LEMMA StageStep ==
  ASSUME StageTypeOK, StageInv, [StageNext]_stageVars
  PROVE  StageInv' /\ StageTypeOK'
  <1>1. ASSUME NEW q \in Runs, Play(q) PROVE StageInv' /\ StageTypeOK'
    BY <1>1, PlayKeeps
  <1>2. ASSUME NEW q \in Runs, Cue(q) PROVE StageInv' /\ StageTypeOK'
    <2>1. StageTypeOK'
      BY <1>2 DEF Cue, Goto, driver, StageTypeOK, Labels
    <2>2. QED
      BY <1>2, <2>1, CueKeeps
  <1>3. CASE Stop
    <2>1. marks' \in [Runs -> [pressed : BOOLEAN, stopped : BOOLEAN, expired : BOOLEAN,
                               sinceStop : Nat, sinceExpiry : Nat, missed : BOOLEAN]]
      BY <1>3 DEF Stop, StageTypeOK, Alive
    <2>2. stops' \in 0 .. MaxStops
      <3>1. MaxStops \in Nat
        BY StageBoundsAssumption DEF StageBoundsAssumption
      <3>2. stops \in 0 .. MaxStops /\ stops < MaxStops /\ stops' = stops + 1
        BY <1>3 DEF Stop, StageTypeOK
      <3>3. QED
        BY <3>1, <3>2
    <2>3. StageTypeOK'
      BY <1>3, <2>1, <2>2 DEF Stop, StageTypeOK
    <2>4. QED
      BY <1>3, <2>3, StopKeeps
  <1>4. CASE Unlimit
    <2>1. StageTypeOK'
      BY <1>4 DEF Unlimit, StageTypeOK
    <2>2. QED
      BY <1>4, <2>1, UnlimitKeeps
  <1>5. CASE ClearLight \/ ClearSpeech \/ ClearEmotion \/ ClearHead
    <2>1. {"light", "say", "emotion", "head"} = Outputs
      BY DEF Outputs
    <2>2. CASE Clear("light", "light", "say")
      BY <2>1, <2>2, ClearKeeps, ClearedSoFar
    <2>3. CASE Clear("light, emotion", "light", "say, emotion")
      BY <2>1, <2>3, ClearKeeps, ClearedSoFar
    <2>4. CASE Clear("say", "say", "head")
      BY <2>1, <2>4, ClearKeeps, ClearedSoFar
    <2>5. CASE Clear("say, emotion", "say", "emotion")
      BY <2>1, <2>5, ClearKeeps, ClearedSoFar
    <2>6. CASE Clear("emotion", "emotion", "head")
      BY <2>1, <2>6, ClearKeeps, ClearedSoFar
    <2>7. CASE Clear("head", "head", "read")
      BY <2>1, <2>7, ClearKeeps, ClearedSoFar
    <2>8. QED
      BY <1>5, <2>2, <2>3, <2>4, <2>5, <2>6, <2>7 DEF ClearLight, ClearSpeech, ClearEmotion, ClearHead
  <1>6. CASE TimeIsUp
    BY <1>6, TimeKeeps
  <1>7. CASE RobotChanges \/ UNCHANGED stageVars
    <2>1. UNCHANGED << cancel, deadline, emotion, pc, step, status, worker, keys, stops, lit, marks >>
      BY <1>7 DEF RobotChanges, driver, stageVars
    <2>2. StageTypeOK'
      BY <1>7, <2>1 DEF StageTypeOK, RobotChanges, stageVars
    <2>3. Cleared(keys) \subseteq Outputs
      BY DEF Cleared, Outputs, StageTypeOK
    <2>4. StageInv'
      BY <2>1, <2>3, OutputsGoOut
    <2>5. QED
      BY <2>2, <2>4
  <1>8. CASE Fades
    BY <1>8, FadesKeeps
  <1>9. QED
    BY <1>1, <1>2, <1>3, <1>4, <1>5, <1>6, <1>7, <1>8 DEF StageNext, Operator

LEMMA StageInvariance == StageSpec => [](StageTypeOK /\ StageInv)
  <1>1. StageTypeOK /\ StageInv /\ [StageNext]_stageVars => (StageTypeOK /\ StageInv)'
    BY StageStep
  <1>2. QED
    BY <1>1, StageStarts, PTL DEF StageSpec

(* Once the operator has stopped a routine that had begun, at most one     *)
(* more output of it goes to the robot, and the same once its time has run *)
(* out, for every routine and whatever fails.                              *)
THEOREM OneLateOutput == StageSpec => []AtMostOneLateOutput
  <1>1. StageInv => AtMostOneLateOutput
    BY DEF StageInv, LateStop, LateExpiry, AtMostOneLateOutput
  <1>2. QED
    BY <1>1, StageInvariance, PTL

(* A routine is reported as cancelled only when x was pressed for it.      *)
THEOREM CancelIsMeant == StageSpec => []CancelledWasStopped
  <1>1. StageInv => CancelledWasStopped
    BY DEF StageInv
  <1>2. QED
    BY <1>1, StageInvariance, PTL

(* When the stop has made its calls and none of them was refused, the      *)
(* robot shows nothing more of the routine, unless an output was on its    *)
(* way: whichever order the calls and the worker's steps take.             *)
THEOREM StopLeavesNothing == StageSpec => []StopClears
  <1>1. StageTypeOK /\ StageInv => StopClears
    <2> SUFFICES ASSUME StageTypeOK, StageInv, NEW r \in Runs, keys = "read", Owed(r)
                 PROVE  \A output \in Outputs : lit[output] # r
      BY DEF StopClears, Owed
    <2>1. Cleared(keys) = Outputs
      BY DEF Cleared
    <2>2. QED
      BY <2>1 DEF StageInv, Clearing
  <1>2. QED
    BY <1>1, StageInvariance, PTL

-----------------------------------------------------------------------------
(***************************************************************************)
(* What the action policy guarantees for every allowlist that parses,      *)
(* every robot, every set of calls and approvals, and every clock.         *)
(***************************************************************************)
RobotState == {s \in [Fields -> BOOLEAN \cup Int \cup {Unknown}] :
                 /\ {s["battery"], s["at"], s["moved"]} \subseteq Int \cup {Unknown}}

LEMMA RulesAreRules ==
  ASSUME NEW intent, intent.tool \in DOMAIN ToolRule
  PROVE  RuleOf(intent) \in Rule
  BY PolicyAssumption DEF Accepted, ToolRule, RuleOf

-----------------------------------------------------------------------------
(* The evaluation is monotone in what is known *)

\* Taking any reading away, or saying that the history of moves is not known,
\* never lets a call through that was denied: evaluate_action fails closed for
\* whatever the robot does not report.
THEOREM MissingReadingNeverHelps ==
  ASSUME NEW intent, NEW a, NEW s \in RobotState, NEW f \in Fields \ {"moved"},
         NEW c, NEW used, NEW t \in Int,
         Allowed(intent, a, [s EXCEPT ![f] = Unknown], c, used, t)
  PROVE  Allowed(intent, a, s, c, used, t)
<1> DEFINE blind == [s EXCEPT ![f] = Unknown]
           rule == RuleOf(intent)
<1>1. /\ intent.mode \in RunModes /\ intent.tool \in DOMAIN ToolRule /\ Canonical(intent)
      /\ intent.mode \in rule.allowed_modes
      /\ NeedsApproval(intent) => ApprovalReasons(intent, a, c, used, t) = {}
      /\ FactReasons(rule, blind) = {} /\ BatteryReasons(rule, blind) = {}
      /\ SensorReasons(rule, blind, t) = {} /\ CooldownReasons(rule, blind, t) = {}
  BY DEF Allowed, Evaluate
<1>2. rule \in Rule
  BY <1>1, RulesAreRules
<1>3. /\ DOMAIN s = Fields /\ blind[f] = Unknown
      /\ \A g \in Fields : g # f => blind[g] = s[g]
      /\ "battery" \in Fields /\ "at" \in Fields /\ "history" \in Fields /\ "moved" \in Fields
  BY DEF RobotState, Fields
<1>4. rule.demands \subseteq Fields
  BY <1>2 DEF Rule, Fields
<1> HIDE DEF blind, rule
<1>5. FactReasons(rule, s) = {}
  BY <1>1, <1>3, <1>4 DEF FactReasons
<1>6. BatteryReasons(rule, s) = {}
  BY <1>1, <1>3, UnknownAssumption DEF BatteryReasons, Reason
<1>7. SensorReasons(rule, s, t) = {}
  BY <1>1, <1>3, UnknownAssumption DEF SensorReasons, Reason
<1>8. CooldownReasons(rule, s, t) = {}
  BY <1>1, <1>3, UnknownAssumption DEF CooldownReasons, Reason
<1> QED
  BY <1>1, <1>5, <1>6, <1>7, <1>8 DEF Allowed, Evaluate, rule

-----------------------------------------------------------------------------
(* The inductive invariant *)

ApprovalRec ==
  [intent : Intents, issued : Int, expires : Int, nonce : Nonces,
   signature : [intent : Intents, issued : Int, expires : Int, nonce : Nonces]]
Run == [intent : {i \in Intents : i.tool \in DOMAIN ToolRule}, at : Int,
        nonce : Nonces \cup {Unknown}]

\* The operator's approvals are what was signed.
Genuine == issued \subseteq {a \in ApprovalRec : a.signature = Payload(a)}

\* What the caller last read was so, unless the robot changed since.
Readings ==
  /\ snapshot \in [Fields -> BOOLEAN \cup Int \cup {Unknown}]
  /\ {snapshot["battery"], snapshot["at"]} \subseteq Int \cup {Unknown}
  /\ world.is \in Worlds /\ world.since \in Int
  /\ snapshot["at"] # Unknown => snapshot["at"] <= now
  /\ snapshot["at"] # Unknown /\ snapshot["at"] > world.since
        => \A f \in Facts \cup {"battery"} : snapshot[f] \in {Unknown, world.is[f]}

\* The used approvals are known, and so is the last move.
Remembered ==
  /\ runs \in Seq(Run) /\ lastMove \in Int \cup {Unknown}
  /\ \A i \in 1 .. Len(runs) : NeedsApproval(runs[i].intent) => runs[i].nonce \in consumed
  /\ \A i \in 1 .. Len(runs) : RuleOf(runs[i].intent).physical
        => lastMove # Unknown /\ runs[i].at <= lastMove
  /\ lastMove # Unknown => lastMove <= now

Caller == [key : {"none", "short", "good"}, store : BOOLEAN, history : BOOLEAN]

IInv == now \in Int /\ caller \in Caller /\ Genuine /\ Readings /\ Remembered
        /\ RunsAreApproved /\ MovesAreApart

LEMMA InitIInv == Init => IInv
<1> SUFFICES ASSUME Init PROVE IInv
  OBVIOUS
<1>1. Readings
  BY WorldAssumption DEF Init, Readings, Fields
<1>2. Remembered /\ RunsAreApproved /\ MovesAreApart
  BY DEF Init, Remembered, RunsAreApproved, MovesAreApart
<1>3. caller \in Caller
  BY DEF Init, Caller
<1>4. now \in Int /\ Genuine
  BY DEF Init, Genuine
<1> QED
  BY <1>1, <1>2, <1>3, <1>4 DEF IInv

\* A presented approval that carries a valid signature is one the operator gave.
LEMMA SignedIsIssued ==
  ASSUME Genuine, NEW intent \in Intents, NEW a \in Presented(intent), a # Unknown,
         a.signature = Payload(a)
  PROVE  a \in issued
<1>1. CASE a \in issued
  BY <1>1
<1>2. CASE \E b \in issued : a = [b EXCEPT !.intent = intent]
  <2>1. PICK b \in issued : a = [b EXCEPT !.intent = intent]
    BY <1>2
  <2>2. b \in ApprovalRec /\ b.signature = Payload(b)
    BY DEF Genuine
  <2>3. b.intent = intent
    BY <2>1, <2>2 DEF Payload, ApprovalRec
  <2> QED
    BY <2>1, <2>2, <2>3 DEF ApprovalRec
<1>3. CASE \E b \in issued : a = [b EXCEPT !.expires = @ + 1]
  <2>1. PICK b \in issued : a = [b EXCEPT !.expires = @ + 1]
    BY <1>3
  <2>2. b \in ApprovalRec /\ b.signature = Payload(b)
    BY DEF Genuine
  <2> QED
    BY <2>1, <2>2 DEF Payload, ApprovalRec
<1>4. CASE \E b \in issued, n \in Nonces : a = [b EXCEPT !.nonce = n]
  <2>1. PICK b \in issued, n \in Nonces : a = [b EXCEPT !.nonce = n]
    BY <1>4
  <2>2. b \in ApprovalRec /\ b.signature = Payload(b)
    BY DEF Genuine
  <2>3. b.nonce = n
    BY <2>1, <2>2 DEF Payload, ApprovalRec
  <2> QED
    BY <2>1, <2>2, <2>3 DEF ApprovalRec
<1>5. \/ a \in issued
      \/ \E b \in issued : a = [b EXCEPT !.intent = intent]
      \/ \E b \in issued : a = [b EXCEPT !.expires = @ + 1]
      \/ \E b \in issued, n \in Nonces : a = [b EXCEPT !.nonce = n]
  BY DEF Presented
<1> QED
  BY <1>1, <1>2, <1>3, <1>4, <1>5

\* An action that leaves the runs, the used approvals and the last move alone,
\* takes no approval back and does not turn the clock back keeps their parts.
LEMMA OthersKeepRuns ==
  ASSUME IInv, now' \in Int, now' >= now, issued \subseteq issued',
         UNCHANGED << runs, consumed, lastMove >>
  PROVE  Remembered' /\ RunsAreApproved' /\ MovesAreApart'
<1>1. Remembered'
  BY DEF IInv, Remembered, NeedsApproval, RuleOf
<1>2. RunsAreApproved'
  BY DEF IInv, RunsAreApproved, NeedsApproval, RuleOf
<1>3. MovesAreApart'
  BY DEF IInv, MovesAreApart, RuleOf
<1> QED
  BY <1>1, <1>2, <1>3

LEMMA TimeKeepsIInv == ASSUME IInv, TimePasses PROVE IInv'
<1>1. now' \in Int /\ Genuine' /\ Readings'
  BY UnknownAssumption DEF IInv, TimePasses, Genuine, Payload, Readings
<1> QED
  BY <1>1, OthersKeepRuns DEF IInv, TimePasses

LEMMA RobotKeepsIInv == ASSUME IInv, NEW w \in Worlds, WorldTurns(w) PROVE IInv'
<1>1. now' \in Int /\ Genuine'
  BY DEF IInv, WorldTurns, Genuine, Payload
<1>2. Readings'
  BY UnknownAssumption DEF IInv, WorldTurns, Readings
<1> QED
  BY <1>1, <1>2, OthersKeepRuns DEF IInv, WorldTurns

LEMMA ObserveKeepsIInv == ASSUME IInv, NEW lost, Observe(lost) PROVE IInv'
<1>1. now' \in Int /\ Genuine'
  BY DEF IInv, Observe, Genuine, Payload
<1>2. Readings'
  <2>1. /\ "battery" \in Fields /\ "at" \in Fields /\ "at" \notin Facts
        /\ Facts \subseteq Fields /\ "history" \notin Facts /\ "moved" \notin Facts
    BY DEF Fields, Facts, Wanted
  <2>2. \A f \in Facts \cup {"battery"} : world.is[f] \in BOOLEAN \cup Int
    BY WorldAssumption DEF IInv, Readings
  <2>3. world.is["battery"] \in Int
    BY WorldAssumption DEF IInv, Readings
  <2>4. snapshot' \in [Fields -> BOOLEAN \cup Int \cup {Unknown}]
    BY <2>2 DEF IInv, Observe, Fields
  <2> QED
    BY <2>1, <2>3, <2>4 DEF IInv, Observe, Readings
<1> QED
  BY <1>1, <1>2, OthersKeepRuns DEF IInv, Observe

LEMMA IssueKeepsIInv ==
  ASSUME IInv, NEW intent \in Intents, NEW from \in Int, NEW until \in Int, NEW nonce \in Nonces,
         Issue(intent, from, until, nonce)
  PROVE  IInv'
<1>1. Genuine'
  BY DEF IInv, Issue, Genuine, Approval, ApprovalRec, Payload
<1>2. now' \in Int /\ Readings'
  BY DEF IInv, Issue, Readings
<1> QED
  BY <1>1, <1>2, OthersKeepRuns DEF IInv, Issue

LEMMA RestartKeepsIInv == ASSUME IInv, NEW without \in {"store", "history"}, CallerRestarts(without) PROVE IInv'
<1>1. now' \in Int /\ caller' \in Caller /\ Genuine' /\ Readings'
  BY DEF IInv, CallerRestarts, Genuine, Payload, Readings, Caller
<1> QED
  BY <1>1, OthersKeepRuns DEF IInv, CallerRestarts

-----------------------------------------------------------------------------
(* A call that is let through *)

LEMMA LetThrough ==
  ASSUME IInv, NEW intent \in Intents, NEW a \in Presented(intent), Propose(intent, a)
  PROVE  /\ intent.tool \in DOMAIN ToolRule /\ RuleOf(intent) \in Rule
         /\ NeedsApproval(intent) => /\ a \in issued /\ a \in ApprovalRec /\ a.intent = intent
                                     /\ a.nonce \notin consumed
                                     /\ a.issued <= now /\ now <= a.expires
         /\ FactReasons(RuleOf(intent), State) = {} /\ BatteryReasons(RuleOf(intent), State) = {}
         /\ SensorReasons(RuleOf(intent), State, now) = {}
         /\ CooldownReasons(RuleOf(intent), State, now) = {}
<1>1. /\ intent.tool \in DOMAIN ToolRule
      /\ NeedsApproval(intent) => ApprovalReasons(intent, a, caller, consumed, now) = {}
      /\ FactReasons(RuleOf(intent), State) = {} /\ BatteryReasons(RuleOf(intent), State) = {}
      /\ SensorReasons(RuleOf(intent), State, now) = {}
      /\ CooldownReasons(RuleOf(intent), State, now) = {}
  BY DEF Propose, Allowed, Evaluate
<1>2. ASSUME NeedsApproval(intent)
      PROVE  /\ a \in issued /\ a \in ApprovalRec /\ a.intent = intent /\ a.nonce \notin consumed
             /\ a.issued <= now /\ now <= a.expires
  <2>1. /\ a # Unknown /\ a.intent = intent /\ caller.store /\ a.nonce \notin consumed
        /\ ~(now < a.issued) /\ ~(now > a.expires)
        /\ caller.key = "good" => a.signature = Payload(a)
        /\ caller.key # "none" /\ caller.key # "short"
    BY <1>1, <1>2 DEF ApprovalReasons, Reason
  <2>2. caller.key = "good"
    BY <2>1 DEF IInv, Caller
  <2>3. a \in issued
    BY <2>1, <2>2, SignedIsIssued DEF IInv
  <2>4. a.issued \in Int /\ a.expires \in Int /\ a \in ApprovalRec
    BY <2>3 DEF IInv, Genuine, ApprovalRec
  <2> QED
    BY <2>1, <2>3, <2>4 DEF IInv
<1> QED
  BY <1>1, <1>2, RulesAreRules

LEMMA ProposeKeepsIInv ==
  ASSUME IInv, NEW intent \in Intents, NEW a \in Presented(intent), Propose(intent, a)
  PROVE  IInv'
<1> DEFINE run == [intent |-> intent, at |-> now,
                   nonce |-> IF NeedsApproval(intent) THEN a.nonce ELSE Unknown]
           noted == NeedsApproval(intent) \/ RuleOf(intent).physical
<1>1. /\ intent.tool \in DOMAIN ToolRule /\ RuleOf(intent) \in Rule
      /\ NeedsApproval(intent) => /\ a \in issued /\ a \in ApprovalRec /\ a.intent = intent
                                  /\ a.nonce \notin consumed
                                  /\ a.issued <= now /\ now <= a.expires
      /\ CooldownReasons(RuleOf(intent), State, now) = {}
  BY LetThrough
<1>2. /\ now' = now /\ now \in Int /\ UNCHANGED << world, snapshot, caller, issued >>
      /\ runs' = IF noted THEN Append(runs, run) ELSE runs
      /\ consumed' = IF NeedsApproval(intent) THEN consumed \cup {a.nonce} ELSE consumed
      /\ lastMove' = IF RuleOf(intent).physical THEN now ELSE lastMove
  BY DEF Propose, IInv
<1>3. now' \in Int /\ caller' \in Caller /\ Genuine' /\ Readings'
  BY <1>2 DEF IInv, Genuine, Payload, Readings
<1>4. run \in Run /\ runs \in Seq(Run) /\ lastMove \in Int \cup {Unknown}
  BY <1>1, <1>2 DEF Run, ApprovalRec, IInv, Remembered
<1>5. CASE ~noted
  <2>1. UNCHANGED << now, issued, runs, consumed, lastMove >>
    BY <1>2, <1>5
  <2> QED
    BY <1>2, <1>3, <2>1, OthersKeepRuns DEF IInv
<1>6. CASE noted
  <2> HIDE DEF run
  <2>1. /\ runs' = Append(runs, run) /\ runs' \in Seq(Run) /\ Len(runs') = Len(runs) + 1
        /\ Len(runs) \in Nat /\ \A i \in 1 .. Len(runs) : runs'[i] = runs[i] /\ runs[i] \in Run
        /\ runs'[Len(runs')] = run
    BY <1>2, <1>4, <1>6
  <2>2. run.intent = intent /\ run.at = now /\ (NeedsApproval(intent) => run.nonce = a.nonce)
    BY DEF run
  <2>3. \A i \in 1 .. Len(runs') : i \in 1 .. Len(runs) \/ i = Len(runs')
    BY <2>1
  <2>4. \A i \in 1 .. Len(runs) :
          /\ NeedsApproval(runs[i].intent) => runs[i].nonce \in consumed
          /\ RuleOf(runs[i].intent).physical => lastMove # Unknown /\ runs[i].at <= lastMove
          /\ runs[i].at \in Int
    BY <2>1 DEF IInv, Remembered, Run
  <2>5. lastMove # Unknown => lastMove <= now
    BY DEF IInv, Remembered
  <2>6. Remembered'
    <3>1. /\ \A i \in 1 .. Len(runs') : NeedsApproval(runs'[i].intent) => runs'[i].nonce \in consumed'
      BY <1>2, <2>1, <2>2, <2>3, <2>4
    <3>2. \A i \in 1 .. Len(runs') : RuleOf(runs'[i].intent).physical
             => lastMove' # Unknown /\ runs'[i].at <= lastMove'
      BY <1>2, <1>4, <2>1, <2>2, <2>3, <2>4, <2>5, UnknownAssumption
    <3>3. lastMove' \in Int \cup {Unknown} /\ (lastMove' # Unknown => lastMove' <= now')
      BY <1>2, <1>4, <2>5
    <3> QED
      BY <2>1, <3>1, <3>2, <3>3 DEF Remembered, NeedsApproval, RuleOf
  <2>7. RunsAreApproved'
    <3>1. \A i \in 1 .. Len(runs') : NeedsApproval(runs'[i].intent) =>
             \E b \in issued : /\ b.intent = runs'[i].intent /\ b.nonce = runs'[i].nonce
                               /\ b.issued <= runs'[i].at /\ runs'[i].at <= b.expires
      BY <1>1, <2>1, <2>2, <2>3 DEF IInv, RunsAreApproved
    <3>2. \A i, j \in 1 .. Len(runs') :
             i # j /\ NeedsApproval(runs'[i].intent) /\ NeedsApproval(runs'[j].intent)
                => runs'[i].nonce # runs'[j].nonce
      BY <1>1, <2>1, <2>2, <2>3, <2>4 DEF IInv, RunsAreApproved
    <3> QED
      BY <1>2, <3>1, <3>2 DEF RunsAreApproved, NeedsApproval, RuleOf
  <2>8. MovesAreApart'
    <3>1. ASSUME RuleOf(intent).physical, NEW i \in 1 .. Len(runs),
                 RuleOf(runs[i].intent).physical
          PROVE  now - runs[i].at >= RuleOf(intent).cooldown
      <4>1. RuleOf(intent).cooldown \in Nat
        BY <1>1 DEF Rule
      <4>2. lastMove \in Int /\ runs[i].at <= lastMove /\ lastMove <= now
        BY <1>4, <2>4, <2>5, <3>1
      <4>3. RuleOf(intent).cooldown > 0 => now - lastMove >= RuleOf(intent).cooldown
        <5>1. State.moved = lastMove /\ lastMove # Unknown
          BY <2>4, <3>1 DEF State, IInv, Readings, Fields
        <5>2. CooldownReasons(RuleOf(intent), State, now) = {}
          BY <1>1
        <5>3. ASSUME RuleOf(intent).cooldown > 0
              PROVE  /\ now < State.moved => "cooldown_timestamp_in_future" \in {}
                     /\ now >= State.moved /\ now - State.moved < RuleOf(intent).cooldown
                           => "cooldown_active" \in {}
          <6>1. State.history = TRUE
            BY <3>1, <5>2, <5>3 DEF CooldownReasons
          <6>2. Reason("cooldown_timestamp_in_future", now < State.moved)
                \cup Reason("cooldown_active", now >= State.moved
                              /\ now - State.moved < RuleOf(intent).cooldown) = {}
            BY <3>1, <5>1, <5>2, <5>3, <6>1 DEF CooldownReasons
          <6> QED
            BY <6>2 DEF Reason
        <5> QED
          BY <1>2, <4>1, <4>2, <5>1, <5>3
      <4> QED
        BY <1>2, <2>4, <4>1, <4>2, <4>3
    <3>2. \A i, j \in 1 .. Len(runs') :
             i < j /\ RuleOf(runs'[i].intent).physical /\ RuleOf(runs'[j].intent).physical
                => runs'[j].at - runs'[i].at >= RuleOf(runs'[j].intent).cooldown
      BY <2>1, <2>2, <2>3, <3>1 DEF IInv, MovesAreApart
    <3> QED
      BY <3>2 DEF MovesAreApart, RuleOf
  <2> QED
    BY <1>3, <2>6, <2>7, <2>8 DEF IInv
<1> QED
  BY <1>5, <1>6

LEMMA StepKeepsIInv == IInv /\ [Next]_vars => IInv'
<1> SUFFICES ASSUME IInv, [Next]_vars PROVE IInv'
  OBVIOUS
<1>1. CASE UNCHANGED vars
  <2>1. now' \in Int /\ caller' \in Caller /\ Genuine' /\ Readings'
    BY <1>1 DEF vars, IInv, Genuine, Payload, Readings
  <2> QED
    BY <1>1, <2>1, OthersKeepRuns DEF vars, IInv
<1>2. CASE Next
  BY <1>2, TimeKeepsIInv, RobotKeepsIInv, ObserveKeepsIInv, IssueKeepsIInv, RestartKeepsIInv,
     ProposeKeepsIInv, IntentAssumption DEF Next, IInv
<1> QED
  BY <1>1, <1>2

\* Whatever the allowlist, the calls and the approvals presented, however the
\* caller loses and finds its records: what ran where approval is needed was
\* approved exactly so, in time, and once.
THEOREM ApprovedOnce == Spec => []RunsAreApproved
<1>1. IInv => RunsAreApproved
  BY DEF IInv
<1> QED
  BY InitIInv, StepKeepsIInv, <1>1, PTL DEF Spec

\* Two moves are never closer than the cooldown of the second one's risk class.
THEOREM CooldownHolds == Spec => []MovesAreApart
<1>1. IInv => MovesAreApart
  BY DEF IInv
<1> QED
  BY InitIInv, StepKeepsIInv, <1>1, PTL DEF Spec

-----------------------------------------------------------------------------
(* What the caller last read is still so *)

LEMMA FreshReadingsMeet ==
  ASSUME IInv, NEW intent \in Intents, NEW a \in Presented(intent), Propose(intent, a),
         RuleOf(intent).max_sensor_age # Unknown,
         now - world.since > RuleOf(intent).max_sensor_age
  PROVE  Meets(world.is, RuleOf(intent))
<1> DEFINE rule == RuleOf(intent)
<1>1. /\ rule \in Rule
      /\ FactReasons(rule, State) = {} /\ BatteryReasons(rule, State) = {}
      /\ SensorReasons(rule, State, now) = {}
  BY LetThrough
<1> HIDE DEF rule
<1>2. /\ State["at"] = snapshot["at"] /\ State["battery"] = snapshot["battery"]
      /\ \A f \in Facts : State[f] = snapshot[f]
  BY DEF State, IInv, Readings, Fields, Facts, Wanted
<1>3. /\ rule.max_sensor_age \in Nat /\ rule.demands \subseteq Facts
      /\ rule.minimum_battery \in Nat \cup {Unknown}
  BY <1>1 DEF rule, Rule
<1>4. snapshot["at"] # Unknown /\ now - snapshot["at"] <= rule.max_sensor_age
  <2>1. snapshot["at"] # Unknown
    BY <1>1, <1>2, <1>3, UnknownAssumption DEF SensorReasons, rule
  <2>2. snapshot["at"] \in Int /\ now \in Int
    BY <2>1 DEF IInv, Readings
  <2> QED
    BY <1>1, <1>2, <1>3, <2>1, <2>2, UnknownAssumption DEF SensorReasons, Reason, rule
<1>5. snapshot["at"] > world.since
  BY <1>3, <1>4 DEF IInv, Readings, rule
<1>6. \A f \in Facts \cup {"battery"} : snapshot[f] \in {Unknown, world.is[f]}
  BY <1>4, <1>5 DEF IInv, Readings
<1>7. \A f \in rule.demands : world.is[f] = Wanted[f]
  BY <1>1, <1>2, <1>3, <1>6 DEF FactReasons
<1>8. rule.minimum_battery # Unknown => world.is["battery"] >= rule.minimum_battery
  <2>1. ASSUME rule.minimum_battery # Unknown
        PROVE  snapshot["battery"] # Unknown /\ ~(snapshot["battery"] < rule.minimum_battery)
    BY <1>1, <1>2, <2>1 DEF BatteryReasons, Reason
  <2>2. world.is["battery"] \in Int
    BY WorldAssumption DEF IInv, Readings
  <2> QED
    BY <1>3, <1>6, <2>1, <2>2
<1> QED
  BY <1>7, <1>8 DEF Meets, rule

\* No call starts on a robot that has violated what its risk class demands for
\* longer than the class lets its readings age.
THEOREM FreshFacts == Spec => StartsOnFreshFacts
<1> DEFINE Fresh ==
      runs' # runs =>
        LET rule == RuleOf(runs'[Len(runs')].intent)
        IN  rule.max_sensor_age # Unknown /\ now - world.since > rule.max_sensor_age
               => Meets(world.is, rule)
<1>1. ASSUME IInv, [Next]_vars PROVE [Fresh]_vars
  <2>1. CASE runs' = runs
    BY <2>1
  <2>2. CASE runs' # runs
    <3>1. PICK intent \in Intents : \E a \in Presented(intent) : Propose(intent, a)
      BY <1>1, <2>2 DEF Next, vars, TimePasses, WorldTurns, Observe, Issue, CallerRestarts
    <3>2. PICK a \in Presented(intent) : Propose(intent, a)
      BY <3>1
    <3>3. runs'[Len(runs')].intent = intent
      BY <1>1, <2>2, <3>2 DEF Propose, IInv, Remembered
    <3> QED
      BY <1>1, <3>2, <3>3, FreshReadingsMeet
  <2> QED
    BY <2>1, <2>2
<1> QED
  BY <1>1, InitIInv, StepKeepsIInv, PTL DEF Spec, StartsOnFreshFacts
=============================================================================
