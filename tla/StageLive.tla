------------------------------ MODULE StageLive ------------------------------
(***************************************************************************)
(* The live stage console, apps/demo_choreo: the operator's keyboard loop  *)
(* (operator_console.py, run_live) starts one worker thread per routine;   *)
(* the worker walks the routine's steps (core.py, ChoreographyRunner.run)  *)
(* through the LiveDriver (live.py), which both threads share without a    *)
(* lock.  Each call to the robot has a connection of its own, so what the  *)
(* operator's stop sends may overtake what the worker has sent before it.  *)
(*                                                                         *)
(* A worker step is one read or write of the shared driver or one half of  *)
(* a native call.  Workers are numbered in the order of their threads.     *)
(***************************************************************************)
EXTENDS Integers, Sequences

CONSTANTS
    Nothing,
    Routine,      \* the routine: a sequence of [action, onFailure]
    HasEmotion, \* whether the robot has one of the emotions asked for
    CallsFail,  \* whether a call to the robot can fail
    MaxRuns,    \* bound on the routines started
    MaxStops    \* bound on the operator's x keys

Outputs == {"light", "say", "emotion", "head"}
StepKinds   == Outputs \cup {"wait", "native_dag"}

(* core.py:171, a routine has steps.                                       *)
ASSUME RoutineAssumption ==
    Routine \in Seq([action : StepKinds, onFailure : {"abort", "continue"}]) /\ Routine # <<>>
ASSUME StageBoundsAssumption ==
    {HasEmotion, CallsFail} \subseteq BOOLEAN /\ {MaxRuns, MaxStops} \subseteq Nat

Runs == 1 .. MaxRuns
Results == {"blocked", "cancelled", "failed", "completed"}

ASSUME NothingAssumption ==
    Nothing \notin Runs /\ Nothing \notin {"ahead", "past", "shown"} \cup Results

VARIABLES
    cancel,    \* driver.cancel_event
    deadline,  \* driver.deadline: Nothing, still ahead, or past
    emotion,   \* driver.active_emotion_mode: Nothing or an emotion
    pc,        \* where each worker is
    step,      \* the step each worker is at
    status,    \* the status each worker's routine ended with
    worker,    \* run_live's worker
    keys,      \* where the keyboard loop is
    stops,     \* how many x keys so far
    lit,       \* the robot: the run that each output still shows something of
    safe,      \* the robot: whether fresh telemetry allows a performance
    marks      \* what the properties remember

driver == <<cancel, deadline, emotion>>
stageVars == <<cancel, deadline, emotion, pc, step, status, worker, keys, stops,
          lit, safe, marks>>

(* Per run: was x pressed after its thread had started, and after          *)
(* begin_routine; did its time run out; how many outputs were sent after   *)
(* the second, and after the third while no x was pressed; was an output   *)
(* decided on or on its way at the x, or a call that clears one refused.   *)
Clean == [pressed |-> FALSE, stopped |-> FALSE, expired |-> FALSE,
          sinceStop |-> 0, sinceExpiry |-> 0, missed |-> FALSE]

StageInit == /\ cancel = FALSE /\ deadline = Nothing /\ emotion = Nothing
             /\ pc = [r \in Runs |-> "unborn"]
             /\ step = [r \in Runs |-> 1]
             /\ status = [r \in Runs |-> Nothing]
             /\ worker = Nothing
             /\ keys = "read"
             /\ stops = 0
             /\ lit = [output \in Outputs |-> Nothing]
             /\ safe \in BOOLEAN
             /\ marks = [r \in Runs |-> Clean]

Alive(r) == pc[r] \notin {"unborn", "gone"}

At(r, label) == r # Nothing /\ pc[r] = label
Goto(r, label) == pc' = [pc EXCEPT ![r] = label]

-----------------------------------------------------------------------------
(* The worker: execute_key.                                                *)

(* Mutant: the flag of the last stop is not cleared.                       *)
BeginStopped(r) == /\ At(r, "born")
                   /\ deadline' = "ahead" /\ emotion' = Nothing
                   /\ Goto(r, "open")
                   /\ UNCHANGED <<cancel, step, status, worker, keys, stops, lit, safe, marks>>

(* begin_routine: forget the last stop, set this routine's deadline.       *)
BeginRoutine(r) == /\ At(r, "born")
                   /\ cancel' = FALSE /\ deadline' = "ahead" /\ emotion' = Nothing
                   /\ Goto(r, "open")
                   /\ UNCHANGED <<step, status, worker, keys, stops, lit, safe, marks>>

End(r, result) == /\ status' = [status EXCEPT ![r] = result]
                  /\ Goto(r, "ended")
                  /\ UNCHANGED step

(* The end of a step, after the last of them the routine is completed.     *)
Advance(r) == IF step[r] = Len(Routine) THEN End(r, "completed")
              ELSE /\ step' = [step EXCEPT ![r] = @ + 1]
                   /\ Goto(r, "checkFlag")
                   /\ UNCHANGED status

(* Mutant: on_failure = continue tries the step again.                     *)
FailedRetrying(r) == IF Routine[step[r]].onFailure = "abort" THEN End(r, "failed")
                     ELSE Goto(r, "checkFlag") /\ UNCHANGED <<step, status>>

(* An exception other than a cancellation, in the current step.            *)
Failed(r) == IF Routine[step[r]].onFailure = "abort" THEN End(r, "failed")
             ELSE Advance(r)

(* run(): the routine opens when the context allows it.                    *)
Open(r) == /\ At(r, "open")
           /\ IF safe THEN Goto(r, "checkFlag") /\ UNCHANGED <<step, status>>
              ELSE End(r, "blocked")
           /\ UNCHANGED <<driver, worker, keys, stops, lit, safe, marks>>

(* _check_cancelled, before a step ("check") and before its pause          *)
(* ("pause"): first the flag, then the deadline, which the operator's stop *)
(* may remove in between or between its two reads.                         *)
FlagOf(where)     == IF where = "check" THEN "checkFlag" ELSE "pauseFlag"
DeadlineOf(where) == IF where = "check" THEN "checkDeadline" ELSE "pauseDeadline"

CheckFlag(r) == \E where \in {"check", "pause"} :
    /\ At(r, FlagOf(where))
    /\ IF cancel THEN End(r, "cancelled")
       ELSE Goto(r, DeadlineOf(where)) /\ UNCHANGED <<step, status>>
    /\ UNCHANGED <<driver, worker, keys, stops, lit, safe, marks>>

(* Mutant: a passed deadline goes unnoticed.                               *)
InTimeAlways == TRUE

InTime == deadline \in {"ahead", Nothing}

Checked(r, where) == Goto(r, IF where = "check" THEN "act" ELSE "subtract")
                     /\ UNCHANGED <<step, status>>

CheckDeadline(r) == \E where \in {"check", "pause"} :
    /\ At(r, DeadlineOf(where))
    /\ \/ InTime /\ Checked(r, where)
       \/ deadline \in {"past", Nothing} /\ Failed(r)
    /\ UNCHANGED <<driver, worker, keys, stops, lit, safe, marks>>

(* execute(): a body action or a missing emotion is skipped, a wait only   *)
(* pauses, an output first looks at the robot's state.                     *)
Execute(r) ==
    LET action == Routine[step[r]].action IN
    /\ At(r, "act")
    /\ CASE action = "native_dag" -> Advance(r)
         [] action = "wait"       -> Goto(r, "pauseFlag") /\ UNCHANGED <<step, status>>
         [] ~safe                 -> Failed(r)
         [] action = "emotion" /\ ~HasEmotion -> Advance(r)
         [] OTHER                 -> Goto(r, "send") /\ UNCHANGED <<step, status>>
    /\ UNCHANGED <<driver, worker, keys, stops, lit, safe, marks>>

(* The output is sent: from here it is on its way whatever the operator    *)
(* does.                                                                   *)
Send(r) ==
    /\ At(r, "send")
    /\ Goto(r, "sent")
    /\ emotion' = IF Routine[step[r]].action = "emotion" THEN "shown" ELSE emotion
    /\ marks' = [marks EXCEPT
           ![r].sinceStop   = IF marks[r].stopped THEN @ + 1 ELSE @,
           ![r].sinceExpiry = IF marks[r].expired /\ ~marks[r].pressed THEN @ + 1 ELSE @]
    /\ UNCHANGED <<cancel, deadline, step, status, worker, keys, stops, lit, safe>>

Shown(r) == [lit EXCEPT ![Routine[step[r]].action] = r]

Answered(r) == /\ At(r, "sent")
               /\ lit' = Shown(r)
               /\ Goto(r, "pauseFlag")
               /\ UNCHANGED <<driver, step, status, worker, keys, stops, safe, marks>>

(* The call raises, with or without its effect.                            *)
OutputFails(r) == /\ CallsFail
                  /\ At(r, "sent")
                  /\ \/ lit' = lit
                     \/ lit' = Shown(r)
                  /\ Failed(r)
                  /\ UNCHANGED <<driver, worker, keys, stops, safe, marks>>

(* _pace: how long to wait is computed from the deadline, a timeout when   *)
(* nothing is left, a TypeError when the stop has removed the deadline     *)
(* since the first look.                                                   *)
Subtract(r) == /\ At(r, "subtract")
               /\ \/ deadline # "past" /\ Goto(r, "wait") /\ UNCHANGED <<step, status>>
                  \/ deadline # "ahead" /\ Failed(r)
               /\ UNCHANGED <<driver, worker, keys, stops, lit, safe, marks>>

(* The wait ends early when the flag is set, with a timeout when less time *)
(* was left than the step needs, and else with the step.                   *)
Wait(r) == /\ At(r, "wait")
           /\ IF cancel THEN End(r, "cancelled")
              ELSE \/ Advance(r)
                   \/ deadline = "past" /\ Failed(r)
           /\ UNCHANGED <<driver, worker, keys, stops, lit, safe, marks>>

(* The finally clause of execute_key, and the end of the thread.           *)
Release(r) == /\ At(r, "ended")
              /\ worker' = Nothing
              /\ Goto(r, "gone")
              /\ UNCHANGED <<driver, step, status, keys, stops, lit, safe, marks>>

Play(r) == \/ BeginRoutine(r) \/ Open(r) \/ CheckFlag(r) \/ CheckDeadline(r) \/ Execute(r)
           \/ Send(r) \/ Answered(r) \/ OutputFails(r) \/ Subtract(r) \/ Wait(r)
           \/ Release(r)

-----------------------------------------------------------------------------
(* The keyboard loop.                                                      *)

Busy == worker # Nothing /\ Alive(worker)

(* A number key starts a thread when no routine is running.                *)
Cue(r) == /\ keys = "read"
          /\ pc[r] = "unborn" /\ \A q \in Runs : q < r => pc[q] # "unborn"
          /\ ~Busy
          /\ worker' = r
          /\ Goto(r, "born")
          /\ UNCHANGED <<driver, step, status, keys, stops, lit, safe, marks>>

(* Past the look at the flag, and before the robot's answer.               *)
UnderWay == {"checkDeadline", "act", "send", "sent"}

(* x, or q during a routine: request_stop sets the flag,                   *)
Stop == /\ keys = "read" /\ stops < MaxStops
        /\ stops' = stops + 1
        /\ cancel' = TRUE
        /\ keys' = "unlimit"
        /\ marks' = [r \in Runs |->
                        [marks[r] EXCEPT !.pressed = @ \/ Alive(r),
                                         !.stopped = @ \/ (Alive(r) /\ pc[r] # "born"),
                                         !.missed = @ \/ pc[r] \in UnderWay]]
        /\ UNCHANGED <<deadline, emotion, pc, step, status, worker, lit, safe>>

(* Mutant: the stop does not ask which emotion is shown.                   *)
UnlimitPlain == /\ keys = "unlimit"
                /\ deadline' = Nothing
                /\ keys' = "light"
                /\ UNCHANGED <<cancel, emotion, pc, step, status, worker, stops, lit, safe, marks>>

(* removes the deadline, and reads which emotion to end;                   *)
Unlimit == /\ keys = "unlimit"
           /\ deadline' = Nothing
           /\ keys' = IF emotion = Nothing THEN "light" ELSE "light, emotion"
           /\ UNCHANGED <<cancel, emotion, pc, step, status, worker, stops, lit, safe, marks>>

(* then it clears the outputs one call after the other.  A call that       *)
(* raises is recorded and the next one made.                               *)
Clear(here, output, next) ==
    /\ keys = here
    /\ keys' = next
    /\ \/ lit' = [lit EXCEPT ![output] = Nothing] /\ marks' = marks
       \/ /\ CallsFail /\ lit' = lit
          /\ marks' = [r \in Runs |-> [marks[r] EXCEPT !.missed = TRUE]]
    /\ UNCHANGED <<driver, pc, step, status, worker, stops, safe>>

ClearLight   == \/ Clear("light", "light", "say")
                \/ Clear("light, emotion", "light", "say, emotion")
ClearSpeech  == \/ Clear("say", "say", "head")
                \/ Clear("say, emotion", "say", "emotion")
ClearEmotion == Clear("emotion", "emotion", "head")
ClearHead    == Clear("head", "head", "read")

Operator == \/ \E r \in Runs : Cue(r)
            \/ Stop \/ Unlimit
            \/ ClearLight \/ ClearSpeech \/ ClearEmotion \/ ClearHead

(* The routine's time runs out; the robot becomes unfit or fit to perform. *)
TimeIsUp == /\ deadline = "ahead"
            /\ deadline' = "past"
            /\ marks' = [r \in Runs |->
                  [marks[r] EXCEPT !.expired = @ \/ (Alive(r) /\ pc[r] # "born")]]
            /\ UNCHANGED <<cancel, emotion, pc, step, status, worker, keys, stops, lit, safe>>

RobotChanges == /\ safe' = ~safe
                /\ UNCHANGED <<driver, pc, step, status, worker, keys, stops, lit, marks>>

(* Light, speech and emotion end by themselves, and the bridge turns the   *)
(* head back (scripts/agenticros_bridge.py, reset_head) when it can.       *)
Fades == \E output \in Outputs :
    /\ lit[output] # Nothing /\ lit' = [lit EXCEPT ![output] = Nothing]
    /\ UNCHANGED <<driver, pc, step, status, worker, keys, stops, safe, marks>>

StageNext == \/ \E r \in Runs : Play(r)
             \/ Operator
             \/ TimeIsUp \/ RobotChanges \/ Fades

StageSpec == StageInit /\ [][StageNext]_stageVars

Fairness == \A r \in Runs : WF_stageVars(Play(r))

FairSpec == StageSpec /\ Fairness

-----------------------------------------------------------------------------
Labels == {"unborn", "born", "open", "checkFlag", "checkDeadline", "act", "send", "sent",
           "pauseFlag", "pauseDeadline", "subtract", "wait", "ended", "gone"}

StageTypeOK ==
    /\ cancel \in BOOLEAN /\ deadline \in {Nothing, "ahead", "past"}
    /\ emotion \in {Nothing, "shown"}
    /\ pc \in [Runs -> Labels] /\ step \in [Runs -> 1 .. Len(Routine)]
    /\ status \in [Runs -> Results \cup {Nothing}]
    /\ worker \in Runs \cup {Nothing} /\ stops \in 0 .. MaxStops
    /\ keys \in {"read", "unlimit", "light", "light, emotion", "say", "say, emotion",
                 "emotion", "head"}
    /\ lit \in [Outputs -> Runs \cup {Nothing}] /\ safe \in BOOLEAN
    /\ marks \in [Runs -> [pressed : BOOLEAN, stopped : BOOLEAN, expired : BOOLEAN,
                           sinceStop : Nat, sinceExpiry : Nat, missed : BOOLEAN]]

(* Once the operator has stopped a routine that had begun, at most one     *)
(* more output of it goes to the robot, the one whose last check had       *)
(* passed; and the same once its time has run out.  on_failure = continue  *)
(* changes neither.  (An x pressed before begin_routine is forgotten, and  *)
(* takes the deadline away when begin_routine has just set it.)            *)
AtMostOneLateOutput ==
    \A r \in Runs : marks[r].sinceStop <= 1 /\ marks[r].sinceExpiry <= 1

(* A routine is reported as cancelled only when the operator stopped it: a *)
(* stop pressed before it, or between two routines, does not carry over.   *)
CancelledWasStopped == \A r \in Runs : status[r] = "cancelled" => marks[r].stopped

(* apps/demo_choreo/README.md:52, x stops the routine and clears its short *)
(* outputs: when the stop has made its calls and none of them was refused, *)
(* the robot shows nothing more of the routine, except of an output that   *)
(* had been decided on, or was on its way, when x was pressed.             *)
StopClears ==
    \A r \in Runs :
        keys = "read" /\ marks[r].stopped /\ ~marks[r].missed
            => r \notin {lit[output] : output \in Outputs}

(* Every routine ends, with whatever failures, and the keys are free again.*)
RoutineEnds == \A r \in Runs : Alive(r) ~> ~Alive(r)
=============================================================================
