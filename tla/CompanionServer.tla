--------------------------- MODULE CompanionServer ---------------------------
(***************************************************************************)
(* The live companion, apps/companion/server.py: the policy of module      *)
(* Companion behind one lock, driven by three parties.                     *)
(*   - The worker loop samples the sensors, ticks the engine, takes one    *)
(*     decided action from the queue and carries it out through PetAdapter:*)
(*     one to four native calls, each dispatched under the lock after a    *)
(*     fresh look at sensors, engine and epoch.                            *)
(*   - HTTP handlers deliver the operator's start, pause, reset_fault and  *)
(*     preference between any two of those steps, but never during a call: *)
(*     the lock is held until the robot has answered.                      *)
(*   - The process may be stopped, or die, and be started again from the   *)
(*     memory file.                                                        *)
(* The ghost variables never guard a step.  The simulated mode, which      *)
(* calls nothing and takes observations from HTTP, is not modelled.        *)
(***************************************************************************)
EXTENDS Companion

CONSTANTS
    Null,
    Steps,        \* the numbers of native calls an action's profile may have
    TouchTTL,     \* the literal 2 of Sensors.take_touch
    QueueLimit,   \* the literal 4 of main(), the queue's maxlen
    WriteMayFail, \* whether writing the memory file can raise OSError
    MaxEvents     \* bound on the operator's requests and on restarts

ASSUME ServerAssumption == /\ Steps \subseteq Nat \ {0}
                           /\ TouchTTL \in Nat /\ -Never > TouchTTL
                           /\ QueueLimit \in Nat
                           /\ WriteMayFail \in BOOLEAN /\ MaxEvents \in Nat

(* A queued decision, and the one being carried out.                       *)
Decision == [epoch : Nat, act : Actions, cuts : Nat]
Job      == [item : Decision, left : Nat \ {0}, phase : {"between", "calling", "failed"}]
Memories == [ignored : Nat, interactions : Nat, preference : Modes]

ASSUME NullAssumption == Null \notin Observation \cup Memories \cup Decision \cup Job

VARIABLES
    srv,       \* what the lock protects, and the memory file
    now,       \* the monotonic clock
    looped,    \* when the worker loop last ran
    world,     \* what Sensors.observation would return, Null when not fresh
    touchedAt, \* the touch edge waiting to be taken
    job,       \* the action the worker is carrying out
    running,   \* FALSE once the server was told to stop, or died
    events,    \* how many requests and restarts so far
    ghost      \* what the properties remember

serverVars == <<srv, now, looped, world, touchedAt, job, running, events, ghost>>

(* "saved" is last_memory; "ok" falls to FALSE when an exception leaves    *)
(* apply(), and the rest of the caller is skipped.                         *)
NewServer(memory) == [e |-> NewEngine(memory), epoch |-> 0, pending |-> <<>>,
                      saved |-> Null, file |-> memory, ok |-> TRUE]

(* "cuts" counts the interruptions the operator and the shutdown made, the *)
(* number of them is noted on each decision; "clear" says what a failure   *)
(* still waits for.                                                        *)
ServerInit == /\ srv = NewServer(NoMemory)
              /\ now = 0 /\ looped = -1
              /\ world = Null
              /\ touchedAt = Never
              /\ job = Null
              /\ running = TRUE
              /\ events = 0
              /\ ghost = [cuts |-> 0, clear |-> "start"]

-----------------------------------------------------------------------------
(* Mutant: last_memory is set before the write is tried.                   *)
PersistEarly(s, writes) ==
    IF Memory(s.e) = s.saved THEN s
    ELSE IF writes THEN [s EXCEPT !.saved = Memory(s.e), !.file = Memory(s.e)]
    ELSE [s EXCEPT !.saved = Memory(s.e), !.ok = FALSE]

(* persist(): the file is replaced in one step when the memory changed.    *)
(* When the write raises, neither the file nor last_memory has moved.      *)
Persist(s, writes) ==
    IF Memory(s.e) = s.saved THEN s
    ELSE IF writes THEN [s EXCEPT !.saved = Memory(s.e), !.file = Memory(s.e)]
    ELSE [s EXCEPT !.ok = FALSE]

Interrupts == {"pause", "reset_fault", "failure", "preference", "touch"}

(* The queue is a deque of bounded length: what is one too many pushes the *)
(* oldest decision out.                                                    *)
Enqueue(q, new) ==
    LET all  == q \o new
        lost == IF Len(all) > QueueLimit THEN Len(all) - QueueLimit ELSE 0
    IN  SubSeq(all, lost + 1, Len(all))

(* Mutant: an interruption empties the queue and keeps the epoch.          *)
ApplyKeepingEpoch(s, ev, d, writes) ==
    IF ~s.ok THEN s
    ELSE LET r == Event(s.e, now, ev, d)
             q == IF ev.kind \in {"pause", "reset_fault", "failure", "preference", "touch"}
                     \/ Blocked(r.e, now)
                  THEN <<>> ELSE s.pending
         IN  Persist([s EXCEPT !.e = r.e,
                               !.pending = Enqueue(q, [i \in 1 .. Len(r.acts) |->
                                   [epoch |-> s.epoch, act |-> r.acts[i],
                                    cuts |-> ghost.cuts]])], writes)

(* apply(): an interrupting event, and any event after which the engine is *)
(* blocked, moves to a new epoch and empties the queue.                    *)
ApplyEvent(s, ev, d, writes) ==
    IF ~s.ok THEN s
    ELSE LET r   == Event(s.e, now, ev, d)
             cut == ev.kind \in Interrupts \/ Blocked(r.e, now)
             ep  == IF cut THEN s.epoch + 1 ELSE s.epoch
             q   == IF cut THEN <<>> ELSE s.pending
         IN  Persist([s EXCEPT !.e = r.e, !.epoch = ep,
                               !.pending = Enqueue(q, [i \in 1 .. Len(r.acts) |->
                                   [epoch |-> ep, act |-> r.acts[i],
                                    cuts |-> ghost.cuts]])], writes)

Calling == job # Null /\ job.phase = "calling"

(* Mutant: the lock is released before the call.                           *)
LockAlwaysFree == TRUE

LockFree == ~Calling

(* The middle of loop() when the sensors have nothing fresh, or an         *)
(* observation.                                                            *)
Sampled(s, d, writes) ==
    IF world = Null THEN [s EXCEPT !.e.seenAt = Never]
    ELSE ApplyEvent(s, Sample(world), d, writes)

Touched(s, d, writes) ==
    IF now - touchedAt < TouchTTL THEN ApplyEvent(s, Control("touch", "free"), d, writes) ELSE s

(* Mutant: an exception only empties the queue.                            *)
RecoverSilently(s) == [s EXCEPT !.pending = <<>>, !.ok = TRUE]

(* The worker's outer exception handler.                                   *)
Recover(s) == [s EXCEPT !.e = Event(@, now, Control("failure", "free"),
                                    [sociable |-> FALSE, curious |-> FALSE,
                                     tired |-> FALSE]).e,
                        !.pending = <<>>, !.ok = TRUE]

(* Take the oldest decision, and drop it unless it is of this epoch and    *)
(* the engine is neither paused nor at fault.                              *)
Taken(s) ==
    IF s.pending = <<>> THEN Null
    ELSE LET item == s.pending[1]
         IN  IF item.epoch # s.epoch \/ s.e.state \in Halted THEN Null ELSE item

(* One round of loop(), up to the end of its first "with lock" block.  The *)
(* worker may have passed its look at "stopped" just before a shutdown.    *)
LoopRound == \E d \in Drives, writes \in {TRUE, ~WriteMayFail}, steps \in Steps :
    LET s == ApplyEvent(Touched(Sampled(srv, d, writes), d, writes),
                   Control("tick", "free"), d, writes)
        item == Taken(s)
    IN  /\ LockFree /\ job = Null
        /\ looped # now
        /\ looped' = now
        /\ touchedAt' = Never
        /\ srv' = IF ~s.ok THEN Recover(s)
                  ELSE IF s.pending = <<>> THEN s
                  ELSE [s EXCEPT !.pending = Tail(@)]
        /\ job' = IF ~s.ok \/ item = Null THEN Null
                  ELSE [item |-> item, left |-> steps, phase |-> "between"]
        /\ ghost' = [ghost EXCEPT !.clear = IF s.ok THEN @ ELSE "reset"]
        /\ UNCHANGED <<now, world, running, events>>

(* dispatch(): the last look before a native call.                         *)
MayCall == /\ world # Null
           /\ world.hold = "none" /\ world.present
           /\ job.item.epoch = srv.epoch
           /\ srv.e.state \notin Halted
           /\ ~Blocked(srv.e, now)

CallStarts == /\ job # Null /\ job.phase = "between" /\ MayCall
              /\ job' = [job EXCEPT !.phase = "calling"]
              /\ UNCHANGED <<srv, now, looped, world, touchedAt, running, events, ghost>>

(* The action is reported as cancelled, with the steps that were done.     *)
Cancelled == /\ job # Null /\ job.phase = "between" /\ ~MayCall
             /\ job' = Null
             /\ UNCHANGED <<srv, now, looped, world, touchedAt, running, events, ghost>>

CallSucceeds == /\ Calling
                /\ job' = IF job.left = 1 THEN Null
                          ELSE [job EXCEPT !.left = @ - 1, !.phase = "between"]
                /\ UNCHANGED <<srv, now, looped, world, touchedAt, running, events, ghost>>

(* The call raises: dispatch() releases the lock, and only then does the   *)
(* worker take it again to record the failure.                             *)
CallFails == /\ Calling
             /\ job' = [job EXCEPT !.phase = "failed"]
             /\ UNCHANGED <<srv, now, looped, world, touchedAt, running, events, ghost>>

FailureRecorded == \E d \in Drives, writes \in {TRUE, ~WriteMayFail} :
    LET s == ApplyEvent(srv, Control("failure", "free"), d, writes)
    IN  /\ job # Null /\ job.phase = "failed"
        /\ srv' = IF s.ok THEN s ELSE Recover(s)
        /\ job' = Null
        /\ ghost' = [ghost EXCEPT !.clear = "reset"]
        /\ UNCHANGED <<now, looped, world, touchedAt, running, events>>

-----------------------------------------------------------------------------
(* What a request leaves of the approvals the operator still owes: after a *)
(* failure a reset_fault and then a start, after anything else that halts  *)
(* the engine a start.                                                     *)
Cleared(clear, kind) == CASE kind = "reset_fault"                 -> "start"
                          [] kind = "start" /\ clear = "start"    -> "none"
                          [] kind = "pause" /\ clear = "none"     -> "start"
                          [] OTHER                                -> clear

(* do_POST: the request is applied under the lock.  An OSError from the    *)
(* memory file ends the handler without a reply; what apply() had done by  *)
(* then stays.                                                             *)
Post(kind, mode) == \E d \in Drives, writes \in {TRUE, ~WriteMayFail} :
    /\ running /\ LockFree
    /\ events < MaxEvents
    /\ events' = events + 1
    /\ srv' = [ApplyEvent(srv, Control(kind, mode), d, writes) EXCEPT !.ok = TRUE]
    /\ ghost' = [ghost EXCEPT !.cuts = IF kind = "start" THEN @ ELSE @ + 1,
                              !.clear = Cleared(@, kind)]
    /\ UNCHANGED <<now, looped, world, touchedAt, job, running>>

Start      == Post("start", "free")
Pause      == Post("pause", "free")
ResetFault == Post("reset_fault", "free")
Prefer     == \E mode \in Modes : Post("preference", mode)

(* The end of main(): the queue is emptied and the engine paused, without  *)
(* a new epoch and without saving.                                         *)
Shutdown == /\ running /\ LockFree
            /\ running' = FALSE
            /\ srv' = [srv EXCEPT !.pending = <<>>, !.e.state = "paused"]
            /\ ghost' = [ghost EXCEPT !.cuts = @ + 1]
            /\ UNCHANGED <<now, looped, world, touchedAt, job, events>>

(* The process ends, stopped or killed, and main() runs again from the     *)
(* memory file.  A native call that was under way is the robot's to finish.*)
Restart == /\ events < MaxEvents
           /\ events' = events + 1
           /\ srv' = NewServer(srv.file)
           /\ job' = Null
           /\ running' = TRUE
           /\ touchedAt' = Never
           /\ world' = Null
           /\ looped' = now
           /\ ghost' = [ghost EXCEPT !.cuts = @ + 1, !.clear = "start"]
           /\ UNCHANGED now

TimePasses == /\ now < MaxTime
              /\ now' = now + 1
              /\ UNCHANGED <<srv, looped, world, touchedAt, job, running, events, ghost>>

(* The robot's topics change what an observation would say, at any time.   *)
WorldChanges == \E obs \in Observation \cup {Null} :
    /\ running /\ obs # world
    /\ world' = obs
    /\ UNCHANGED <<srv, now, looped, touchedAt, job, running, events, ghost>>

TouchFelt == /\ running /\ touchedAt # now
             /\ touchedAt' = now
             /\ UNCHANGED <<srv, now, looped, world, job, running, events, ghost>>

ServerNext == \/ LoopRound \/ CallStarts \/ Cancelled \/ CallSucceeds \/ CallFails
              \/ FailureRecorded
              \/ Start \/ Pause \/ ResetFault \/ Prefer
              \/ Shutdown \/ Restart
              \/ TimePasses \/ WorldChanges \/ TouchFelt

ServerSpec == ServerInit /\ [][ServerNext]_serverVars

-----------------------------------------------------------------------------
ServerTypeOK ==
    /\ EngineTypeOK(srv.e) /\ srv.epoch \in Nat /\ srv.ok
    /\ srv.pending \in Seq(Decision) /\ Len(srv.pending) <= QueueLimit
    /\ srv.saved \in {Null, srv.file} /\ srv.file \in Memories
    /\ now \in 0 .. MaxTime /\ looped \in -1 .. now
    /\ world \in Observation \cup {Null} /\ touchedAt \in 0 .. now \cup {Never}
    /\ job \in Job \cup {Null}
    /\ running \in BOOLEAN /\ events \in 0 .. MaxEvents
    /\ ghost \in [cuts : Nat, clear : {"reset", "start", "none"}]

(* Once a pause, a reset, a preference or the shutdown is accepted, no     *)
(* native call of an action that was decided before it ever starts: not    *)
(* from the queue, and not the rest of the action under way.               *)
NoCallAfterInterrupt ==
    [][~Calling /\ Calling' => job.item.cuts = ghost.cuts]_serverVars

(* While the engine is paused or at fault no native call is running: the   *)
(* operator's pause is acknowledged only when the robot is done.           *)
HaltedIsQuiet == Calling => srv.e.state \notin Halted

(* After a failure no native call runs until the operator has reset the    *)
(* fault and then started the companion again, and after a pause, a        *)
(* restart or a shutdown not until it was started again.                   *)
FaultNeedsApproval == Calling => ghost.clear = "none"

(* The companion acts only with its memory on disk: a write that failed    *)
(* stops it before the next native call.                                   *)
ActsOnSavedMemory == [][~Calling /\ Calling' => srv.file = Memory(srv.e)]_serverVars

=============================================================================
