------------------------------ MODULE Companion ------------------------------
(***************************************************************************)
(* The companion's behaviour policy, apps/companion/engine.py: a state     *)
(* machine with injected time that greets whoever arrives, invites them to *)
(* interact, backs off when it is ignored, and stays silent whenever the   *)
(* surroundings forbid it.                                                 *)
(*                                                                         *)
(* The engine is the record "e"; Event returns the engine after one call   *)
(* of Companion.event, and the actions that the call returns.  The three   *)
(* drives (social need, curiosity, fatigue) are real-valued in the code    *)
(* and only compared with a threshold: each call takes any outcome of the  *)
(* three comparisons, so nothing here depends on their rates.              *)
(***************************************************************************)
EXTENDS Integers, Sequences

CONSTANTS
    ResponseWindow, InteractionWindow, InvitationCooldown, MaxCooldown,
    ObservationTTL, ArrivalStability, GreetingWindow, AbsenceRearm,
    InvitationBudget, ProactiveBudget, BudgetWindow, IdleInterval, RestWindow,
    TouchGap,         \* the literal 6 of event()
    IgnoredCap,       \* the literal 10 of tick()
    Never,            \* float('-inf'), and None for the two "since" fields
    Holds,            \* the reasons, besides absence, to keep still
    MaxTime           \* bound on the clock

Windows == {ResponseWindow, InteractionWindow, InvitationCooldown, MaxCooldown,
            ObservationTTL, ArrivalStability, GreetingWindow, AbsenceRearm,
            BudgetWindow, IdleInterval, RestWindow, TouchGap}

ASSUME WindowsAssumption == Windows \subseteq Nat
ASSUME NeverAssumption   == Never \in Int /\ \A w \in Windows : -Never > w
ASSUME BoundsAssumption  == {InvitationBudget, ProactiveBudget, IgnoredCap, MaxTime}
                                \subseteq Nat
ASSUME HoldsAssumption   == "none" \in Holds /\ Holds \subseteq {"none", "busy", "low"}

Halted      == {"paused", "fault"}
Modes       == {"free", "quiet", "rest"}
EngineState == Halted \cup {"quiet", "resting", "attending", "inviting", "interacting"}
Actions     == {"greet", "invite", "look_around", "acknowledge"}

(* An observation: is somebody there, and what else forbids an action.     *)
(* "low" stands for charging or a battery at 25% or less; until the first  *)
(* observation the engine's own hold is "unknown".                         *)
Observation == [present : BOOLEAN, hold : Holds]

(* The engine: a mode, what it last saw, and the times it compares with;   *)
(* the two lists hold the times of what it did unasked.                    *)
Engine == [state : EngineState, fault : BOOLEAN, preference : Modes,
           present : BOOLEAN, hold : Holds \cup {"unknown"}, seenAt : Int,
           deadline : Int, nextInvitation : Int, ignored : Nat, interactions : Nat,
           presentSince : Int, absentSince : Int, greetingPending : BOOLEAN,
           lastTouch : Int, lastIdle : Int, invitations : Seq(Int),
           proactive : Seq(Int), restUntil : Int]

(* tick() appends to either list only while its budget has room.           *)
EngineTypeOK(e) == /\ e \in Engine
                   /\ Len(e.invitations) <= InvitationBudget
                   /\ Len(e.proactive) <= ProactiveBudget

(* The outcomes of the three threshold comparisons.                        *)
Drives == [sociable : BOOLEAN, curious : BOOLEAN, tired : BOOLEAN]

Memory(e) == [ignored |-> e.ignored, interactions |-> e.interactions,
              preference |-> e.preference]

NoMemory == [ignored |-> 0, interactions |-> 0, preference |-> "free"]

(* Companion.__init__: everything but the memory starts afresh.  The clock *)
(* is monotonic and far beyond every window, so last_idle = 0 is long ago. *)
NewEngine(memory) ==
    [state |-> "paused", fault |-> FALSE, preference |-> memory.preference,
     present |-> FALSE, hold |-> "unknown", seenAt |-> Never,
     deadline |-> 0, nextInvitation |-> 0,
     ignored |-> memory.ignored, interactions |-> memory.interactions,
     presentSince |-> Never, absentSince |-> Never, greetingPending |-> TRUE,
     lastTouch |-> Never, lastIdle |-> Never,
     invitations |-> <<>>, proactive |-> <<>>, restUntil |-> 0]

-----------------------------------------------------------------------------
Blocked(e, t) == \/ t - e.seenAt >= ObservationTTL
                 \/ e.hold # "none"
                 \/ e.preference # "free"
                 \/ ~e.present

(* Where a blocked engine settles.                                         *)
Settle(e) ==
    [e EXCEPT !.state = IF e.hold = "low" \/ e.preference = "rest"
                        THEN "resting" ELSE "quiet"]

Silent(e) == [e |-> e, acts |-> <<>>]

(* Mutant: looking around is not counted as unasked.                       *)
ChooseFreely(e, act, state, t) ==
    [e |-> [e EXCEPT !.state = state, !.lastIdle = t,
                     !.proactive = IF act \in {"acknowledge", "look_around"}
                                   THEN @ ELSE Append(@, t)],
     acts |-> <<act>>]

Choose(e, act, state, t) ==
    [e |-> [e EXCEPT !.state = state, !.lastIdle = t,
                     !.proactive = IF act = "acknowledge" THEN @ ELSE Append(@, t)],
     acts |-> <<act>>]

(* The comprehensions of tick(): what of times lies within the window, in  *)
(* its order.                                                              *)
Recent(times, t) ==
    LET kept[i \in 0 .. Len(times)] ==
            IF i = 0 THEN <<>>
            ELSE IF t - times[i] < BudgetWindow THEN Append(kept[i - 1], times[i])
            ELSE kept[i - 1]
    IN  kept[Len(times)]

Backoff(n) == LET delay == InvitationCooldown * 2^n
              IN  IF delay < MaxCooldown THEN delay ELSE MaxCooldown

Restless(e, t, d) == e.ignored = 0 /\ d.curious /\ t - e.lastIdle >= IdleInterval

(* The end of tick(): a calm engine invites, looks around or stays quiet.  *)
Idle(e, t, d) ==
    LET f == [e EXCEPT !.invitations = Recent(@, t)]
        room == Len(f.proactive) < ProactiveBudget
    IN  IF /\ room /\ t >= f.nextInvitation /\ d.sociable
           /\ Len(f.invitations) < InvitationBudget
        THEN Choose([f EXCEPT !.deadline = t + ResponseWindow,
                              !.nextInvitation = t + Backoff(f.ignored),
                              !.invitations = Append(@, t)], "invite", "inviting", t)
        ELSE IF room /\ Restless(f, t, d)
        THEN Choose(f, "look_around", "quiet", t)
        ELSE Silent([f EXCEPT !.state = "quiet"])

(* Mutant: the delay is computed before the invitation counts as ignored.  *)
IgnoredPolitely(e, t) ==
    [e EXCEPT !.ignored = IF @ < IgnoredCap THEN @ + 1 ELSE IgnoredCap,
              !.nextInvitation = t + Backoff(e.ignored), !.state = "quiet"]

Ignored(e, t) ==
    LET n == IF e.ignored < IgnoredCap THEN e.ignored + 1 ELSE IgnoredCap
    IN  [e EXCEPT !.ignored = n, !.nextInvitation = t + Backoff(n), !.state = "quiet"]

(* The middle of tick(): an invitation or an interaction that is running   *)
(* keeps its state up to its deadline; an invitation that reaches it was   *)
(* ignored.                                                                *)
Awaiting(e, t, d) ==
    IF e.state \notin {"inviting", "interacting"} THEN Idle(e, t, d)
    ELSE IF t < e.deadline THEN Silent(e)
    ELSE IF e.state = "interacting" THEN Silent([e EXCEPT !.state = "quiet"])
    ELSE Silent(Ignored(e, t))

Greeting(e, t, d) ==
    IF ~e.greetingPending THEN Awaiting(e, t, d)
    ELSE IF \/ Len(e.proactive) >= ProactiveBudget
            \/ e.presentSince = Never
            \/ t - e.presentSince < ArrivalStability
    THEN Silent([e EXCEPT !.state = "quiet"])
    ELSE Choose([e EXCEPT !.greetingPending = FALSE, !.deadline = t + GreetingWindow],
                "greet", "attending", t)

(* Companion.tick: the early returns first, then the proactive choices     *)
(* over the budget that is left in the window.                             *)
Tick(e, t, d) ==
    IF e.state \in Halted THEN Silent(e)
    ELSE IF Blocked(e, t) THEN Silent(Settle(e))
    ELSE IF e.state = "resting" /\ t < e.restUntil THEN Silent(e)
    ELSE IF d.tired THEN Silent([e EXCEPT !.restUntil = t + RestWindow, !.state = "resting"])
    ELSE IF e.state = "attending" /\ t < e.deadline THEN Silent(e)
    ELSE Greeting([e EXCEPT !.state = IF @ = "attending" THEN "quiet" ELSE @,
                            !.proactive = Recent(@, t)], t, d)

(* Somebody comes back after a long absence.                               *)
Rearmed(e, t) == /\ ~e.present /\ e.absentSince # Never
                 /\ t - e.absentSince >= AbsenceRearm

(* Mutant: an absence does not end the presence before it.                 *)
ObserveSticking(e, t, obs) ==
    LET seen == [e EXCEPT !.present = obs.present, !.hold = obs.hold, !.seenAt = t]
    IN  IF obs.present
        THEN [seen EXCEPT
                !.presentSince = IF @ = Never THEN t ELSE @,
                !.greetingPending = @ \/ Rearmed(e, t),
                !.absentSince = Never]
        ELSE [seen EXCEPT !.absentSince = IF @ = Never THEN t ELSE @]

(* The observation branch of event(): presence and absence are dated by    *)
(* the observations that changed them, and a long absence re-arms the      *)
(* greeting.                                                               *)
Observe(e, t, obs) ==
    LET seen == [e EXCEPT !.present = obs.present, !.hold = obs.hold, !.seenAt = t]
    IN  IF obs.present
        THEN [seen EXCEPT
                !.presentSince = IF e.present THEN @ ELSE t,
                !.greetingPending = @ \/ Rearmed(e, t),
                !.absentSince = Never]
        ELSE [seen EXCEPT !.presentSince = Never,
                          !.absentSince = IF @ = Never THEN t ELSE @]

(* The answer branch of event(), for a touch or a simulated response.      *)
Answer(e, t, kind, d) ==
    IF \/ e.preference # "free"
       \/ t - e.lastTouch < TouchGap
       \/ e.state # "inviting" /\ ~(kind = "touch" /\ e.state # "interacting")
    THEN Silent(e)
    ELSE IF e.state = "inviting" /\ t >= e.deadline THEN Tick(e, t, d)
    ELSE Choose([e EXCEPT !.interactions = @ + 1, !.ignored = 0, !.lastTouch = t,
                          !.greetingPending = FALSE,
                          !.deadline = t + InteractionWindow,
                          !.nextInvitation = t + InvitationCooldown],
                "acknowledge", "interacting", t)

(* What an event does to an engine that is neither paused nor at fault.    *)
Act(e, t, kind, d) ==
    IF e.state \in Halted THEN Silent(e)
    ELSE IF Blocked(e, t) THEN Silent(Settle(e))
    ELSE IF kind \in {"respond", "touch"} THEN Answer(e, t, kind, d)
    ELSE Tick(e, t, d)

Control(kind, mode) == [kind |-> kind, mode |-> mode]
Sample(obs)         == [kind |-> "observation", obs |-> obs]

Startable(e) == ~e.fault /\ e.state = "paused"

(* Companion.event.                                                        *)
Event(e, t, ev, d) ==
    CASE ev.kind = "preference" ->
            Silent([e EXCEPT !.preference = ev.mode,
                             !.state = IF @ \in Halted THEN @
                                       ELSE IF ev.mode = "rest" THEN "resting"
                                       ELSE "quiet"])
      [] ev.kind = "pause"       -> Silent([e EXCEPT !.state = "paused"])
      [] ev.kind = "start"       -> IF Startable(e) THEN Tick([e EXCEPT !.state = "quiet"], t, d)
                                    ELSE Silent(e)
      [] ev.kind = "reset_fault" -> Silent([e EXCEPT !.fault = FALSE, !.state = "paused"])
      [] ev.kind = "failure"     -> Silent([e EXCEPT !.fault = TRUE, !.state = "fault"])
      [] ev.kind = "observation" -> Act(Observe(e, t, ev.obs), t, ev.kind, d)
      [] OTHER                   -> Act(e, t, ev.kind, d)
=============================================================================
