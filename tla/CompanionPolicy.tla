--------------------------- MODULE CompanionPolicy ---------------------------
(***************************************************************************)
(* The companion's engine on its own: any legal sequence of events and     *)
(* ticks, at any times, as its tests drive it.  What the engine promises   *)
(* the person it lives with is stated over what it did, which the engine's *)
(* own counters and timestamps only approximate: "did" lists what it did   *)
(* unasked, "strikes" counts the invitations given up since the last       *)
(* answer (up to the engine's cap), which is when it puts the next one off *)
(* without an action, and "awayAt" is the last time nobody was seen.       *)
(***************************************************************************)
EXTENDS Companion, FiniteSets

VARIABLES engine, clock, did, strikes, awayAt

policyVars == <<engine, clock, did, strikes, awayAt>>

(* How many invitations in a row ran out, and when the last did.           *)
NoStrikes == [count |-> 0, at |-> Never]

PolicyInit == /\ engine = NewEngine(NoMemory)
              /\ clock = 0
              /\ did = <<>>
              /\ strikes = NoStrikes
              /\ awayAt = Never

(* The history that one engine call adds, read off the engine before and   *)
(* after it and the actions it returned.                                   *)
Recall(f, acts) ==
    /\ did' = IF acts \in {<<>>, <<"acknowledge">>} THEN did
              ELSE Append(did, [act |-> acts[1], at |-> clock])
    /\ strikes' = IF acts = <<"acknowledge">> THEN NoStrikes
                  ELSE IF acts = <<>> /\ <<f.ignored, f.nextInvitation>>
                                         # <<engine.ignored, engine.nextInvitation>>
                  THEN [count |-> IF strikes.count < IgnoredCap THEN strikes.count + 1
                                  ELSE IgnoredCap,
                        at |-> clock]
                  ELSE strikes

Step(ev) == \E d \in Drives :
    LET r == Event(engine, clock, ev, d)
    IN  engine' = r.e /\ Recall(r.e, r.acts)

Observed(obs) == /\ Step(Sample(obs))
                 /\ awayAt' = IF obs.present THEN awayAt ELSE clock
                 /\ UNCHANGED clock

Commanded(kind) == Step(Control(kind, "free")) /\ UNCHANGED <<clock, awayAt>>

Preferred(mode) == Step(Control("preference", mode)) /\ UNCHANGED <<clock, awayAt>>

Ticked == \E d \in Drives :
    LET r == Tick(engine, clock, d)
    IN  engine' = r.e /\ Recall(r.e, r.acts) /\ UNCHANGED <<clock, awayAt>>

ClockMoves == clock < MaxTime /\ clock' = clock + 1 /\ UNCHANGED <<engine, did, strikes, awayAt>>

PolicyNext == \/ \E obs \in Observation : Observed(obs)
              \/ \E kind \in {"start", "pause", "reset_fault", "failure", "respond", "touch"} :
                    Commanded(kind)
              \/ \E mode \in Modes : Preferred(mode)
              \/ Ticked
              \/ ClockMoves

PolicySpec == PolicyInit /\ [][PolicyNext]_policyVars

-----------------------------------------------------------------------------
PolicyTypeOK ==
    /\ engine.state \in EngineState /\ engine.fault \in BOOLEAN /\ engine.preference \in Modes
    /\ engine.present \in BOOLEAN /\ engine.hold \in {"none", "busy", "low", "unknown"}
    /\ engine.ignored \in 0 .. IgnoredCap /\ engine.interactions \in Nat
    /\ {engine.seenAt, engine.presentSince, engine.absentSince, engine.lastTouch, engine.lastIdle}
            \subseteq Nat \cup {Never}
    /\ {engine.deadline, engine.nextInvitation, engine.restUntil, clock} \subseteq Nat
    /\ engine.greetingPending \in BOOLEAN
    /\ did \in Seq([act : Actions, at : Nat])
    /\ strikes.count \in Nat /\ awayAt \in Nat \cup {Never}

Done(acts) == {i \in 1 .. Len(did) : did[i].act \in acts /\ clock - did[i].at < BudgetWindow}

(* In any window of BudgetWindow, however the person comes and goes,       *)
(* pauses, restarts or changes preference, the engine does at most         *)
(* ProactiveBudget things unasked and invites at most InvitationBudget     *)
(* times: the trimmed lists of tick() never lose an action that still      *)
(* counts.                                                                 *)
BudgetHolds ==
    /\ Cardinality(Done(Actions)) <= ProactiveBudget
    /\ Cardinality(Done({"invite"})) <= InvitationBudget

(* After n invitations in a row ran out unanswered, the next one waits at  *)
(* least InvitationCooldown * 2^n (at most MaxCooldown) from the moment    *)
(* the last was given up, whatever happens in between.                     *)
IgnoredBacksOff ==
    \A i \in Done({"invite"}) :
        strikes.count > 0 /\ did[i].at >= strikes.at
            => did[i].at - strikes.at >= Backoff(strikes.count)

(* A greeting goes only to somebody who has stayed: nobody was observed    *)
(* absent during the last ArrivalStability, so a person who flashes past   *)
(* is not greeted.                                                         *)
GreetsWhoStays ==
    [][engine.state # "attending" /\ engine'.state = "attending"
           => clock - awayAt >= ArrivalStability]_policyVars

=============================================================================
