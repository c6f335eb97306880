-------------------------- MODULE MCCompanionPolicy --------------------------
(***************************************************************************)
(* The instance of CompanionPolicy that TLC checks.  The policy only reads *)
(* differences of times, and no difference beyond the window it is         *)
(* compared with: the view keeps each time as an age or a remaining delay, *)
(* cut off at its window.  States that agree on it have the same future    *)
(* and satisfy the same properties, so the search covers every run of      *)
(* whatever length although the clock never stops; MaxTime is out of reach.*)
(***************************************************************************)
EXTENDS CompanionPolicy

MinusInfinity == -100

Lesser(a, b) == IF a < b THEN a ELSE b
Age(t, window) == Lesser(clock - t, window)
Left(t) == IF t > clock THEN t - clock ELSE 0
Ages(times) == LET r == Recent(times, clock) IN [i \in 1 .. Len(r) |-> clock - r[i]]

Waiting == {"attending", "inviting", "interacting"}

View ==
    <<[engine EXCEPT !.interactions = 0,
                !.seenAt = Age(@, ObservationTTL),
                !.deadline = IF engine.state \in Waiting THEN Left(@) ELSE 0,
                !.nextInvitation = Left(@), !.restUntil = Left(@),
                !.presentSince = Age(@, ArrivalStability),
                !.absentSince = IF @ = Never THEN Never ELSE Age(@, AbsenceRearm),
                !.lastTouch = Age(@, TouchGap), !.lastIdle = Age(@, IdleInterval),
                !.invitations = Ages(@), !.proactive = Ages(@)],
      LET r == SelectSeq(did, LAMBDA a : clock - a.at < BudgetWindow)
      IN  [i \in 1 .. Len(r) |-> <<r[i].act, clock - r[i].at>>],
      [count |-> Lesser(strikes.count, IgnoredCap), at |-> Age(strikes.at, MaxCooldown)],
      Age(awayAt, ArrivalStability)>>
=============================================================================
