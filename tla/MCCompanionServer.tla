-------------------------- MODULE MCCompanionServer --------------------------
(***************************************************************************)
(* The instances of CompanionServer that TLC checks.  As for the policy,   *)
(* only differences of times matter, each up to its window; of epochs and  *)
(* interruptions only whether a decision still has the current one; of the *)
(* interaction counts only whether the file has the engine's.  The view    *)
(* keeps just that, so that neither clock nor epochs nor requests bound    *)
(* the search.                                                             *)
(***************************************************************************)
EXTENDS CompanionServer

MinusInfinity == -100

Lesser(a, b) == IF a < b THEN a ELSE b
Age(t, window) == Lesser(now - t, window)
Left(t) == IF t > now THEN t - now ELSE 0
Ages(times) == LET r == Recent(times, now) IN [i \in 1 .. Len(r) |-> now - r[i]]

Waiting == {"attending", "inviting", "interacting"}

Valid(item) == <<item.act, item.epoch = srv.epoch, item.cuts = ghost.cuts>>

(* A memory next to the engine's.                                          *)
Beside(memory) ==
    IF memory = Null THEN Null
    ELSE [memory EXCEPT !.interactions = Lesser(srv.e.interactions - @, 1)]

View ==
    <<[srv.e EXCEPT
         !.interactions = 0,
         !.seenAt = Age(@, ObservationTTL),
         !.deadline = IF srv.e.state \in Waiting THEN Left(@) ELSE 0,
         !.nextInvitation = Left(@), !.restUntil = Left(@),
         !.presentSince = Age(@, ArrivalStability),
         !.absentSince = IF @ = Never THEN Never ELSE Age(@, AbsenceRearm),
         !.lastTouch = Age(@, TouchGap), !.lastIdle = Age(@, IdleInterval),
         !.invitations = Ages(@), !.proactive = Ages(@)],
      [i \in 1 .. Len(srv.pending) |-> Valid(srv.pending[i])],
      Beside(srv.saved), Beside(srv.file),
      looped = now, world, Age(touchedAt, TouchTTL),
      IF job = Null THEN Null ELSE <<Valid(job.item), job.left, job.phase>>,
      running, ghost.clear>>
=============================================================================
