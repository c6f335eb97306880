----------------------------- MODULE PairEndpoint -----------------------------
(***************************************************************************)
(* packages/native_agent/dogos_mcp/server.mjs: one HTTP server per dog.  A *)
(* request takes one of MaxConcurrent slots, its body is read, and a tool  *)
(* call runs one bridge process.  Two timers run against each other: the   *)
(* bridge is killed after 5 s, the request is answered 408 after 10 s from *)
(* its arrival.  A request that lost its slot may leave a bridge at work.  *)
(* A refusal (503, 404, 405, a malformed body) changes nothing.            *)
(***************************************************************************)
EXTENDS PairRelay

CONSTANTS MaxConcurrent, \* slots of a server
          MaxFaults      \* bound on dying bridges and stopped servers

VARIABLES conn,   \* conn[b]: the request that bridge b is for
          active, \* active[d]: activeRequests of dog d's server
          faults

vars == << relay, db, pc, call, conn, active, faults >>
serverVars == << conn, active, faults >>

ASSUME SlotsAssumption == MaxConcurrent \in Nat \ {0} /\ MaxFaults \in Nat

\* slow: the body took so long that the request ends before the bridge's 5 s.
Connection == [phase : {"free"}, dog : {None}, slow : {FALSE}]
                \cup [phase : {"reading", "waiting", "left", "orphan"}, dog : Dogs, slow : BOOLEAN]
Free == [phase |-> "free", dog |-> None, slow |-> FALSE]

TypeOK ==
  /\ BridgeTypeOK
  /\ conn \in [Bridges -> Connection] /\ active \in [Dogs -> 0..MaxConcurrent]
  /\ faults \in 0..MaxFaults

Init ==
  /\ BridgeInit
  /\ conn = [b \in Bridges |-> Free] /\ active = [d \in Dogs |-> 0] /\ faults = 0

Fault == faults < MaxFaults /\ faults' = faults + 1

\* A request that is not refused.
Arrive(b, d) ==
  /\ conn[b] = Free /\ active[d] < MaxConcurrent
  /\ conn' = [conn EXCEPT ![b] = [phase |-> "reading", dog |-> d, slow |-> FALSE]]
  /\ active' = [active EXCEPT ![d] = @ + 1]
  /\ UNCHANGED << bridgeVars, faults >>

\* finally: the slot is given back.
Release(b) == active' = [active EXCEPT ![conn[b].dog] = @ - 1]

\* The body does not come in time, or the client goes away.
BodyLost(b) ==
  /\ conn[b].phase = "reading"
  /\ conn' = [conn EXCEPT ![b] = Free] /\ Release(b)
  /\ UNCHANGED << bridgeVars, faults >>

\* handleRequest, callBridge.
BodyArrives(b, request, slow) ==
  /\ conn[b].phase = "reading"
  /\ conn' = [conn EXCEPT ![b].phase = "waiting", ![b].slow = slow]
  /\ Start(b, conn[b].dog, request)
  /\ UNCHANGED << relay, db, active, faults >>

BridgeStep(b) == Step(b) /\ UNCHANGED serverVars

\* toolResult: the client is told how the bridge ended.
Answer(b) ==
  /\ conn[b].phase = "waiting" /\ pc[b] \in Ended
  /\ conn' = [conn EXCEPT ![b] = Free] /\ Release(b) /\ Reaped(b)
  /\ UNCHANGED << relay, db, faults >>

\* BRIDGE_TIMEOUT_MS, an unreadable answer, or a locked database.
BridgeDies(b) == Fault /\ Die(b) /\ UNCHANGED << conn, active >>

\* The client has closed its connection: the answer goes nowhere, and the
\* request keeps its slot.
AnswerIsLost(b) ==
  /\ conn[b].phase = "waiting" /\ pc[b] \in Ended
  /\ conn' = [conn EXCEPT ![b].phase = "left"] /\ Reaped(b)
  /\ UNCHANGED << relay, db, active, faults >>

\* withTimeout: 408, and nobody waits for the bridge any more.
RequestTimesOut(b) ==
  /\ \/ conn[b].phase = "left" /\ conn' = [conn EXCEPT ![b] = Free]
     \/ /\ conn[b].phase = "waiting" /\ conn[b].slow
        /\ conn' = [conn EXCEPT ![b].phase = "orphan"]
  /\ Release(b)
  /\ UNCHANGED << bridgeVars, faults >>

OrphanEnds(b) ==
  /\ conn[b].phase = "orphan" /\ pc[b] \in Ended
  /\ conn' = [conn EXCEPT ![b] = Free] /\ Reaped(b)
  /\ UNCHANGED << relay, db, active, faults >>

\* stop and a new start: the sockets are destroyed, the bridges live on.
Restart(d) ==
  /\ Fault
  /\ conn' = [b \in Bridges |->
       CASE conn[b].dog = d /\ conn[b].phase \in {"reading", "left"} -> Free
         [] conn[b].dog = d /\ conn[b].phase = "waiting" -> [conn[b] EXCEPT !.phase = "orphan"]
         [] OTHER -> conn[b]]
  /\ active' = [active EXCEPT ![d] = 0]
  /\ UNCHANGED bridgeVars

Serve(b) == BridgeStep(b) \/ Answer(b) \/ OrphanEnds(b)
TimesOut(b) == BodyLost(b) \/ RequestTimesOut(b)

Next ==
  \/ \E b \in Bridges :
       \/ Serve(b) \/ TimesOut(b) \/ BridgeDies(b) \/ AnswerIsLost(b)
       \/ \E d \in Dogs : Arrive(b, d)
       \/ \E request \in Request, slow \in BOOLEAN : BodyArrives(b, request, slow)
  \/ \E d \in Dogs : Restart(d)

Spec == Init /\ [][Next]_vars

-----------------------------------------------------------------------------
\* An Agent reads its inbox again and again and acknowledges what is new there.
Acknowledge(b, d) ==
  /\ conn[b].dog = d
  /\ \E i \in Inbox(d), slow \in BOOLEAN :
       /\ relay[i].acked = None
       /\ BodyArrives(b, [op |-> "ack", id |-> i, body |-> None], slow)

LiveSpec ==
  /\ Spec
  /\ \A b \in Bridges : WF_vars(Serve(b)) /\ WF_vars(TimesOut(b))
  /\ \A d \in Dogs : /\ SF_vars(\E b \in Bridges : Arrive(b, d))
                     /\ SF_vars(\E b \in Bridges : Acknowledge(b, d))

\* Two databases of one mode: a message that stays among the newest of its
\* inbox is acknowledged, although bridges die, requests are given up at 10 s
\* and servers are restarted.  This needs every slot to be given back.
VisibleIsAcknowledged ==
  \A i \in Ids :
    <>[](relay[i] # None /\ i \in Inbox(relay[i].to)
           /\ db[relay[i].to].mode = db[relay[i].from].mode)
      => <>(relay[i] # None /\ relay[i].acked # None)

=============================================================================
