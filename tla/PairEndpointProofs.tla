------------------------- MODULE PairEndpointProofs -------------------------
(***************************************************************************)
(* Theorems about PairRelay under PairEndpoint, for every set of dogs,     *)
(* bridges, messages and bodies, any wall clock and any number of faults:  *)
(* what the three transactions of an acknowledgement leave behind, however *)
(* bridges that die or overlap interleave them.                            *)
(***************************************************************************)
EXTENDS PairEndpoint, MemoryStoreProofs

-----------------------------------------------------------------------------
(* The inductive invariant: what a bridge knows at each of its steps.      *)

Addressed == \A i \in Ids : relay[i] # None => relay[i].to = Peer[relay[i].from]

\* A bridge works on a call its server has accepted.
Called(b) ==
  pc[b] # "idle" =>
    /\ call[b] \in Call
    /\ pc[b] \in {"send", "read", "ack"} => call[b].op = pc[b]
    /\ pc[b] \in {"receiver", "sender", "mark"} => call[b].op = "ack"
    /\ call[b].op # "read" => call[b].id \in Ids
    /\ call[b].op = "send" => call[b].body \in Bodies

\* What it has read of the row is still so: a row only gets its acked time.
Claimed(b) ==
  pc[b] \in {"receiver", "sender", "mark"} =>
    /\ Incoming(call[b].owner, call[b].id)
    /\ relay[call[b].id].body = call[b].body /\ relay[call[b].id].sent = call[b].sent

\* What it has appended, or found appended, is there.
Halfway(b) ==
  /\ pc[b] \in {"sender", "mark"} => Remembers(call[b].owner, call[b].id)
  /\ pc[b] = "mark" => Remembers(Peer[call[b].owner], call[b].id)

\* SuccessIsTrue for one bridge; the acknowledged row exists.
Succeeded(b) ==
  pc[b] = "ok" =>
    /\ call[b].op = "send" => IsQueued(call[b])
    /\ call[b].op = "ack" =>
         LET i == call[b].id IN relay[i] # None /\ relay[i].acked # None /\ OnRecord(i)

Known(b) == Called(b) /\ Claimed(b) /\ Halfway(b) /\ Succeeded(b)

BridgeInv ==
  /\ BridgeTypeOK /\ Addressed
  /\ \A b \in Bridges : Known(b)
  /\ MemoryIsOfTheMessage /\ AcknowledgedIsRemembered

IInv == conn \in [Bridges -> Connection] /\ BridgeInv

-----------------------------------------------------------------------------
(* The server only starts bridges, collects them, and kills them.          *)

Quiet(b) ==
  /\ UNCHANGED << relay, db >>
  /\ \/ Read(b) \/ AckFind(b) \/ Die(b) \/ Reaped(b)
     \/ \E d \in Dogs, request \in Request : Start(b, d, request)

BridgeNext(b) ==
  \/ Quiet(b) \/ AckReceiver(b) \/ AckSender(b)
  \/ \E now \in Times : Send(b, now) \/ AckMark(b, now)

LEMMA ServerStep ==
  ASSUME conn \in [Bridges -> Connection], Next
  PROVE  (\E b \in Bridges : BridgeNext(b)) \/ UNCHANGED bridgeVars
  <1>1. ASSUME NEW b \in Bridges, Serve(b) \/ BridgeDies(b) \/ AnswerIsLost(b)
        PROVE  BridgeNext(b)
    BY <1>1 DEF Serve, BridgeStep, Step, Answer, OrphanEnds, BridgeDies, AnswerIsLost,
       BridgeNext, Quiet, Read, AckFind, Die
  <1>2. ASSUME NEW b \in Bridges, NEW request \in Request, NEW slow \in BOOLEAN,
               BodyArrives(b, request, slow)
        PROVE  BridgeNext(b)
    <2>1. conn[b].dog \in Dogs
      BY <1>2 DEF BodyArrives, Connection
    <2>2. QED
      BY <1>2, <2>1 DEF BodyArrives, BridgeNext, Quiet
  <1>3. ASSUME NEW b \in Bridges, NEW d \in Dogs, Arrive(b, d)
        PROVE  UNCHANGED bridgeVars
    BY <1>3 DEF Arrive
  <1>4. ASSUME NEW d \in Dogs, Restart(d)
        PROVE  UNCHANGED bridgeVars
    BY <1>4 DEF Restart
  <1>5. ASSUME NEW b \in Bridges, TimesOut(b)
        PROVE  UNCHANGED bridgeVars
    BY <1>5 DEF TimesOut, BodyLost, RequestTimesOut
  <1>6. QED
    BY <1>1, <1>2, <1>3, <1>4, <1>5 DEF Next

LEMMA ConnectionType ==
  ASSUME conn \in [Bridges -> Connection], Next
  PROVE  conn' \in [Bridges -> Connection]
  <1>1. Free \in Connection
    BY DEF Free, Connection
  <1>2. ASSUME NEW b \in Bridges, Serve(b) \/ TimesOut(b) \/ BridgeDies(b) \/ AnswerIsLost(b)
        PROVE  conn' \in [Bridges -> Connection]
    <2>1. CASE conn' = conn
      BY <2>1
    <2>2. CASE conn' = [conn EXCEPT ![b] = Free]
      BY <1>1, <2>2
    <2>3. CASE /\ conn[b].phase = "waiting"
               /\ \E phase \in {"left", "orphan"} : conn' = [conn EXCEPT ![b].phase = phase]
      BY <2>3 DEF Connection
    <2>4. QED
      BY <1>2, <2>1, <2>2, <2>3 DEF Serve, BridgeStep, serverVars, Answer, OrphanEnds,
         TimesOut, BodyLost, RequestTimesOut, BridgeDies, AnswerIsLost
  <1>3. ASSUME NEW b \in Bridges, NEW d \in Dogs, Arrive(b, d)
        PROVE  conn' \in [Bridges -> Connection]
    BY <1>3 DEF Arrive, Connection
  <1>4. ASSUME NEW b \in Bridges, NEW request \in Request, NEW slow \in BOOLEAN,
               BodyArrives(b, request, slow)
        PROVE  conn' \in [Bridges -> Connection]
    BY <1>4 DEF BodyArrives, Connection
  <1>5. ASSUME NEW d \in Dogs, Restart(d)
        PROVE  conn' \in [Bridges -> Connection]
    BY <1>1, <1>5 DEF Restart, Connection
  <1>6. QED
    BY <1>2, <1>3, <1>4, <1>5 DEF Next

-----------------------------------------------------------------------------
(* Rows and memories are only ever added: what the other bridges know      *)
(* stays true.                                                             *)

RelayGrows ==
  \A i \in Ids : relay[i] # None =>
    /\ relay'[i] # None
    /\ relay'[i].from = relay[i].from /\ relay'[i].to = relay[i].to
    /\ relay'[i].body = relay[i].body /\ relay'[i].sent = relay[i].sent
    /\ relay[i].acked # None => relay'[i].acked # None

MemoryGrows ==
  \A d \in Dogs, i \in Ids : Remembers(d, i) => db'[d].rows[i] = db[d].rows[i]

Others(b) == \A other \in Bridges \ {b} : pc'[other] = pc[other] /\ call'[other] = call[other]

LEMMA RecordStays ==
  ASSUME BridgeTypeOK, RelayGrows, MemoryGrows, NEW i \in Ids, relay[i] # None, OnRecord(i)
  PROVE  OnRecord(i)'
  <1>1. relay[i].from \in Dogs /\ relay[i].to \in Dogs
    BY DEF BridgeTypeOK, Message
  <1>2. relay'[i].from = relay[i].from /\ relay'[i].to = relay[i].to
    BY DEF RelayGrows
  <1>3. QED
    BY <1>1, <1>2 DEF OnRecord, Remembers, MemoryGrows

LEMMA OthersKnow ==
  ASSUME BridgeInv, RelayGrows, MemoryGrows, NEW other \in Bridges,
         pc'[other] = pc[other], call'[other] = call[other]
  PROVE  Known(other)'
  <1>1. Known(other)
    BY DEF BridgeInv
  <1>2. Called(other)'
    BY <1>1 DEF Known, Called
  <1>3. Claimed(other)'
    BY <1>1 DEF Known, Called, Claimed, RelayGrows, Incoming
  <1>4. Halfway(other)'
    <2>1. pc[other] \in {"sender", "mark"} => call[other].owner \in Dogs /\ call[other].id \in Ids
      BY <1>1 DEF Known, Called, Call
    <2>2. pc[other] = "mark" => Peer[call[other].owner] \in Dogs
      BY <2>1, PeerAssumption
    <2>3. QED
      BY <1>1, <2>1, <2>2 DEF Known, Halfway, MemoryGrows, Remembers
  <1>5. Succeeded(other)'
    <2>1. CASE pc[other] = "ok" /\ call[other].op = "send"
      BY <1>1, <2>1 DEF Known, Called, Succeeded, IsQueued, RelayGrows
    <2>2. CASE pc[other] = "ok" /\ call[other].op = "ack"
      <3> DEFINE i == call[other].id
      <3>1. i \in Ids /\ relay[i] # None /\ relay[i].acked # None /\ OnRecord(i)
        BY <1>1, <2>2 DEF Known, Called, Succeeded
      <3>2. OnRecord(i)'
        BY <3>1, RecordStays DEF BridgeInv
      <3>3. relay'[i] # None /\ relay'[i].acked # None
        BY <3>1 DEF RelayGrows
      <3>4. QED
        BY <2>2, <3>2, <3>3 DEF Succeeded
    <2>3. QED
      BY <2>1, <2>2 DEF Succeeded
  <1>6. QED
    BY <1>2, <1>3, <1>4, <1>5 DEF Known

\* No memory is made: what is remembered is of the same message as before.
LEMMA MemoryKept ==
  ASSUME BridgeInv, RelayGrows, db' = db
  PROVE  MemoryIsOfTheMessage'
  <1> SUFFICES ASSUME NEW d \in Dogs, NEW i \in Ids, Remembers(d, i)
               PROVE  /\ relay'[i] # None
                      /\ LET row == db[d].rows[i]
                             view == IF relay'[i].to = d THEN "received" ELSE "delivered"
                         IN /\ row.text = << relay'[i].body, view >> /\ row.at = relay'[i].sent
                            /\ {d, row.peer} = {relay'[i].from, relay'[i].to}
    BY DEF MemoryIsOfTheMessage, Remembers
  <1>1. /\ relay[i] # None
        /\ LET row == db[d].rows[i]
               view == IF relay[i].to = d THEN "received" ELSE "delivered"
           IN /\ row.text = << relay[i].body, view >> /\ row.at = relay[i].sent
              /\ {d, row.peer} = {relay[i].from, relay[i].to}
    BY DEF BridgeInv, MemoryIsOfTheMessage
  <1>2. QED
    BY <1>1 DEF RelayGrows

LEMMA KeptInv ==
  ASSUME BridgeInv, UNCHANGED bridgeVars
  PROVE  BridgeInv'
  <1>1. RelayGrows /\ MemoryGrows
    BY DEF bridgeVars, RelayGrows, MemoryGrows
  <1>2. \A b \in Bridges : Known(b)'
    BY <1>1, OthersKnow DEF bridgeVars
  <1>3. BridgeTypeOK' /\ Addressed'
    BY DEF BridgeInv, bridgeVars, BridgeTypeOK, Addressed
  <1>4. AcknowledgedIsRemembered'
    BY DEF BridgeInv, bridgeVars, AcknowledgedIsRemembered, OnRecord, Remembers
  <1>5. QED
    BY <1>1, <1>2, <1>3, <1>4, MemoryKept DEF BridgeInv, bridgeVars

-----------------------------------------------------------------------------
(* Every step of a bridge preserves the invariant.                         *)

LEMMA QuietInv ==
  ASSUME BridgeInv, NEW b \in Bridges, Quiet(b)
  PROVE  BridgeInv'
  <1>1. UNCHANGED << relay, db >> /\ RelayGrows /\ MemoryGrows
    BY DEF Quiet, RelayGrows, MemoryGrows
  <1>2. BridgeTypeOK /\ Known(b)
    BY DEF BridgeInv
  <1>3. Others(b)
    BY <1>2 DEF Quiet, Others, Read, AckFind, Die, Reaped, Start, Goto, End, BridgeTypeOK
  <1>4. /\ pc' \in [Bridges -> {"idle"} \cup Running \cup Ended]
        /\ call' \in [Bridges -> Call \cup {None}]
        /\ Known(b)'
    <2>1. CASE Read(b)
      BY <1>1, <1>2, <2>1 DEF Read, End, Goto, BridgeTypeOK, Running, Ended, Known, Called,
         Claimed, Halfway, Succeeded
    <2>2. CASE Die(b)
      BY <1>1, <1>2, <2>2 DEF Die, Goto, BridgeTypeOK, Running, Ended, Known, Called, Claimed,
         Halfway, Succeeded
    <2>3. CASE Reaped(b)
      BY <1>1, <1>2, <2>3 DEF Reaped, BridgeTypeOK, Running, Ended, Known, Called, Claimed,
         Halfway, Succeeded
    <2>4. CASE \E d \in Dogs, request \in Request : Start(b, d, request)
      BY <1>1, <1>2, <2>4 DEF Start, Request, Call, BridgeTypeOK, Running, Ended, Known, Called,
         Claimed, Halfway, Succeeded
    <2>5. CASE AckFind(b)
      <3> DEFINE c == call[b]
                 i == call[b].id
      <3>1. c \in Call /\ c.op = "ack" /\ i \in Ids /\ pc[b] = "ack"
        BY <1>2, <2>5 DEF AckFind, Known, Called
      <3>2. CASE Incoming(c.owner, i) /\ SameMode(c.owner)
        <4>1. relay[i] \in Message
          BY <1>2, <3>1, <3>2 DEF BridgeTypeOK, Incoming
        <4>2. /\ call' = [call EXCEPT ![b].body = relay[i].body, ![b].sent = relay[i].sent]
              /\ pc' = [pc EXCEPT ![b] = "receiver"]
          BY <2>5, <3>2 DEF AckFind
        <4>3. [[c EXCEPT !.body = relay[i].body] EXCEPT !.sent = relay[i].sent] \in Call
          BY <3>1, <4>1 DEF Call, Message
        <4>4. /\ call'[b].op = c.op /\ call'[b].id = i /\ call'[b].owner = c.owner
              /\ call'[b].body = relay[i].body /\ call'[b].sent = relay[i].sent
              /\ call'[b] \in Call /\ pc'[b] = "receiver"
          BY <1>2, <3>1, <4>2, <4>3 DEF BridgeTypeOK, Call
        <4>5. QED
          BY <1>1, <1>2, <3>1, <3>2, <4>2, <4>4 DEF BridgeTypeOK, Running, Known, Called,
             Claimed, Halfway, Succeeded, Incoming
      <3>3. CASE ~(Incoming(c.owner, i) /\ SameMode(c.owner))
        BY <1>1, <1>2, <2>5, <3>1, <3>3 DEF AckFind, End, Goto, BridgeTypeOK, Running, Ended,
           Known, Called, Claimed, Halfway, Succeeded
      <3>4. QED
        BY <3>2, <3>3
    <2>6. QED
      BY <2>1, <2>2, <2>3, <2>4, <2>5 DEF Quiet
  <1>5. \A other \in Bridges : Known(other)'
    BY <1>1, <1>3, <1>4, OthersKnow DEF Others
  <1>6. BridgeTypeOK' /\ Addressed'
    BY <1>1, <1>2, <1>4 DEF BridgeInv, BridgeTypeOK, Addressed
  <1>7. MemoryIsOfTheMessage'
    BY <1>1 DEF BridgeInv, MemoryIsOfTheMessage, Remembers
  <1>8. AcknowledgedIsRemembered'
    BY <1>1 DEF BridgeInv, AcknowledgedIsRemembered, OnRecord, Remembers
  <1>9. QED
    BY <1>5, <1>6, <1>7, <1>8 DEF BridgeInv

LEMMA SendInv ==
  ASSUME BridgeInv, NEW b \in Bridges, NEW now \in Times, Send(b, now)
  PROVE  BridgeInv'
  <1> DEFINE c == call[b]
             i == call[b].id
  <1>1. BridgeTypeOK /\ Known(b) /\ pc[b] = "send"
    BY DEF BridgeInv, Send
  <1>2. c \in Call /\ c.op = "send" /\ i \in Ids /\ c.body \in Bodies /\ c.owner \in Dogs
    BY <1>1 DEF Known, Called, Call
  <1>3. Queued(c, now) \in Message /\ Queued(c, now) # None
    BY <1>2, PeerAssumption, NoneAssumption DEF Queued, Message
  <1>4. /\ db' = db /\ call' = call
        /\ relay' = [relay EXCEPT ![i] = IF @ = None THEN Queued(c, now) ELSE @]
        /\ pc' = [pc EXCEPT ![b] = IF relay[i] = None \/ IsQueued(c) THEN "ok" ELSE "failed"]
    BY DEF Send, End, Goto
  <1>5. relay' \in [Ids -> Message \cup {None}] /\ RelayGrows /\ MemoryGrows /\ Others(b)
    BY <1>1, <1>2, <1>3, <1>4 DEF BridgeTypeOK, RelayGrows, MemoryGrows, Others
  <1>6. Known(b)'
    BY <1>1, <1>2, <1>3, <1>4 DEF BridgeTypeOK, Known, Called, Claimed, Halfway, Succeeded,
       IsQueued, Queued
  <1>7. \A other \in Bridges : Known(other)'
    BY <1>5, <1>6, OthersKnow DEF Others
  <1>8. BridgeTypeOK' /\ Addressed'
    BY <1>1, <1>2, <1>4, <1>5 DEF BridgeInv, BridgeTypeOK, Running, Ended, Addressed, Queued
  <1>9. MemoryIsOfTheMessage'
    BY <1>4, <1>5, MemoryKept
  <1>10. AcknowledgedIsRemembered'
    <2>1. \A j \in Ids : relay'[j] = relay[j] \/ relay'[j].acked = None
      BY <1>1, <1>2, <1>4 DEF BridgeTypeOK, Queued
    <2>2. QED
      BY <1>4, <2>1 DEF BridgeInv, AcknowledgedIsRemembered, OnRecord, Remembers
  <1>11. QED
    BY <1>7, <1>8, <1>9, <1>10 DEF BridgeInv

LEMMA DeliveryType ==
  ASSUME BridgeInv, NEW b \in Bridges, pc[b] \in {"receiver", "sender", "mark"}
  PROVE  LET c == call[b]
         IN /\ c.id \in Ids /\ c.owner \in Dogs /\ Peer[c.owner] \in Dogs
            /\ Peer[c.owner] # c.owner /\ c.op = "ack" /\ c \in Call
            /\ relay[c.id] \in Message /\ relay[c.id].to = c.owner
            /\ relay[c.id].from = Peer[c.owner]
            /\ relay[c.id].body = c.body /\ relay[c.id].sent = c.sent
            /\ Received(c) \in Memory /\ Delivered(c) \in Memory
  <1> DEFINE c == call[b]
  <1>1. Known(b) /\ BridgeTypeOK
    BY DEF BridgeInv
  <1>2. c.id \in Ids /\ c.owner \in Dogs /\ c \in Call /\ c.op = "ack"
    BY <1>1 DEF Known, Called, Call
  <1>3. Peer[c.owner] \in Dogs /\ Peer[c.owner] # c.owner
    BY <1>2, PeerAssumption
  <1>4. /\ relay[c.id] \in Message /\ relay[c.id].to = c.owner /\ relay[c.id].from = Peer[c.owner]
        /\ relay[c.id].body = c.body /\ relay[c.id].sent = c.sent
    BY <1>1, <1>2 DEF Known, Claimed, Incoming, BridgeTypeOK
  <1>5. c.body \in Bodies /\ c.sent \in Nat
    BY <1>4, IdsAssumption DEF Message
  <1>6. /\ << c.body, "received" >> \in Texts /\ << c.body, "delivered" >> \in Texts
    BY <1>5, TextsAssumption
  <1>7. Received(c) \in Memory /\ Delivered(c) \in Memory
    BY <1>2, <1>3, <1>5, <1>6 DEF Received, Delivered, Delivery, Memory, Kinds, Facts, Sources,
       Results
  <1>8. QED
    BY <1>2, <1>3, <1>4, <1>7

\* One dog's database gets its view of the message, if it does not refuse it.
LEMMA ViewInv ==
  ASSUME BridgeInv, NEW b \in Bridges, NEW d \in Dogs, NEW m \in Memory,
         pc[b] \in {"receiver", "sender"},
         m.id = call[b].id, d \in {relay[m.id].from, relay[m.id].to},
         m.text = << relay[m.id].body, IF relay[m.id].to = d THEN "received" ELSE "delivered" >>,
         m.at = relay[m.id].sent, {d, m.peer} = {relay[m.id].from, relay[m.id].to},
         UNCHANGED << relay, call >>,
         db' = [db EXCEPT ![d] = Appended(@, m)],
         pc' \in [Bridges -> {"idle"} \cup Running \cup Ended], Others(b), Known(b)'
  PROVE  BridgeInv'
  <1>1. m.id \in Ids /\ relay[m.id] # None /\ BridgeTypeOK /\ db[d] \in Database
    BY DeliveryType, NoneAssumption DEF BridgeInv, BridgeTypeOK
  <1>2. db' \in [Dogs -> Database]
    BY <1>1, AppendedType DEF BridgeTypeOK
  <1>3. \A e \in Dogs, j \in Ids :
          db'[e].rows[j] = db[e].rows[j] \/ (e = d /\ j = m.id /\ db'[e].rows[j] = m)
    BY <1>1, AppendedKeeps DEF BridgeTypeOK
  <1>4. RelayGrows /\ MemoryGrows
    BY <1>1, AppendedKeeps DEF RelayGrows, MemoryGrows, BridgeTypeOK, Remembers
  <1>5. \A other \in Bridges : Known(other)'
    BY <1>4, OthersKnow DEF Others
  <1>6. BridgeTypeOK' /\ Addressed'
    BY <1>1, <1>2 DEF BridgeInv, BridgeTypeOK, Addressed
  <1>7. MemoryIsOfTheMessage'
    <2> SUFFICES ASSUME NEW e \in Dogs, NEW j \in Ids, db'[e].rows[j] # None
                 PROVE  /\ relay[j] # None
                        /\ LET row == db'[e].rows[j]
                               view == IF relay[j].to = e THEN "received" ELSE "delivered"
                           IN /\ row.text = << relay[j].body, view >> /\ row.at = relay[j].sent
                              /\ {e, row.peer} = {relay[j].from, relay[j].to}
      BY DEF MemoryIsOfTheMessage, Remembers
    <2>1. CASE e = d /\ j = m.id /\ db'[e].rows[j] = m
      BY <1>1, <2>1
    <2>2. CASE db'[e].rows[j] = db[e].rows[j]
      BY <2>2 DEF BridgeInv, MemoryIsOfTheMessage, Remembers
    <2>3. QED
      BY <1>3, <2>1, <2>2
  <1>8. AcknowledgedIsRemembered'
    BY <1>1, <1>4, RecordStays DEF BridgeInv, AcknowledgedIsRemembered
  <1>9. QED
    BY <1>5, <1>6, <1>7, <1>8 DEF BridgeInv

LEMMA AckReceiverInv ==
  ASSUME BridgeInv, NEW b \in Bridges, AckReceiver(b)
  PROVE  BridgeInv'
  <1> DEFINE c == call[b]
             m == Received(call[b])
  <1>1. pc[b] = "receiver" /\ BridgeTypeOK /\ Known(b)
    BY DEF AckReceiver, BridgeInv
  <1>2. /\ c.id \in Ids /\ c.owner \in Dogs /\ c.op = "ack" /\ m \in Memory
        /\ relay[c.id].to = c.owner /\ relay[c.id].from = Peer[c.owner]
        /\ relay[c.id].body = c.body /\ relay[c.id].sent = c.sent
    BY <1>1, DeliveryType
  <1>3. /\ m.id = c.id /\ m.text = << c.body, "received" >> /\ m.at = c.sent
        /\ m.peer = Peer[c.owner]
    BY DEF Received, Delivery
  <1>4. /\ relay' = relay /\ call' = call
        /\ db' = [db EXCEPT ![c.owner] = Appended(@, m)]
        /\ pc' = [pc EXCEPT ![b] = IF Refuses(db[c.owner], m) THEN "failed" ELSE "sender"]
    BY DEF AckReceiver, End, Goto
  <1>5. ~Refuses(db[c.owner], m) => db'[c.owner].rows[c.id] # None
    BY <1>1, <1>2, <1>3, <1>4, AppendedHolds, MemoryAssumption DEF BridgeTypeOK
  <1>6. Known(b)'
    BY <1>1, <1>2, <1>4, <1>5 DEF BridgeTypeOK, Known, Called, Claimed, Halfway, Succeeded,
       Incoming, Remembers
  <1>7. pc' \in [Bridges -> {"idle"} \cup Running \cup Ended] /\ Others(b)
    BY <1>1, <1>4 DEF BridgeTypeOK, Running, Ended, Others
  <1>8. QED
    BY <1>1, <1>2, <1>3, <1>4, <1>6, <1>7, ViewInv

LEMMA AckSenderInv ==
  ASSUME BridgeInv, NEW b \in Bridges, AckSender(b)
  PROVE  BridgeInv'
  <1> DEFINE c == call[b]
             m == Delivered(call[b])
             d == Peer[call[b].owner]
  <1>1. pc[b] = "sender" /\ BridgeTypeOK /\ Known(b)
    BY DEF AckSender, BridgeInv
  <1>2. /\ c.id \in Ids /\ d \in Dogs /\ c.owner \in Dogs /\ d # c.owner /\ c.op = "ack" /\ m \in Memory
        /\ relay[c.id].to = c.owner /\ relay[c.id].from = d
        /\ relay[c.id].body = c.body /\ relay[c.id].sent = c.sent
    BY <1>1, DeliveryType
  <1>3. /\ m.id = c.id /\ m.text = << c.body, "delivered" >> /\ m.at = c.sent
        /\ m.peer = c.owner
    BY DEF Delivered, Delivery
  <1>4. /\ relay' = relay /\ call' = call
        /\ db' = [db EXCEPT ![d] = Appended(@, m)]
        /\ pc' = [pc EXCEPT ![b] = IF Refuses(db[d], m) THEN "failed" ELSE "mark"]
    BY DEF AckSender, End, Goto
  <1>5. ~Refuses(db[d], m) => db'[d].rows[c.id] # None
    BY <1>1, <1>2, <1>3, <1>4, AppendedHolds, MemoryAssumption DEF BridgeTypeOK
  <1>6. db'[c.owner] = db[c.owner]
    BY <1>1, <1>2, <1>4 DEF BridgeTypeOK
  <1>7. Known(b)'
    BY <1>1, <1>2, <1>4, <1>5, <1>6 DEF BridgeTypeOK, Known, Called, Claimed, Halfway,
       Succeeded, Incoming, Remembers
  <1>8. pc' \in [Bridges -> {"idle"} \cup Running \cup Ended] /\ Others(b)
    BY <1>1, <1>4 DEF BridgeTypeOK, Running, Ended, Others
  <1>9. QED
    BY <1>1, <1>2, <1>3, <1>4, <1>7, <1>8, ViewInv

LEMMA AckMarkInv ==
  ASSUME BridgeInv, NEW b \in Bridges, NEW now \in Times, AckMark(b, now)
  PROVE  BridgeInv'
  <1> DEFINE c == call[b]
  <1>0. PICK i \in Ids : i = c.id
    BY DeliveryType DEF AckMark
  <1>1. pc[b] = "mark" /\ BridgeTypeOK /\ Known(b)
    BY DEF AckMark, BridgeInv
  <1>2. /\ c.owner \in Dogs /\ c.op = "ack" /\ c \in Call /\ relay[i] \in Message
        /\ relay[i].to = c.owner /\ relay[i].from = Peer[c.owner]
    BY <1>0, <1>1, DeliveryType
  <1>3. relay[i] # None /\ now # None /\ Incoming(c.owner, i) /\ OnRecord(i)
    BY <1>0, <1>1, <1>2, NoneAssumption DEF Incoming, OnRecord, Known, Halfway
  <1>4. /\ db' = db /\ call' = call /\ pc' = [pc EXCEPT ![b] = "ok"]
        /\ relay' = [relay EXCEPT ![i].acked = IF @ = None THEN now ELSE @]
    BY <1>0, <1>3 DEF AckMark, End, Goto
  <1>5. /\ relay'[i] \in Message /\ relay'[i].acked # None
        /\ relay'[i].from = relay[i].from /\ relay'[i].to = relay[i].to
        /\ relay'[i].body = relay[i].body /\ relay'[i].sent = relay[i].sent
        /\ \A j \in Ids \ {i} : relay'[j] = relay[j]
        /\ relay' \in [Ids -> Message \cup {None}]
    BY <1>1, <1>2, <1>3, <1>4 DEF BridgeTypeOK, Message
  <1>6. relay'[i] # None
    BY <1>5, NoneAssumption
  <1>7. RelayGrows /\ MemoryGrows /\ Others(b)
    BY <1>1, <1>4, <1>5, <1>6 DEF BridgeTypeOK, RelayGrows, MemoryGrows, Others
  <1>8. OnRecord(i)'
    BY <1>1, <1>2, <1>3, <1>7, RecordStays
  <1>9. Known(b)'
    BY <1>0, <1>1, <1>2, <1>4, <1>5, <1>6, <1>8 DEF BridgeTypeOK, Known, Called, Claimed, Halfway,
       Succeeded
  <1>10. \A other \in Bridges : Known(other)'
    BY <1>7, <1>9, OthersKnow DEF Others
  <1>11. BridgeTypeOK' /\ Addressed'
    <2>1. BridgeTypeOK'
      BY <1>1, <1>4, <1>5 DEF BridgeTypeOK, Running, Ended
    <2>2. Addressed'
      BY <1>2, <1>3, <1>5 DEF BridgeInv, Addressed
    <2>3. QED
      BY <2>1, <2>2
  <1>12. MemoryIsOfTheMessage'
    BY <1>4, <1>7, MemoryKept
  <1>13. AcknowledgedIsRemembered'
    <2>1. ASSUME NEW j \in Ids, relay'[j] # None, relay'[j].acked # None
          PROVE  OnRecord(j)'
      <3>1. CASE j = i
        BY <1>8, <3>1
      <3>2. CASE j # i
        <4>1. relay[j] # None /\ OnRecord(j)
          BY <1>5, <2>1, <3>2 DEF BridgeInv, AcknowledgedIsRemembered
        <4>2. QED
          BY <1>1, <1>7, <4>1, RecordStays
      <3>3. QED
        BY <3>1, <3>2
    <2>2. QED
      BY <2>1 DEF AcknowledgedIsRemembered
  <1>14. QED
    BY <1>10, <1>11, <1>12, <1>13 DEF BridgeInv

-----------------------------------------------------------------------------
LEMMA InitInv == Init => IInv
  <1> SUFFICES ASSUME Init PROVE IInv
    OBVIOUS
  <1>1. conn \in [Bridges -> Connection]
    BY DEF Init, Free, Connection
  <1>2. \A dog \in Dogs, mode \in Modes : EmptyDatabase(dog, mode) \in Database
    BY DEF EmptyDatabase, Database
  <1>3. PICK mode \in [Dogs -> Modes] : db = [d \in Dogs |-> EmptyDatabase(d, mode[d])]
    BY DEF Init, BridgeInit
  <1>4. db \in [Dogs -> Database] /\ \A d \in Dogs, i \in Ids : ~Remembers(d, i)
    BY <1>2, <1>3 DEF Remembers, EmptyDatabase
  <1>5. BridgeTypeOK
    BY <1>4 DEF Init, BridgeInit, BridgeTypeOK
  <1>6. QED
    BY <1>1, <1>4, <1>5 DEF Init, BridgeInit, IInv, BridgeInv, Addressed, Known, Called,
       Claimed, Halfway, Succeeded, MemoryIsOfTheMessage, AcknowledgedIsRemembered

LEMMA StepInv == IInv /\ [Next]_vars => IInv'
  <1> SUFFICES ASSUME IInv, [Next]_vars PROVE IInv'
    OBVIOUS
  <1>1. UNCHANGED bridgeVars => BridgeInv'
    BY KeptInv DEF IInv
  <1>2. ASSUME NEW b \in Bridges, BridgeNext(b)
        PROVE  BridgeInv'
    BY <1>2, QuietInv, SendInv, AckReceiverInv, AckSenderInv, AckMarkInv DEF BridgeNext, IInv
  <1>3. QED
    BY <1>1, <1>2, ServerStep, ConnectionType DEF IInv, vars, bridgeVars

LEMMA Invariance == Spec => []IInv
  BY InitInv, StepInv, PTL DEF Spec

(* A message is marked as acknowledged only when the receiver remembers    *)
(* receiving it and the sender that it was delivered: relay.py writes both *)
(* memories before the mark, and a bridge that dies in between, or another *)
(* one working on the same message, cannot change that.                    *)
THEOREM AcknowledgedIsOnRecord == Spec => []AcknowledgedIsRemembered
  <1>1. IInv => AcknowledgedIsRemembered
    BY DEF IInv, BridgeInv
  <1>2. QED
    BY <1>1, Invariance, PTL

(* No dog remembers a relayed message that was not sent, or another text   *)
(* or time of it, or its own view mixed up with the other's.               *)
THEOREM MemoryIsTrue == Spec => []MemoryIsOfTheMessage
  <1>1. IInv => MemoryIsOfTheMessage
    BY DEF IInv, BridgeInv
  <1>2. QED
    BY <1>1, Invariance, PTL

(* What a bridge answers with ok has been done, and stays done: a replayed *)
(* send or acknowledgement is only reported when its row says so.          *)
THEOREM SuccessIsEarned == Spec => []SuccessIsTrue
  <1>1. IInv => SuccessIsTrue
    BY DEF IInv, BridgeInv, Known, Succeeded, SuccessIsTrue
  <1>2. QED
    BY <1>1, Invariance, PTL
=============================================================================
