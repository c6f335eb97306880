------------------------------ MODULE PairRelay ------------------------------
(***************************************************************************)
(* packages/native_agent/dogos_mcp/relay.py and bridge.py: the text relay  *)
(* of two Agents.  A message is a row of the shared outbox; acknowledging  *)
(* it writes one memory to the receiver's database, one to the sender's,   *)
(* and then marks the row.  These are three transactions of three files,   *)
(* made by a bridge process that may die between any two, while other      *)
(* bridges work on the same message.  PairEndpoint is who starts bridges.  *)
(***************************************************************************)
EXTENDS MemoryStore, FiniteSets

CONSTANTS Bridges, \* bridge processes, each serving one call at a time
          Peer,    \* Peer[d]: the fixed peer of dog d's endpoint
          Bodies,  \* message contents
          Times,   \* what the wall clock may show; it may be set back
          Limit    \* messages an Agent asks its inbox for

VARIABLES relay, \* relay[i]: the row of message i
          db,    \* db[d]: the memory database of dog d
          pc,    \* pc[b]: the next step of bridge b, or how it ended
          call   \* call[b]: what bridge b was asked and has read

bridgeVars == << relay, db, pc, call >>

\* Message ids are compared by the inbox; texts tell the two views apart.
ASSUME IdsAssumption == Ids \subseteq Nat /\ Times \subseteq Nat
ASSUME TextsAssumption == Texts = Bodies \X {"received", "delivered"}
ASSUME PeerAssumption == Peer \in [Dogs -> Dogs] /\ \A d \in Dogs : Peer[d] # d

Message == [from : Dogs, to : Dogs, body : Bodies, sent : Times, acked : Times \cup {None}]

ASSUME NoneAssumption == None \notin Message /\ None \notin Times

\* The tools of the endpoint; read is dogos_recall or dogos_inbox.
Request == [op : {"send"}, id : Ids, body : Bodies] \cup [op : {"ack"}, id : Ids, body : {None}]
             \cup [op : {"read"}, id : {None}, body : {None}]
Call == [op : {"send", "ack", "read"}, id : Ids \cup {None}, body : Bodies \cup {None},
         owner : Dogs, sent : Times \cup {None}]

Running == {"send", "read", "ack", "receiver", "sender", "mark"}
Ended == {"ok", "failed"}

BridgeTypeOK ==
  /\ relay \in [Ids -> Message \cup {None}] /\ db \in [Dogs -> Database]
  /\ pc \in [Bridges -> {"idle"} \cup Running \cup Ended]
  /\ call \in [Bridges -> Call \cup {None}]

BridgeInit ==
  /\ relay = [i \in Ids |-> None]
  /\ \E mode \in [Dogs -> Modes] : db = [d \in Dogs |-> EmptyDatabase(d, mode[d])]
  /\ pc = [b \in Bridges |-> "idle"] /\ call = [b \in Bridges |-> None]

\* run: the operation of one dog's endpoint.
Start(b, d, request) ==
  /\ pc[b] = "idle"
  /\ pc' = [pc EXCEPT ![b] = request.op]
  /\ call' = [call EXCEPT ![b] = [op |-> request.op, id |-> request.id, body |-> request.body,
                                  owner |-> d, sent |-> None]]

Goto(b, label) == pc' = [pc EXCEPT ![b] = label] /\ UNCHANGED call
End(b, good) == Goto(b, IF good THEN "ok" ELSE "failed")
Reaped(b) == pc' = [pc EXCEPT ![b] = "idle"] /\ call' = [call EXCEPT ![b] = None]

Queued(c, now) ==
  [from |-> c.owner, to |-> Peer[c.owner], body |-> c.body, sent |-> now, acked |-> None]

\* A known id with the same payload: a replay.
IsQueued(c) ==
  /\ relay[c.id] # None
  /\ relay[c.id].from = c.owner /\ relay[c.id].to = Peer[c.owner] /\ relay[c.id].body = c.body

\* Mutant: any known id is reported as a replay.
SendUncompared(b, now) ==
  /\ pc[b] = "send"
  /\ LET c == call[b] IN relay' = [relay EXCEPT ![c.id] = IF @ = None THEN Queued(c, now) ELSE @]
  /\ End(b, TRUE)
  /\ UNCHANGED db

\* send_message: one transaction; a known id is a replay or a conflict.
Send(b, now) ==
  /\ pc[b] = "send"
  /\ LET c == call[b]
     IN /\ relay' = [relay EXCEPT ![c.id] = IF @ = None THEN Queued(c, now) ELSE @]
        /\ End(b, relay[c.id] = None \/ IsQueued(c))
  /\ UNCHANGED db

\* health, recall and list_inbox change nothing.
Read(b) == pc[b] = "read" /\ End(b, TRUE) /\ UNCHANGED << relay, db >>

\* The row is addressed to the owner, by its peer.
Incoming(d, i) == relay[i] # None /\ relay[i].to = d /\ relay[i].from = Peer[d]

\* Mutant: any message of the outbox can be acknowledged.
AckFindAny(b) ==
  /\ pc[b] = "ack"
  /\ LET i == call[b].id
     IN IF relay[i] # None
        THEN /\ call' = [call EXCEPT ![b].body = relay[i].body, ![b].sent = relay[i].sent]
             /\ pc' = [pc EXCEPT ![b] = "receiver"]
        ELSE End(b, FALSE)
  /\ UNCHANGED << relay, db >>

\* Both databases are of one mode; like the row, a mode never changes.
SameMode(d) == db[d].mode = db[Peer[d]].mode

\* acknowledge_message reads the row and the two modes.
AckFind(b) ==
  /\ pc[b] = "ack"
  /\ LET i == call[b].id
     IN IF Incoming(call[b].owner, i) /\ SameMode(call[b].owner)
        THEN /\ call' = [call EXCEPT ![b].body = relay[i].body, ![b].sent = relay[i].sent]
             /\ pc' = [pc EXCEPT ![b] = "receiver"]
        ELSE End(b, FALSE)
  /\ UNCHANGED << relay, db >>

\* receiver_record and sender_record.
Delivery(c, peer, view) ==
  [id |-> c.id, peer |-> peer, kind |-> "chat", text |-> << c.body, view >>, at |-> c.sent,
   source |-> IF db[c.owner].mode = "simulation" THEN "simulation" ELSE "robot_feedback",
   result |-> "completed", delta |-> 0, evidence |-> {}]
Received(c) == Delivery(c, Peer[c.owner], "received")
Delivered(c) == Delivery(c, c.owner, "delivered")

\* Mutant: the receiver's own view is enough to acknowledge.
AckReceiverOnly(b) ==
  /\ pc[b] = "receiver"
  /\ db' = [db EXCEPT ![call[b].owner] = Appended(@, Received(call[b]))]
  /\ Goto(b, "mark")
  /\ UNCHANGED relay

\* Mutant: a memory that is already there is an error.
AckReceiverOnce(b) ==
  /\ pc[b] = "receiver"
  /\ LET c == call[b]
     IN /\ db' = [db EXCEPT ![c.owner] = Appended(@, Received(c))]
        /\ IF db[c.owner].rows[c.id] # None THEN End(b, FALSE) ELSE Goto(b, "sender")
  /\ UNCHANGED relay

\* append in the receiver's database; a replay is as good as an insertion.
AckReceiver(b) ==
  /\ pc[b] = "receiver"
  /\ LET c == call[b]
     IN /\ db' = [db EXCEPT ![c.owner] = Appended(@, Received(c))]
        /\ IF Refuses(db[c.owner], Received(c)) THEN End(b, FALSE) ELSE Goto(b, "sender")
  /\ UNCHANGED relay

AckSender(b) ==
  /\ pc[b] = "sender"
  /\ LET c == call[b]
     IN /\ db' = [db EXCEPT ![Peer[c.owner]] = Appended(@, Delivered(c))]
        /\ IF Refuses(db[Peer[c.owner]], Delivered(c)) THEN End(b, FALSE) ELSE Goto(b, "mark")
  /\ UNCHANGED relay

\* The first acknowledgement keeps its time.
AckMark(b, now) ==
  /\ pc[b] = "mark"
  /\ LET c == call[b]
     IN relay' = [relay EXCEPT ![c.id].acked =
          IF Incoming(c.owner, c.id) /\ @ = None THEN now ELSE @]
  /\ End(b, TRUE)
  /\ UNCHANGED db

\* The bridge is killed, or a database stays locked: the transaction of the
\* step is not made.  A bridge that has done its work may still die before its
\* answer is read.
Die(b) ==
  /\ pc[b] \in Running \cup {"ok"}
  /\ Goto(b, "failed")
  /\ UNCHANGED << relay, db >>

Step(b) ==
  \/ Read(b) \/ AckFind(b) \/ AckReceiver(b) \/ AckSender(b)
  \/ \E now \in Times : Send(b, now) \/ AckMark(b, now)

\* list_inbox: the newest messages first, acknowledged or not.
Newer(i, j) == relay[i].sent > relay[j].sent \/ (relay[i].sent = relay[j].sent /\ i > j)
Inbox(d) ==
  {j \in Ids : /\ Incoming(d, j)
               /\ Cardinality({i \in Ids : Incoming(d, i) /\ Newer(i, j)}) < Limit}

-----------------------------------------------------------------------------
Remembers(d, i) == db[d].rows[i] # None

\* A message is in both memories.
OnRecord(i) == \A d \in {relay[i].from, relay[i].to} : Remembers(d, i)

\* An acknowledged message is in both memories, whichever bridge died when:
\* relay.py:5-6.
AcknowledgedIsRemembered ==
  \A i \in Ids : relay[i] # None /\ relay[i].acked # None => OnRecord(i)

\* What a dog remembers of the relay was sent, with the text and the time it
\* was sent with: by its peer if it remembers receiving it, by itself if it
\* remembers that it was delivered.
MemoryIsOfTheMessage ==
  \A d \in Dogs, i \in Ids : Remembers(d, i) =>
    /\ relay[i] # None
    /\ LET row == db[d].rows[i]
           view == IF relay[i].to = d THEN "received" ELSE "delivered"
       IN /\ row.text = << relay[i].body, view >> /\ row.at = relay[i].sent
          /\ {d, row.peer} = {relay[i].from, relay[i].to}

\* A bridge that reports success has done what it was asked: the message it
\* sent is queued with its text, the one it acknowledged is marked.
SuccessIsTrue ==
  \A b \in Bridges : pc[b] = "ok" =>
    /\ call[b].op = "send" => IsQueued(call[b])
    /\ call[b].op = "ack" => relay[call[b].id].acked # None /\ OnRecord(call[b].id)

=============================================================================
