---------------------------- MODULE MCSocialRecall ----------------------------
(* A dog, two peers, five ids: events that score, a failed one, chats, and   *)
(* thoughts that may come before their evidence; some ids are used twice.    *)
(* The sizes let one fact and a short thought fit whole, and little more.    *)
EXTENDS SocialRecall

CONSTANTS a, b, c, short, long

Event(i, peer, at, delta, result) ==
  [id |-> i, peer |-> peer, kind |-> "event", text |-> long, at |-> at, source |-> "simulation",
   result |-> result, delta |-> delta, evidence |-> {}]
Chat(i, peer, at, source) ==
  [id |-> i, peer |-> peer, kind |-> "chat", text |-> short, at |-> at, source |-> source,
   result |-> "completed", delta |-> 0, evidence |-> {}]
Thought(i, peer, at, text, evidence) ==
  [id |-> i, peer |-> peer, kind |-> "thought", text |-> text, at |-> at, source |-> "llm",
   result |-> "derived", delta |-> 0, evidence |-> evidence]

MCProfiles == {[owner |-> a, mode |-> "simulation"], [owner |-> b, mode |-> "simulation"],
               [owner |-> a, mode |-> "live"]}
Simulated ==
  { Event(1, b, 2, 60, "completed"), Event(1, b, 1, 60, "completed"),
    Event(2, b, 1, 60, "completed"), Event(2, c, 1, 40, "completed"),
    Event(2, b, 1, 0, "failed"), Event(2, b, 1, 10, "failed"),
    Event(3, b, 3, 30, "completed"), Event(3, a, 3, 30, "completed"),
    Chat(3, c, 1, "operator"), Chat(3, b, 2, "simulation"),
    Thought(4, b, 2, short, {1}), Thought(4, b, 1, long, {1, 2}), Thought(4, c, 2, long, {2}),
    Thought(4, b, 2, short, {2, 4}),
    Thought(5, b, 3, short, {1}), Thought(5, b, 3, short, {1, 2, 3}), Thought(5, b, 3, long, {3}) }
MCInputs == Simulated \cup {[m EXCEPT !.source = "operator"] : m \in Simulated}
MCLength == [t \in {short, long} |-> IF t = short THEN 2 ELSE 8]
=============================================================================
