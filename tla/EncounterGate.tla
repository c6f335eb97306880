---------------------------- MODULE EncounterGate ----------------------------
(***************************************************************************)
(* packages/dogos_demo/identity.py: one dog's gate between what its two    *)
(* cameras (or the operator) report and the sessions that may run.  Frames *)
(* carry their own time, so they may come late, twice or after a gap.      *)
(***************************************************************************)
EXTENDS Integers, Sequences

CONSTANTS Own, Peer,    \* the owner of the gate and the other configured dog
          Stranger,     \* a dog or a tag that is not configured
          Unseen,
          StableFrames, \* DemoConfig.stable_frames
          MaxGap,       \* DemoConfig.max_frame_gap_ms
          Cooldown,     \* DemoConfig.encounter_cooldown_ms
          Instants,        \* observed_at_ms of the reports
          Detections    \* what one camera may report, Unseen included

VARIABLES candidate, stable, lastFrame, confirmedId, confirmedAt, \* EncounterGate
          decision,     \* the last answer
          log           \* the last regular sightings of the peer, with their answers

gate == << candidate, stable, lastFrame, confirmedId, confirmedAt >>
gateVars == << gate, decision, log >>

ASSUME GateAssumption ==
  /\ Peer # Unseen /\ Unseen \notin Instants
  /\ StableFrames \in 1..10 /\ MaxGap \in Nat \ {0} /\ Cooldown \in Nat /\ Instants \subseteq Nat
  /\ Detections \subseteq [tag : {Own, Peer, Stranger}, sure : BOOLEAN, valid : BOOLEAN] \cup {Unseen}

Statuses == {"pending", "confirmed", "rejected", "suppressed"}
Reasons == {"no_detection", "low_confidence", "unknown_tag", "self_tag", "camera_conflict",
            "out_of_order", "owner_mismatch", "peer_not_configured", "stabilizing", "confirmed",
            "cooldown"}

\* IdentityDecision with its contract: the code raises when it is broken.
Decision ==
  {d \in [status : Statuses, reason : Reasons, peer : {Peer, Unseen},
          source : {"tag", "operator", Unseen}, at : Instants, frames : 0..StableFrames] :
     CASE d.status = "confirmed" -> d.reason = "confirmed" /\ d.peer # Unseen /\ d.source # Unseen /\ d.frames > 0
       [] d.status = "pending" -> d.reason = "stabilizing" /\ d.peer # Unseen /\ d.source = "tag" /\ d.frames > 0
       [] d.status = "rejected" -> d.peer = Unseen /\ d.source = Unseen /\ d.frames = 0
       [] d.status = "suppressed" -> d.reason = "cooldown" /\ d.peer # Unseen /\ d.source # Unseen /\ d.frames = 0}

Report == [at : Instants, status : Statuses]

GateTypeOK ==
  /\ candidate \in {Peer, Unseen} /\ stable \in 0..(StableFrames - 1) /\ (stable = 0 <=> candidate = Unseen)
  /\ lastFrame \in Instants \cup {Unseen}
  /\ confirmedId \in {Peer, Unseen} /\ confirmedAt \in Instants \cup {Unseen}
  /\ decision \in Decision \cup {Unseen}
  /\ log \in Seq(Report) /\ Len(log) <= StableFrames

GateInit ==
  /\ candidate = Unseen /\ stable = 0 /\ lastFrame = Unseen
  /\ confirmedId = Unseen /\ confirmedAt = Unseen
  /\ decision = Unseen /\ log = << >>

\* The log starts anew with a report that is no sighting or not a regular one.
Regular(at) == log # << >> /\ at - log[Len(log)].at \in 1..MaxGap
Noted(at, good, status) ==
  LET all == Append(IF Regular(at) THEN log ELSE << >>, [at |-> at, status |-> status])
  IN log' = IF ~good THEN << >> ELSE IF Len(all) > StableFrames THEN Tail(all) ELSE all

ClearStability == candidate' = Unseen /\ stable' = 0

Reject(reason, at, good) ==
  /\ ClearStability
  /\ decision' = [status |-> "rejected", reason |-> reason, peer |-> Unseen, source |-> Unseen,
                  at |-> at, frames |-> 0]
  /\ Noted(at, good, "rejected")
  /\ UNCHANGED << confirmedId, confirmedAt >>

\* _confirm; frames is the count the object holds when it is called.
Confirm(at, frames, source, good) ==
  /\ ClearStability
  /\ IF confirmedId = Peer /\ confirmedAt # Unseen /\ at - confirmedAt < Cooldown
     THEN /\ decision' = [status |-> "suppressed", reason |-> "cooldown", peer |-> Peer,
                          source |-> source, at |-> at, frames |-> 0]
          /\ Noted(at, good, "suppressed")
          /\ UNCHANGED << confirmedId, confirmedAt >>
     ELSE /\ confirmedId' = Peer /\ confirmedAt' = at
          /\ decision' = [status |-> "confirmed", reason |-> "confirmed", peer |-> Peer,
                          source |-> source, at |-> at, frames |-> IF frames > 1 THEN frames ELSE 1]
          /\ Noted(at, good, "confirmed")

\* _resolve_frame: what both cameras together say, or why they say nothing.
Resolution(left, right) ==
  LET valid == {d \in {left, right} \ {Unseen} : d.valid}
      tags == {d.tag : d \in {v \in valid : v.sure}}
  IN CASE valid = {} -> "no_detection"
       [] valid # {} /\ tags = {} -> "low_confidence"
       [] Stranger \in tags -> "unknown_tag"
       [] tags = {Own, Peer} -> "camera_conflict"
       [] tags = {Own} -> "self_tag"
       [] tags = {Peer} -> "peer"

\* Mutant: a gap is only noticed one tick later.
ExceedsByMore(at) == lastFrame # Unseen /\ at - lastFrame > MaxGap + 1
\* Mutant: the longest allowed gap is one too many.
ExceedsOrEquals(at) == lastFrame # Unseen /\ at - lastFrame >= MaxGap
Exceeds(at) == lastFrame # Unseen /\ at - lastFrame > MaxGap

Observe(owner, at, left, right) ==
  LET good == owner = Own /\ Resolution(left, right) = "peer"
      held == IF Exceeds(at) \/ candidate # Peer THEN 0 ELSE stable
  IN \/ /\ owner # Own
        /\ Reject("owner_mismatch", at, good) /\ UNCHANGED lastFrame
     \/ /\ owner = Own /\ lastFrame # Unseen /\ at <= lastFrame
        /\ Reject("out_of_order", at, good) /\ UNCHANGED lastFrame
     \/ /\ owner = Own /\ (lastFrame # Unseen => at > lastFrame)
        /\ lastFrame' = at
        /\ \/ /\ Resolution(left, right) # "peer"
              /\ Reject(Resolution(left, right), at, good)
           \/ /\ Resolution(left, right) = "peer" /\ held + 1 < StableFrames
              /\ candidate' = Peer /\ stable' = held + 1
              /\ decision' = [status |-> "pending", reason |-> "stabilizing", peer |-> Peer,
                              source |-> "tag", at |-> at, frames |-> held + 1]
              /\ Noted(at, good, "pending")
              /\ UNCHANGED << confirmedId, confirmedAt >>
           \/ /\ Resolution(left, right) = "peer" /\ held + 1 >= StableFrames
              /\ Confirm(at, held + 1, "tag", good)

ConfirmManual(owner, peer, at) ==
  /\ \/ owner # Own /\ Reject("owner_mismatch", at, FALSE)
     \/ owner = Own /\ peer = Own /\ Reject("self_tag", at, FALSE)
     \/ owner = Own /\ peer = Stranger /\ Reject("peer_not_configured", at, FALSE)
     \/ owner = Own /\ peer = Peer /\ Confirm(at, stable, "operator", FALSE)
  /\ UNCHANGED lastFrame

GateNext ==
  \E at \in Instants :
    \/ \E owner \in {Own, Peer}, left, right \in Detections : Observe(owner, at, left, right)
    \/ \E owner \in {Own, Peer}, peer \in {Own, Peer, Stranger} : ConfirmManual(owner, peer, at)

GateSpec == GateInit /\ [][GateNext]_gateVars

-----------------------------------------------------------------------------
\* A tag confirms an encounter only when the last reports, with nothing in
\* between, all showed the peer and only the peer, in order and without a gap.
TagsAreStable ==
  decision # Unseen /\ decision.status = "confirmed" /\ decision.source = "tag" =>
    Len(log) >= StableFrames

\* A peer that stays in sight is not overlooked: among as many regular frames
\* as make it stable, the first of them accepted, one is answered with an
\* encounter, new or suppressed.
SightingsAreAnswered ==
  Len(log) = StableFrames /\ log[1].status # "rejected" =>
    \E i \in 1..StableFrames : log[i].status \in {"confirmed", "suppressed"}
=============================================================================
