--------------------------- MODULE MCEncounterGate ---------------------------
(* Detections that lead to every resolution, three stable frames, a gap of 2. *)
EXTENDS EncounterGate

Seen(t, s, v) == [tag |-> t, sure |-> s, valid |-> v]
MCDetections == {Unseen, Seen(Peer, TRUE, TRUE), Seen(Own, TRUE, TRUE), Seen(Stranger, TRUE, TRUE),
                 Seen(Peer, FALSE, TRUE), Seen(Own, TRUE, FALSE)}
=============================================================================
