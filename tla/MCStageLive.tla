----------------------------- MODULE MCStageLive -----------------------------
(* The routines that TLC plays.                                            *)
EXTENDS StageLive

A(action) == [action |-> action, onFailure |-> "abort"]
C(action) == [action |-> action, onFailure |-> "continue"]

(* Outputs that may fail without ending the routine, and a wait.  The      *)
(* emotion is the output whose clearing depends on the driver's state.     *)
Varied == <<C("emotion"), C("head"), A("wait")>>
=============================================================================
