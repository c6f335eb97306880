--------------------------- MODULE MCActionPolicy ---------------------------
(***************************************************************************)
(* The instance of ActionPolicy that TLC checks: four of the allowlist's   *)
(* risk classes with their shape and shorter times, and intents that       *)
(* differ in one of tool, mode and arguments.                              *)
(***************************************************************************)
EXTENDS ActionPolicy, TLC

ShortRisks == {"observe", "data_write", "expressive", "body_motion"}
ShortModes == {"identity", "supervised", "autonomous"}

Free(modes, approval) ==
  [allowed_modes |-> modes, approval_modes |-> approval, physical |-> FALSE, demands |-> {},
   minimum_battery |-> Unknown, max_sensor_age |-> Unknown, cooldown |-> 0]
Moving(battery, age, cooldown) ==
  [allowed_modes |-> {"supervised"}, approval_modes |-> {"supervised"}, physical |-> TRUE,
   demands |-> Facts, minimum_battery |-> battery, max_sensor_age |-> age,
   cooldown |-> cooldown]

Allowlist ==
  [risks |-> [observe |-> Free(ShortModes, {}),
              data_write |-> Free(ShortModes, ShortModes),
              expressive |-> Moving(25, 1, 1),
              body_motion |-> Moving(40, 0, 2)],
   tools |-> [query_battery |-> "observe", set_schedule |-> "data_write",
              head_move |-> "expressive", body_turn |-> "body_motion"]]

Call(tool, mode, arguments) == [tool |-> tool, mode |-> mode, arguments |-> arguments]
NotCanonical == {Call("set_schedule", "identity", "nested")}
Approvable == {Call("set_schedule", "identity", "none"), Call("head_move", "supervised", "left"),
               Call("head_move", "supervised", "right"), Call("body_turn", "supervised", "left")}
Calls == NotCanonical \cup Approvable \cup
         {Call("query_battery", "identity", "none"), Call("backflip", "anything", "left")}

Ready == [f \in Facts \cup {"battery"} |-> IF f = "battery" THEN 80 ELSE Wanted[f]]
AnyNonce == Permutations(Nonces)

\* One demand of each kind of gate is violated: the five facts are alike.
Robots == {Ready, [Ready EXCEPT !["battery"] = 30], [Ready EXCEPT !["fault"] = TRUE]}
=============================================================================
