---------------------------- MODULE MCPairSession ----------------------------
(* One completed session makes the cautious dog familiar, two reach the cap. *)
EXTENDS PairSession

CONSTANTS p1, p2, s1, s2, dog_a, dog_b

MCIds == Sessions \X Pair \X (1..2)
MCOrder == << dog_a, dog_b >>
MCGain == [d \in Pair |-> 60]
=============================================================================
