---------------------------- MODULE MCPairEndpoint ----------------------------
(* Two dogs, message ids by number, one slot per server.                      *)
EXTENDS PairEndpoint

CONSTANTS dog_a, dog_b, b1, b2, x, y

MCTexts == Bodies \X {"received", "delivered"}
MCPeer == [d \in {dog_a, dog_b} |-> IF d = dog_a THEN dog_b ELSE dog_a]
=============================================================================
