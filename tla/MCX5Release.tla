----------------------------- MODULE MCX5Release -----------------------------
(* r1 replaces both files of the device, r2 only the required one. *)
EXTENDS X5Release, TLC

CONSTANTS p1, p2, r1, r2, soul, user, c0, c1, c2

MCPayload == [r \in Revs |-> [f \in Files |->
                IF r = r1 THEN c1 ELSE IF f = soul THEN c2 ELSE None]]
MCFactory == {(soul :> c0) @@ (user :> None)}
Symmetry == Permutations(Runners)
=============================================================================
