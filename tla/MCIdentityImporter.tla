------------------------- MODULE MCIdentityImporter -------------------------
(* Two bundles: r1 replaces the required file and the optional one, r2 only *)
(* the required one.  A device starts with its own soul.md and no user.md,  *)
(* or with what r1 would install.                                           *)
EXTENDS IdentityImporter, TLC

CONSTANTS p1, p2, r1, r2, soul, user, c0, c1, c2

MCPayload == [r \in Revs |-> [f \in Files |->
                IF r = r1 THEN c1 ELSE IF f = soul THEN c2 ELSE None]]

OneFactory == {(soul :> c0) @@ (user :> None)}
Factories == OneFactory \cup {(soul :> c1) @@ (user :> c1)}

Symmetry == Permutations(Procs)
=============================================================================
