----------------------------- MODULE MCStrength -----------------------------
(***************************************************************************)
(* Strength on small instances.                                            *)
(***************************************************************************)
EXTENDS Strength

\* Every pair of four levels.
AllStrengths == {0, 3, 5, 6} \X {0, 3, 5, 6}
=============================================================================
