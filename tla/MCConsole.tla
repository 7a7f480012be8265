------------------------------ MODULE MCConsole -----------------------------
(***************************************************************************)
(* Instances of Console for TLC.  Pages are interchangeable, and so are    *)
(* settings.                                                               *)
(***************************************************************************)
EXTENDS Console, TLC

CONSTANTS p1, p2, c1, c2

Symmetry == Permutations({p1, p2}) \cup Permutations({c1, c2})
=============================================================================
