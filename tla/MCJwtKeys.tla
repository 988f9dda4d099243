----------------------------- MODULE MCJwtKeys -----------------------------
(* A small instance of JwtKeys for TLC.  Calls are alike, and so are        *)
(* processes.                                                               *)
EXTENDS JwtKeys, TLC

CONSTANTS c1, c2, p1, p2

MCSymmetry == Permutations({c1, c2}) \cup Permutations({p1, p2})
=============================================================================
