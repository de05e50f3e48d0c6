--------------------------- MODULE MCFrontendSession ---------------------------
(* FrontendSession for TLC: finite supplies of interchangeable ids. *)
EXTENDS FrontendSession, TLC

Symmetry == Permutations(Sid) \cup Permutations(Jti) \cup Permutations(Tab)
=============================================================================
