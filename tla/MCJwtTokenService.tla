--------------------------- MODULE MCJwtTokenService ---------------------------
(* JwtTokenService for TLC: finite supplies of ids; ids are interchangeable. *)
EXTENDS JwtTokenService, TLC

Symmetry == Permutations(Sid) \cup Permutations(Jti) \cup Permutations(Request)
=============================================================================
