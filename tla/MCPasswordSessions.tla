-------------------------- MODULE MCPasswordSessions --------------------------
(* PasswordSessions for TLC: finite supplies of ids, which are interchangeable *)
(* like the requests.                                                         *)
EXTENDS PasswordSessions, TLC

Symmetry == Permutations(Sid) \cup Permutations(Ticket) \cup Permutations(Request)
=============================================================================
