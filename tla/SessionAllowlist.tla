--------------------------- MODULE SessionAllowlist ---------------------------
(***************************************************************************)
(* What the session allowlist promises, whatever keys, scripts and         *)
(* requests implement it: a session is opened once, is held by exactly one *)
(* refresh token at a time, every token holds it at most once, and a       *)
(* closed session never opens again.                                       *)
(***************************************************************************)
EXTENDS Naturals, FiniteSets

CONSTANTS Sid, Jti, MaxSessions, Unopened, Closed

VARIABLES
  cur,   \* the token that holds each session, Unopened or Closed
  ever   \* every token that has held a session

vars == <<cur, ever>>

OpenSids(c) == {s \in Sid : c[s] \in Jti}

Init ==
  /\ cur = [s \in Sid |-> Unopened]
  /\ ever = {}

\* A login opens a session and closes what the cap leaves no room for.
Open(s, j) ==
  /\ cur[s] = Unopened
  /\ j \notin ever
  /\ \E out \in SUBSET (OpenSids(cur) \cup {s}) :
       cur' = [t \in Sid |-> IF t \in out THEN Closed
                             ELSE IF t = s THEN j ELSE cur[t]]
  /\ Cardinality(OpenSids(cur')) <= MaxSessions
  /\ ever' = ever \cup {j}

\* A refresh replaces the holder by a token that never held anything.
Rotate(s, j) ==
  /\ cur[s] \in Jti
  /\ j \notin ever
  /\ cur' = [cur EXCEPT ![s] = j]
  /\ ever' = ever \cup {j}

\* Logout, revocation, expiry and eviction only close.
Close(S) ==
  /\ S # {}
  /\ cur' = [s \in Sid |-> IF s \in S THEN Closed ELSE cur[s]]
  /\ UNCHANGED ever

Next ==
  \/ \E s \in Sid, j \in Jti : Open(s, j) \/ Rotate(s, j)
  \/ \E S \in SUBSET OpenSids(cur) : Close(S)

Spec == Init /\ [][Next]_vars
=============================================================================
