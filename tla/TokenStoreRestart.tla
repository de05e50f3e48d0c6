--------------------------- MODULE TokenStoreRestart ---------------------------
(***************************************************************************)
(* The token service over a Valkey that can crash and restart from its     *)
(* append-only file (valkey.conf: appendonly yes, appendfsync everysec):   *)
(* it comes back with the keys of the last fsync.  Requests in flight lose *)
(* their connection, which is Crash or RotateRaises of JwtTokenService.    *)
(***************************************************************************)
EXTENDS JwtTokenService

VARIABLE disk   \* the store as of the last fsync of the append-only file

Image == [rt |-> rt, members |-> members, score |-> score, rot |-> rot]

InitR == Init /\ disk = Image

Fsync == disk' = Image /\ UNCHANGED vars

Restart ==
  /\ rt' = disk.rt
  /\ members' = disk.members
  /\ score' = disk.score
  /\ rot' = disk.rot
  /\ UNCHANGED <<reqVars, mintVars, clientVars, ever, disk>>

NextR == (Next /\ UNCHANGED disk) \/ Fsync \/ Restart

SpecR == InitR /\ [][NextR]_<<vars, disk>>

\* "Nothing here ever makes a revoked token valid again" (TokenStore's
\* docstring): a closed session stays closed across a restart too.
RevokedStaysRevoked ==
  [][\A s \in Sid :
       (\E j \in ever : sidOf[j] = s) /\ ~IsOpen(s) => ~IsOpen(s)']_<<vars, disk>>
=============================================================================
