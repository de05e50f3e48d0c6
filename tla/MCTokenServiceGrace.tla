-------------------------- MODULE MCTokenServiceGrace --------------------------
(* JwtTokenService for TLC with a grace, in two ways: with calls that fail,  *)
(* processes that die and keys that are lost, and with more requests and     *)
(* none of these.                                                            *)
EXTENDS MCJwtTokenService

CONSTANT Busy   \* bound on the requests under way while calls may fail

VARIABLES
  calm,     \* whether no call fails, no process dies and no key is lost
  active    \* the requests that are made: all while it is calm, else Busy of them

ServiceInit ==
  /\ Init
  /\ calm \in BOOLEAN
  /\ active \in SUBSET Request
  /\ IF calm THEN active = Request ELSE Cardinality(active) = Busy

ServiceNext ==
  /\ IF calm THEN CalmNext ELSE Next
  /\ \A p \in Request \ active : pc'[p] = pc[p]
  /\ UNCHANGED <<calm, active>>

ServiceSpec == ServiceInit /\ [][ServiceNext]_<<vars, calm, active>>

\* While nothing fails, a refresh whose token was current when it began is refused only
\* if it was overtaken.
RefusedOnlyIfOvertaken == [][calm => RefusedAsOvertaken]_vars
=============================================================================
