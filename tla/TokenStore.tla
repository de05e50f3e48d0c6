------------------------------ MODULE TokenStore ------------------------------
(***************************************************************************)
(* The Valkey keys of one subject's refresh-token sessions in one          *)
(* namespace, and the scripts and commands of RedisTokenStore that touch   *)
(* them.  Every script, and every MULTI pipeline, is one step.  Keys of    *)
(* other subjects and namespaces are disjoint, so one subject is enough.   *)
(***************************************************************************)
EXTENDS Naturals, FiniteSets

CONSTANTS
  Sid,          \* session ids (uuid7, never reused)
  Jti,          \* refresh-token ids (uuid7, never reused)
  MaxSessions,  \* JWT_MAX_SESSIONS_PER_USER
  None,         \* an absent key
  Pending       \* ROTATION_PENDING

ASSUME StoreAssumption ==
  /\ MaxSessions \in Nat \ {0}
  /\ None \notin Jti \cup Sid
  /\ Pending \notin Jti \cup {None}

VARIABLES
  rt,       \* {ns}_RT:{sub}:{sid}   current refresh jti of a session, or None
  members,  \* {ns}_SESS:{sub}       members of the index (a sorted set)
  score,    \*                       their scores (last use); junk for the rest
  rot       \* {ns}_ROT:{jti}        None, Pending or the jti of the shared pair

storeVars == <<rt, members, score, rot>>

StoreTypeOK ==
  /\ rt \in [Sid -> Jti \cup {None}]
  /\ members \in SUBSET Sid
  /\ score \in [Sid -> Nat]
  /\ rot \in [Jti -> Jti \cup {None, Pending}]

StoreInit ==
  /\ rt = [s \in Sid |-> None]
  /\ members = {}
  /\ score = [s \in Sid |-> 0]
  /\ rot = [j \in Jti |-> None]

\* _CURRENT_JTI: nothing unless the id is in the index.
CurrentJti(s) == IF s \in members THEN rt[s] ELSE None

\* A session accepts a token only while both of its keys are there.
IsOpen(s) == CurrentJti(s) # None

-----------------------------------------------------------------------------
\* A broken variant, used to show that the properties notice it: the index
\* is trimmed one session late.
PopsOldestOffByOne(out, index, used) ==
  /\ \A o \in out, k \in index \ out : used[o] <= used[k]
  /\ Cardinality(index \ out) =
       IF Cardinality(index) > MaxSessions + 1 THEN MaxSessions + 1 ELSE Cardinality(index)

\* ZPOPMIN until the index fits: the removed members have the lowest scores
\* (equal scores: by member name, so any of them).
PopsOldest(out, index, used) ==
  /\ \A o \in out, k \in index \ out : used[o] <= used[k]
  /\ Cardinality(index \ out) =
       IF Cardinality(index) > MaxSessions THEN MaxSessions ELSE Cardinality(index)

\* Broken variants of RotateIfCurrent: a session that is not in the index is
\* rotated all the same ...
RotateIgnoringIndex(s, current, new, now) ==
  /\ rt[s] = current
  /\ rt' = [rt EXCEPT ![s] = new]
  /\ score' = [score EXCEPT ![s] = now]
  /\ members' = members \cup {s}
  /\ UNCHANGED rot
\* ... a rotation that does not compare the current jti ...
RotateAnyToken(s, current, new, now) ==
  /\ CurrentJti(s) # None
  /\ rt' = [rt EXCEPT ![s] = new]
  /\ score' = [score EXCEPT ![s] = now]
  /\ UNCHANGED <<members, rot>>
\* ... and one that does not refresh the score of its session.
RotateWithoutTouch(s, current, new, now) ==
  /\ CurrentJti(s) = current
  /\ rt' = [rt EXCEPT ![s] = new]
  /\ UNCHANGED <<members, score, rot>>

\* _OPEN_SESSION: drop members whose key is gone, store the session, trim.
OpenSession(s, jti, now) ==
  LET index == {m \in members : rt[m] # None} \cup {s}
      used  == [score EXCEPT ![s] = now]
  IN  \E out \in SUBSET index :
        /\ PopsOldest(out, index, used)
        /\ rt' = [t \in Sid |-> IF t \in out THEN None
                                ELSE IF t = s THEN jti ELSE rt[t]]
        /\ members' = index \ out
        /\ score' = used
        /\ UNCHANGED rot

\* _ROTATE_IF_CURRENT when it returns 1; CanRotate is its condition.
CanRotate(s, current) == CurrentJti(s) = current

RotateIfCurrent(s, current, new, now) ==
  /\ CanRotate(s, current)
  /\ rt' = [rt EXCEPT ![s] = new]
  /\ score' = [score EXCEPT ![s] = now]
  /\ UNCHANGED <<members, rot>>

\* close_session: DEL and ZREM in one MULTI.
CloseSession(s) ==
  /\ rt' = [rt EXCEPT ![s] = None]
  /\ members' = members \ {s}
  /\ UNCHANGED <<score, rot>>

\* _CLOSE_ALL_SESSIONS: keys of sessions missing from the index are not seen.
CloseAllSessions ==
  /\ rt' = [s \in Sid |-> IF s \in members THEN None ELSE rt[s]]
  /\ members' = {}
  /\ UNCHANGED <<score, rot>>

\* claim_rotation is SET NX; publish and release are unconditional.
ClaimRotation(jti) ==
  /\ rot[jti] = None
  /\ rot' = [rot EXCEPT ![jti] = Pending]
  /\ UNCHANGED <<rt, members, score>>

PublishRotation(jti, payload) ==
  /\ rot' = [rot EXCEPT ![jti] = payload]
  /\ UNCHANGED <<rt, members, score>>

ReleaseRotation(jti) ==
  /\ rot' = [rot EXCEPT ![jti] = None]
  /\ UNCHANGED <<rt, members, score>>

-----------------------------------------------------------------------------
\* Keys leave Valkey on their own: TTL, or eviction under maxmemory
\* (valkey.conf: allkeys-lru).  The index may go while its sessions stay.
LoseSessionKey(s) ==
  /\ rt[s] # None
  /\ rt' = [rt EXCEPT ![s] = None]
  /\ UNCHANGED <<members, score, rot>>

LoseIndex ==
  /\ members # {}
  /\ members' = {}
  /\ UNCHANGED <<rt, score, rot>>

LoseRotation(jti) ==
  /\ rot[jti] # None
  /\ rot' = [rot EXCEPT ![jti] = None]
  /\ UNCHANGED <<rt, members, score>>
=============================================================================
