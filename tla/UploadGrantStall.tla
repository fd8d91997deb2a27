-------------------------- MODULE UploadGrantStall --------------------------
(***************************************************************************)
(* How long a granted peer may hold its slot without asking for data.  A    *)
(* history variable remembers when each peer's session was last granted.    *)
(***************************************************************************)
EXTENDS UploadListener

CONSTANTS c1, c2, p1, p2, f1

VARIABLE granted_at

MCConns == {c1, c2}
MCPeers == {p1, p2}
MCFriendPeers == {}
MCFiles == {f1}

GrantedSession(q, p, seq) ==
    \E k \in SameSession(q, p, seq) : q.sessions[k].phase = "Granted"

SInit == LInit /\ granted_at = [p \in Peers |-> 0]

SNext ==
    /\ LNext
    /\ granted_at' = [p \in Peers |->
          IF \E seq \in 1..MaxConnections :
                GrantedSession(queue', p, seq) /\ ~ GrantedSession(queue, p, seq)
          THEN now ELSE granted_at[p]]

SSpec == SInit /\ [][SNext]_<<lvars, granted_at>>

\* "Maximum stall time after grant before the peer requests data": when an
\* operation has just looked at a session that is still only granted, its grant
\* is at most granted_timeout old.
GrantStallBounded ==
    \A k \in DOMAIN queue.sessions :
        queue.sessions[k].phase = "Granted" /\ queue.sessions[k].last_activity = now
        => now - granted_at[k.peer] <= GrantedTimeout
=============================================================================
