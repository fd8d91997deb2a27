--------------------------- MODULE MCUploadQueue ---------------------------
(***************************************************************************)
(* A small upload queue: one slot, three peers.  Either one waiting place  *)
(* and two files, where newcomers are turned away or displace a waiter, or *)
(* two waiting places and one file, where promotion has a choice.          *)
(***************************************************************************)
EXTENDS UploadQueue, TLC

CONSTANTS p1, p2, p3, f1, f2
VARIABLE room   \* waiting places

MCPeers == {p1, p2, p3}
MCFriendPeers == {p3}
MCFiles == {f1, f2}

\* p1 and p2 differ in nothing; p3 is a friend.
MCSymmetry == Permutations({p1, p2})

Wide == INSTANCE UploadQueue WITH WaitingCapacity <- 2, Files <- {f1}

MCNext == /\ UNCHANGED room
          /\ \/ room = 1 /\ Next
             \/ room = 2 /\ Wide!Next

MCInit == room \in {1, 2} /\ Init

MCSpec == MCInit /\ [][MCNext]_<<vars, room>>

\* No operation leaves more waiters than there are places.
RoomKept == IF room = 1 THEN WaitingWithinCapacity ELSE Wide!WaitingWithinCapacity
=============================================================================
