----------------------------- MODULE MCDownloads -----------------------------
(***************************************************************************)
(* Downloads of a file of two pieces: one of three units, which takes      *)
(* several appends and two block requests, and a shorter last one.         *)
(*                                                                         *)
(* "sessions": two direct sessions whose peers may send wrong data; every  *)
(* append is a checkpoint, so no payload write is left unflushed.          *)
(* "called": one direct session and a peer that called back.               *)
(* "faults" and "copies": the store alone, with a checkpoint in the middle *)
(* of a piece and crashes at any point; manifest writes fail or are torn   *)
(* in the first, only the copy of an ingested file fails in the second.    *)
(***************************************************************************)
EXTENDS DownloadSession, TLC

CONSTANTS Scenes, d1, d2, c1
VARIABLE scene

MCPieces == 0 .. 1
MCPieceLen == 0 :> 3 @@ 1 :> 1
MCWindows == {<<1, 1>>, <<3, 2>>}

Faulted == INSTANCE TransferStore WITH
    CheckpointUnits <- 2, Faults <- {"torn", "failed"}, Crashes <- TRUE
Copying == INSTANCE TransferStore WITH
    CheckpointUnits <- 2, Faults <- {"copy"}, Crashes <- TRUE

\* A queue rank only puts off a timeout, which is MCLive's subject: no step
\* becomes possible by it, so the peers send none here.
NoRanks == \A s \in Sessions : ~sess'[s].queued

MCNext ==
    /\ UNCHANGED scene
    /\ \/ scene = "sessions" /\ DNext /\ NoRanks /\ sess'[c1] = Off
       \/ /\ scene = "called" /\ DNext /\ NoRanks /\ sess'[d2] = Off
          /\ \A s \in Sessions : starts'[s] <= 1
       \/ scene = "faults" /\ Faulted!Next /\ UNCHANGED <<task, dial, sess, starts>>
       \/ scene = "copies" /\ Copying!Next /\ UNCHANGED <<task, dial, sess, starts>>

MCInit == scene \in Scenes /\ DInit

MCSpec == MCInit /\ [][MCNext]_<<dvars, scene>>

\* TransferStore, where a copy never truncates the payload of a known transfer:
\* what is verified is the file, and what the manifest counts is on disk.
PayloadBacks == scene # "copies" => VerifiedIsGood /\ PrefixOnDisk

\* TransferStore, where manifest writes succeed: what a crash loses is bounded
\* by the checkpoint, and the catalog advertises only what can be served.
DiskKeepsUp == scene = "copies" => Copying!BoundedLoss /\ Copying!CatalogServable
=============================================================================
