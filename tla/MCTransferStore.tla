-------------------------- MODULE MCTransferStore --------------------------
(***************************************************************************)
(* Two pieces: one of three units, which takes several appends and passes  *)
(* through a checkpoint, and a shorter last one.  No write fails; the      *)
(* process may crash at any point.                                         *)
(***************************************************************************)
EXTENDS TransferStore, TLC

MCPieces == 0 .. 1
MCPieceLen == 0 :> 3 @@ 1 :> 1
=============================================================================
