---------------------------- MODULE MCReception ----------------------------
(* Small instances of Reception for TLC; the values are in the .cfg files. *)
EXTENDS Reception

AnyKind == PacketKinds
=============================================================================
