--------------------------- MODULE MCBootVectors ---------------------------
(***************************************************************************)
(* BootVectors with timers small enough for every interleaving: "ready"    *)
(* runs over two values of the high byte, "token" over one, as on the      *)
(* device.                                                                 *)
(***************************************************************************)
EXTENDS BootVectors

MCBase == 8
MCReadyTicks == 15
MCTokenTicks == 6
=============================================================================
