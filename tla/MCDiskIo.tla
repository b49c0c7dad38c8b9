------------------------------ MODULE MCDiskIo ------------------------------
(***************************************************************************)
(* A card of seven sectors of 3 bytes: an address in the wrong unit is     *)
(* a valid address of another sector, or none.                             *)
(***************************************************************************)
EXTENDS DiskIo

MCSectorSize == 3
MCSectors == 7
MCMaxTries == 2
=============================================================================
