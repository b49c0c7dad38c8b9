------------------------------- MODULE Bytes -------------------------------
(***************************************************************************)
(* The bytes that travel from a hex file through the bootloader's buffers  *)
(* into program memory.  A byte is the set of its bits that are one, over  *)
(* a set Bits of bit positions (eight on the device, fewer in a model).    *)
(* NOR flash can only clear bits, so programming is an intersection.       *)
(***************************************************************************)
CONSTANT Bits

Byte == SUBSET Bits

ErasedByte == Bits          \* 0xFF

ZeroByte == {}              \* 0x00
=============================================================================
