------------------------------ MODULE ByteFile ------------------------------
(***************************************************************************)
(* What Petit FatFs promises to its caller: files of bytes that are        *)
(* mounted, opened by a path, read from a position and positioned.  A call *)
(* succeeds if what it asks for is there and no transfer from the card     *)
(* fails while it runs; otherwise it fails, and leaves no file open that   *)
(* is not where it should be.  PetitFat implements it on a FAT volume.     *)
(***************************************************************************)
EXTENDS Integers, Sequences, SequencesExt

CONSTANTS
  Calls             \* what the caller may ask for: records [op, arg], where
                    \* arg is a path's number, a count or a position, or 0

Idle == [op |-> "none", arg |-> 0]

(* No file is open.  Paths are numbered from 1.                            *)
NoPath == 0

VARIABLES
  files,            \* by path, the files that can be reached: their size
                    \* and as many of their bytes as the volume has
  mountable,        \* there is a volume
  mounted,
  open,             \* the path of the open file, or NoPath
  at,               \* the position in it
  call,             \* the call in progress, or Idle
  failed,           \* a transfer has failed in this call
  answer,           \* of the last call: "none", "OK", "ERROR"
  got               \* bytes delivered by the last call

vars == <<files, mountable, mounted, open, at, call, failed, answer, got>>

Init ==
  /\ mounted = FALSE
  /\ open = NoPath
  /\ at = 0
  /\ call = Idle
  /\ failed = FALSE
  /\ answer = "none"
  /\ got = <<>>

(* Mounting forgets the volume, and opening the file, before they look for *)
(* new ones.                                                               *)
Call(c) ==
  /\ call = Idle
  /\ call' = c
  /\ mounted' = (mounted /\ c.op \notin {"mount", "unmount"})
  /\ open' = IF c.op \in {"mount", "unmount", "open"} THEN NoPath ELSE open
  /\ at' = IF open' = NoPath THEN 0 ELSE at
  /\ failed' = FALSE
  /\ answer' = "none"
  /\ got' = <<>>
  /\ UNCHANGED <<files, mountable>>

Ends(op) ==
  /\ call.op = op
  /\ call' = Idle
  /\ failed' \in {failed, TRUE}
  /\ UNCHANGED <<files, mountable>>

(* The call returns OK if it can and no transfer has failed.               *)
Return(op, possible) ==
  /\ Ends(op)
  /\ answer' = IF possible /\ ~failed' THEN "OK" ELSE "ERROR"

Succeeds == answer' = "OK"

(* Mounting may not need the transfer that failed.                         *)
Mount ==
  /\ Ends("mount")
  /\ \/ answer' = "OK" /\ mountable
     \/ answer' = "ERROR" /\ (~mountable \/ failed')
  /\ mounted' = Succeeds
  /\ UNCHANGED <<open, at, got>>

Unmount == Return("unmount", TRUE) /\ UNCHANGED <<mounted, open, at, got>>

Open ==
  /\ Return("open", mounted /\ call.arg \in DOMAIN files)
  /\ open' = IF Succeeds THEN call.arg ELSE NoPath
  /\ UNCHANGED <<mounted, at, got>>

Least(a, b) == IF a < b THEN a ELSE b

(* Where a read of the open file ends, and the bytes it is to deliver, as  *)
(* far as the volume has them.                                             *)
End == at + Least(call.arg, files[open].size - at)

Asked ==
  LET bytes == files[open].bytes
  IN  SubSeq(bytes, at + 1, Least(End, Len(bytes)))

(* A failed read has delivered some of them and closes the file.           *)
Read ==
  IF open = NoPath
  THEN Return("read", FALSE) /\ UNCHANGED <<mounted, open, at, got>>
  ELSE /\ Return("read", End <= Len(files[open].bytes))
       /\ IF Succeeds
            THEN got' = Asked /\ at' = End /\ UNCHANGED open
            ELSE IsPrefix(got', Asked) /\ open' = NoPath /\ at' = 0
       /\ UNCHANGED mounted

(* A failed seek closes the file too.                                      *)
Seek ==
  IF open = NoPath
  THEN Return("seek", FALSE) /\ UNCHANGED <<mounted, open, at, got>>
  ELSE
    LET f == files[open]
        to == Least(call.arg, f.size)
    IN  /\ Return("seek", to <= Len(f.bytes))
        /\ IF Succeeds THEN at' = to /\ UNCHANGED open
                       ELSE open' = NoPath /\ at' = 0
        /\ UNCHANGED <<mounted, got>>

(* In the middle of a call: a transfer fails, or some bytes arrive.        *)
TransferFails ==
  /\ call # Idle
  /\ failed' = TRUE
  /\ UNCHANGED <<files, mountable, mounted, open, at, call, answer, got>>

Deliver ==
  /\ call.op = "read" /\ open # NoPath
  /\ IsPrefix(got, got') /\ IsPrefix(got', Asked)
  /\ UNCHANGED <<files, mountable, mounted, open, at, call, failed, answer>>

Next ==
  \/ \E c \in Calls : Call(c)
  \/ Mount \/ Unmount \/ Open \/ Read \/ Seek
  \/ TransferFails \/ Deliver

Spec == Init /\ [][Next]_vars
=============================================================================
