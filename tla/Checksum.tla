------------------------------ MODULE Checksum ------------------------------
(***************************************************************************)
(* hw11/src/main.c: the CRC-32 of a file that is mapped chunk by chunk,    *)
(* while another process may cut the file.  crc32 is called with the       *)
(* result of the chunk before, so that the result stands for the sequence  *)
(* of bytes it was fed.                                                    *)
(***************************************************************************)
EXTENDS Integers, Sequences

CONSTANTS
  Length,       \* length: how much is mapped at once
  MaxFileSize   \* bound: the size of the file

ASSUME ChecksumAssumption == Length \in Nat \ {0} /\ MaxFileSize \in Nat

VARIABLES
  ckSize,     \* stat_buf.st_size
  ckNow,      \* the size the file has now
  ckOffset,   \* offset
  ckFed,      \* the places of the bytes that are in crc, 0 for a byte that is
              \* not in the file any more
  ckEnd       \* "new", "running", "printed", "failed" or "killed"

checksumVars == <<ckSize, ckNow, ckOffset, ckFed, ckEnd>>

ChecksumInit ==
  /\ ckSize = 0
  /\ ckNow = 0
  /\ ckOffset = 0
  /\ ckFed = <<>>
  /\ ckEnd = "new"

OpenFile ==
  /\ ckEnd = "new"
  /\ ckEnd' = "running"
  /\ ckSize' \in 0 .. MaxFileSize
  /\ ckNow' = ckSize'
  /\ UNCHANGED <<ckOffset, ckFed>>

(* open, fstat, mmap or munmap fails. *)
CallFails ==
  /\ ckEnd \in {"new", "running"}
  /\ ckEnd' = "failed"
  /\ UNCHANGED <<ckSize, ckNow, ckOffset, ckFed>>

(* Another process truncates the file. *)
Truncate ==
  /\ ckEnd = "running"
  /\ ckNow' \in 0 .. (ckNow - 1)
  /\ UNCHANGED <<ckSize, ckOffset, ckFed, ckEnd>>

(* Mutation: the last chunk is as long as the others. *)
WholeChunk == Length

BytesToRead ==
  IF ckOffset + Length > ckSize THEN ckSize - ckOffset ELSE Length

(* crc32 of a chunk goes on from that of the chunks before.  In the last page*)
(* of a file that has become shorter there are zeros.                        *)
Fed ==
  ckFed \o [i \in 1 .. BytesToRead |->
              IF ckOffset + i <= ckNow THEN ckOffset + i ELSE 0]

ReadChunk ==
  /\ ckEnd = "running" /\ ckOffset < ckSize
  /\ ckFed' = Fed
  /\ ckOffset' = ckOffset + BytesToRead
  /\ UNCHANGED <<ckSize, ckNow, ckEnd>>

(* A page that is not in the file any more raises SIGBUS. *)
ReadBehindTheEnd ==
  /\ ckEnd = "running" /\ ckOffset < ckSize
  /\ ckOffset + BytesToRead > ckNow
  /\ ckEnd' = "killed"
  /\ UNCHANGED <<ckSize, ckNow, ckOffset, ckFed>>

PrintCrc ==
  /\ ckEnd = "running" /\ ckOffset >= ckSize
  /\ ckEnd' = "printed"
  /\ UNCHANGED <<ckSize, ckNow, ckOffset, ckFed>>

ChecksumNext ==
  \/ OpenFile \/ CallFails \/ Truncate
  \/ ReadChunk \/ ReadBehindTheEnd \/ PrintCrc

ChecksumSpec == ChecksumInit /\ [][ChecksumNext]_checksumVars
-----------------------------------------------------------------------------
(* A checksum that is printed is that of every byte of the file, each once   *)
(* and in order, wherever the chunks end; if the file was cut meanwhile it   *)
(* still has the length the file had at the start.                           *)
CoversTheFile ==
  ckEnd = "printed" =>
    /\ Len(ckFed) = ckSize
    /\ \A i \in DOMAIN ckFed : ckFed[i] = i \/ (ckFed[i] = 0 /\ i > ckNow)
=============================================================================
