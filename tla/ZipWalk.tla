------------------------------ MODULE ZipWalk -------------------------------
(***************************************************************************)
(* hw1/src/main.c and main2.c look for the central directory of a zip      *)
(* archive at the end of a file.  main.c walks backwards from one header   *)
(* to the next; main2.c has a loop whose condition is always true.  What   *)
(* the file has at a place is chosen when the place is read: as            *)
(* WalksBackwards shows, none is read twice.                               *)
(***************************************************************************)
EXTENDS Integers, Sequences

CONSTANTS
  EocdrSize, CfhSize,   \* EOCDR_BASE_SZ and CFH_BASE_SZ
  Wrap,                 \* 2^32: offset is a uint32_t
  MaxSize,              \* bound: the size of the file
  MaxEntries,           \* bound: cd_entries
  Tails                 \* sums of a header's name, extra and comment lengths

ASSUME ZipAssumption ==
  /\ {EocdrSize, CfhSize} \subseteq Nat \ {0}
  /\ {Wrap, MaxSize, MaxEntries} \subseteq Nat
  /\ Tails \subseteq Nat
  /\ CfhSize > 4 /\ EocdrSize <= CfhSize
  /\ MaxSize + CfhSize < Wrap
  /\ \A tail \in Tails : MaxSize + CfhSize + tail < Wrap

VARIABLES
  zSize,      \* size
  zLeft,      \* the headers still to read
  zOffset,    \* offset
  zRead,      \* history: where headers were read
  zEnd        \* "new", "walk" (main.c), "loop" (main2.c), "accepted",
              \* "refused" or "crashed"

zipVars == <<zSize, zLeft, zOffset, zRead, zEnd>>

ZipInit ==
  /\ zSize = 0
  /\ zLeft = 0
  /\ zOffset = 0
  /\ zRead = <<>>
  /\ zEnd = "new"

(* Where jpeg_offset leaves the position in the file. *)
AfterJpeg(size) == 0 .. size

(* From where the headers are read: before the record found at a place. *)
StartOffset(place) == (place - CfhSize) % Wrap

(* read_eocdr found the signature.  In a file that is too short fseek fails  *)
(* and the position stays where it is, or a few reads further.               *)
FindEocdr ==
  /\ zEnd = "new"
  /\ zEnd' = "walk"
  /\ zSize' \in 0 .. MaxSize
  /\ zLeft' \in 0 .. MaxEntries
  /\ \E place \in IF zSize' >= EocdrSize
                  THEN {zSize' - EocdrSize} ELSE AfterJpeg(zSize') :
       zOffset' = StartOffset(place)
  /\ UNCHANGED zRead

(* main2.c takes the result of fseek, 0 or -1, for the offset. *)
FindEocdrOfSecond ==
  /\ zEnd = "new"
  /\ zEnd' = "loop"
  /\ zSize' \in 0 .. MaxSize
  /\ zOffset' = IF zSize' >= EocdrSize + CfhSize + 4 THEN 0 ELSE Wrap - 1
  /\ UNCHANGED <<zLeft, zRead>>

(* There is no record; or no file, which is not noticed before it is read. *)
NoEocdr ==
  /\ zEnd = "new"
  /\ zEnd' \in {"refused", "crashed"}
  /\ UNCHANGED <<zSize, zLeft, zOffset, zRead>>

InFile == zOffset <= zSize /\ zSize - zOffset >= CfhSize

(* Mutation: only the variable parts are skipped. *)
BackByTail(tail) == (zOffset - tail) % Wrap

BackBy(tail) == (zOffset - (CfhSize + tail)) % Wrap

ReadCfh ==
  /\ zEnd = "walk" /\ zLeft > 0 /\ InFile
  /\ \E tail \in Tails : zOffset' = BackBy(tail)
  /\ zLeft' = zLeft - 1
  /\ zRead' = Append(zRead, zOffset)
  /\ UNCHANGED <<zSize, zEnd>>

(* The condition of the loop, count_files >= 0, is always true. *)
BackInSecond == (zOffset - (CfhSize - 4)) % Wrap

ReadCfhInSecond ==
  /\ zEnd = "loop" /\ InFile
  /\ zOffset' = BackInSecond
  /\ zRead' = Append(zRead, zOffset)
  /\ UNCHANGED <<zSize, zLeft, zEnd>>

(* There is no header, or no room for one. *)
NoCfh ==
  /\ zEnd = "loop" \/ (zEnd = "walk" /\ zLeft > 0)
  /\ zEnd' = "refused"
  /\ UNCHANGED <<zSize, zLeft, zOffset, zRead>>

Accept ==
  /\ zEnd = "walk" /\ zLeft = 0
  /\ zEnd' = "accepted"
  /\ UNCHANGED <<zSize, zLeft, zOffset, zRead>>

ZipNext ==
  \/ FindEocdr \/ FindEocdrOfSecond \/ NoEocdr
  \/ ReadCfh \/ ReadCfhInSecond \/ NoCfh
  \/ Accept

ZipSpec == ZipInit /\ [][ZipNext]_zipVars
-----------------------------------------------------------------------------
(* main.c goes through the headers from the end of the file towards its      *)
(* start: each lies before the last record and before the one read last, for *)
(* when offset wraps it leaves the file.  main2.c, which begins at the start *)
(* of the file, does so too, and its loop ends although its condition is     *)
(* always true.                                                              *)
WalksBackwards ==
  \A i \in DOMAIN zRead :
    zRead[i] + CfhSize <= IF i = 1 THEN zSize - EocdrSize ELSE zRead[i - 1]
=============================================================================
