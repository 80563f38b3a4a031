----------------------------- MODULE Converter ------------------------------
(***************************************************************************)
(* hw2/src/main.c: reads a file in an 8-bit code page byte by byte and     *)
(* writes it in UTF-8.  A table gives the code point of each byte from 128 *)
(* on.                                                                     *)
(***************************************************************************)
EXTENDS Integers, Sequences

CONSTANTS
  Tables,     \* the tables of coding_name, in its order
  Options,    \* the values of option -c
  Matches,    \* the pairs <<o, i>> where o is a prefix of the i-th name
  Ascii,      \* the bytes below 128 a file may have
  MaxBytes    \* bound: the length of a file

CodeUnits == {v \in Nat : v < 256 * 256}   \* uint16_t

ASSUME ConverterAssumption ==
  /\ \A i \in DOMAIN Tables : \A byte \in DOMAIN Tables[i] :
       byte \in 128 .. 255 /\ Tables[i][byte] \in CodeUnits
  /\ Matches \subseteq Options \X DOMAIN Tables
  /\ Ascii \subseteq 0 .. 127
  /\ MaxBytes \in Nat

VARIABLES
  cvTable,   \* charset_table: an index in Tables, 0 before it is chosen
  cvRead,    \* history: the bytes read
  cvOut,     \* the bytes written
  cvEnd      \* "options", "running", "done", "refused" or "wild"

converterVars == <<cvTable, cvRead, cvOut, cvEnd>>

ConverterInit ==
  /\ cvTable = 0
  /\ cvRead = <<>>
  /\ cvOut = <<>>
  /\ cvEnd = "options"

(* The first name that begins with the option. *)
ChooseTable ==
  /\ cvEnd = "options"
  /\ cvEnd' = "running"
  /\ cvTable' \in {i \in DOMAIN Tables : \E o \in Options :
       <<o, i>> \in Matches /\ \A j \in 1 .. (i - 1) : <<o, j>> \notin Matches}
  /\ UNCHANGED <<cvRead, cvOut>>

(* The loop runs to sizeof(coding_name), far past the three names: an        *)
(* unknown name is compared with what lies behind the array.                 *)
RunPastNames ==
  /\ cvEnd = "options"
  /\ \E o \in Options : \A i \in DOMAIN Tables : <<o, i>> \notin Matches
  /\ cvEnd' \in {"refused", "wild"}
  /\ UNCHANGED <<cvTable, cvRead, cvOut>>

CannotOpen ==
  /\ cvEnd = "running" /\ cvRead = <<>>
  /\ cvEnd' = "refused"
  /\ UNCHANGED <<cvTable, cvRead, cvOut>>

(* Mutation: the continuation byte loses a bit. *)
NarrowContinuation(v) == 128 + (v % 32)

Continuation(v) == 128 + (v % 64)

(* What is written for a table entry: nothing for one below 128. *)
Encoded(v) ==
  IF v < 128 THEN <<>>
  ELSE IF v < 2048 THEN <<192 + (v \div 64), Continuation(v)>>
  ELSE <<224 + (v \div 4096), Continuation(v \div 64), Continuation(v)>>

ConvertByte(byte) ==
  /\ cvEnd = "running"
  /\ Len(cvRead) < MaxBytes
  /\ cvRead' = Append(cvRead, byte)
  /\ cvOut' = cvOut \o IF byte < 128 THEN <<byte>> ELSE Encoded(Tables[cvTable][byte])
  /\ UNCHANGED <<cvTable, cvEnd>>

CloseFiles ==
  /\ cvEnd = "running"
  /\ cvEnd' = "done"
  /\ UNCHANGED <<cvTable, cvRead, cvOut>>

ConverterNext ==
  \/ ChooseTable
  \/ RunPastNames
  \/ CannotOpen
  \/ cvTable # 0 /\ \E byte \in Ascii \cup DOMAIN Tables[cvTable] : ConvertByte(byte)
  \/ CloseFiles

ConverterSpec == ConverterInit /\ [][ConverterNext]_converterVars
-----------------------------------------------------------------------------
(* A UTF-8 decoder finds a character at each byte that is no continuation.   *)
Starts == {s \in DOMAIN cvOut : cvOut[s] \notin 128 .. 191}

DecodedAt(s) ==
  CASE cvOut[s] < 128 -> cvOut[s]
    [] cvOut[s] \in 192 .. 223 ->
         64 * (cvOut[s] - 192) + (cvOut[s + 1] - 128)
    [] cvOut[s] \in 224 .. 239 ->
         4096 * (cvOut[s] - 224) + 64 * (cvOut[s + 1] - 128) + (cvOut[s + 2] - 128)
    [] OTHER -> -1

CodePoint(byte) == IF byte < 128 THEN byte ELSE Tables[cvTable][byte]

(* A byte that its table maps below 128, as cp1251 does with 0x98, is the    *)
(* only one that leaves nothing.                                             *)
Kept == {i \in DOMAIN cvRead : cvRead[i] < 128 \/ CodePoint(cvRead[i]) >= 128}

(* However the file goes on, what has been written decodes to the characters *)
(* of the bytes that were kept, one for each and in their order.             *)
DecodesToTheText ==
  \E at \in [Kept -> Starts] :
    /\ \A i, j \in Kept : i < j => at[i] < at[j]
    /\ \A s \in Starts : \E i \in Kept : at[i] = s
    /\ \A i \in Kept : DecodedAt(at[i]) = CodePoint(cvRead[i])
=============================================================================
