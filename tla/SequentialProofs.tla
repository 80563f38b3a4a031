-------------------------- MODULE SequentialProofs --------------------------
(***************************************************************************)
(* Theorems about programs of one thread: the checksum of hw11, the walk   *)
(* through a zip archive of hw1, the order in which hw12 prints, the       *)
(* weather client of hw4, the telnet client of hw13 with its server, the   *)
(* list functions of hw5 and the converter of hw2.                         *)
(***************************************************************************)
EXTENDS Checksum, ZipWalk, TopList, Weather, TelnetClient, ListFilter, Converter,
        SequenceTheorems, TLAPS

(* The remainder of a number less than one modulus away from the range.      *)
LEMMA ModByCases ==
  ASSUME NEW m \in Nat \ {0}, NEW x \in Int, -m <= x, x < m
  PROVE  x % m = IF x < 0 THEN x + m ELSE x
OBVIOUS
-----------------------------------------------------------------------------
(* What has been fed is what lies before the offset: every place once, and a *)
(* zero only for a place that is not in the file any more.                   *)
FedBeforeOffset ==
  /\ ckSize \in Nat /\ ckNow \in Nat
  /\ ckOffset \in 0 .. ckSize
  /\ ckFed \in Seq(Nat)
  /\ Len(ckFed) = ckOffset
  /\ \A i \in DOMAIN ckFed : ckFed[i] = i \/ (ckFed[i] = 0 /\ i > ckNow)
  /\ ckEnd = "new" => ckOffset = 0
  /\ ckEnd = "printed" => ckOffset >= ckSize

(* Chunks end where the next one begins, and the last one ends at the size.  *)
LEMMA FedStep == FedBeforeOffset /\ [ChecksumNext]_checksumVars => FedBeforeOffset'
<1> SUFFICES ASSUME FedBeforeOffset, [ChecksumNext]_checksumVars
             PROVE  FedBeforeOffset'
  OBVIOUS
<1> USE ChecksumAssumption
<1>1. DOMAIN ckFed = 1 .. Len(ckFed)
  BY LenProperties DEF FedBeforeOffset
<1>2. CASE OpenFile
  <2>1. DOMAIN ckFed = {}
    BY <1>1, <1>2 DEF FedBeforeOffset, OpenFile
  <2> QED
    BY <1>2, <2>1 DEF FedBeforeOffset, OpenFile
<1>3. CASE CallFails \/ ReadBehindTheEnd \/ PrintCrc
  BY <1>3 DEF FedBeforeOffset, CallFails, ReadBehindTheEnd, PrintCrc
<1>4. CASE Truncate
  BY <1>1, <1>4 DEF FedBeforeOffset, Truncate
<1>5. CASE ReadChunk
  <2> DEFINE n == BytesToRead
             chunk == [i \in 1 .. n |->
                         IF ckOffset + i <= ckNow THEN ckOffset + i ELSE 0]
  <2>1. n \in Nat /\ ckOffset + n \in 0 .. ckSize
    BY <1>5 DEF FedBeforeOffset, ReadChunk, BytesToRead
  <2>2. ckFed' = ckFed \o chunk /\ ckOffset' = ckOffset + n
        /\ UNCHANGED <<ckSize, ckNow, ckEnd>> /\ ckEnd = "running"
    BY <1>5 DEF ReadChunk, Fed
  <2> HIDE DEF n
  <2>3. chunk \in Seq(Nat) /\ Len(chunk) = n
    <3>1. \A i \in 1 .. n :
            (IF ckOffset + i <= ckNow THEN ckOffset + i ELSE 0) \in Nat
      BY <2>1 DEF FedBeforeOffset
    <3> QED
      BY <2>1, <3>1
  <2>4. \A i \in 1 .. n : chunk[i] = IF ckOffset + i <= ckNow THEN ckOffset + i ELSE 0
    OBVIOUS
  <2> HIDE DEF chunk
  <2>5. /\ ckFed' \in Seq(Nat) /\ Len(ckFed') = ckOffset + n
        /\ DOMAIN ckFed' = 1 .. ckOffset + n
        /\ \A i \in 1 .. ckOffset + n :
             ckFed'[i] = IF i <= ckOffset THEN ckFed[i] ELSE chunk[i - ckOffset]
    <3>1. ckFed \in Seq(Nat) /\ Len(ckFed) = ckOffset /\ ckOffset \in Nat
      BY DEF FedBeforeOffset
    <3>2. /\ ckFed \o chunk \in Seq(Nat) /\ Len(ckFed \o chunk) = ckOffset + n
          /\ \A i \in 1 .. ckOffset + n :
               (ckFed \o chunk)[i] = IF i <= ckOffset THEN ckFed[i]
                                     ELSE chunk[i - ckOffset]
      <4>1. /\ ckFed \o chunk \in Seq(Nat)
            /\ Len(ckFed \o chunk) = Len(ckFed) + Len(chunk)
            /\ \A i \in 1 .. Len(ckFed) + Len(chunk) :
                 (ckFed \o chunk)[i] = IF i <= Len(ckFed) THEN ckFed[i]
                                       ELSE chunk[i - Len(ckFed)]
        BY <2>3, <3>1, ConcatProperties, Zenon
      <4> QED
        BY <2>3, <3>1, <4>1, Zenon
    <3> QED
      BY <2>2, <3>2, LenProperties
  <2>6. ASSUME NEW i \in 1 .. ckOffset + n
        PROVE  ckFed'[i] = i \/ (ckFed'[i] = 0 /\ i > ckNow)
    <3>1. CASE i <= ckOffset
      <4>1. i \in DOMAIN ckFed /\ ckFed'[i] = ckFed[i]
        BY <1>1, <2>1, <2>5, <3>1 DEF FedBeforeOffset
      <4> QED
        BY <4>1 DEF FedBeforeOffset
    <3>2. CASE i > ckOffset
      <4>1. i - ckOffset \in 1 .. n /\ ckFed'[i] = chunk[i - ckOffset]
        BY <2>1, <2>5, <3>2 DEF FedBeforeOffset
      <4>2. chunk[i - ckOffset] = IF i <= ckNow THEN i ELSE 0
        BY <2>4, <4>1 DEF FedBeforeOffset
      <4> QED
        BY <4>1, <4>2 DEF FedBeforeOffset
    <3> QED
      BY <3>1, <3>2 DEF FedBeforeOffset
  <2> QED
    BY <2>1, <2>2, <2>5, <2>6 DEF FedBeforeOffset
<1>6. CASE UNCHANGED checksumVars
  BY <1>6 DEF FedBeforeOffset, checksumVars
<1> QED
  BY <1>2, <1>3, <1>4, <1>5, <1>6 DEF ChecksumNext

(* A checksum that is printed is that of the whole file, whatever the size   *)
(* of a chunk and wherever another process cuts the file.                    *)
THEOREM ChecksumCorrect == ChecksumSpec => []CoversTheFile
<1>1. ChecksumInit => FedBeforeOffset
  BY DEF ChecksumInit, FedBeforeOffset
<1>2. FedBeforeOffset => CoversTheFile
  BY DEF FedBeforeOffset, CoversTheFile
<1> QED
  BY <1>1, <1>2, FedStep, PTL DEF ChecksumSpec
-----------------------------------------------------------------------------
(* Where the offset may be: if a header can be read there, it lies before    *)
(* what was read last.  main2.c's is at 0 once and then outside of the file. *)
NextLiesBefore ==
  /\ zSize \in 0 .. MaxSize /\ zOffset \in 0 .. (Wrap - 1)
  /\ zRead \in Seq(Nat)
  /\ zEnd = "new" => zRead = <<>>
  /\ zEnd \in {"walk", "loop"} /\ InFile =>
       zOffset + CfhSize <= IF zRead = <<>> THEN zSize - EocdrSize
                            ELSE zRead[Len(zRead)]
  /\ zEnd = "loop" /\ InFile => zOffset = 0
  /\ WalksBackwards

(* Going back by more than the offset wraps it to a place outside of the     *)
(* file.                                                                     *)
LEMMA BackWithoutWrap ==
  ASSUME NEW size \in 0 .. MaxSize, NEW x \in 0 .. (Wrap - 1), NEW d \in Nat,
         x <= size, d < Wrap, size + d < Wrap
  PROVE  /\ (x - d) % Wrap \in 0 .. (Wrap - 1)
         /\ (x - d) % Wrap <= size => (x - d) % Wrap = x - d /\ d <= x
<1>1. Wrap \in Nat \ {0} /\ size \in Nat
  BY ZipAssumption
<1>2. PICK y \in Int : y = x - d
  BY <1>1
<1>3. -Wrap <= y /\ y < Wrap
  BY <1>1, <1>2
<1>4. y % Wrap = IF y < 0 THEN y + Wrap ELSE y
  BY <1>1, <1>3, ModByCases
<1> QED
  BY <1>1, <1>2, <1>4

(* The walk of main.c starts before the record or outside of the file.       *)
LEMMA StartLiesBefore ==
  ASSUME NEW sz \in 0 .. MaxSize,
         NEW place \in IF sz >= EocdrSize THEN {sz - EocdrSize} ELSE AfterJpeg(sz)
  PROVE  /\ StartOffset(place) \in 0 .. (Wrap - 1)
         /\ StartOffset(place) <= sz /\ sz - StartOffset(place) >= CfhSize =>
              StartOffset(place) + CfhSize <= sz - EocdrSize
<1>1. /\ Wrap \in Nat /\ MaxSize \in Nat /\ MaxSize + CfhSize < Wrap
      /\ EocdrSize \in Nat /\ EocdrSize > 0 /\ CfhSize \in Nat
      /\ EocdrSize <= CfhSize
  BY ZipAssumption
<1>2. CASE sz >= EocdrSize
  <2>1. place = sz - EocdrSize
    BY <1>2
  <2>2. /\ place \in 0 .. (Wrap - 1) /\ place <= sz
        /\ CfhSize < Wrap /\ sz + CfhSize < Wrap
    BY <1>1, <1>2, <2>1
  <2>3. /\ StartOffset(place) \in 0 .. (Wrap - 1)
        /\ StartOffset(place) <= sz => StartOffset(place) = place - CfhSize
    BY <1>1, <2>2, BackWithoutWrap DEF StartOffset
  <2> QED
    BY <1>1, <2>1, <2>3
<1>3. CASE ~(sz >= EocdrSize)
  <2>1. place \in 0 .. sz
    BY <1>3 DEF AfterJpeg
  <2>2. /\ place \in 0 .. (Wrap - 1) /\ place <= sz /\ place < CfhSize
        /\ CfhSize < Wrap /\ sz + CfhSize < Wrap
    BY <1>1, <1>3, <2>1
  <2>3. /\ StartOffset(place) \in 0 .. (Wrap - 1)
        /\ StartOffset(place) <= sz => CfhSize <= place
    BY <1>1, <2>2, BackWithoutWrap DEF StartOffset
  <2> QED
    BY <1>1, <2>2, <2>3
<1> QED
  BY <1>2, <1>3

(* That of main2.c starts at the beginning of the file or outside of it.     *)
LEMMA SecondStartsAtZero ==
  ASSUME NEW sz \in 0 .. MaxSize
  PROVE  /\ 0 \in 0 .. (Wrap - 1) /\ Wrap - 1 \in 0 .. (Wrap - 1)
         /\ sz >= EocdrSize + CfhSize + 4 => 0 + CfhSize <= sz - EocdrSize
         /\ ~(Wrap - 1 <= sz /\ sz - (Wrap - 1) >= CfhSize)
<1>1. /\ Wrap \in Nat /\ MaxSize \in Nat /\ MaxSize + CfhSize < Wrap
      /\ EocdrSize \in Nat /\ EocdrSize > 0 /\ CfhSize \in Nat
      /\ EocdrSize <= CfhSize
  BY ZipAssumption
<1> QED
  BY <1>1

(* A read appends the place of a header that lies before all others.         *)
LEMMA ReadsBackwards ==
  ASSUME NextLiesBefore, InFile, zEnd \in {"walk", "loop"},
         zRead' = Append(zRead, zOffset), UNCHANGED zSize
  PROVE  /\ zRead' \in Seq(Nat) /\ zRead' # <<>>
         /\ zRead'[Len(zRead')] = zOffset
         /\ WalksBackwards'
<1>1. /\ zRead \in Seq(Nat) /\ zOffset \in Nat /\ Len(zRead) \in Nat
      /\ DOMAIN zRead = 1 .. Len(zRead)
  BY LenProperties DEF NextLiesBefore
<1>2. /\ zRead' \in Seq(Nat) /\ Len(zRead') = Len(zRead) + 1
      /\ DOMAIN zRead' = 1 .. Len(zRead) + 1
      /\ zRead'[Len(zRead) + 1] = zOffset
      /\ \A i \in 1 .. Len(zRead) : zRead'[i] = zRead[i]
  BY <1>1, AppendProperties, LenProperties
<1>3. zRead = <<>> <=> Len(zRead) = 0
  BY <1>1, EmptySeq
<1>4. ASSUME NEW i \in DOMAIN zRead'
      PROVE  zRead'[i] + CfhSize <=
               IF i = 1 THEN zSize - EocdrSize ELSE zRead'[i - 1]
  <2>1. CASE i = Len(zRead) + 1
    <3>1. zOffset + CfhSize <= IF zRead = <<>> THEN zSize - EocdrSize
                               ELSE zRead[Len(zRead)]
      BY DEF NextLiesBefore
    <3>2. CASE zRead = <<>>
      BY <1>1, <1>2, <1>3, <2>1, <3>1, <3>2
    <3>3. CASE zRead # <<>>
      <4>1. i # 1 /\ i - 1 = Len(zRead) /\ Len(zRead) \in 1 .. Len(zRead)
        BY <1>1, <1>3, <2>1, <3>3
      <4>2. zRead'[i - 1] = zRead[Len(zRead)]
        BY <1>2, <4>1
      <4> QED
        BY <1>2, <2>1, <3>1, <3>3, <4>1, <4>2
    <3> QED
      BY <3>2, <3>3
  <2>2. CASE i # Len(zRead) + 1
    <3>1. i \in DOMAIN zRead /\ zRead'[i] = zRead[i]
      BY <1>1, <1>2, <2>2
    <3>2. i # 1 => zRead'[i - 1] = zRead[i - 1]
      BY <1>1, <1>2, <3>1
    <3> QED
      BY <3>1, <3>2 DEF NextLiesBefore, WalksBackwards
  <2> QED
    BY <2>1, <2>2
<1>5. zRead' # <<>>
  BY <1>1, <1>2, EmptySeq
<1> QED
  BY <1>2, <1>4, <1>5 DEF WalksBackwards

(* Every step keeps that: a step back lands before the header, or so far     *)
(* behind the end of the file that nothing can be read there.                *)
LEMMA ZipStep == NextLiesBefore /\ [ZipNext]_zipVars => NextLiesBefore'
<1> SUFFICES ASSUME NextLiesBefore, [ZipNext]_zipVars
             PROVE  NextLiesBefore'
  OBVIOUS
<1>1. /\ Wrap \in Nat /\ MaxSize \in Nat /\ MaxSize + CfhSize < Wrap
      /\ EocdrSize \in Nat /\ EocdrSize > 0 /\ CfhSize \in Nat
      /\ EocdrSize <= CfhSize /\ CfhSize > 4
  BY ZipAssumption
<1>2. CASE FindEocdr
  <2>1. /\ zRead = <<>> /\ zRead' = <<>> /\ zEnd' = "walk" /\ zSize' \in 0 .. MaxSize
        /\ \E place \in IF zSize' >= EocdrSize
                        THEN {zSize' - EocdrSize} ELSE AfterJpeg(zSize') :
             zOffset' = StartOffset(place)
    BY <1>2 DEF NextLiesBefore, FindEocdr
  <2>2. zOffset' \in 0 .. (Wrap - 1)
        /\ (InFile' => zOffset' + CfhSize <= zSize' - EocdrSize)
    BY <2>1, StartLiesBefore DEF InFile
  <2> QED
    BY <2>1, <2>2 DEF NextLiesBefore, WalksBackwards
<1>3. CASE FindEocdrOfSecond
  <2>1. /\ zRead = <<>> /\ zRead' = <<>> /\ zEnd' = "loop" /\ zSize' \in 0 .. MaxSize
        /\ zOffset' = IF zSize' >= EocdrSize + CfhSize + 4 THEN 0 ELSE Wrap - 1
    BY <1>3 DEF NextLiesBefore, FindEocdrOfSecond
  <2>2. /\ zOffset' \in 0 .. (Wrap - 1)
        /\ InFile' => zOffset' = 0 /\ zOffset' + CfhSize <= zSize' - EocdrSize
    <3>1. CASE zSize' >= EocdrSize + CfhSize + 4
      BY <2>1, <3>1, SecondStartsAtZero
    <3>2. CASE ~(zSize' >= EocdrSize + CfhSize + 4)
      <4>1. zOffset' = Wrap - 1 /\ zSize' \in 0 .. MaxSize
        BY <2>1, <3>2
      <4> QED
        BY <4>1, SecondStartsAtZero DEF InFile
    <3> QED
      BY <3>1, <3>2
  <2> QED
    BY <2>1, <2>2 DEF NextLiesBefore, WalksBackwards
<1>4. CASE NoEocdr \/ NoCfh \/ Accept
  BY <1>4 DEF NextLiesBefore, NoEocdr, NoCfh, Accept, WalksBackwards
<1>5. CASE ReadCfh
  <2>1. /\ zEnd = "walk" /\ zEnd' = "walk" /\ InFile /\ zSize' = zSize
        /\ zRead' = Append(zRead, zOffset)
    BY <1>5 DEF ReadCfh
  <2>2. PICK tail \in Tails : zOffset' = (zOffset - (CfhSize + tail)) % Wrap
    BY <1>5 DEF ReadCfh, BackBy
  <2>3. tail \in Nat /\ MaxSize + CfhSize + tail < Wrap
    BY ZipAssumption
  <2>4. /\ zSize \in 0 .. MaxSize /\ zOffset \in 0 .. (Wrap - 1) /\ zOffset <= zSize
    BY <2>1 DEF NextLiesBefore, InFile
  <2>5. /\ zOffset' \in 0 .. (Wrap - 1)
        /\ zOffset' <= zSize => zOffset' = zOffset - (CfhSize + tail)
    <3>1. /\ CfhSize + tail \in Nat /\ CfhSize + tail < Wrap
          /\ zSize + (CfhSize + tail) < Wrap
      BY <1>1, <2>3, <2>4
    <3> QED
      BY <2>2, <2>4, <3>1, BackWithoutWrap
  <2>6. InFile' => zOffset' + CfhSize <= zOffset
    BY <1>1, <2>1, <2>3, <2>4, <2>5 DEF InFile
  <2>7. /\ zRead' \in Seq(Nat) /\ zRead' # <<>>
        /\ zRead'[Len(zRead')] = zOffset /\ WalksBackwards'
    BY <2>1, ReadsBackwards
  <2> QED
    BY <2>1, <2>4, <2>5, <2>6, <2>7 DEF NextLiesBefore
<1>6. CASE ReadCfhInSecond
  <2>1. /\ zEnd = "loop" /\ zEnd' = "loop" /\ InFile /\ zSize' = zSize
        /\ zRead' = Append(zRead, zOffset)
        /\ zOffset' = (zOffset - (CfhSize - 4)) % Wrap
    BY <1>6 DEF ReadCfhInSecond, BackInSecond
  <2>2. /\ zSize \in 0 .. MaxSize /\ zOffset = 0 /\ zOffset <= zSize
    BY <2>1 DEF NextLiesBefore, InFile
  <2>3. /\ zOffset' \in 0 .. (Wrap - 1)
        /\ zOffset' <= zSize => zOffset' = zOffset - (CfhSize - 4) /\ CfhSize - 4 <= zOffset
    <3>1. /\ CfhSize - 4 \in Nat /\ CfhSize - 4 < Wrap /\ zSize + (CfhSize - 4) < Wrap
          /\ zOffset \in 0 .. (Wrap - 1)
      BY <1>1, <2>2
    <3> QED
      BY <2>1, <2>2, <3>1, BackWithoutWrap
  <2>4. ~InFile'
    BY <1>1, <2>1, <2>2, <2>3 DEF InFile
  <2>5. /\ zRead' \in Seq(Nat) /\ zRead' # <<>> /\ WalksBackwards'
    BY <2>1, ReadsBackwards
  <2> QED
    BY <2>1, <2>2, <2>3, <2>4, <2>5 DEF NextLiesBefore
<1>7. CASE UNCHANGED zipVars
  BY <1>7 DEF NextLiesBefore, zipVars, InFile, WalksBackwards
<1> QED
  BY <1>2, <1>3, <1>4, <1>5, <1>6, <1>7 DEF ZipNext

(* No header is read twice, and each lies before the one read last, in files *)
(* of every size: the walk through the archive ends.                         *)
THEOREM ZipCorrect == ZipSpec => []WalksBackwards
<1>1. ZipInit => NextLiesBefore
  BY ZipAssumption DEF ZipInit, NextLiesBefore, WalksBackwards
<1>2. NextLiesBefore => WalksBackwards
  BY DEF NextLiesBefore
<1> QED
  BY <1>1, <1>2, ZipStep, PTL DEF ZipSpec
-----------------------------------------------------------------------------
(* What is printed is sorted, once it is printed.                            *)
SortedOrNotYet ==
  /\ \E n \in Nat : tlVals \in [1 .. n -> Counts]
  /\ tlVals = <<>> => tlShown = <<>>
  /\ HeaviestFirst

(* Of counters that are close together the int that compare returns is their *)
(* difference, so that compare is an order and puts the heavier one first.   *)
LEMMA CompareClose ==
  ASSUME NEW x \in Nat, NEW y \in Nat,
         x - y < IntRange \div 2, y - x < IntRange \div 2
  PROVE  Compare(x, y) = y - x
<1>1. PICK h \in Nat : IntRange = 2 * h /\ IntRange \div 2 = h /\ h > 0
  <2>1. IntRange \in Nat \ {0} /\ IntRange % 2 = 0
    BY TopAssumption
  <2> QED
    BY <2>1
<1>2. PICK d \in Int : d = y - x
  OBVIOUS
<1>3. -h < d /\ d < h
  BY <1>1, <1>2
<1>4. d % IntRange = IF d < 0 THEN d + IntRange ELSE d
  <2>1. IntRange \in Nat \ {0} /\ -IntRange <= d /\ d < IntRange
    BY <1>1, <1>3
  <2> QED
    BY <2>1, ModByCases
<1>5. ToInt(d) = d
  BY <1>1, <1>3, <1>4 DEF ToInt
<1> QED
  BY <1>2, <1>5 DEF Compare

(* Every step keeps that, whatever order qsort chooses.                      *)
LEMMA SortStep == SortedOrNotYet /\ [TopNext]_topVars => SortedOrNotYet'
<1> SUFFICES ASSUME SortedOrNotYet, [TopNext]_topVars
             PROVE  SortedOrNotYet'
  OBVIOUS
<1>1. CASE UNCHANGED topVars
  BY <1>1 DEF topVars, SortedOrNotYet, HeaviestFirst, TopIsHeaviest
<1>2. CASE FillPairs
  <2>1. PICK n \in 1 .. MaxKeys : tlVals' \in [1 .. n -> Counts]
    BY <1>2 DEF FillPairs
  <2>2. tlShown' = <<>> /\ n \in Nat
    BY <1>2, TopAssumption DEF FillPairs, SortedOrNotYet
  <2> QED
    BY <2>1, <2>2 DEF SortedOrNotYet, HeaviestFirst, TopIsHeaviest
<1>3. CASE SortAndPrint
  <2>1. PICK n \in Nat : tlVals \in [1 .. n -> Counts]
    BY DEF SortedOrNotYet
  <2>2. PICK place \in [DOMAIN tlVals -> DOMAIN tlVals] :
          /\ IsOrder({tlVals[i] : i \in DOMAIN tlVals}) =>
               \A i, j \in DOMAIN place :
                 i < j => Compare(tlVals[place[i]], tlVals[place[j]]) <= 0
          /\ tlShown' = [i \in DOMAIN place |-> tlVals[place[i]]]
    BY <1>3 DEF SortAndPrint
  <2>3. tlVals' = tlVals /\ tlVals # <<>>
    BY <1>3 DEF SortAndPrint
  <2>4. ASSUME \A i, j \in DOMAIN tlVals : tlVals[i] - tlVals[j] < IntRange \div 2,
               NEW i \in DOMAIN tlShown', NEW j \in DOMAIN tlShown', i < j
        PROVE  tlShown'[i] >= tlShown'[j]
    <3>1. \A a \in DOMAIN tlVals : tlVals[a] \in Nat
      BY <2>1, TopAssumption
    <3>2. \A a, b \in DOMAIN tlVals : Compare(tlVals[a], tlVals[b]) = tlVals[b] - tlVals[a]
      BY <2>4, <3>1, CompareClose
    <3>3. IsOrder({tlVals[a] : a \in DOMAIN tlVals})
      BY <3>1, <3>2 DEF IsOrder
    <3>4. /\ place[i] \in DOMAIN tlVals /\ place[j] \in DOMAIN tlVals
          /\ tlShown'[i] = tlVals[place[i]] /\ tlShown'[j] = tlVals[place[j]]
          /\ Compare(tlVals[place[i]], tlVals[place[j]]) <= 0
      BY <2>2, <2>4, <3>3
    <3> QED
      BY <3>1, <3>2, <3>4
  <2>5. HeaviestFirst'
    BY <2>3, <2>4 DEF HeaviestFirst, TopIsHeaviest
  <2> QED
    BY <2>1, <2>3, <2>5 DEF SortedOrNotYet
<1> QED
  BY <1>1, <1>2, <1>3 DEF TopNext

(* Whatever qsort does with a comparison that contradicts itself, counters   *)
(* that an int can tell apart are printed heaviest first.                    *)
THEOREM TopCorrect == TopSpec => []HeaviestFirst
<1>1. TopInit => SortedOrNotYet
  <2> SUFFICES ASSUME TopInit
               PROVE  SortedOrNotYet
    OBVIOUS
  <2>1. tlVals = <<>> /\ tlShown = <<>>
    BY DEF TopInit
  <2>2. <<>> \in [1 .. 0 -> Counts]
    OBVIOUS
  <2> QED
    BY <2>1, <2>2 DEF SortedOrNotYet, HeaviestFirst, TopIsHeaviest
<1>2. SortedOrNotYet => HeaviestFirst
  BY DEF SortedOrNotYet
<1> QED
  BY <1>1, <1>2, SortStep, PTL DEF TopSpec
-----------------------------------------------------------------------------
(* Memory in which the first n bytes of the body have been stored, with m    *)
(* bytes NUL behind them.                                                    *)
Portion(n, m) == [i \in 1 .. (n + m) |-> IF i <= n THEN i ELSE Nul]

(* Until a byte of new memory is not zero, the buffer is the body so far.    *)
BufferExact ==
  /\ wxSent \in Nat
  /\ wxDirty \in BOOLEAN
  /\ ~wxDirty => (wxBuf = <<>> /\ wxSent = 0) \/ wxBuf = Portion(wxSent, 1)
  /\ wxEnd = "printed" => wxArrow = Arrow(wxAngle)

(* Min of the community modules is the least member.                         *)
LEMMA MinIs ==
  ASSUME NEW S, S \subseteq Nat, NEW m \in S, \A j \in S : m <= j
  PROVE  Sets!Min(S) = m
<1> DEFINE c == CHOOSE x \in S : \A y \in S : x <= y
<1>1. c \in S /\ \A y \in S : c <= y
  OBVIOUS
<1>2. Sets!Min(S) = c
  BY DEF Sets!Min
<1> HIDE DEF c
<1>3. c <= m /\ m <= c /\ c \in Nat /\ m \in Nat
  BY <1>1
<1> QED
  BY <1>2, <1>3

(* strlen finds the end of the body, whether or not the memory ends there.   *)
LEMMA StrLenOfPortion ==
  ASSUME NEW n \in Nat, NEW m \in Nat
  PROVE  StrLen(Portion(n, m)) = n
<1> DEFINE b == Portion(n, m)
           S == {i \in 1 .. Len(b) : b[i] = Nul} \cup {Len(b) + 1}
<1>1. Len(b) = n + m /\ DOMAIN b = 1 .. (n + m)
  BY DEF Portion
<1>2. \A i \in 1 .. (n + m) : b[i] = Nul <=> i > n
  BY WeatherAssumption DEF Portion
<1> HIDE DEF b
<1>3. S \subseteq Nat /\ n + 1 \in S /\ \A j \in S : n + 1 <= j
  BY <1>1, <1>2
<1> HIDE DEF S
<1>4. Sets!Min(S) = n + 1
  BY <1>3, MinIs
<1> QED
  BY <1>4 DEF StrLen, S, b

(* A portion of r bytes is stored behind those before it, and the stray      *)
(* terminator falls behind the memory.                                       *)
LEMMA WriteStep ==
  ASSUME BufferExact, NEW r \in Nat, r > 0, WriteResponse(r)
  PROVE  BufferExact'
<1>1. /\ wxSent \in Nat /\ wxSent' = wxSent + r /\ wxDirty' \in BOOLEAN
      /\ wxEnd = "receiving" /\ wxEnd' = wxEnd
  BY DEF BufferExact, WriteResponse
<1>2. SUFFICES ASSUME ~wxDirty'
               PROVE  wxBuf' = Portion(wxSent + r, 1)
  BY <1>1 DEF BufferExact
<1> DEFINE n == wxSent
           grown(fresh) == [i \in 1 .. NewSize(r) |->
                              IF i <= Len(wxBuf) THEN wxBuf[i] ELSE fresh[i]]
           body == [i \in 1 .. r |-> n + i]
           filled(fresh) == Stored(grown(fresh), StrLen(grown(fresh)), body)
<1>3. PICK fresh \in [1 .. NewSize(r) -> {Nul, Garbage}] :
        /\ wxBuf' = Stored(filled(fresh), StrLen(filled(fresh)) + r, <<Nul>>)
        /\ wxDirty' = (wxDirty \/ \E i \in DOMAIN grown(fresh) : grown(fresh)[i] = Garbage)
  BY DEF WriteResponse
<1>4. ~wxDirty /\ \A i \in 1 .. NewSize(r) : grown(fresh)[i] # Garbage
  BY <1>2, <1>3
<1>5. /\ StrLen(wxBuf) = n /\ Len(wxBuf) \in {n, n + 1}
      /\ \A i \in 1 .. Len(wxBuf) : wxBuf[i] = IF i <= n THEN i ELSE Nul
  <2>1. CASE wxBuf = <<>> /\ n = 0
    <3>1. Len(wxBuf) = 0 /\ wxBuf = Portion(0, 0)
      BY <2>1 DEF Portion
    <3>2. StrLen(wxBuf) = 0
      BY <3>1, StrLenOfPortion
    <3> QED
      BY <2>1, <3>1, <3>2
  <2>2. CASE wxBuf = Portion(n, 1)
    <3>1. wxBuf = Portion(n, 1)
      BY <2>2
    <3>2. StrLen(wxBuf) = n
      BY <1>1, <3>1, StrLenOfPortion
    <3>3. Len(wxBuf) = n + 1 /\ \A i \in 1 .. (n + 1) : wxBuf[i] = IF i <= n THEN i ELSE Nul
      BY <1>1, <3>1 DEF Portion
    <3> QED
      BY <3>2, <3>3
  <2> QED
    BY <1>4, <2>1, <2>2 DEF BufferExact
<1>6. NewSize(r) = n + (r + 1)
  BY <1>1, <1>5 DEF NewSize
<1>7. grown(fresh) = Portion(n, r + 1)
  <2>1. ASSUME NEW i \in 1 .. (n + (r + 1))
        PROVE  grown(fresh)[i] = IF i <= n THEN i ELSE Nul
    <3>1. CASE i <= Len(wxBuf)
      BY <1>1, <1>5, <1>6, <3>1
    <3>2. CASE ~(i <= Len(wxBuf))
      <4>1. grown(fresh)[i] = fresh[i] /\ fresh[i] \in {Nul, Garbage} /\ ~(i <= n)
        BY <1>1, <1>5, <1>6, <3>2
      <4> QED
        BY <1>4, <1>6, <4>1
    <3> QED
      BY <3>1, <3>2
  <2> QED
    BY <1>6, <2>1 DEF Portion
<1>8. filled(fresh) = Portion(n + r, 1)
  <2>1. StrLen(grown(fresh)) = n
    BY <1>1, <1>7, StrLenOfPortion
  <2>2. filled(fresh) = Stored(Portion(n, r + 1), n, body)
    BY <1>7, <2>1
  <2>3. DOMAIN Portion(n, r + 1) = 1 .. (n + (r + 1))
    BY DEF Portion
  <2>4. ASSUME NEW j \in 1 .. (n + (r + 1))
        PROVE  (IF j - n \in 1 .. r THEN body[j - n] ELSE Portion(n, r + 1)[j])
                 = IF j <= n + r THEN j ELSE Nul
    <3>1. CASE j - n \in 1 .. r
      BY <1>1, <3>1
    <3>2. CASE ~(j - n \in 1 .. r)
      <4>1. Portion(n, r + 1)[j] = IF j <= n THEN j ELSE Nul
        BY DEF Portion
      <4>2. j <= n <=> j <= n + r
        BY <1>1, <3>2
      <4> QED
        BY <3>2, <4>1, <4>2
    <3> QED
      BY <3>1, <3>2
  <2>5. filled(fresh) = [j \in 1 .. (n + (r + 1)) |->
                           IF j - n \in 1 .. r THEN body[j - n] ELSE Portion(n, r + 1)[j]]
    BY <2>2, <2>3 DEF Stored
  <2>6. filled(fresh) = [j \in 1 .. (n + (r + 1)) |-> IF j <= n + r THEN j ELSE Nul]
    BY <2>4, <2>5
  <2>7. n + (r + 1) = (n + r) + 1
    BY <1>1
  <2> QED
    BY <2>6, <2>7 DEF Portion
<1>9. Stored(Portion(n + r, 1), (n + r) + r, <<Nul>>) = Portion(n + r, 1)
  <2>1. DOMAIN Portion(n + r, 1) = 1 .. (n + r + 1) /\ DOMAIN <<Nul>> = {1}
    BY DEF Portion
  <2>2. \A j \in 1 .. (n + r + 1) : ~(j - ((n + r) + r) \in {1})
    BY <1>1
  <2>3. Stored(Portion(n + r, 1), (n + r) + r, <<Nul>>) =
          [j \in 1 .. (n + r + 1) |-> Portion(n + r, 1)[j]]
    BY <2>1, <2>2 DEF Stored
  <2> QED
    BY <2>1, <2>3 DEF Portion
<1>10. StrLen(filled(fresh)) = n + r
  <2>1. n + r \in Nat
    BY <1>1
  <2> QED
    BY <1>8, <2>1, StrLenOfPortion
<1> QED
  BY <1>3, <1>8, <1>9, <1>10

Circle == 0 .. 359

(* The direction is at most an eighth of a half turn away from the angle.    *)
IsNearest(angle, arrow) ==
  \E turn \in {0, 360} : 2 * (angle - 45 * (arrow - 1) - turn) \in -45 .. 45

(* The first range that an angle of the full circle is in is that of the     *)
(* nearest of the eight directions.                                          *)
LEMMA NearestArrow ==
  ASSUME NEW a \in Circle
  PROVE  IsNearest(a, Arrow(a))
<1> USE DEF Circle
<1> DEFINE H == {i \in 1 .. 8 : a >= 0 /\ 2 * a < Ends[i]}
<1>1. /\ Ends[1] = 45 /\ Ends[2] = 135 /\ Ends[3] = 225 /\ Ends[4] = 315
      /\ Ends[5] = 405 /\ Ends[6] = 495 /\ Ends[7] = 585 /\ Ends[8] = 675
  BY DEF Ends
<1>2. Arrow(a) = IF H = {} THEN 1 ELSE Sets!Min(H)
  BY DEF Arrow
<1>3. \A i \in 1 .. 8 : i \in H <=> 2 * a < Ends[i]
  OBVIOUS
<1> HIDE DEF H
<1>4. H \subseteq 1 .. 8
  BY DEF H
<1>5. CASE 2 * a >= 675
  <2>1. \A i \in 1 .. 8 : Ends[i] <= 675 /\ Ends[i] \in Nat
    <3>1. \A i \in 1 .. 8 : \/ i = 1 \/ i = 2 \/ i = 3 \/ i = 4
                             \/ i = 5 \/ i = 6 \/ i = 7 \/ i = 8
      OBVIOUS
    <3> QED
      BY <1>1, <3>1
  <2>2. H = {}
    BY <1>3, <1>4, <1>5, <2>1
  <2> QED
    BY <1>2, <1>5, <2>2 DEF IsNearest
<1>6. ASSUME NEW m \in 1 .. 8, 2 * a < Ends[m],
             \A j \in 1 .. 8 : j < m => 2 * a >= Ends[j]
      PROVE  Arrow(a) = m
  <2>1. m \in H /\ \A j \in H : m <= j
    <3>1. \A i \in 1 .. 8 : Ends[i] \in Nat
      <4>1. \A i \in 1 .. 8 : \/ i = 1 \/ i = 2 \/ i = 3 \/ i = 4
                               \/ i = 5 \/ i = 6 \/ i = 7 \/ i = 8
        OBVIOUS
      <4> QED
        BY <1>1, <4>1
    <3> QED
      BY <1>3, <1>4, <1>6, <3>1
  <2>2. Sets!Min(H) = m
    <3>1. H \subseteq Nat
      BY <1>4
    <3> QED
      BY <2>1, <3>1, MinIs
  <2> QED
    BY <1>2, <2>1, <2>2
<1>7. \A m \in 1 .. 8 : (2 * a < Ends[m] /\ \A j \in 1 .. 8 : j < m => 2 * a >= Ends[j])
                          => Arrow(a) = m
  BY <1>6
<1>8. CASE 2 * a < 675
  <2>1. \/ Arrow(a) = 1 /\ 2 * a < 45
        \/ Arrow(a) = 2 /\ 2 * a \in 45 .. 135
        \/ Arrow(a) = 3 /\ 2 * a \in 135 .. 225
        \/ Arrow(a) = 4 /\ 2 * a \in 225 .. 315
        \/ Arrow(a) = 5 /\ 2 * a \in 315 .. 405
        \/ Arrow(a) = 6 /\ 2 * a \in 405 .. 495
        \/ Arrow(a) = 7 /\ 2 * a \in 495 .. 585
        \/ Arrow(a) = 8 /\ 2 * a \in 585 .. 675
    BY <1>1, <1>7, <1>8
  <2> QED
    BY <2>1 DEF IsNearest
<1> QED
  BY <1>5, <1>8

(* However the body of the answer is cut into portions, as long as realloc   *)
(* returns zeros the buffer holds it in order, and the arrow printed is that *)
(* of the nearest direction.                                                 *)
THEOREM WeatherCorrect == WeatherSpec => []ShowsTheAnswer
<1>1. WeatherInit => BufferExact
  <2>1. WeatherInit => /\ wxBuf = <<>> /\ wxSent = 0 /\ wxDirty \in BOOLEAN
                       /\ wxEnd = "receiving"
    BY DEF WeatherInit
  <2>2. "receiving" # "printed" /\ 0 \in Nat
    OBVIOUS
  <2> QED
    BY <2>1, <2>2 DEF BufferExact
<1>2. BufferExact /\ [WeatherNext]_weatherVars => BufferExact'
  <2> SUFFICES ASSUME BufferExact, [WeatherNext]_weatherVars
               PROVE  BufferExact'
    OBVIOUS
  <2>1. ASSUME NEW r \in 1 .. BodyLength, WriteResponse(r)
        PROVE  BufferExact'
    BY <2>1, WriteStep, WeatherAssumption
  <2>2. CASE WriteBreaksHeap \/ RequestFails \/ RequestEnds
    BY <2>2 DEF BufferExact, WriteBreaksHeap, RequestFails, RequestEnds
  <2>3. CASE ShowWeather \/ PrintNothing
    BY <2>3 DEF BufferExact, ShowWeather, PrintNothing
  <2>4. CASE UNCHANGED weatherVars
    BY <2>4 DEF BufferExact, weatherVars
  <2> QED
    BY <2>1, <2>2, <2>3, <2>4 DEF WeatherNext
<1>3. BufferExact => ShowsTheAnswer
  <2> SUFFICES ASSUME BufferExact
               PROVE  ShowsTheAnswer
    OBVIOUS
  <2>1. Portion(wxSent, 1) = Append([i \in 1 .. wxSent |-> i], Nul)
    <3>1. wxSent \in Nat
      BY DEF BufferExact
    <3>2. /\ [i \in 1 .. wxSent |-> i] \in Seq(Nat)
          /\ Len([i \in 1 .. wxSent |-> i]) = wxSent
      BY <3>1
    <3> QED
      BY <3>1, <3>2 DEF Portion
  <2>2. wxEnd = "printed" => wxArrow = Arrow(wxAngle)
    BY DEF BufferExact
  <2>3. wxEnd = "printed" /\ wxAngle \in Circle => IsNearest(wxAngle, wxArrow)
    BY <2>2, NearestArrow, Zenon
  <2>4. ~wxDirty => wxBuf = <<>> \/ wxBuf = Append([i \in 1 .. wxSent |-> i], Nul)
    BY <2>1, Zenon DEF BufferExact
  <2> QED
    BY <2>3, <2>4, Zenon DEF ShowsTheAnswer, Circle, IsNearest
<1> QED
  BY <1>1, <1>2, <1>3, PTL DEF WeatherSpec
-----------------------------------------------------------------------------
(* The command goes out before the second loop, and only it is answered.     *)
AskedFirst ==
  /\ pc \in {"start", "prompt", "send"} => ~asked /\ buff = <<>>
  /\ ~asked => sent <= Len(Greeting)

(* What is in the buffer was received last and in one run, and what came     *)
(* before it was received while the server had not been asked.               *)
LastReceived ==
  /\ \A i \in DOMAIN buff : buff[i] = read - Len(buff) + i
  /\ 0 <= read - Len(buff) /\ read - Len(buff) <= Len(Greeting)

(* main stops reading of its own accord only at the end or when it is full.  *)
ReadToTheEnd ==
  pc = "printed" => Len(buff) = BufSize \/ (closed /\ read = sent)

IInv ==
  /\ TypeOK
  /\ buff \in Seq(Nat)
  /\ AskedFirst
  /\ LastReceived
  /\ ReadToTheEnd
-----------------------------------------------------------------------------
(* What recv hands over are the next positions, as many as there is room for.*)
LEMMA ArrivedFacts ==
  ASSUME NEW room \in Nat, sent \in Nat, read \in 0 .. sent
  PROVE  /\ Arrived(room) \in Seq(1 .. sent)
         /\ Len(Arrived(room)) \in 0 .. room
         /\ read + Len(Arrived(room)) \in 0 .. sent
         /\ \A i \in 1 .. Len(Arrived(room)) : Arrived(room)[i] = read + i
<1>1. PICK n \in Nat : n = Least(sent - read, room) /\ n <= sent - read /\ n <= room
  BY DEF Least
<1>2. Arrived(room) = [i \in 1 .. n |-> read + i]
  BY <1>1 DEF Arrived
<1>3. \A i \in 1 .. n : read + i \in 1 .. sent
  BY <1>1
<1>4. Arrived(room) \in Seq(1 .. sent) /\ Len(Arrived(room)) = n
  BY <1>2, <1>3
<1> QED
  BY <1>1, <1>2, <1>4

(* The length of the greeting is a number. *)
LEMMA GreetingLength == Len(Greeting) \in Nat
BY TelnetAssumption, LenProperties

(* The next portion goes behind what the buffer holds, as far as it fits.    *)
LEMMA PlacedFacts ==
  ASSUME IInv, Len(buff) < BufSize
  PROVE  /\ Placed(Arrived(Room)) \in Seq(1 .. sent)
         /\ Len(Placed(Arrived(Room))) = Len(buff) + Len(Arrived(Room))
         /\ Len(buff) \in Nat /\ Len(Arrived(Room)) \in Nat
         /\ Len(Placed(Arrived(Room))) <= BufSize
         /\ read + Len(Arrived(Room)) \in 0 .. sent
         /\ \A i \in 1 .. Len(Placed(Arrived(Room))) :
              Placed(Arrived(Room))[i] = read - Len(buff) + i
<1> DEFINE chunk == Arrived(Room)
<1>1. sent \in Nat /\ read \in 0 .. sent /\ Len(buff) \in Nat
  BY LenProperties, GreetingLength, TelnetAssumption DEF IInv, TypeOK
<1>2. Room \in Nat /\ Room = BufSize - Len(buff)
  BY <1>1, TelnetAssumption DEF Room
<1>3. /\ chunk \in Seq(1 .. sent) /\ Len(chunk) \in 0 .. Room
      /\ read + Len(chunk) \in 0 .. sent
      /\ \A i \in 1 .. Len(chunk) : chunk[i] = read + i
  BY <1>1, <1>2, ArrivedFacts
<1>4. /\ buff \in Seq(1 .. sent)
      /\ \A i \in 1 .. Len(buff) : buff[i] = read - Len(buff) + i
  <2>1. buff \in [1 .. Len(buff) -> 1 .. sent] /\ DOMAIN buff = 1 .. Len(buff)
    BY DEF IInv, TypeOK
  <2>2. buff \in Seq(1 .. sent)
    BY <1>1, <2>1, SeqDef, Zenon
  <2> QED
    BY <2>1, <2>2 DEF IInv, LastReceived
<1> HIDE DEF chunk
<1>5. /\ buff \o chunk \in Seq(1 .. sent)
      /\ Len(buff \o chunk) = Len(buff) + Len(chunk)
      /\ \A i \in 1 .. Len(buff) + Len(chunk) :
           (buff \o chunk)[i] = IF i <= Len(buff) THEN buff[i]
                                ELSE chunk[i - Len(buff)]
  BY <1>3, <1>4, ConcatProperties
<1>6. ASSUME NEW i \in 1 .. Len(buff) + Len(chunk)
      PROVE  (buff \o chunk)[i] = read - Len(buff) + i
  <2>1. CASE i <= Len(buff)
    BY <1>1, <1>3, <1>4, <1>5, <2>1
  <2>2. CASE ~(i <= Len(buff))
    <3>1. i - Len(buff) \in 1 .. Len(chunk)
      BY <1>1, <1>3, <2>2
    <3>2. chunk[i - Len(buff)] = read + (i - Len(buff))
      BY <1>3, <3>1
    <3> QED
      BY <1>1, <1>3, <1>5, <2>2, <3>2
  <2> QED
    BY <2>1, <2>2
<1>7. Len(buff) + Len(chunk) <= BufSize /\ Len(chunk) \in Nat
  BY <1>1, <1>2, <1>3, TelnetAssumption
<1> QED
  BY <1>1, <1>3, <1>5, <1>6, <1>7 DEF Placed, chunk
-----------------------------------------------------------------------------
(* Nothing has been sent, received or printed when main starts.              *)
LEMMA InitInvariant == Init => IInv
<1> SUFFICES ASSUME Init PROVE IInv
  OBVIOUS
<1>1. buff = <<>> /\ Len(buff) = 0 /\ buff \in Seq(Nat)
  BY DEF Init
<1>2. TypeOK
  <2>1. Len(buff) <= BufSize /\ buff \in [1 .. Len(buff) -> 1 .. sent]
    BY <1>1, TelnetAssumption DEF Init
  <2>2. /\ sent \in 0 .. (Len(Greeting) + AnswerLength) /\ read \in 0 .. sent
        /\ (sent > Len(Greeting) => asked)
    BY GreetingLength, TelnetAssumption DEF Init
  <2> QED
    BY <2>1, <2>2 DEF Init, TypeOK
<1> QED
  BY <1>1, <1>2, GreetingLength
     DEF Init, IInv, AskedFirst, LastReceived, ReadToTheEnd

(* Steps that receive nothing: of main, and of the server.                   *)
LEMMA OtherSteps ==
  ASSUME IInv,
         \/ Connect \/ PromptCutOff \/ Finish \/ RecvFails
         \/ Send \/ SendFails \/ AnswerCut
         \/ ServerSends \/ ServerCloses \/ UNCHANGED vars
  PROVE  IInv'
<1>1. buff' = buff /\ read' = read
  BY DEF Connect, PromptCutOff, Finish, RecvFails, Send, SendFails, AnswerCut,
         ServerSends, ServerCloses, vars, client
<1>2. Len(buff) \in Nat /\ Len(Greeting) \in Nat /\ AnswerLength \in Nat
  BY GreetingLength, TelnetAssumption, LenProperties DEF IInv
<1> USE DEF Connect, PromptCutOff, Finish, RecvFails, Send, SendFails,
            AnswerCut, ServerSends, ServerCloses, vars, client, server, Goto,
            IInv, TypeOK, Final
<1>3. sent \in Nat /\ sent' \in Nat /\ sent <= sent'
  BY <1>2
<1>4. buff \in [1 .. Len(buff) -> 1 .. sent']
  BY <1>3
<1>5. AskedFirst'
  BY <1>1, <1>2 DEF AskedFirst
<1>6. TypeOK'
  <2>1. /\ sent' \in 0 .. (Len(Greeting) + AnswerLength)
        /\ (sent' > Len(Greeting) => asked')
    <3>1. CASE ServerSends
      BY <1>2, <3>1
    <3>2. CASE ~ServerSends
      BY <3>2
    <3> QED
      BY <3>1, <3>2
  <2>2. pc' \in {"start", "prompt", "send", "answer"} \cup Final
    OBVIOUS
  <2>3. asked' \in BOOLEAN /\ closed' \in BOOLEAN
    OBVIOUS
  <2>4. Len(buff') <= BufSize /\ buff' \in [1 .. Len(buff') -> 1 .. sent']
    BY <1>1, <1>4
  <2>5. read' \in 0 .. sent'
    BY <1>1, <1>3
  <2> QED
    BY <2>1, <2>2, <2>3, <2>4, <2>5
<1>7. LastReceived'
  BY <1>1 DEF LastReceived
<1>8. ReadToTheEnd'
  BY <1>1 DEF ReadToTheEnd
<1> QED
  BY <1>1, <1>5, <1>6, <1>7, <1>8

(* A portion of the greeting is thrown away.                                 *)
LEMMA RecvPromptStep ==
  ASSUME IInv, RecvPrompt
  PROVE  IInv'
<1>1. /\ pc = "prompt" /\ pc' \in {"prompt", "send"}
      /\ read' = read + Len(Arrived(BufSize - 1))
      /\ UNCHANGED <<buff, sent, asked, closed>>
  BY DEF RecvPrompt, server
<1>2. /\ Len(Greeting) \in Nat /\ BufSize - 1 \in Nat /\ sent \in Nat
      /\ read \in 0 .. sent
  BY GreetingLength, TelnetAssumption DEF IInv, TypeOK
<1>3. read' \in 0 .. sent
  BY <1>1, <1>2, ArrivedFacts
<1>4. buff = <<>> /\ ~asked /\ sent <= Len(Greeting) /\ Len(buff) = 0
  BY <1>1 DEF IInv, AskedFirst
<1>5. TypeOK' /\ AskedFirst'
  BY <1>1, <1>3, <1>4 DEF IInv, TypeOK, AskedFirst, Final
<1>6. LastReceived'
  BY <1>1, <1>2, <1>3, <1>4 DEF LastReceived
<1> QED
  BY <1>1, <1>5, <1>6 DEF IInv, ReadToTheEnd

(* A portion of the answer, with what is left of the greeting before it,     *)
(* joins the run in the buffer.                                              *)
LEMMA RecvAnswerStep ==
  ASSUME IInv, RecvAnswer
  PROVE  IInv'
<1> DEFINE chunk == Arrived(Room)
<1>1. /\ pc = "answer" /\ pc' = "answer" /\ Len(buff) < BufSize
      /\ buff' = Placed(chunk) /\ read' = read + Len(chunk)
      /\ UNCHANGED <<sent, asked, closed>>
  BY DEF RecvAnswer, Goto, server
<1>2. /\ buff' \in Seq(1 .. sent) /\ Len(buff') = Len(buff) + Len(chunk)
      /\ Len(buff) \in Nat /\ Len(chunk) \in Nat /\ Len(buff') <= BufSize
      /\ read + Len(chunk) \in 0 .. sent
      /\ \A i \in 1 .. Len(buff') : buff'[i] = read - Len(buff) + i
  BY <1>1, PlacedFacts
<1> HIDE DEF chunk
<1>3. sent \in Nat /\ read \in Nat /\ Len(Greeting) \in Nat
  BY GreetingLength, TelnetAssumption DEF IInv, TypeOK
<1>4. read' - Len(buff') = read - Len(buff)
  BY <1>1, <1>2, <1>3
<1>5. buff' \in [1 .. Len(buff') -> 1 .. sent] /\ DOMAIN buff' = 1 .. Len(buff')
  BY <1>2, LenProperties
<1>6. TypeOK'
  BY <1>1, <1>2, <1>5 DEF IInv, TypeOK, Final
<1>7. buff' \in Seq(Nat)
  <2>1. 1 .. sent \subseteq Nat
    OBVIOUS
  <2> QED
    BY <1>2, <2>1, SeqMonotonic
<1>8. LastReceived'
  BY <1>2, <1>4, <1>5 DEF IInv, LastReceived
<1>9. AskedFirst' /\ ReadToTheEnd'
  BY <1>1 DEF IInv, AskedFirst, ReadToTheEnd
<1> QED
  BY <1>6, <1>7, <1>8, <1>9 DEF IInv

(* The inductive invariant is one.                                           *)
LEMMA NextInvariant == IInv /\ [Next]_vars => IInv'
<1> SUFFICES ASSUME IInv, [Next]_vars PROVE IInv'
  OBVIOUS
<1>1. CASE RecvPrompt
  BY <1>1, RecvPromptStep
<1>2. CASE RecvAnswer
  BY <1>2, RecvAnswerStep
<1>3. CASE \/ Connect \/ PromptCutOff \/ Finish \/ RecvFails
           \/ Send \/ SendFails \/ AnswerCut
           \/ ServerSends \/ ServerCloses \/ UNCHANGED vars
  BY <1>3, OtherSteps
<1> QED
  BY <1>1, <1>2, <1>3 DEF Next, Receive, Ended

(* It holds for every greeting, answer and size of the buffer, and however   *)
(* the network cuts the stream into portions.                                *)
THEOREM Invariance == Spec => []IInv
<1>1. Init => IInv
  BY InitInvariant
<1>2. IInv /\ [Next]_vars => IInv'
  BY NextInvariant
<1> QED
  BY <1>1, <1>2, PTL DEF Spec

(* Types: the buffer never holds more than BUF_SIZE bytes.                   *)
THEOREM TypeCorrect == Spec => []TypeOK
<1>1. IInv => TypeOK
  BY DEF IInv
<1> QED
  BY <1>1, Invariance, PTL

(* What main prints is one run of bytes that misses none of the answer.      *)
THEOREM PrintCorrect == Spec => []PrintsTheAnswer
<1>1. IInv => PrintsTheAnswer
  BY DEF IInv, LastReceived, ReadToTheEnd, PrintsTheAnswer
<1> QED
  BY <1>1, Invariance, PTL
-----------------------------------------------------------------------------
(* The places up to the n-th whose values p picks.                           *)
PickedTo(i, n) == {j \in i .. n : p(Array[j])}

(* A list has, in reverse order, the picked values of the last of n places,  *)
(* and of all of them if no allocation failed.                               *)
Selected(list, failed, n) ==
  \E i \in 1 .. n + 1 : \E at \in [DOMAIN list -> PickedTo(i, n)] :
    /\ ~failed => i = 1
    /\ \A k, l \in DOMAIN list : k < l => at[k] > at[l]
    /\ \A j \in PickedTo(i, n) : \E k \in DOMAIN list : at[k] = j
    /\ \A k \in DOMAIN list : list[k] = Array[at[k]]

(* A list is the end of arr.                                                 *)
EndOfArray(list) ==
  /\ list \in Seq(Int)
  /\ Len(list) <= Len(Array)
  /\ \A j \in 1 .. Len(list) : list[j] = Array[Len(Array) - Len(list) + j]

ListInv ==
  /\ EndOfArray(lfHead) /\ EndOfArray(lfRest)
  /\ lfPtr \in Seq(Int)
  /\ lfEnd = "building" => lfPtr = <<>> /\ ~lfFailed
  /\ lfEnd = "filtering" => Len(lfHead) = Len(Array)
  /\ lfEnd \in {"filtering", "done"} => Selected(lfPtr, lfFailed, Len(Array) - Len(lfRest))
  /\ lfEnd = "done" => lfRest = <<>>

(* Before f has seen anything there is nothing to select.                    *)
LEMMA NothingSelected ==
  ASSUME lfPtr = <<>>, ~lfFailed
  PROVE  Selected(lfPtr, lfFailed, 0)
<1> DEFINE at == [k \in {} |-> k]
<1>1. PickedTo(1, 0) = {} /\ DOMAIN lfPtr = {} /\ 1 \in 1 .. 0 + 1
  BY DEF PickedTo
<1>2. at \in [DOMAIN lfPtr -> PickedTo(1, 0)]
  BY <1>1
<1> HIDE DEF at
<1> QED
  BY <1>1, <1>2 DEF Selected

(* What one level of f does to the second list.                              *)
LEMMA SelectStep ==
  ASSUME ListInv, FilterOne
  PROVE  /\ lfPtr' \in Seq(Int) /\ EndOfArray(lfRest')
         /\ Selected(lfPtr', lfFailed', Len(Array) - Len(lfRest'))
<1> DEFINE n == Len(Array) - Len(lfRest)
           v == Head(lfRest)
<1>1. /\ Array \in Seq(Int) /\ Len(Array) \in Nat /\ lfRest \in Seq(Int)
      /\ lfRest # <<>> /\ Len(lfRest) \in Nat /\ Len(lfRest) >= 1 /\ Len(lfRest) <= Len(Array)
      /\ \A j \in 1 .. Len(lfRest) : lfRest[j] = Array[Len(Array) - Len(lfRest) + j]
      /\ lfPtr \in Seq(Int) /\ DOMAIN lfPtr = 1 .. Len(lfPtr) /\ Len(lfPtr) \in Nat
  BY ListAssumption DEF ListInv, FilterOne, EndOfArray
<1>2. /\ lfRest' = Tail(lfRest) /\ Len(lfRest') = Len(lfRest) - 1 /\ lfRest' \in Seq(Int)
      /\ \A j \in 1 .. Len(lfRest') : lfRest'[j] = lfRest[j + 1]
  BY <1>1 DEF FilterOne
<1>3. EndOfArray(lfRest')
  <2>1. \A j \in 1 .. Len(lfRest') : lfRest'[j] = Array[Len(Array) - Len(lfRest') + j]
    <3>1. ASSUME NEW j \in 1 .. Len(lfRest')
          PROVE  lfRest'[j] = Array[Len(Array) - Len(lfRest') + j]
      <4>1. j + 1 \in 1 .. Len(lfRest) /\ lfRest'[j] = lfRest[j + 1]
        BY <1>1, <1>2
      <4>2. lfRest[j + 1] = Array[Len(Array) - Len(lfRest) + (j + 1)]
        BY <1>1, <4>1
      <4>3. Len(Array) - Len(lfRest) + (j + 1) = Len(Array) - Len(lfRest') + j
        BY <1>1, <1>2
      <4> QED
        BY <4>1, <4>2, <4>3
    <3> QED
      BY <3>1
  <2> QED
    BY <1>1, <1>2, <2>1 DEF EndOfArray
<1>4. /\ n \in Nat /\ v = Array[n + 1] /\ v \in Int
      /\ Len(Array) - Len(lfRest') = n + 1
  <2>1. 1 \in 1 .. Len(lfRest) /\ v = lfRest[1]
    BY <1>1
  <2> QED
    BY <1>1, <1>2, <2>1
<1>5. Selected(lfPtr, lfFailed, n)
  BY DEF ListInv, FilterOne
<1>6. \/ p(v) /\ lfPtr' = <<v>> \o lfPtr /\ UNCHANGED lfFailed
      \/ ~p(v) /\ lfPtr' = lfPtr /\ UNCHANGED lfFailed
      \/ lfPtr' = <<>> /\ lfFailed' = TRUE
  BY DEF FilterOne, AddElement
<1> HIDE DEF n, v
<1>7. PICK i \in 1 .. n + 1 : \E at \in [DOMAIN lfPtr -> PickedTo(i, n)] :
        /\ ~lfFailed => i = 1
        /\ \A k, l \in DOMAIN lfPtr : k < l => at[k] > at[l]
        /\ \A j \in PickedTo(i, n) : \E k \in DOMAIN lfPtr : at[k] = j
        /\ \A k \in DOMAIN lfPtr : lfPtr[k] = Array[at[k]]
  BY <1>5 DEF Selected
<1>8. PICK at \in [DOMAIN lfPtr -> PickedTo(i, n)] :
        /\ ~lfFailed => i = 1
        /\ \A k, l \in DOMAIN lfPtr : k < l => at[k] > at[l]
        /\ \A j \in PickedTo(i, n) : \E k \in DOMAIN lfPtr : at[k] = j
        /\ \A k \in DOMAIN lfPtr : lfPtr[k] = Array[at[k]]
  BY <1>7
<1>9. i \in 1 .. (n + 1) + 1 /\ n + 2 \in 1 .. (n + 1) + 1
  BY <1>4
<1>10. CASE p(v) /\ lfPtr' = <<v>> \o lfPtr /\ UNCHANGED lfFailed
  <2> DEFINE m == Len(lfPtr)
             too == [k \in 1 .. m + 1 |-> IF k = 1 THEN n + 1 ELSE at[k - 1]]
  <2>1. /\ lfPtr' \in Seq(Int) /\ DOMAIN lfPtr' = 1 .. m + 1 /\ lfPtr'[1] = v
        /\ \A k \in 2 .. m + 1 : lfPtr'[k] = lfPtr[k - 1]
    BY <1>1, <1>4, <1>10
  <2>2. PickedTo(i, n + 1) = PickedTo(i, n) \cup {n + 1}
    BY <1>4, <1>10 DEF PickedTo
  <2>3. \A k \in 1 .. m : at[k] \in PickedTo(i, n) /\ at[k] \in Int /\ at[k] <= n
    <3>1. \A k \in 1 .. m : at[k] \in PickedTo(i, n)
      BY <1>1
    <3>2. \A j \in PickedTo(i, n) : j \in Int /\ j <= n
      BY <1>4 DEF PickedTo
    <3> QED
      BY <3>1, <3>2
  <2>4. /\ too[1] = n + 1 /\ \A k \in 2 .. m + 1 : k - 1 \in 1 .. m /\ too[k] = at[k - 1]
        /\ DOMAIN too = 1 .. m + 1
    BY <1>1
  <2>5. too \in [1 .. m + 1 -> PickedTo(i, n + 1)]
    <3>1. ASSUME NEW k \in 1 .. m + 1
          PROVE  (IF k = 1 THEN n + 1 ELSE at[k - 1]) \in PickedTo(i, n + 1)
      <4>1. k = 1 \/ k - 1 \in 1 .. m
        BY <1>1, <3>1
      <4> QED
        BY <2>2, <2>3, <4>1, Zenon
    <3> QED
      BY <3>1, Zenon
  <2> HIDE DEF too
  <2>6. \A k, l \in 1 .. m + 1 : k < l => too[k] > too[l]
    <3>1. ASSUME NEW k \in 1 .. m + 1, NEW l \in 1 .. m + 1, k < l
          PROVE  too[k] > too[l]
      <4>1. l \in 2 .. m + 1 /\ too[l] = at[l - 1] /\ l - 1 \in 1 .. m
        BY <1>1, <2>4, <3>1
      <4>2. CASE k = 1
        BY <1>4, <2>3, <2>4, <4>1, <4>2
      <4>3. CASE k # 1
        <5>1. k \in 2 .. m + 1 /\ too[k] = at[k - 1] /\ k - 1 \in 1 .. m /\ k - 1 < l - 1
          BY <1>1, <2>4, <3>1, <4>3
        <5> QED
          BY <1>1, <1>8, <4>1, <5>1
      <4> QED
        BY <4>2, <4>3
    <3> QED
      BY <3>1
  <2>7. \A j \in PickedTo(i, n + 1) : \E k \in 1 .. m + 1 : too[k] = j
    <3>1. ASSUME NEW j \in PickedTo(i, n)
          PROVE  \E k \in 1 .. m + 1 : too[k] = j
      <4>1. PICK k \in 1 .. m : at[k] = j
        BY <1>1, <1>8, <3>1
      <4>2. k + 1 \in 2 .. m + 1 /\ (k + 1) - 1 = k
        BY <1>1
      <4>3. too[k + 1] = j /\ k + 1 \in 1 .. m + 1
        BY <2>4, <4>1, <4>2
      <4> QED
        BY <4>3
    <3>2. 1 \in 1 .. m + 1 /\ too[1] = n + 1
      BY <1>1, <2>4
    <3> QED
      BY <2>2, <3>1, <3>2
  <2>8. \A k \in 1 .. m + 1 : lfPtr'[k] = Array[too[k]]
    <3>1. ASSUME NEW k \in 2 .. m + 1
          PROVE  lfPtr'[k] = Array[too[k]]
      <4>1. k - 1 \in DOMAIN lfPtr /\ too[k] = at[k - 1] /\ lfPtr'[k] = lfPtr[k - 1]
        BY <1>1, <2>1, <2>4
      <4> QED
        BY <1>8, <4>1
    <3>2. lfPtr'[1] = Array[too[1]]
      BY <1>4, <2>1, <2>4
    <3> QED
      BY <1>1, <3>1, <3>2
  <2>9. Selected(lfPtr', lfFailed', n + 1)
    <3>1. ~lfFailed' => i = 1
      BY <1>8, <1>10
    <3> DEFINE D == 1 .. m + 1
    <3>2. /\ too \in [D -> PickedTo(i, n + 1)] /\ DOMAIN lfPtr' = D
          /\ \A k, l \in D : k < l => too[k] > too[l]
          /\ \A j \in PickedTo(i, n + 1) : \E k \in D : too[k] = j
          /\ \A k \in D : lfPtr'[k] = Array[too[k]]
      BY <2>1, <2>5, <2>6, <2>7, <2>8
    <3> HIDE DEF D
    <3> QED
      BY <1>9, <3>1, <3>2 DEF Selected
  <2> QED
    BY <1>3, <1>4, <2>1, <2>9
<1>11. CASE ~p(v) /\ lfPtr' = lfPtr /\ UNCHANGED lfFailed
  <2>1. PickedTo(i, n + 1) = PickedTo(i, n)
    BY <1>4, <1>11 DEF PickedTo
  <2>2. Selected(lfPtr', lfFailed', n + 1)
    BY <1>8, <1>9, <1>11, <2>1 DEF Selected
  <2> QED
    BY <1>1, <1>3, <1>4, <1>11, <2>2
<1>12. CASE lfPtr' = <<>> /\ lfFailed' = TRUE
  <2> DEFINE none == [k \in {} |-> k]
  <2>1. PickedTo(n + 2, n + 1) = {} /\ DOMAIN lfPtr' = {}
    BY <1>4, <1>12 DEF PickedTo
  <2>2. none \in [DOMAIN lfPtr' -> PickedTo(n + 2, n + 1)]
    BY <2>1
  <2> HIDE DEF none
  <2>3. Selected(lfPtr', lfFailed', n + 1)
    BY <1>9, <1>12, <2>1, <2>2 DEF Selected
  <2>4. lfPtr' \in Seq(Int)
    BY <1>12
  <2> QED
    BY <1>3, <1>4, <2>3, <2>4
<1> QED
  BY <1>6, <1>10, <1>11, <1>12

(* f leaves the values that p picks in reverse order: all of them, or those  *)
(* of the end of arr if an allocation failed.                                *)
THEOREM ListCorrect == ListSpec => []SelectsReversed
<1>1. ListInit => ListInv
  BY ListAssumption DEF ListInit, ListInv, EndOfArray
<1>2. ASSUME ListInv, [ListNext]_listVars
      PROVE  ListInv'
  <2>1. Array \in Seq(Int) /\ Len(Array) \in Nat
    BY ListAssumption
  <2>2. CASE AddHead
    <3> DEFINE m == Len(lfHead)
               v == Array[Len(Array) - m]
    <3>1. /\ lfEnd = "building" /\ lfHead \in Seq(Int) /\ m \in Nat /\ m < Len(Array)
          /\ lfHead' = <<v>> \o lfHead /\ UNCHANGED <<lfRest, lfPtr, lfFailed, lfEnd>>
          /\ \A j \in 1 .. m : lfHead[j] = Array[Len(Array) - m + j]
      BY <1>2, <2>2 DEF AddHead, ListInv, EndOfArray
    <3>2. v \in Int
      BY <2>1, <3>1
    <3> HIDE DEF v
    <3>3. /\ lfHead' \in Seq(Int) /\ Len(lfHead') = m + 1 /\ lfHead'[1] = v
          /\ \A j \in 2 .. m + 1 : lfHead'[j] = lfHead[j - 1]
      BY <3>1, <3>2
    <3>4. \A j \in 1 .. m + 1 : lfHead'[j] = Array[Len(Array) - (m + 1) + j]
      <4>1. ASSUME NEW j \in 2 .. m + 1
            PROVE  lfHead'[j] = Array[Len(Array) - (m + 1) + j]
        <5>1. j - 1 \in 1 .. m /\ lfHead[j - 1] = Array[Len(Array) - m + (j - 1)]
          BY <3>1
        <5>2. Len(Array) - m + (j - 1) = Len(Array) - (m + 1) + j
          BY <2>1, <3>1
        <5> QED
          BY <3>3, <5>1, <5>2
      <4>2. lfHead'[1] = Array[Len(Array) - (m + 1) + 1]
        <5>1. Len(Array) - m = Len(Array) - (m + 1) + 1
          BY <2>1, <3>1
        <5> QED
          BY <3>3, <5>1 DEF v
      <4> QED
        BY <3>1, <4>1, <4>2
    <3>5. EndOfArray(lfHead')
      BY <2>1, <3>1, <3>3, <3>4 DEF EndOfArray
    <3> QED
      BY <1>2, <3>1, <3>5 DEF ListInv
  <2>3. CASE AddHeadFails
    BY <1>2, <2>3 DEF AddHeadFails, ListInv
  <2>4. CASE CallF
    <3>1. Len(Array) - Len(lfRest') = 0
      BY <2>1, <2>4 DEF CallF
    <3>2. Selected(lfPtr, lfFailed, 0)
      BY <1>2, <2>4, NothingSelected DEF CallF, ListInv
    <3>3. Selected(lfPtr', lfFailed', 0)
      BY <2>4, <3>2 DEF CallF
    <3>4. Selected(lfPtr', lfFailed', Len(Array) - Len(lfRest'))
      BY <3>1, <3>3, Zenon
    <3> QED
      BY <1>2, <2>4, <3>4 DEF CallF, ListInv
  <2>5. CASE FilterOne
    BY <1>2, <2>5, SelectStep DEF FilterOne, ListInv
  <2>6. CASE PrintList
    BY <1>2, <2>6 DEF PrintList, ListInv
  <2>7. CASE UNCHANGED listVars
    BY <1>2, <2>7 DEF listVars, ListInv
  <2> QED
    BY <1>2, <2>2, <2>3, <2>4, <2>5, <2>6, <2>7 DEF ListNext
<1>3. ListInv => SelectsReversed
  <2> SUFFICES ASSUME ListInv, lfEnd = "done"
               PROVE  SelectsReversed
    BY DEF SelectsReversed
  <2>1. Selected(lfPtr, lfFailed, Len(Array))
    BY ListAssumption DEF ListInv
  <2>2. \A i : PickedTo(i, Len(Array)) = Picked(i)
    BY DEF PickedTo, Picked
  <2> QED
    BY <2>1, <2>2 DEF Selected, SelectsReversed
<1> QED
  BY <1>1, <1>2, <1>3, PTL DEF ListSpec
-----------------------------------------------------------------------------
(* What the converter's properties say of bytes written, bytes read and a    *)
(* table, for any of them.                                                   *)
Byte == 0 .. 255

StartsOf(out) == {s \in 1 .. Len(out) : out[s] \notin 128 .. 191}

Decoding(a, b, c) ==
  IF a < 128 THEN a
  ELSE IF a \in 192 .. 223 THEN 64 * (a - 192) + (b - 128)
  ELSE IF a \in 224 .. 239 THEN 4096 * (a - 224) + 64 * (b - 128) + (c - 128)
  ELSE -1

DecodedIn(out, s) == Decoding(out[s], out[s + 1], out[s + 2])

CodeOf(table, byte) == IF byte < 128 THEN byte ELSE Tables[table][byte]

KeptOf(bytes, table) ==
  {i \in 1 .. Len(bytes) : bytes[i] < 128 \/ CodeOf(table, bytes[i]) >= 128}

Decodes(out, bytes, table) ==
  \E at \in [KeptOf(bytes, table) -> StartsOf(out)] :
    /\ \A i, j \in KeptOf(bytes, table) : i < j => at[i] < at[j]
    /\ \A s \in StartsOf(out) : \E i \in KeptOf(bytes, table) : at[i] = s
    /\ \A i \in KeptOf(bytes, table) : DecodedIn(out, at[i]) = CodeOf(table, bytes[i])

(* No character is cut short.                                                *)
Whole(out) ==
  \A s \in StartsOf(out) : /\ out[s] >= 192 => s + 1 <= Len(out)
                           /\ out[s] >= 224 => s + 2 <= Len(out)

(* The bytes e are one character, with the code point v.                     *)
IsCharacter(e, v) ==
  /\ e \in Seq(Byte)
  /\ \/ Len(e) = 1 /\ e[1] < 128 /\ v = e[1]
     \/ /\ Len(e) = 2 /\ e[1] \in 192 .. 223 /\ e[2] \in 128 .. 191
        /\ v = 64 * (e[1] - 192) + (e[2] - 128)
     \/ /\ Len(e) = 3 /\ e[1] \in 224 .. 239 /\ e[2] \in 128 .. 191 /\ e[3] \in 128 .. 191
        /\ v = 4096 * (e[1] - 224) + 64 * (e[2] - 128) + (e[3] - 128)

(* A number is its quotient and its remainder; twice divided by 64 is once   *)
(* divided by 4096.                                                          *)
LEMMA Digits ==
  ASSUME NEW v \in CodeUnits
  PROVE  /\ v \div 64 \in 0 .. 1023 /\ v % 64 \in 0 .. 63
         /\ v = 64 * (v \div 64) + (v % 64)
         /\ (v \div 64) % 64 \in 0 .. 63 /\ v \div 4096 \in 0 .. 15
         /\ v \div 64 = 64 * (v \div 4096) + ((v \div 64) % 64)
<1>1. v \div 64 \in 0 .. 1023
  BY SMT DEF CodeUnits
<1>2. v % 64 \in 0 .. 63
  BY SMT DEF CodeUnits
<1>3. v = 64 * (v \div 64) + (v % 64)
  BY SMT DEF CodeUnits
<1>4. v \div 4096 \in 0 .. 15
  BY SMT DEF CodeUnits
<1>5. v \div 64 = 64 * (v \div 4096) + ((v \div 64) % 64)
  BY SMT DEF CodeUnits
<1>6. (v \div 64) % 64 \in 0 .. 63
  BY <1>1, SMT
<1> QED
  BY <1>1, <1>2, <1>3, <1>4, <1>5, <1>6

(* What is written for a table entry is the character it stands for.         *)
LEMMA EncodedIs ==
  ASSUME NEW v \in CodeUnits, v >= 128
  PROVE  IsCharacter(Encoded(v), v)
<1> DEFINE hi == v \div 64
           top == v \div 4096
           lo == v % 64
           mid == hi % 64
<1>1. v \in Int
  BY SMT DEF CodeUnits
<1>2. /\ hi \in 0 .. 1023 /\ lo \in 0 .. 63 /\ mid \in 0 .. 63 /\ top \in 0 .. 15
      /\ v = 64 * hi + lo /\ hi = 64 * top + mid
  BY Digits
<1>3. Encoded(v) = IF v < 2048 THEN <<192 + hi, 128 + lo>>
                   ELSE <<224 + top, 128 + mid, 128 + lo>>
  BY <1>1 DEF Encoded, Continuation
<1> HIDE DEF hi, top, lo, mid
<1>4. CASE v < 2048
  <2>1. hi \in 0 .. 31
    BY <1>1, <1>2, <1>4
  <2>2. Encoded(v) = <<192 + hi, 128 + lo>>
    BY <1>1, <1>3, <1>4
  <2>3. 192 + hi \in 192 .. 223 /\ 128 + lo \in 128 .. 191
    BY <1>1, <1>2, <2>1
  <2>4. v = 64 * ((192 + hi) - 192) + ((128 + lo) - 128)
    BY <1>1, <1>2, <2>1
  <2>5. <<192 + hi, 128 + lo>> \in Seq(Byte)
    <3>1. 192 + hi \in Byte /\ 128 + lo \in Byte
      BY <1>2, <2>1 DEF Byte
    <3> QED
      BY <3>1
  <2> QED
    BY <2>2, <2>3, <2>4, <2>5, SMT DEF IsCharacter
<1>5. CASE v >= 2048
  <2>1. Encoded(v) = <<224 + top, 128 + mid, 128 + lo>>
    BY <1>1, <1>3, <1>5
  <2>2. 224 + top \in 224 .. 239 /\ 128 + mid \in 128 .. 191 /\ 128 + lo \in 128 .. 191
    BY <1>1, <1>2
  <2>3. v = 4096 * ((224 + top) - 224) + 64 * ((128 + mid) - 128) + ((128 + lo) - 128)
    BY <1>1, <1>2
  <2>4. <<224 + top, 128 + mid, 128 + lo>> \in Seq(Byte)
    <3>1. 224 + top \in Byte /\ 128 + mid \in Byte /\ 128 + lo \in Byte
      BY <1>2 DEF Byte
    <3> QED
      BY <3>1
  <2> QED
    BY <2>1, <2>2, <2>3, <2>4, SMT DEF IsCharacter
<1> QED
  BY <1>1, <1>4, <1>5

(* Which bytes a character depends on.                                       *)
LEMMA DecodingTakes ==
  ASSUME NEW a \in Byte
  PROVE  /\ a < 192 => \A b, c, d, e : Decoding(a, b, c) = Decoding(a, d, e)
         /\ a < 224 => \A b, c, d : Decoding(a, b, c) = Decoding(a, b, d)
<1>1. a \in 0 .. 255
  BY DEF Byte
<1>2. CASE a < 128
  BY <1>1, <1>2, SMT DEF Decoding
<1>3. CASE a \in 128 .. 191
  BY <1>1, <1>3, SMT DEF Decoding
<1>4. CASE a \in 192 .. 223
  BY <1>1, <1>4, SMT DEF Decoding
<1>5. CASE a >= 224
  BY <1>1, <1>5
<1> QED
  BY <1>1, <1>2, <1>3, <1>4, <1>5

LeadOfThree == 224 .. 239

OfThree(a, b, c) == 4096 * (a - 224) + 64 * (b - 128) + (c - 128)

(* What a lead byte of three makes of the two that follow.                   *)
LEMMA DecodingOfThree ==
  ASSUME NEW a \in LeadOfThree, NEW b, NEW c
  PROVE  Decoding(a, b, c) = OfThree(a, b, c)
BY SMT DEF Decoding, LeadOfThree, OfThree

(* A character begins with the only byte that is no continuation, and that   *)
(* byte tells how many there are.                                            *)
LEMMA LeadByte ==
  ASSUME NEW e, NEW v, IsCharacter(e, v)
  PROVE  /\ e[1] \notin 128 .. 191 /\ \A i \in 2 .. Len(e) : e[i] \in 128 .. 191
         /\ e[1] >= 192 => Len(e) >= 2
         /\ e[1] >= 224 => Len(e) >= 3
<1> DEFINE m == Len(e)
<1>1. e \in Seq(Byte) /\ m \in {1, 2, 3}
  BY DEF IsCharacter
<1>2. e[1] \in Int /\ e[1] >= 0
  <2>1. e[1] \in Byte
    BY <1>1
  <2> QED
    BY <2>1 DEF Byte
<1>3. \/ m = 1 /\ e[1] < 128
      \/ m = 2 /\ e[1] \in 192 .. 223 /\ e[2] \in 128 .. 191
      \/ m = 3 /\ e[1] \in 224 .. 239 /\ e[2] \in 128 .. 191 /\ e[3] \in 128 .. 191
  BY DEF IsCharacter
<1> HIDE DEF m
<1>4. e[1] \notin 128 .. 191
  BY <1>2, <1>3
<1>5. \A i \in 2 .. m : e[i] \in 128 .. 191
  BY <1>3
<1>6. (e[1] >= 192 => m >= 2) /\ (e[1] >= 224 => m >= 3)
  BY <1>2, <1>3
<1> QED
  BY <1>4, <1>5, <1>6 DEF m

(* A character that is appended is decoded as itself, and the others as they *)
(* were.                                                                     *)
LEMMA CharacterAppended ==
  ASSUME NEW out \in Seq(Byte), Whole(out), NEW v, NEW e, IsCharacter(e, v)
  PROVE  /\ out \o e \in Seq(Byte) /\ Whole(out \o e)
         /\ StartsOf(out \o e) = StartsOf(out) \cup {Len(out) + 1}
         /\ \A s \in StartsOf(out) : DecodedIn(out \o e, s) = DecodedIn(out, s)
         /\ DecodedIn(out \o e, Len(out) + 1) = v
<1> DEFINE n == Len(out)
           m == Len(e)
           all == out \o e
<1>1. /\ n \in Nat /\ e \in Seq(Byte) /\ m \in {1, 2, 3}
      /\ \A i \in 1 .. n : out[i] \in Byte
      /\ \A i \in 1 .. m : e[i] \in Byte
      /\ n = Len(out) /\ m = Len(e)
  <2>1. e \in Seq(Byte) /\ m \in {1, 2, 3}
    BY DEF IsCharacter
  <2> QED
    BY <2>1
<1>2. /\ all \in Seq(Byte) /\ Len(all) = n + m
      /\ \A i \in 1 .. n : all[i] = out[i]
      /\ \A i \in 1 .. m : all[n + i] = e[i]
  BY <1>1
<1>11. \/ m = 1 /\ e[1] < 128 /\ v = e[1]
       \/ /\ m = 2 /\ e[1] \in 192 .. 223 /\ e[2] \in 128 .. 191
          /\ v = 64 * (e[1] - 192) + (e[2] - 128)
       \/ /\ m = 3 /\ e[1] \in 224 .. 239 /\ e[2] \in 128 .. 191 /\ e[3] \in 128 .. 191
          /\ v = 4096 * (e[1] - 224) + 64 * (e[2] - 128) + (e[3] - 128)
  BY Zenon DEF IsCharacter
<1> HIDE DEF all, n, m
<1>3. /\ e[1] \notin 128 .. 191 /\ \A i \in 2 .. m : e[i] \in 128 .. 191
      /\ e[1] >= 192 => m >= 2
      /\ e[1] >= 224 => m >= 3
  BY <1>1, LeadByte
<1>4. \A i \in n + 1 .. n + m : all[i] \notin 128 .. 191 <=> i = n + 1
  <2>1. ASSUME NEW i \in n + 1 .. n + m
        PROVE  all[i] \notin 128 .. 191 <=> i = n + 1
    <3>1. i - n \in 1 .. m /\ n + (i - n) = i
      BY <1>1
    <3>2. all[i] = e[i - n]
      BY <1>2, <3>1
    <3>3. i = n + 1 <=> i - n = 1
      BY <1>1, <3>1
    <3>4. i - n # 1 => i - n \in 2 .. m
      BY <1>1, <3>1
    <3> QED
      BY <1>3, <3>2, <3>3, <3>4
  <2> QED
    BY <2>1
<1>5. StartsOf(all) = StartsOf(out) \cup {n + 1}
  <2>1. ASSUME NEW i \in 1 .. n + m
        PROVE  i \in StartsOf(all) <=> i \in StartsOf(out) \/ i = n + 1
    <3>1. CASE i \in 1 .. n
      BY <1>1, <1>2, <3>1 DEF StartsOf
    <3>2. CASE i \in n + 1 .. n + m
      BY <1>1, <1>2, <1>4, <3>2 DEF StartsOf
    <3> QED
      BY <1>1, <3>1, <3>2
  <2>2. StartsOf(all) \subseteq 1 .. n + m /\ StartsOf(out) \subseteq 1 .. n + m
    <3>1. n + m \in Nat /\ 1 .. n \subseteq 1 .. n + m
      BY <1>1
    <3> QED
      BY <1>1, <1>2, <3>1 DEF StartsOf
  <2>3. n + 1 \in 1 .. n + m
    BY <1>1
  <2> QED
    BY <2>1, <2>2, <2>3
<1>6. ASSUME NEW s \in StartsOf(out)
      PROVE  /\ DecodedIn(all, s) = DecodedIn(out, s)
             /\ all[s] >= 192 => s + 1 <= n + m
             /\ all[s] >= 224 => s + 2 <= n + m
  <2>1. s \in 1 .. n /\ all[s] = out[s] /\ out[s] \in Byte /\ out[s] \in Int
    <3>1. s \in 1 .. n
      BY <1>1 DEF StartsOf
    <3>2. \A b \in Byte : b \in Int
      BY DEF Byte
    <3> QED
      BY <1>1, <1>2, <3>1, <3>2
  <2>2. /\ out[s] >= 192 => s + 1 \in 1 .. n
        /\ out[s] >= 224 => s + 2 \in 1 .. n
    BY <1>1, <2>1 DEF Whole
  <2>3. /\ out[s] >= 192 => all[s + 1] = out[s + 1]
        /\ out[s] >= 224 => all[s + 2] = out[s + 2]
    BY <1>2, <2>2
  <2>4. DecodedIn(all, s) = DecodedIn(out, s)
    <3>1. CASE out[s] < 192
      BY <2>1, <3>1, DecodingTakes DEF DecodedIn
    <3>2. CASE out[s] >= 192 /\ out[s] < 224
      BY <2>1, <2>3, <3>2, DecodingTakes DEF DecodedIn
    <3>3. CASE out[s] >= 224
      <4>1. all[s + 1] = out[s + 1] /\ all[s + 2] = out[s + 2]
        BY <2>1, <2>3, <3>3
      <4> QED
        BY <2>1, <4>1, Zenon DEF DecodedIn
    <3> QED
      BY <2>1, <3>1, <3>2, <3>3
  <2> QED
    BY <1>1, <2>1, <2>2, <2>4
<1>7. /\ all[n + 1] = e[1]
      /\ m >= 2 => all[n + 2] = e[2]
      /\ m >= 3 => all[n + 3] = e[3]
  BY <1>1, <1>2
<1>8. (n + 1) + 1 = n + 2 /\ (n + 1) + 2 = n + 3
  BY <1>1
<1>9. DecodedIn(all, n + 1) = v
  <2>1. DecodedIn(all, n + 1) = Decoding(e[1], all[n + 2], all[n + 3])
    BY <1>7, <1>8, Zenon DEF DecodedIn
  <2>2. CASE m = 1 /\ e[1] < 128 /\ v = e[1]
    BY <2>1, <2>2 DEF Decoding
  <2>3. ASSUME m = 2, e[1] \in 192 .. 223, e[2] \in 128 .. 191,
               v = 64 * (e[1] - 192) + (e[2] - 128)
        PROVE  DecodedIn(all, n + 1) = v
    <3>1. all[n + 2] = e[2]
      BY <1>7, <2>3
    <3>2. Decoding(e[1], e[2], all[n + 3]) = 64 * (e[1] - 192) + (e[2] - 128)
      <4>1. ~(e[1] < 128)
        <5>1. \A x \in 192 .. 223 : ~(x < 128)
          OBVIOUS
        <5> QED
          BY <2>3, <5>1
      <4> QED
        BY <2>3, <4>1, Zenon DEF Decoding
    <3> QED
      BY <2>1, <2>3, <3>1, <3>2
  <2>4. ASSUME m = 3, e[1] \in 224 .. 239, e[2] \in 128 .. 191, e[3] \in 128 .. 191,
               v = 4096 * (e[1] - 224) + 64 * (e[2] - 128) + (e[3] - 128)
        PROVE  DecodedIn(all, n + 1) = v
    <3>1. all[n + 2] = e[2] /\ all[n + 3] = e[3]
      BY <1>7, <2>4, SMT
    <3>2. e[1] \in LeadOfThree
      BY <2>4, Zenon DEF LeadOfThree
    <3>3. v = OfThree(e[1], e[2], e[3])
      BY <2>4, SMT DEF OfThree
    <3> HIDE <2>4
    <3> QED
      BY <2>1, <3>1, <3>2, <3>3, DecodingOfThree, Zenon
  <2> QED
    BY <1>11, <2>2, <2>3, <2>4, SMT
<1>10. Whole(all)
  <2>1. /\ all[n + 1] >= 192 => (n + 1) + 1 <= n + m
        /\ all[n + 1] >= 224 => (n + 1) + 2 <= n + m
    BY <1>1, <1>3, <1>7, <1>8
  <2> QED
    BY <1>2, <1>5, <1>6, <2>1 DEF Whole
<1> QED
  BY <1>2, <1>5, <1>6, <1>9, <1>10 DEF all, n

(* What has been written is whole characters, those of the bytes read.       *)
ConverterInv ==
  /\ cvTable = 0 \/ cvTable \in DOMAIN Tables
  /\ cvRead \in Seq(Byte)
  /\ cvOut \in Seq(Byte)
  /\ cvEnd = "options" => cvRead = <<>> /\ cvOut = <<>>
  /\ Whole(cvOut)
  /\ Decodes(cvOut, cvRead, cvTable)

(* A byte that is converted.                                                 *)
LEMMA ConvertStep ==
  ASSUME ConverterInv, cvTable # 0,
         NEW byte \in Ascii \cup DOMAIN Tables[cvTable], ConvertByte(byte)
  PROVE  /\ cvRead' \in Seq(Byte) /\ cvOut' \in Seq(Byte)
         /\ Whole(cvOut') /\ Decodes(cvOut', cvRead', cvTable)
<1> DEFINE n == Len(cvRead)
           new == Len(cvOut) + 1
           Ks == KeptOf(cvRead, cvTable)
           Ks2 == KeptOf(cvRead', cvTable)
           v == CodeOf(cvTable, byte)
<1>1. /\ byte \in Byte /\ byte \in 0 .. 255
      /\ byte < 128 => v = byte
      /\ byte >= 128 => v \in CodeUnits /\ v \in Int
  <2>1. cvTable \in DOMAIN Tables
    BY DEF ConverterInv
  <2>2. byte \in 0 .. 255 /\ (byte >= 128 => byte \in DOMAIN Tables[cvTable])
    BY <2>1, ConverterAssumption
  <2>3. byte >= 128 => Tables[cvTable][byte] \in CodeUnits
    BY <2>1, <2>2, ConverterAssumption
  <2>4. byte >= 128 => Tables[cvTable][byte] \in Int
    <3>1. \A u \in CodeUnits : u \in Int
      BY SMT DEF CodeUnits
    <3> QED
      BY <2>3, <3>1
  <2> QED
    BY <2>2, <2>3, <2>4 DEF CodeOf, Byte
<1>2. /\ cvRead \in Seq(Byte) /\ n \in Nat
      /\ cvOut \in Seq(Byte) /\ Whole(cvOut) /\ Len(cvOut) \in Nat
  BY DEF ConverterInv
<1>3. /\ cvRead' = Append(cvRead, byte)
      /\ cvOut' = cvOut \o IF byte < 128 THEN <<byte>> ELSE Encoded(v)
  BY DEF ConvertByte, CodeOf
<1>4. /\ cvRead' \in Seq(Byte) /\ Len(cvRead') = n + 1 /\ cvRead'[n + 1] = byte
      /\ \A i \in 1 .. n : cvRead'[i] = cvRead[i]
  BY <1>1, <1>2, <1>3
<1>5. PICK at \in [Ks -> StartsOf(cvOut)] :
        /\ \A i, j \in Ks : i < j => at[i] < at[j]
        /\ \A s \in StartsOf(cvOut) : \E i \in Ks : at[i] = s
        /\ \A i \in Ks : DecodedIn(cvOut, at[i]) = CodeOf(cvTable, cvRead[i])
  BY DEF ConverterInv, Decodes
<1>6. /\ Ks \subseteq 1 .. n /\ n + 1 \notin Ks
      /\ Ks2 = IF byte < 128 \/ v >= 128 THEN Ks \cup {n + 1} ELSE Ks
  <2>1. Ks \subseteq 1 .. n
    BY <1>2 DEF KeptOf
  <2>2. n + 1 \notin Ks
    BY <1>2, <2>1
  <2>3. \A i \in 1 .. n : i \in Ks2 <=> i \in Ks
    BY <1>2, <1>4 DEF KeptOf
  <2>4. n + 1 \in Ks2 <=> byte < 128 \/ v >= 128
    BY <1>2, <1>4 DEF KeptOf
  <2>5. Ks2 \subseteq 1 .. n + 1
    BY <1>4 DEF KeptOf
  <2>6. 1 .. n + 1 = (1 .. n) \cup {n + 1}
    BY <1>2
  <2> HIDE DEF Ks, Ks2, v, n
  <2> QED
    BY <2>1, <2>2, <2>3, <2>4, <2>5, <2>6
<1> HIDE DEF v
<1>7. CASE byte < 128 \/ v >= 128
  <2> DEFINE e == IF byte < 128 THEN <<byte>> ELSE Encoded(v)
             too == [i \in Ks2 |-> IF i = n + 1 THEN new ELSE at[i]]
  <2>1. IsCharacter(e, v)
    <3>1. CASE byte < 128
      BY <1>1, <3>1 DEF IsCharacter
    <3>2. CASE byte >= 128
      BY <1>1, <1>7, <3>2, EncodedIs
    <3> QED
      BY <1>1, <3>1, <3>2
  <2>2. cvOut' = cvOut \o e
    BY <1>3
  <2> HIDE DEF e
  <2>3. /\ cvOut' \in Seq(Byte) /\ Whole(cvOut')
        /\ StartsOf(cvOut') = StartsOf(cvOut) \cup {new}
        /\ \A s \in StartsOf(cvOut) : DecodedIn(cvOut', s) = DecodedIn(cvOut, s)
        /\ DecodedIn(cvOut', new) = v
    BY <1>2, <2>1, <2>2, CharacterAppended
  <2>4. Ks2 = Ks \cup {n + 1}
    BY <1>6, <1>7
  <2>5. \A s \in StartsOf(cvOut) : s \in Int /\ s < new
    BY <1>2 DEF StartsOf
  <2>6. new \in Int /\ n + 1 \in Int /\ \A i \in Ks : i \in Int /\ i < n + 1
    BY <1>2, <1>6
  <2>7. /\ \A i \in Ks : CodeOf(cvTable, cvRead'[i]) = CodeOf(cvTable, cvRead[i])
        /\ CodeOf(cvTable, cvRead'[n + 1]) = v
    <3>1. \A i \in Ks : cvRead'[i] = cvRead[i]
      BY <1>4, <1>6
    <3> QED
      BY <1>4, <3>1 DEF v
  <2> HIDE DEF Ks, Ks2, n, new
  <2>8. too \in [Ks2 -> StartsOf(cvOut')]
    BY <1>5, <1>6, <2>3, <2>4
  <2>9. too[n + 1] = new /\ \A i \in Ks : too[i] = at[i] /\ at[i] \in StartsOf(cvOut)
    BY <1>5, <1>6, <2>4
  <2> HIDE DEF too
  <2>10. \A i, j \in Ks2 : i < j => too[i] < too[j]
    <3>1. \A i, j \in Ks : i < j => too[i] < too[j]
      BY <1>5, <2>9
    <3>2. \A i \in Ks : too[i] < too[n + 1] /\ ~(n + 1 < i)
      BY <2>5, <2>6, <2>9
    <3>3. ~(n + 1 < n + 1)
      BY <2>6
    <3> QED
      BY <2>4, <3>1, <3>2, <3>3
  <2>11. \A s \in StartsOf(cvOut') : \E i \in Ks2 : too[i] = s
    BY <1>5, <2>3, <2>4, <2>9
  <2>12. \A i \in Ks2 : DecodedIn(cvOut', too[i]) = CodeOf(cvTable, cvRead'[i])
    BY <1>5, <2>3, <2>4, <2>7, <2>9
  <2>13. Decodes(cvOut', cvRead', cvTable)
    BY <2>8, <2>10, <2>11, <2>12 DEF Decodes, Ks2
  <2> QED
    BY <1>4, <2>3, <2>13
<1>8. CASE byte >= 128 /\ v < 128
  <2>1. cvOut' = cvOut
    <3>1. Encoded(v) = <<>>
      BY <1>8 DEF Encoded
    <3>2. ~(byte < 128)
      BY <1>1, <1>8
    <3> QED
      BY <1>2, <1>3, <3>1, <3>2, ConcatEmptySeq
  <2>2. Ks2 = Ks
    <3>1. ~(byte < 128) /\ ~(v >= 128)
      BY <1>1, <1>8
    <3> QED
      BY <1>6, <3>1
  <2>3. \A i \in Ks : CodeOf(cvTable, cvRead'[i]) = CodeOf(cvTable, cvRead[i])
    <3>1. \A i \in Ks : cvRead'[i] = cvRead[i]
      BY <1>4, <1>6
    <3> QED
      BY <3>1
  <2> HIDE DEF Ks, Ks2
  <2>4. Decodes(cvOut', cvRead', cvTable)
    BY <1>5, <2>1, <2>2, <2>3, Zenon DEF Decodes, Ks2
  <2> QED
    BY <1>2, <1>4, <2>1, <2>4
<1> QED
  BY <1>1, <1>7, <1>8

(* The bytes written decode, one to one and in order, to the characters of   *)
(* the bytes read: for every code page.                                      *)
THEOREM ConverterCorrect == ConverterSpec => []DecodesToTheText
<1> DEFINE none == [i \in {} |-> i]
<1>1. ASSUME NEW table
      PROVE  Decodes(<<>>, <<>>, table) /\ Whole(<<>>)
  <2>1. StartsOf(<<>>) = {} /\ KeptOf(<<>>, table) = {}
    BY DEF StartsOf, KeptOf
  <2>2. none \in [{} -> {}]
    OBVIOUS
  <2> HIDE DEF none
  <2> QED
    BY <2>1, <2>2 DEF Decodes, Whole
<1>2. ConverterInit => ConverterInv
  BY <1>1 DEF ConverterInit, ConverterInv
<1>3. ASSUME ConverterInv, [ConverterNext]_converterVars
      PROVE  ConverterInv'
  <2>1. CASE ChooseTable
    <3>1. cvTable' \in DOMAIN Tables /\ cvEnd' = "running" /\ UNCHANGED <<cvRead, cvOut>>
      BY <2>1 DEF ChooseTable
    <3>2. cvRead = <<>> /\ cvOut = <<>>
      BY <1>3, <2>1 DEF ChooseTable, ConverterInv
    <3>3. Decodes(cvOut', cvRead', cvTable') /\ Whole(cvOut')
      BY <1>1, <3>1, <3>2
    <3> QED
      BY <1>3, <3>1, <3>3 DEF ConverterInv
  <2>2. CASE RunPastNames \/ CannotOpen \/ CloseFiles \/ UNCHANGED converterVars
    <3>1. UNCHANGED <<cvTable, cvRead, cvOut>> /\ (cvEnd' = "options" => cvEnd = "options")
      BY <2>2 DEF RunPastNames, CannotOpen, CloseFiles, converterVars
    <3> QED
      BY <1>3, <3>1 DEF ConverterInv
  <2>3. ASSUME cvTable # 0, NEW byte \in Ascii \cup DOMAIN Tables[cvTable], ConvertByte(byte)
        PROVE  ConverterInv'
    <3>1. /\ cvRead' \in Seq(Byte) /\ cvOut' \in Seq(Byte)
          /\ Whole(cvOut') /\ Decodes(cvOut', cvRead', cvTable)
      BY <1>3, <2>3, ConvertStep
    <3>2. cvTable' = cvTable /\ cvEnd' = "running"
      BY <2>3 DEF ConvertByte
    <3> QED
      BY <1>3, <3>1, <3>2 DEF ConverterInv
  <2> QED
    BY <1>3, <2>1, <2>2, <2>3 DEF ConverterNext
<1>4. ConverterInv => DecodesToTheText
  <2> SUFFICES ASSUME ConverterInv
               PROVE  DecodesToTheText
    OBVIOUS
  <2>1. /\ StartsOf(cvOut) = Starts /\ KeptOf(cvRead, cvTable) = Kept
        /\ \A b : CodeOf(cvTable, b) = CodePoint(b)
    <3>1. DOMAIN cvOut = 1 .. Len(cvOut) /\ DOMAIN cvRead = 1 .. Len(cvRead)
      BY DEF ConverterInv
    <3>2. \A b : CodeOf(cvTable, b) = CodePoint(b)
      BY DEF CodeOf, CodePoint
    <3>3. StartsOf(cvOut) = Starts
      BY <3>1 DEF StartsOf, Starts
    <3>4. KeptOf(cvRead, cvTable) = Kept
      BY <3>1, <3>2 DEF KeptOf, Kept
    <3> QED
      BY <3>2, <3>3, <3>4
  <2>2. ASSUME NEW s \in Starts
        PROVE  DecodedIn(cvOut, s) = DecodedAt(s)
    <3> DEFINE b == cvOut[s]
               c == cvOut[s + 1]
               d == cvOut[s + 2]
    <3>1. b \in Byte
      <4>1. s \in DOMAIN cvOut /\ cvOut \in Seq(Byte)
        BY DEF Starts, ConverterInv
      <4> QED
        BY <4>1
    <3>2. b \in 0 .. 255
      BY <3>1 DEF Byte
    <3>3. DecodedAt(s) = CASE b < 128 -> b
                           [] b \in 192 .. 223 -> 64 * (b - 192) + (c - 128)
                           [] b \in 224 .. 239 -> 4096 * (b - 224) + 64 * (c - 128) + (d - 128)
                           [] OTHER -> -1
      BY DEF DecodedAt
    <3>4. DecodedIn(cvOut, s) = Decoding(b, c, d)
      BY DEF DecodedIn
    <3> HIDE DEF b, c, d
    <3>5. CASE b < 128
      BY <3>2, <3>3, <3>4, <3>5, SMT DEF Decoding
    <3>6. CASE b \in 192 .. 223
      BY <3>2, <3>3, <3>4, <3>6, SMT DEF Decoding
    <3>7. CASE b \in 224 .. 239
      BY <3>2, <3>3, <3>4, <3>7, SMT DEF Decoding
    <3>8. CASE ~(b < 128) /\ b \notin 192 .. 223 /\ b \notin 224 .. 239
      BY <3>2, <3>3, <3>4, <3>8, SMT DEF Decoding
    <3> QED
      BY <3>5, <3>6, <3>7, <3>8
  <2>3. PICK at \in [Kept -> Starts] :
          /\ \A i, j \in Kept : i < j => at[i] < at[j]
          /\ \A s \in Starts : \E i \in Kept : at[i] = s
          /\ \A i \in Kept : DecodedIn(cvOut, at[i]) = CodeOf(cvTable, cvRead[i])
    <3>1. Decodes(cvOut, cvRead, cvTable)
      BY DEF ConverterInv
    <3> QED
      BY <2>1, <3>1, Zenon DEF Decodes
  <2>4. \A i \in Kept : DecodedAt(at[i]) = CodePoint(cvRead[i])
    BY <2>1, <2>2, <2>3
  <2> QED
    BY <2>3, <2>4 DEF DecodesToTheText
<1> QED
  BY <1>2, <1>3, <1>4, PTL DEF ConverterSpec
=============================================================================
