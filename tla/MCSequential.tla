---------------------------- MODULE MCSequential ----------------------------
(* For TLC the sequential programs and the two parts of hw12 that one thread *)
(* at a time runs: each behaviour runs one of them, and `program' says which.*)
EXTENDS MCWordTable, Converter, ZipWalk, Checksum, Weather, ListFilter, TopList,
        CircularBuffer

(* Of each table the entries of 0x80, 0x98, 0xBF and 0xF0.  The options are  *)
(* a whole name, the beginning of one, and one that nobody knows.            *)
CodePages ==
  << (128 :> 1026) @@ (152 :> 32) @@ (191 :> 1111) @@ (240 :> 1088),
     (128 :> 9472) @@ (152 :> 8804) @@ (191 :> 169) @@ (240 :> 1055),
     (128 :> 128) @@ (152 :> 152) @@ (191 :> 1055) @@ (240 :> 8470) >>
CharsetOptions == {"cp1251", "k", "i", "", "utf-8"}
BeginningsOfNames ==
  {<<"cp1251", 1>>, <<"k", 2>>, <<"i", 3>>, <<"", 1>>, <<"", 2>>, <<"", 3>>}
OneLetter == {65}

ThreeTails == {0, 1, 4}

(* Both sides of the end of each range, the limits, and what is beyond them. *)
Directions == {-1, 0, 22, 23, 67, 68, 112, 113, 157, 158, 202, 203, 247, 248,
               292, 293, 337, 338, 359, 400}

HomeworkList == <<4, 8, 15, 16, 23, 42>>

SmallCounts == {0, 1, 3, 4, 5, 8, 11}
-----------------------------------------------------------------------------
VARIABLE program   \* the program that runs

idle(name, state) == program # name => UNCHANGED state

Run(name) ==
  /\ program = name
  /\ UNCHANGED program
  /\ idle("hw1", zipVars)
  /\ idle("hw2", converterVars)
  /\ idle("hw3", wordVars)
  /\ idle("hw4", weatherVars)
  /\ idle("hw5", listVars)
  /\ idle("hw11", checksumVars)
  /\ idle("print_top", topVars)
  /\ idle("ring", ringVars)

SequentialInit ==
  /\ program \in {"hw1", "hw2", "hw3", "hw4", "hw5", "hw11", "print_top", "ring"}
  /\ ZipInit /\ ConverterInit /\ WordInit /\ WeatherInit
  /\ ListInit /\ ChecksumInit /\ TopInit /\ RingInit
  /\ program # "ring" => tasks = [i \in Slots |-> Null]

SequentialNext ==
  \/ Run("hw1") /\ ZipNext
  \/ Run("hw2") /\ ConverterNext
  \/ Run("hw3") /\ WordNext
  \/ Run("hw4") /\ WeatherNext
  \/ Run("hw5") /\ ListNext
  \/ Run("hw11") /\ ChecksumNext
  \/ Run("print_top") /\ TopNext
  \/ Run("ring") /\ RingNext

SequentialSpec ==
  SequentialInit /\ [][SequentialNext]_<<program, wordVars, zipVars, converterVars,
    weatherVars, listVars, checksumVars, topVars, ringVars>>
=============================================================================
