----------------------------- MODULE ListFilter -----------------------------
(***************************************************************************)
(* hw5/src/main.c: builds a list, and f() puts a copy of every node whose  *)
(* value p() picks at the head of a second list.  Allocations may fail.    *)
(***************************************************************************)
EXTENDS Integers, Sequences

CONSTANT Array   \* arr

ASSUME ListAssumption == Array \in Seq(Int)

VARIABLES
  lfHead,    \* the list from head on
  lfRest,    \* the part of it that f has not seen
  lfPtr,     \* the list at *ptr
  lfFailed,  \* history: an allocation of f failed
  lfEnd      \* "building", "filtering", "done" or "failed"

listVars == <<lfHead, lfRest, lfPtr, lfFailed, lfEnd>>

ListInit ==
  /\ lfHead = <<>>
  /\ lfRest = <<>>
  /\ lfPtr = <<>>
  /\ lfFailed = FALSE
  /\ lfEnd = "building"

(* add_element, from the last number to the first. *)
AddHead ==
  /\ lfEnd = "building"
  /\ Len(lfHead) < Len(Array)
  /\ lfHead' = <<Array[Len(Array) - Len(lfHead)]>> \o lfHead
  /\ UNCHANGED <<lfRest, lfPtr, lfFailed, lfEnd>>

AddHeadFails ==
  /\ lfEnd = "building"
  /\ Len(lfHead) < Len(Array)
  /\ lfEnd' = "failed"
  /\ UNCHANGED <<lfHead, lfRest, lfPtr, lfFailed>>

CallF ==
  /\ lfEnd = "building"
  /\ Len(lfHead) = Len(Array)
  /\ lfEnd' = "filtering"
  /\ lfRest' = lfHead
  /\ UNCHANGED <<lfHead, lfPtr, lfFailed>>

p(value) == value % 2 # 0

(* Mutation: the copy is put at the end. *)
PutLast(value) == Append(lfPtr, value)

AddElement(value) == <<value>> \o lfPtr

(* One level of f's recursion.  When add_element returns NULL the list that  *)
(* was at *ptr is lost.                                                      *)
FilterOne ==
  /\ lfEnd = "filtering" /\ lfRest # <<>>
  /\ \/ /\ lfPtr' = IF p(Head(lfRest)) THEN AddElement(Head(lfRest)) ELSE lfPtr
        /\ UNCHANGED lfFailed
     \/ /\ p(Head(lfRest))
        /\ lfPtr' = <<>>
        /\ lfFailed' = TRUE
  /\ lfRest' = Tail(lfRest)
  /\ UNCHANGED <<lfHead, lfEnd>>

PrintList ==
  /\ lfEnd = "filtering" /\ lfRest = <<>>
  /\ lfEnd' = "done"
  /\ UNCHANGED <<lfHead, lfRest, lfPtr, lfFailed>>

ListNext == AddHead \/ AddHeadFails \/ CallF \/ FilterOne \/ PrintList

ListSpec == ListInit /\ [][ListNext]_listVars
-----------------------------------------------------------------------------
Picked(i) == {j \in i .. Len(Array) : p(Array[j])}

(* When f is through, the second list has the values of arr that p picks in  *)
(* reverse order: all of them, or those of the end of arr if allocations     *)
(* failed.                                                                   *)
SelectsReversed ==
  lfEnd = "done" =>
    \E i \in 1 .. Len(Array) + 1 : \E at \in [DOMAIN lfPtr -> Picked(i)] :
      /\ ~lfFailed => i = 1
      /\ \A k, l \in DOMAIN lfPtr : k < l => at[k] > at[l]
      /\ \A j \in Picked(i) : \E k \in DOMAIN lfPtr : at[k] = j
      /\ \A k \in DOMAIN lfPtr : lfPtr[k] = Array[at[k]]
=============================================================================
