------------------------------ MODULE Weather -------------------------------
(***************************************************************************)
(* hw4/src/curl.c and main.c: a weather client.  libcurl hands the body of *)
(* an answer to write_response in portions, which are collected in a       *)
(* buffer that is found full by strlen; main prints some fields of it.     *)
(* The i-th byte of the body is the number i; none of them is NUL.         *)
(***************************************************************************)
EXTENDS Integers, Sequences

Sets == INSTANCE FiniteSetsExt

CONSTANTS
  BodyLength,   \* the length of the body
  Angles,       \* the wind directions an answer may have
  Nul,          \* the byte 0
  Garbage       \* any other byte that realloc has left in new memory

ASSUME WeatherAssumption ==
  /\ BodyLength \in Nat
  /\ Angles \subseteq Int
  /\ {Nul, Garbage} \cap Nat = {} /\ Nul # Garbage

VARIABLES
  wxBuf,      \* the memory of http_cli->response; <<>> for NULL
  wxSent,     \* how much of the body libcurl has handed over
  wxDirty,    \* history: realloc has returned memory that was not zero
  wxAngle,    \* atoi(wind_degree)
  wxArrow,    \* what convert_to_angle made of it, from 1 for north clockwise
  wxEnd       \* "receiving", "received", "printed", "failed" or "crashed"

weatherVars == <<wxBuf, wxSent, wxDirty, wxAngle, wxArrow, wxEnd>>

WeatherInit ==
  /\ wxBuf = <<>>
  /\ wxSent = 0
  /\ wxDirty = FALSE
  /\ wxAngle = 0
  /\ wxArrow = 0
  /\ wxEnd = "receiving"

(* strlen, if what lies behind the memory happens to be NUL. *)
StrLen(buf) == Sets!Min({i \in 1 .. Len(buf) : buf[i] = Nul} \cup {Len(buf) + 1}) - 1

(* Mutation: no room for the terminator. *)
SizeWithoutNul(r) == StrLen(wxBuf) + r

NewSize(r) == StrLen(wxBuf) + r + 1

(* The bytes s from the i-th place on; what is outside of the memory is lost.*)
Stored(buf, i, s) ==
  [j \in DOMAIN buf |-> IF j - i \in DOMAIN s THEN s[j - i] ELSE buf[j]]

(* write_response(contents of r bytes): realloc, and then two calls of       *)
(* strlen on the new memory, to place the bytes and to place the terminator. *)
WriteResponse(r) ==
  /\ wxEnd = "receiving"
  /\ wxSent + r <= BodyLength
  /\ \E fresh \in [1 .. NewSize(r) -> {Nul, Garbage}] :
       LET grown == [i \in 1 .. NewSize(r) |->
                       IF i <= Len(wxBuf) THEN wxBuf[i] ELSE fresh[i]]
           filled == Stored(grown, StrLen(grown), [i \in 1 .. r |-> wxSent + i])
       IN /\ wxBuf' = Stored(filled, StrLen(filled) + r, <<Nul>>)
          /\ wxDirty' = (wxDirty \/ \E i \in DOMAIN grown : grown[i] = Garbage)
  /\ wxSent' = wxSent + r
  /\ UNCHANGED <<wxAngle, wxArrow, wxEnd>>

(* The terminator of the second strlen goes r bytes behind the first one,    *)
(* which is outside of the memory: the heap may not survive it.              *)
WriteBreaksHeap ==
  /\ wxEnd = "receiving"
  /\ wxSent < BodyLength
  /\ wxEnd' = "crashed"
  /\ UNCHANGED <<wxBuf, wxSent, wxDirty, wxAngle, wxArrow>>

(* curl_easy_perform fails, by a timeout or because realloc did. *)
RequestFails ==
  /\ wxEnd = "receiving"
  /\ wxEnd' = "failed"
  /\ UNCHANGED <<wxBuf, wxSent, wxDirty, wxAngle, wxArrow>>

(* An answer without a body leaves response NULL. *)
RequestEnds ==
  /\ wxEnd = "receiving"
  /\ wxSent \in {0, BodyLength}
  /\ wxEnd' = IF wxBuf = <<>> THEN "failed" ELSE "received"
  /\ UNCHANGED <<wxBuf, wxSent, wxDirty, wxAngle, wxArrow>>

(* The upper ends of convert_to_angle's ranges, doubled. *)
Ends == <<45, 135, 225, 315, 405, 495, 585, 675>>

(* The first range that has the angle; an angle in none of them is north.    *)
Arrow(angle) ==
  LET hits == {i \in 1 .. 8 : angle >= 0 /\ 2 * angle < Ends[i]}
  IN IF hits = {} THEN 1 ELSE Sets!Min(hits)

ShowWeather ==
  /\ wxEnd = "received"
  /\ wxEnd' = "printed"
  /\ wxAngle' \in Angles
  /\ wxArrow' = Arrow(wxAngle')
  /\ UNCHANGED <<wxBuf, wxSent, wxDirty>>

(* Nothing is printed of an answer that is not JSON, and one without the     *)
(* field wind_degree makes atoi read from NULL.                              *)
PrintNothing ==
  /\ wxEnd = "received"
  /\ wxEnd' \in {"failed", "crashed"}
  /\ UNCHANGED <<wxBuf, wxSent, wxDirty, wxAngle, wxArrow>>

WeatherNext ==
  \/ \E r \in 1 .. BodyLength : WriteResponse(r)
  \/ WriteBreaksHeap
  \/ RequestFails \/ RequestEnds
  \/ ShowWeather \/ PrintNothing

WeatherSpec == WeatherInit /\ [][WeatherNext]_weatherVars
-----------------------------------------------------------------------------
(* However the body is cut into portions, the buffer is as long as what has  *)
(* arrived and one terminator, and has it in order - as long as the memory   *)
(* that realloc adds is zero and the stray terminators do no harm; and the   *)
(* arrow that is printed is that of the nearest of the eight directions, for *)
(* every angle of the full circle.                                           *)
ShowsTheAnswer ==
  /\ wxBuf # <<>> /\ ~wxDirty => wxBuf = Append([i \in 1 .. wxSent |-> i], Nul)
  /\ wxEnd = "printed" /\ wxAngle \in 0 .. 359 =>
       \E turn \in {0, 360} : 2 * (wxAngle - 45 * (wxArrow - 1) - turn) \in -45 .. 45
=============================================================================
