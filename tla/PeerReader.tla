----------------------------- MODULE PeerReader -----------------------------
(***************************************************************************)
(* How Cbt_peer_link reads messages (bt_peer_link.cpp: recv, and state 3   *)
(* of post_select): it fills its ring buffer from the socket as far as it  *)
(* can, then takes message after message out of the contiguous view,       *)
(* combining the view when the bytes wrap, and waits for more.             *)
(*                                                                         *)
(* A message is a header of Header bytes, whose last one stands for the    *)
(* length it encodes, and that many bytes.                                 *)
(***************************************************************************)
EXTENDS RingBuffer

CONSTANTS Header,    (* 4                                      *)
          MaxLength, (* 32 << 10: a longer message ends a link *)
          Capacity   (* 33 << 10                               *)

ASSUME ReaderAssumption ==
  /\ Header \in Nat \ {0} /\ MaxLength \in Nat /\ Capacity \in Nat
  /\ Byte \subseteq Nat
  /\ Header + MaxLength <= Capacity
  /\ {0, Capacity} \subseteq Sizes

VARIABLE phase   (* "recv" or "parse" *)

vars == <<ring, phase>>

-----------------------------------------------------------------------------
Length     == d[r + Header - 1]
HasHeader  == CbR(r, w) >= Header
TooLong    == HasHeader /\ Length > MaxLength
HasMessage == HasHeader /\ ~TooLong /\ CbR(r, w) >= Header + Length

ReaderInit == Init /\ phase = "recv"

\* recv() gets the memory when it needs it.
Allocate == phase = "recv" /\ size = 0 /\ Size(Capacity) /\ UNCHANGED phase

\* One turn of its loop, which runs while there is room.
Receive(s) == phase = "recv" /\ Fill(s) /\ UNCHANGED phase

\* Nothing more to receive, or no room left for it.
StartParsing == phase = "recv" /\ size # 0 /\ phase' = "parse" /\ UNCHANGED ring

ReadMessage == phase = "parse" /\ HasMessage /\ Consume(Header + Length) /\ UNCHANGED phase

CombineParts ==
  /\ phase = "parse" /\ ~HasMessage /\ ~TooLong
  /\ Combine
  /\ UNCHANGED phase

\* Parsing ends with the view.
WaitWithRest ==
  /\ phase = "parse" /\ ~HasMessage /\ ~TooLong
  /\ IF CbR(r, w) = 0 THEN Size(0) ELSE UNCHANGED ring
  /\ phase' = "recv"

\* The rest is one part, or nothing: then the memory is freed.
Wait ==
  /\ phase = "parse" /\ ~HasMessage /\ ~TooLong
  /\ CbR(r, w) = CbRead(r, w)
  /\ IF CbR(r, w) = 0 THEN Size(0) ELSE UNCHANGED ring
  /\ phase' = "recv"

\* Cbt_peer_link::close, when the socket fails, the header is too long or
\* read_message refuses what it got; the next link starts over.
Close == Size(0) /\ phase' = "recv"

ReaderNext ==
  \/ Allocate
  \/ \E n \in 1..CbW : \E s \in [1..n -> Byte] : Receive(s)
  \/ StartParsing \/ ReadMessage \/ CombineParts \/ Wait \/ Close

ReaderSpec == ReaderInit /\ [][ReaderNext]_vars

-----------------------------------------------------------------------------
(***************************************************************************)
(* Properties                                                              *)
(***************************************************************************)
ReaderTypeOK == TypeOK /\ phase \in {"recv", "parse"} /\ size \in {0, Capacity}

\* A link never waits for the socket with a full buffer (recv would not read any
\* more and the link would be dead, bt_peer_link.cpp:228): what parsing leaves is
\* room for at least one byte.
RoomAfterParsing ==
  [][phase = "parse" /\ phase' = "recv" => size' = 0 \/ CbW' > 0]_vars

\* It never waits with a whole message in the buffer either, wherever the bytes
\* wrap: the other side may send nothing until it is answered.
NoMessageIsLeft ==
  [][phase = "parse" /\ phase' = "recv" =>
       LET c == Contents' IN
         \/ Len(c) < Header
         \/ Len(c) < Header + c[Header]]_vars
=============================================================================
