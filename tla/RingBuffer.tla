----------------------------- MODULE RingBuffer -----------------------------
(***************************************************************************)
(* Cring_buffer (xbt/BT Test/ring_buffer.h, ring_buffer.cpp), the buffer   *)
(* between a socket and the code of a link.  Its pointers m_r and m_w are  *)
(* offsets from m_b here.  The actions are its operations under the        *)
(* conditions every caller obeys:                                          *)
(*   recv     reads into w(), then moves the write pointer;                *)
(*   write    of what fits cb_write() (bt_admin_link.cpp:119);             *)
(*   parsing and send use a part of r(), then move the read pointer;       *)
(*   combine  when the bytes wrap around (bt_peer_link.cpp:133).           *)
(* Memory holds the byte Fresh until it is written.                        *)
(***************************************************************************)
EXTENDS Integers, Sequences

CONSTANTS Byte, Fresh,
          Sizes   (* the capacities size() is called with; 0 frees the memory *)

ASSUME RingAssumption == Fresh \in Byte /\ Sizes \subseteq Nat

VARIABLES
  size,   (* size(); the memory has one byte more                   *)
  d,      (* m_d, from offset 0 (m_b) on                            *)
  r, w    (* m_r, m_w                                               *)

ring == <<size, d, r, w>>

-----------------------------------------------------------------------------
Least(a, b) == IF a < b THEN a ELSE b

\* m_e; without memory every pointer is NULL.
End == IF size = 0 THEN 0 ELSE size + 1

\* r_end(), cb_r() and cb_read() for pointers a and b in the place of m_r and m_w.
ReadEnd(a, b) == IF a <= b THEN b ELSE End
CbR(a, b)     == ReadEnd(a, b) - a
CbRead(a, b)  == IF a <= b THEN b - a ELSE End - a + b

\* The end of w(), cb_w() and cb_write().
WriteEnd == IF r <= w THEN (IF r = 0 THEN End - 1 ELSE End) ELSE r - 1
CbW      == IF size = 0 THEN 0 ELSE WriteEnd - w
CbWrite  == IF size = 0 THEN 0
            ELSE IF r <= w THEN End - w + r - 1 ELSE r - w - 1

\* A pointer moves on, around the end of the memory; cb_w(n) for the write pointer b.
Wrapped(a, n)  == IF a + n = End THEN 0 ELSE a + n
Advanced(b, n) == Wrapped(b, n)

\* cb_r(n): the read pointer moves on, and both start over when nothing is left.
Released(a, b, n) == IF Wrapped(a, n) = b THEN <<0, 0>> ELSE <<Wrapped(a, n), b>>

\* memcpy of the bytes s to offset a of memory m.
Copied(m, a, s) ==
  [i \in DOMAIN m |-> IF i >= a /\ i < a + Len(s) THEN s[i - a + 1] ELSE m[i]]

\* The n bytes from offset a on.
Bytes(a, n) == [i \in 1..n |-> d[a + i - 1]]

-----------------------------------------------------------------------------
Init == size = 0 /\ d = [i \in {0} |-> Fresh] /\ r = 0 /\ w = 0

Size(n) ==
  /\ size' = n
  /\ d' = [i \in 0..n |-> Fresh]
  /\ r' = 0 /\ w' = 0

\* A recv into w() got the bytes s.
Fill(s) ==
  /\ Len(s) \in 1..CbW
  /\ d' = Copied(d, w, s)
  /\ w' = Advanced(w, Len(s))
  /\ UNCHANGED <<size, r>>

\* write: what fits before the end of the memory, and the rest at its start.
Write(s) ==
  LET c  == Least(Len(s), CbW)
      m  == Copied(d, w, SubSeq(s, 1, c))
      w1 == Advanced(w, c)
      s1 == SubSeq(s, c + 1, Len(s))
  IN /\ Len(s) \in 1..CbWrite
     /\ d' = IF c < Len(s) THEN Copied(m, w1, s1) ELSE m
     /\ w' = IF c < Len(s) THEN Advanced(w1, Len(s) - c) ELSE w1
     /\ UNCHANGED <<size, r>>

\* The first n bytes of r() were used.
Consume(n) ==
  /\ n \in 1..CbR(r, w)
  /\ r' = Released(r, w, n)[1] /\ w' = Released(r, w, n)[2]
  /\ UNCHANGED <<size, d>>

\* The parts are copied within the memory, the second one first.
CombineInPlace ==
  LET c0 == CbR(r, w)
      p  == Released(r, w, c0)
      c1 == CbR(p[1], p[2])
      m  == Copied(d, c0, Bytes(p[1], c1))
  IN /\ CbR(r, w) # CbRead(r, w)
     /\ d' = Copied(m, 0, [i \in 1..c0 |-> m[r + i - 1]])
     /\ r' = 0 /\ w' = c0 + c1
     /\ UNCHANGED size

\* The two parts are copied out, and back to the start as one.
Combine ==
  LET c0 == CbR(r, w)
      p  == Released(r, w, c0)
      c1 == CbR(p[1], p[2])
  IN /\ CbR(r, w) # CbRead(r, w)
     /\ d' = Copied(d, 0, Bytes(r, c0) \o Bytes(p[1], c1))
     /\ r' = 0 /\ w' = c0 + c1
     /\ UNCHANGED size

Next ==
  \/ \E n \in Sizes : Size(n)
  \/ \E n \in 1..CbW : \E s \in [1..n -> Byte] : Fill(s)
  \/ \E n \in 1..CbWrite : \E s \in [1..n -> Byte] : Write(s)
  \/ \E n \in 1..CbR(r, w) : Consume(n)
  \/ Combine

Spec == Init /\ [][Next]_ring

-----------------------------------------------------------------------------
(***************************************************************************)
(* Properties                                                              *)
(***************************************************************************)
\* The pointers stay inside the memory, and start over together when the
\* buffer runs empty.
TypeOK ==
  /\ size \in Nat /\ d \in [0..size -> Byte]
  /\ r \in 0..size /\ w \in 0..size
  /\ r = w => r = 0

\* The bytes in the buffer, from m_r to m_w, around the end of the memory.
Contents ==
  [i \in 1..CbRead(r, w) |->
     d[IF r + i - 1 < ReadEnd(r, w) THEN r + i - 1 ELSE r + i - 1 - End]]

\* Cring_buffer is a bounded first-in first-out queue: a recv, a write, a use of
\* bytes or a combine at any place of the pointers loses, doubles or reorders
\* nothing, and what was released or overwritten never comes back.
Queue == INSTANCE ByteQueue WITH q <- Contents, room <- size
IsQueue == Queue!Spec

\* The contiguous views are empty only when the buffer is: pre_select of the links
\* polls a socket when cb_w() or cb_r() is not 0, and bt_peer_link.cpp:137 frees the
\* memory when cb_r() is 0, so bytes that wrap must not hide from them.
ViewsTellTheTruth ==
  /\ (CbW = 0) <=> (Len(Contents) = size)
  /\ (CbR(r, w) = 0) <=> (Contents = <<>>)
  /\ CbWrite = size - Len(Contents)
=============================================================================
