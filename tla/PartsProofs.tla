----------------------------- MODULE PartsProofs -----------------------------
(***************************************************************************)
(* Proofs about the small parts with a state of their own.                 *)
(*                                                                         *)
(* RingBuffer and PeerReader, for every set of bytes and every capacity:   *)
(* the pointers are sound, the buffer is a queue, and a reader keeps room. *)
(* MerkleTree, for every number of chunks: what is taken is of the file.   *)
(* Scheduler, for all lists: the profile that is looked up is there.       *)
(* ClientView, for all torrents and dumps: rows and data match.            *)
(* Upload, for all links and quotas: the quota is divided evenly.          *)
(***************************************************************************)
EXTENDS PeerReader, MerkleTree, Scheduler, ClientView, Upload, SequenceTheorems, FiniteSetTheorems, WellFoundedInduction, TLAPS

-----------------------------------------------------------------------------
(* The ring buffer and the reader of messages.                             *)

\* A function on 1..n is a sequence of length n.
LEMMA FunIsSeq ==
  ASSUME NEW S, NEW n \in Nat, NEW f \in [1..n -> S]
  PROVE  f \in Seq(S) /\ Len(f) = n
  OBVIOUS

\* What a memcpy does to a memory it fits in.
LEMMA CopiedIs ==
  ASSUME NEW k \in Nat, NEW m \in [0..k -> Byte], NEW a \in Nat, NEW n \in Nat, NEW s,
         Len(s) = n, \A i \in 1..n : s[i] \in Byte
  PROVE  /\ Copied(m, a, s) \in [0..k -> Byte]
         /\ \A i \in 0..k : Copied(m, a, s)[i] =
              IF i >= a /\ i < a + n THEN s[i - a + 1] ELSE m[i]
<1>1. ASSUME NEW i \in 0..k, i >= a, i < a + n PROVE s[i - a + 1] \in Byte
  <2>1. i - a + 1 \in 1..n
    BY <1>1
  <2> QED
    BY <2>1
<1> QED
  BY <1>1 DEF Copied

\* The place of the i-th byte.
At(i) == IF r + i - 1 < ReadEnd(r, w) THEN r + i - 1 ELSE r + i - 1 - End

\* The bytes in the buffer and the room add up to the capacity; only bytes
\* that wrap leave the room in two parts.
LEMMA Views ==
  TypeOK =>
    /\ CbRead(r, w) \in 0..size /\ CbW \in 0..size
    /\ CbWrite = size - CbRead(r, w)
    /\ CbW <= CbWrite
    /\ CbW < CbWrite => r <= w /\ r > 0 /\ w + CbW = End /\ CbWrite - CbW = r - 1
    /\ CbR(r, w) \in 0..CbRead(r, w)
    /\ CbR(r, w) < CbRead(r, w) => r > w /\ r + CbR(r, w) = End /\ CbRead(r, w) - CbR(r, w) = w
    /\ (CbW = 0) <=> (CbRead(r, w) = size)
    /\ (CbR(r, w) = 0) <=> (CbRead(r, w) = 0)
  BY DEF TypeOK, CbRead, CbW, CbWrite, CbR, ReadEnd, WriteEnd, End

\* The bytes as a sequence.
LEMMA ContentsAre ==
  TypeOK =>
    /\ Contents \in Seq(Byte) /\ Len(Contents) = CbRead(r, w)
    /\ CbRead(r, w) \in 0..size
    /\ \A i \in 1..CbRead(r, w) : At(i) \in 0..size /\ Contents[i] = d[At(i)]
<1> SUFFICES ASSUME TypeOK
             PROVE  /\ Contents \in Seq(Byte) /\ Len(Contents) = CbRead(r, w)
                    /\ CbRead(r, w) \in 0..size
                    /\ \A i \in 1..CbRead(r, w) : At(i) \in 0..size /\ Contents[i] = d[At(i)]
  OBVIOUS
<1>1. \A i \in 1..CbRead(r, w) : At(i) \in 0..size
  BY DEF TypeOK, At, CbRead, ReadEnd, End
<1>2. Contents = [i \in 1..CbRead(r, w) |-> d[At(i)]]
  BY DEF Contents, At
<1>3. Contents \in [1..CbRead(r, w) -> Byte]
  BY <1>1, <1>2 DEF TypeOK
<1>4. CbRead(r, w) \in 0..size /\ CbRead(r, w) \in Nat
  BY Views DEF TypeOK
<1> QED
  BY <1>1, <1>2, <1>3, <1>4, FunIsSeq

\* The bytes s were put from m_w on, the rest of them at the start, short of m_r.
CameIn(n, s) ==
  /\ r' = r /\ size' = size /\ d' \in [0..size -> Byte]
  /\ w' \in 0..size /\ w' # r'
  /\ w' = IF w + n < End THEN w + n ELSE w + n - End
  /\ \A i \in 0..size :
       d'[i] = IF i >= w /\ i < w + n THEN s[i - w + 1]
               ELSE IF i < w + n - End THEN s[i + End - w + 1] ELSE d[i]

LEMMA FillEffect ==
  ASSUME TypeOK, NEW n \in 1..CbW, NEW s \in [1..n -> Byte], Fill(s)
  PROVE  CameIn(n, s)
<1>1. Len(s) = n /\ n \in Nat /\ size # 0 /\ End = size + 1
  BY FunIsSeq, Views DEF CbW, End
<1>2. w + n <= WriteEnd /\ n >= 1
  BY <1>1, Views DEF CbW, WriteEnd, TypeOK
<1>3. /\ d' \in [0..size -> Byte]
      /\ \A i \in 0..size : d'[i] = IF i >= w /\ i < w + n THEN s[i - w + 1] ELSE d[i]
  BY <1>1, CopiedIs DEF Fill, TypeOK
<1>4. /\ w' = (IF w + n < End THEN w + n ELSE w + n - End)
      /\ w' \in 0..size /\ w' # r' /\ w + n <= End
  BY <1>1, <1>2 DEF Fill, Advanced, Wrapped, WriteEnd, TypeOK
<1>5. \A i \in 0..size : ~(i < w + n - End)
  BY <1>1, <1>4 DEF TypeOK
<1> QED
  BY <1>3, <1>4, <1>5 DEF Fill, CameIn

LEMMA WriteEffect ==
  ASSUME TypeOK, NEW n \in 1..CbWrite, NEW s \in [1..n -> Byte], Write(s)
  PROVE  CameIn(n, s)
<1>1. Len(s) = n /\ s \in Seq(Byte) /\ n \in Nat
  BY FunIsSeq, Views
<1> DEFINE c  == Least(n, CbW)
           s0 == SubSeq(s, 1, c)
           s1 == SubSeq(s, c + 1, n)
           m  == Copied(d, w, s0)
<1>2. c \in 0..n /\ (c < n => c = CbW)
  BY Views, <1>1 DEF Least
<1>3. /\ Len(s0) = c /\ \A i \in 1..c : s0[i] = s[i]
      /\ Len(s1) = n - c /\ \A i \in 1..(n - c) : s1[i] = s[c + i]
  BY <1>1, <1>2
<1>4. /\ m \in [0..size -> Byte]
      /\ \A i \in 0..size : m[i] = IF i >= w /\ i < w + c THEN s[i - w + 1] ELSE d[i]
  <2>1. \A i \in 1..c : s0[i] \in Byte
    BY <1>1, <1>2, <1>3
  <2>2. /\ m \in [0..size -> Byte]
        /\ \A i \in 0..size : m[i] = IF i >= w /\ i < w + c THEN s0[i - w + 1] ELSE d[i]
    <3> HIDE DEF s0, c
    <3> QED
      BY <2>1, <1>2, <1>3, CopiedIs DEF TypeOK
  <2>3. \A i \in 0..size : i >= w /\ i < w + c => i - w + 1 \in 1..c
    BY <1>2 DEF TypeOK
  <2> HIDE DEF m, s0, c
  <2> QED
    BY <2>2, <2>3, <1>3
<1>5. size # 0 /\ End = size + 1
  BY DEF CbWrite, End
<1>6. CASE c = n
  <2>1. d' = m /\ w' = Advanced(w, n) /\ r' = r /\ size' = size
    BY <1>1, <1>6 DEF Write
  <2>2. w + n <= WriteEnd
    BY <1>1, <1>2, <1>5, <1>6, Views DEF CbW, WriteEnd, End, TypeOK, Least
  <2>3. w' = (IF w + n < End THEN w + n ELSE w + n - End) /\ w' \in 0..size /\ w' # r'
    BY <2>1, <2>2, <1>5, <1>1 DEF Advanced, Wrapped, WriteEnd, TypeOK
  <2>4. w + n <= End
    BY <2>2, <1>5 DEF WriteEnd, TypeOK
  <2>5. \A i \in 0..size : ~(i < w + n - End)
    BY <2>4, <1>1, <1>5 DEF TypeOK
  <2> HIDE DEF m
  <2> QED
    BY <2>1, <2>3, <2>5, <1>4, <1>6 DEF CameIn
<1>7. CASE c < n
  <2>1. r <= w /\ r > 0 /\ w + c = End /\ n - c <= r - 1
    BY <1>2, <1>7, <1>1, Views DEF TypeOK
  <2>2. Advanced(w, c) = 0
    BY <2>1 DEF Advanced, Wrapped
  <2>3. d' = Copied(m, 0, s1) /\ w' = Advanced(0, n - c) /\ r' = r /\ size' = size
    BY <1>1, <1>7, <2>2 DEF Write
  <2>4. /\ d' \in [0..size -> Byte]
        /\ \A i \in 0..size : d'[i] = IF i < n - c THEN s[c + i + 1] ELSE m[i]
    <3>1. \A i \in 1..(n - c) : s1[i] \in Byte
      <4> HIDE DEF c
      <4> QED
        BY <1>1, <1>2, <1>3
    <3>2. n - c \in Nat /\ 0 \in Nat
      BY <1>1, <1>2
    <3>3. /\ d' \in [0..size -> Byte]
          /\ \A i \in 0..size : d'[i] = IF i >= 0 /\ i < 0 + (n - c) THEN s1[i - 0 + 1] ELSE m[i]
      <4>1. size \in Nat /\ Len(s1) = n - c /\ d' = Copied(m, 0, s1)
        BY <2>3, <1>3 DEF TypeOK
      <4> HIDE DEF s1, m, c
      <4>2. m \in [0..size -> Byte]
        BY <1>4
      <4> DEFINE q == n - c
      <4>3. q \in Nat /\ Len(s1) = q /\ (\A i \in 1..q : s1[i] \in Byte) /\ 0 \in Nat
        BY <3>1, <3>2, <4>1
      <4>4. size \in Nat /\ d' = Copied(m, 0, s1)
        BY <4>1
      <4> HIDE DEF q
      <4>5. /\ Copied(m, 0, s1) \in [0..size -> Byte]
            /\ \A i \in 0..size : Copied(m, 0, s1)[i] = IF i >= 0 /\ i < 0 + q THEN s1[i - 0 + 1] ELSE m[i]
        BY <4>2, <4>3, <4>4, CopiedIs
      <4> QED
        BY <4>4, <4>5, Zenon DEF q
    <3>4. ASSUME NEW i \in 0..size, i < n - c PROVE s1[i + 1] = s[c + i + 1]
      <4> HIDE DEF s1, c
      <4>1. i + 1 \in 1..(n - c) /\ c + (i + 1) = c + i + 1
        BY <3>2, <3>4, <1>2 DEF TypeOK
      <4>2. s1[i + 1] = s[c + (i + 1)]
        BY <4>1, <1>3
      <4> QED
        BY <4>1, <4>2
    <3> HIDE DEF s1, m, c
    <3> QED
      BY <3>2, <3>3, <3>4
  <2>5. w' = n - c
    BY <2>1, <2>3, <1>1, <1>2, <1>5 DEF Advanced, Wrapped, TypeOK
  <2>6. w' = (IF w + n < End THEN w + n ELSE w + n - End) /\ w' \in 0..size /\ w' # r'
    BY <2>1, <2>3, <2>5, <1>1, <1>2, <1>5 DEF TypeOK
  <2>7. \A i \in 0..size :
          d'[i] = IF i >= w /\ i < w + n THEN s[i - w + 1]
                  ELSE IF i < w + n - End THEN s[i + End - w + 1] ELSE d[i]
    <3> HIDE DEF m, c
    <3> SUFFICES ASSUME NEW i \in 0..size
                 PROVE  d'[i] = IF i >= w /\ i < w + n THEN s[i - w + 1]
                                ELSE IF i < w + n - End THEN s[i + End - w + 1] ELSE d[i]
      OBVIOUS
    <3>1. c = End - w /\ c \in Nat /\ w \in Nat /\ End \in Nat /\ i \in Nat /\ i < End /\ n \in Nat
      BY <2>1, <1>1, <1>2, <1>5 DEF TypeOK
    <3>2. n - c < w
      BY <2>1, <3>1 DEF TypeOK
    <3>3. CASE i < n - c
      <4>1. c + i + 1 = i + End - w + 1 /\ i < w /\ i < w + n - End
        BY <3>1, <3>2, <3>3
      <4> QED
        BY <4>1, <2>4, <3>3, <3>1
    <3>4. CASE ~(i < n - c)
      <4>1. ~(i < w + n - End) /\ (i < w + n /\ i < w + c)
        BY <3>1, <3>2, <3>4, <1>7
      <4> QED
        BY <4>1, <2>4, <3>4, <1>4, <3>1
    <3> QED
      BY <3>3, <3>4
  <2> QED
    BY <2>3, <2>4, <2>6, <2>7 DEF CameIn
<1> QED
  BY <1>2, <1>6, <1>7

\* A combine puts the bytes, in their order, at the start of the memory.
LEMMA CombineEffect ==
  ASSUME TypeOK, Combine
  PROVE  /\ r' = 0 /\ size' = size /\ d' \in [0..size -> Byte]
         /\ w' = CbRead(r, w) /\ w' \in 0..size
         /\ \A i \in 1..CbRead(r, w) : d'[i - 1] = d[At(i)]
<1> DEFINE c0 == CbR(r, w)
           p  == Released(r, w, c0)
           c1 == CbR(p[1], p[2])
           s  == Bytes(r, c0) \o Bytes(p[1], c1)
<1>1. c0 \in Nat /\ r > w /\ r + c0 = End /\ CbRead(r, w) - c0 = w /\ c0 > 0 /\ w > 0
  BY Views DEF Combine, TypeOK
<1>2. p[1] = 0 /\ p[2] = w /\ c1 = w
  BY <1>1 DEF Released, Wrapped, CbR, ReadEnd, TypeOK
<1>3. /\ Bytes(r, c0) \in [1..c0 -> Byte] /\ \A i \in 1..c0 : Bytes(r, c0)[i] = d[r + i - 1]
      /\ Bytes(0, w) \in [1..w -> Byte] /\ \A i \in 1..w : Bytes(0, w)[i] = d[i - 1]
  BY <1>1 DEF Bytes, TypeOK, End
<1>4. /\ s \in Seq(Byte) /\ Len(s) = c0 + w
      /\ \A i \in 1..(c0 + w) : s[i] = IF i <= c0 THEN d[r + i - 1] ELSE d[i - c0 - 1]
  <2>1. /\ Bytes(r, c0) \in Seq(Byte) /\ Len(Bytes(r, c0)) = c0
        /\ Bytes(0, w) \in Seq(Byte) /\ Len(Bytes(0, w)) = w
    <3>1. w \in Nat
      BY DEF TypeOK
    <3> HIDE DEF c0
    <3> QED
      BY <3>1, <1>1, <1>3, FunIsSeq
  <2>2. s = Bytes(r, c0) \o Bytes(0, w)
    BY <1>2
  <2>3. /\ s \in Seq(Byte) /\ Len(s) = c0 + w
        /\ \A i \in 1..(c0 + w) : s[i] = IF i <= c0 THEN Bytes(r, c0)[i] ELSE Bytes(0, w)[i - c0]
    <3> HIDE DEF c0, s
    <3>1. /\ Bytes(r, c0) \o Bytes(0, w) \in Seq(Byte)
          /\ Len(Bytes(r, c0) \o Bytes(0, w)) = Len(Bytes(r, c0)) + Len(Bytes(0, w))
          /\ \A i \in 1..(Len(Bytes(r, c0)) + Len(Bytes(0, w))) :
               (Bytes(r, c0) \o Bytes(0, w))[i] =
                 IF i <= Len(Bytes(r, c0)) THEN Bytes(r, c0)[i]
                 ELSE Bytes(0, w)[i - Len(Bytes(r, c0))]
      BY <2>1, ConcatProperties
    <3> HIDE DEF Bytes
    <3> QED
      BY <2>1, <2>2, <3>1
  <2>4. \A i \in 1..(c0 + w) : i <= c0 \/ i - c0 \in 1..w
    <3> HIDE DEF c0
    <3> QED
      BY <1>1 DEF TypeOK
  <2>5. \A i \in 1..(c0 + w) : i <= c0 => i \in 1..c0
    <3> HIDE DEF c0
    <3> QED
      BY <1>1 DEF TypeOK
  <2> HIDE DEF c0, s
  <2> QED
    BY <2>3, <2>4, <2>5, <1>3
<1>5. r' = 0 /\ size' = size /\ w' = c0 + w /\ d' = Copied(d, 0, s)
  BY <1>2 DEF Combine
<1>6. w' = CbRead(r, w) /\ w' \in 0..size
  BY <1>1, <1>5, Views DEF TypeOK
<1>7. \A i \in 1..(c0 + w) : s[i] = d[At(i)]
  <2> HIDE DEF c0, s
  <2> QED
    BY <1>1, <1>4 DEF At, ReadEnd, End, TypeOK
<1>8. /\ d' \in [0..size -> Byte]
      /\ \A i \in 1..(c0 + w) : d'[i - 1] = s[i]
  <2>1. \A i \in 1..(c0 + w) : s[i] \in Byte
    <3> HIDE DEF c0, s
    <3> QED
      BY <1>4, ElementOfSeq
  <2>2. c0 + w \in Nat /\ 0 \in Nat /\ c0 + w <= size
    BY <1>1, <1>5, <1>6
  <2>3. /\ d' \in [0..size -> Byte]
        /\ \A i \in 0..size : d'[i] = IF i >= 0 /\ i < 0 + (c0 + w) THEN s[i - 0 + 1] ELSE d[i]
    <3> HIDE DEF c0, s
    <3> QED
      BY <2>1, <2>2, <1>4, <1>5, CopiedIs DEF TypeOK
  <2> HIDE DEF c0, s
  <2> QED
    BY <2>2, <2>3 DEF TypeOK
<1>9. CbRead(r, w) = c0 + w
  BY <1>5, <1>6
<1> HIDE DEF c0, s
<1> QED
  BY <1>5, <1>6, <1>7, <1>8, <1>9

\* A step keeps the pointers inside the memory.
LEMMA TypeStep == TypeOK /\ RingAssumption /\ Next => TypeOK'
<1> SUFFICES ASSUME TypeOK, RingAssumption, Next PROVE TypeOK'
  OBVIOUS
<1>1. CASE \E n \in Sizes : Size(n)
  BY <1>1 DEF TypeOK, Size, RingAssumption
<1>2. ASSUME NEW n \in 1..CbW, NEW s \in [1..n -> Byte], Fill(s) PROVE TypeOK'
  BY <1>2, FillEffect DEF CameIn, TypeOK
<1>3. ASSUME NEW n \in 1..CbWrite, NEW s \in [1..n -> Byte], Write(s) PROVE TypeOK'
  BY <1>3, WriteEffect DEF CameIn, TypeOK
<1>4. ASSUME NEW n \in 1..CbR(r, w), Consume(n) PROVE TypeOK'
  BY <1>4 DEF Consume, Released, Wrapped, CbR, ReadEnd, End, TypeOK
<1>5. CASE Combine
  <2>1. r' = 0 /\ size' = size /\ d' \in [0..size -> Byte] /\ w' \in 0..size
    BY <1>5, CombineEffect
  <2> QED
    BY <2>1 DEF TypeOK
<1> QED
  BY <1>1, <1>2, <1>3, <1>4, <1>5 DEF Next

\* Bytes that were put behind the others are what the queue holds then.
LEMMA Appended ==
  ASSUME NEW a \in Seq(Byte), NEW n \in Nat, NEW s \in [1..n -> Byte], NEW c \in Seq(Byte),
         Len(c) = Len(a) + n,
         \A i \in 1..(Len(a) + n) : c[i] = IF i <= Len(a) THEN a[i] ELSE s[i - Len(a)]
  PROVE  c = a \o s
<1>1. s \in Seq(Byte) /\ Len(s) = n
  BY FunIsSeq
<1>2. /\ a \o s \in Seq(Byte) /\ Len(a \o s) = Len(a) + Len(s)
      /\ \A i \in 1..(Len(a) + Len(s)) :
           (a \o s)[i] = IF i <= Len(a) THEN a[i] ELSE s[i - Len(a)]
  BY <1>1, ConcatProperties
<1> QED
  BY <1>1, <1>2, SeqEqual

\* What is left when the oldest bytes go.
LEMMA Shortened ==
  ASSUME NEW a \in Seq(Byte), NEW n \in 1..Len(a), NEW c \in Seq(Byte),
         Len(c) = Len(a) - n, \A i \in 1..(Len(a) - n) : c[i] = a[n + i]
  PROVE  c = SubSeq(a, n + 1, Len(a))
<1>1. Len(a) \in Nat
  BY LenProperties
<1>2. \A i \in (n + 1)..Len(a) : a[i] \in Byte
  BY <1>1, ElementOfSeq
<1>3. /\ SubSeq(a, n + 1, Len(a)) \in Seq(Byte)
      /\ Len(SubSeq(a, n + 1, Len(a))) = Len(a) - n
      /\ \A i \in 1..(Len(a) - n) : SubSeq(a, n + 1, Len(a))[i] = a[n + i]
  BY <1>1, <1>2
<1> QED
  BY <1>1, <1>3, SeqEqual

\* The refinement mapping: every operation is one of the queue's, a combine none.
LEMMA StepRefines ==
  ASSUME TypeOK, TypeOK', RingAssumption, Next
  PROVE  Queue!Next \/ UNCHANGED <<Contents, size>>
<1> DEFINE l == CbRead(r, w)
<1>1. /\ Contents \in Seq(Byte) /\ Len(Contents) = l /\ l \in 0..size
      /\ \A i \in 1..l : At(i) \in 0..size /\ Contents[i] = d[At(i)]
  BY ContentsAre, Views
<1>2. /\ Contents' \in Seq(Byte) /\ Len(Contents') = l' /\ l' \in 0..size'
      /\ \A i \in 1..l' : At(i)' \in 0..size' /\ Contents'[i] = d'[At(i)']
  <2>1. (TypeOK =>
           /\ Contents \in Seq(Byte) /\ Len(Contents) = CbRead(r, w)
           /\ CbRead(r, w) \in 0..size
           /\ \A i \in 1..CbRead(r, w) : At(i) \in 0..size /\ Contents[i] = d[At(i)])'
    BY ContentsAre, PTL
  <2> QED
    BY <2>1
<1>3. ASSUME NEW n \in Sizes, Size(n) PROVE Queue!Resize
  <2>1. Len(Contents') = 0
    BY <1>2, <1>3 DEF Size, CbRead
  <2>2. Contents' = <<>>
    BY <2>1, <1>2, EmptySeq
  <2> QED
    BY <2>2, <1>3 DEF Queue!Resize, Size
<1>4. ASSUME NEW n \in 1..CbWrite, NEW s \in [1..n -> Byte], CameIn(n, s) PROVE Queue!Put
  <2>1. /\ n \in Nat /\ l + n <= size /\ End = size + 1
        /\ r \in 0..size /\ w \in 0..size /\ (r = w => r = 0)
    BY Views DEF CbWrite, End, TypeOK
  <2>a. /\ r' = r /\ size' = size /\ End' = End /\ w' \in 0..size /\ w' # r
        /\ w' = IF w + n < End THEN w + n ELSE w + n - End
    BY <1>4 DEF CameIn, End
  <2>b. l = IF r <= w THEN w - r ELSE End - r + w
    BY DEF CbRead
  <2>c. l' = IF r <= w' THEN w' - r ELSE End - r + w'
    BY <2>a DEF CbRead
  <2>d. l \in Nat /\ n >= 1 /\ End \in Nat /\ r \in Nat /\ w \in Nat /\ size \in Nat
    BY <1>1, <2>1 DEF TypeOK
  <2>e. \A i \in 1..l : At(i) = IF r + i - 1 < End THEN r + i - 1 ELSE r + i - 1 - End
    BY <2>b, <2>1, <2>d DEF At, ReadEnd
  <2> HIDE DEF l
  <2>2. l' = l + n
    BY <2>1, <2>a, <2>b, <2>c, <2>d
  <2>f. \A i \in 1..l' : At(i)' = IF r + i - 1 < End THEN r + i - 1 ELSE r + i - 1 - End
    BY <2>a, <2>c, <2>1, <2>d DEF At, ReadEnd
  <2>3. ASSUME NEW i \in 1..l PROVE Contents'[i] = Contents[i]
    <3>1. i \in 1..l'
      BY <2>d, <2>2
    <3>2. At(i)' = At(i) /\ At(i) \in 0..size
      BY <1>1, <2>e, <2>f, <3>1
    <3>3. ~(At(i) >= w /\ At(i) < w + n) /\ ~(At(i) < w + n - End)
      BY <2>1, <2>b, <2>d, <2>e
    <3> QED
      BY <1>1, <1>2, <1>4, <3>1, <3>2, <3>3 DEF CameIn
  <2>4. ASSUME NEW i \in (l + 1)..(l + n) PROVE Contents'[i] = s[i - l]
    <3>1. i \in 1..l' /\ i - l \in 1..n /\ i \in Nat
      BY <2>d, <2>2
    <3> DEFINE j == w + (i - l - 1)
    <3>2. At(i)' = IF j < End THEN j ELSE j - End
      BY <2>1, <2>b, <2>d, <2>f, <3>1
    <3>3. At(i)' \in 0..size
      BY <1>2, <2>a, <3>1
    <3>4. d'[At(i)'] = s[i - l]
      <4>1. CASE j < End
        <5>1. j >= w /\ j < w + n /\ j - w + 1 = i - l
          BY <3>1, <2>d
        <5> QED
          BY <4>1, <5>1, <3>2, <3>3, <1>4 DEF CameIn
      <4>2. CASE ~(j < End)
        <5>1. ~(j - End >= w) /\ j - End < w + n - End /\ j - End + End - w + 1 = i - l
          BY <3>1, <2>d, <2>1, <2>b, <4>2
        <5> HIDE DEF j
        <5> QED
          BY <4>2, <5>1, <3>2, <3>3, <1>4 DEF CameIn
      <4> QED
        BY <4>1, <4>2
    <3> QED
      BY <1>2, <3>1, <3>4
  <2>5. Contents' = Contents \o s
    <3>1. /\ Len(Contents) = l /\ l \in Nat /\ Len(Contents') = l + n
          /\ Contents \in Seq(Byte) /\ Contents' \in Seq(Byte)
      BY <1>1, <1>2, <2>2, <2>1
    <3>2. \A i \in 1..(l + n) : Contents'[i] = IF i <= l THEN Contents[i] ELSE s[i - l]
      BY <2>1, <2>3, <2>4, <3>1
    <3> QED
      BY <2>1, <3>1, <3>2, Appended
  <2>6. n \in 1..(size - Len(Contents))
    BY <1>1, <2>1, <2>d
  <2> QED
    BY <1>4, <2>5, <2>6 DEF Queue!Put, CameIn
<1>5. ASSUME NEW n \in 1..CbR(r, w), Consume(n) PROVE Queue!Take
  <2>1. /\ n \in 1..l
        /\ r \in 0..size /\ w \in 0..size /\ (r = w => r = 0) /\ size \in Nat
    BY Views DEF TypeOK
  <2>2. size' = size /\ d' = d
    BY <1>5 DEF Consume
  <2>3. l' = l - n
    BY <1>5, <2>1 DEF Consume, Released, Wrapped, CbR, CbRead, ReadEnd, End
  <2>4. ASSUME NEW i \in 1..(l - n) PROVE Contents'[i] = Contents[n + i]
    <3>1. i \in 1..l' /\ n + i \in 1..l
      BY <1>1, <2>1, <2>3
    <3>2. At(i)' = At(n + i)
      BY <1>5, <2>1, <3>1 DEF Consume, Released, Wrapped, At, CbR, CbRead, ReadEnd, End
    <3> QED
      BY <1>1, <1>2, <2>2, <3>1, <3>2
  <2>5. Contents' = SubSeq(Contents, n + 1, Len(Contents))
    <3>1. /\ Len(Contents) = l /\ Len(Contents') = l - n /\ n \in 1..l
          /\ Contents \in Seq(Byte) /\ Contents' \in Seq(Byte)
      BY <1>1, <1>2, <2>1, <2>3
    <3> HIDE DEF l
    <3> QED
      BY <2>4, <3>1, Shortened
  <2> QED
    BY <1>1, <2>1, <2>2, <2>5 DEF Queue!Take
<1>6. ASSUME Combine PROVE UNCHANGED <<Contents, size>>
  <2>1. /\ r' = 0 /\ size' = size /\ w' = l /\ \A i \in 1..l : d'[i - 1] = d[At(i)]
    BY <1>6, CombineEffect
  <2>2. l' = l
    BY <2>1, <1>1 DEF CbRead
  <2>3. \A i \in 1..l : At(i)' = i - 1
    BY <2>1, <1>1 DEF At, ReadEnd
  <2>4. \A i \in 1..l : Contents'[i] = Contents[i]
    BY <1>1, <1>2, <2>1, <2>2, <2>3
  <2>5. Len(Contents') = Len(Contents)
    BY <1>1, <1>2, <2>2
  <2>6. Contents' = Contents
    <3> HIDE DEF l
    <3> QED
      BY <1>1, <1>2, <2>4, <2>5, SeqEqual
  <2> QED
    BY <2>1, <2>6
<1>7. ASSUME NEW n \in 1..CbW, NEW s \in [1..n -> Byte], Fill(s) PROVE Queue!Put
  <2>1. n \in 1..CbWrite
    BY Views DEF TypeOK
  <2> QED
    BY <1>4, <1>7, <2>1, FillEffect
<1>8. ASSUME NEW n \in 1..CbWrite, NEW s \in [1..n -> Byte], Write(s) PROVE Queue!Put
  BY <1>4, <1>8, WriteEffect
<1> QED
  BY <1>3, <1>5, <1>6, <1>7, <1>8 DEF Next, Queue!Next

-----------------------------------------------------------------------------
\* The pointers of a ring buffer stay inside its memory, whatever its capacity and
\* whatever its callers do under the conditions they obey.
THEOREM TypeCorrect == Spec => []TypeOK
<1>1. RingAssumption /\ Init => TypeOK
  BY DEF RingAssumption, Init, TypeOK
<1>2. RingAssumption /\ TypeOK /\ [Next]_ring => TypeOK'
  <2>1. RingAssumption /\ TypeOK /\ UNCHANGED ring => TypeOK'
    BY DEF ring, TypeOK
  <2> QED
    BY <2>1, TypeStep
<1> QED
  BY <1>1, <1>2, RingAssumption, PTL DEF Spec

\* The views of the code (cb_r, cb_w, cb_write) tell empty from full and from wrapped
\* for every capacity.
THEOREM ViewsAreTrue == Spec => []ViewsTellTheTruth
<1>1. TypeOK => ViewsTellTheTruth
  <2> SUFFICES ASSUME TypeOK PROVE ViewsTellTheTruth
    OBVIOUS
  <2>1. Len(Contents) = CbRead(r, w) /\ Contents \in Seq(Byte)
    BY ContentsAre
  <2>2. (Contents = <<>>) <=> (CbRead(r, w) = 0)
    BY <2>1, EmptySeq
  <2> QED
    BY <2>1, <2>2, Views DEF ViewsTellTheTruth
<1> QED
  BY <1>1, TypeCorrect, PTL

\* Cring_buffer implements the bounded queue ByteQueue: with the bytes from m_r to
\* m_w for its contents, every operation is one step of the queue or none.
THEOREM ImplementsQueue == Spec => IsQueue
<1>1. Init => Queue!Init
  <2>1. Init => Contents = <<>>
    BY DEF Init, Contents, CbRead
  <2> QED
    BY <2>1 DEF Init, Queue!Init
<1>2. RingAssumption /\ TypeOK /\ TypeOK' /\ [Next]_ring => [Queue!Next]_<<Contents, size>>
  <2>1. ASSUME UNCHANGED ring PROVE UNCHANGED <<Contents, size>>
    BY <2>1 DEF ring, Contents, CbRead, ReadEnd, End
  <2> QED
    BY <2>1, StepRefines
<1> QED
  BY <1>1, <1>2, RingAssumption, TypeCorrect, PTL DEF Spec, IsQueue, Queue!Spec

-----------------------------------------------------------------------------
(***************************************************************************)
(* The reader                                                              *)
(***************************************************************************)
\* Every step of the reader is one of the buffer's, or none.
LEMMA ReaderUsesRing ==
  ReaderAssumption /\ ReaderNext => Next \/ UNCHANGED ring
  BY DEF ReaderAssumption, ReaderNext, Allocate, Receive, StartParsing, ReadMessage,
         CombineParts, Wait, Close, Next, Consume

\* The reader keeps the buffer sound, freed or of its full capacity.
THEOREM ReaderTypeCorrect == ReaderSpec => []ReaderTypeOK
<1> USE RingAssumption, ReaderAssumption
<1>1. ReaderInit => ReaderTypeOK
  BY DEF ReaderInit, ReaderTypeOK, Init, TypeOK, RingAssumption
<1>2. ReaderTypeOK /\ [ReaderNext]_vars => ReaderTypeOK'
  <2> SUFFICES ASSUME ReaderTypeOK, [ReaderNext]_vars PROVE ReaderTypeOK'
    OBVIOUS
  <2>1. CASE UNCHANGED vars
    BY <2>1 DEF vars, ring, ReaderTypeOK, TypeOK
  <2>2. CASE ReaderNext
    <3>1. TypeOK'
      <4>1. CASE UNCHANGED ring
        BY <4>1 DEF ring, ReaderTypeOK, TypeOK
      <4> QED
        BY <4>1, <2>2, ReaderUsesRing, TypeStep DEF ReaderTypeOK
    <3>2. phase' \in {"recv", "parse"} /\ size' \in {0, Capacity}
      BY <2>2 DEF ReaderTypeOK, ReaderNext, Allocate, Receive, StartParsing, ReadMessage,
                  CombineParts, Wait, Close, ring, Size, Fill, Consume, Combine
    <3> QED
      BY <3>1, <3>2 DEF ReaderTypeOK
  <2> QED
    BY <2>1, <2>2
<1> QED
  BY <1>1, <1>2, PTL DEF ReaderSpec

\* What the loop leaves when it ends: nothing, or a part that is in one piece and
\* no whole message.
LEMMA EndOfParsing ==
  ASSUME ReaderAssumption, ReaderTypeOK, ReaderTypeOK', ReaderNext,
         phase = "parse", phase' = "recv"
  PROVE  \/ size' = 0
         \/ /\ UNCHANGED ring /\ CbR(r, w) = CbRead(r, w)
            /\ CbR(r, w) < Header \/ CbR(r, w) < Header + Length
            /\ CbR(r, w) >= Header => Length \in 0..MaxLength
<1>1. Wait \/ Close
  BY DEF ReaderNext, Allocate, Receive, StartParsing, ReadMessage, CombineParts
<1>2. CASE Close
  BY <1>2 DEF Close, Size
<1>3. CASE Wait /\ size' # 0
  <2>1. UNCHANGED ring /\ CbR(r, w) = CbRead(r, w) /\ ~HasMessage /\ ~TooLong
    BY <1>3 DEF Wait, Size
  <2>2. CbR(r, w) \in Nat /\ Header \in Nat /\ MaxLength \in Nat
    BY Views DEF ReaderTypeOK, TypeOK, ReaderAssumption
  <2>3. CbR(r, w) >= Header => Length \in Nat
    <3>1. CbR(r, w) >= Header => r + Header - 1 \in 0..size
      BY DEF ReaderTypeOK, TypeOK, CbR, ReadEnd, End, ReaderAssumption
    <3> QED
      BY <3>1 DEF Length, ReaderTypeOK, TypeOK, ReaderAssumption
  <2> QED
    BY <2>1, <2>2, <2>3 DEF HasMessage, TooLong, HasHeader
<1> QED
  BY <1>1, <1>2, <1>3

\* With a buffer for the longest message and its header (33 << 10 bytes for 4 and
\* 32 << 10), a link never waits for the socket with a full buffer.
THEOREM ReaderKeepsRoom == ReaderSpec => RoomAfterParsing
<1>1. ReaderAssumption /\ ReaderTypeOK /\ ReaderTypeOK' /\ [ReaderNext]_vars
        => [phase = "parse" /\ phase' = "recv" => size' = 0 \/ CbW' > 0]_vars
  <2> SUFFICES ASSUME ReaderAssumption, ReaderTypeOK, ReaderTypeOK', ReaderNext,
                      phase = "parse", phase' = "recv", size' # 0
               PROVE  CbW' > 0
    BY DEF vars
  <2>1. /\ UNCHANGED ring /\ CbR(r, w) = CbRead(r, w)
        /\ CbR(r, w) < Header \/ CbR(r, w) < Header + Length
        /\ CbR(r, w) >= Header => Length \in 0..MaxLength
    BY EndOfParsing
  <2>2. size = Capacity /\ Capacity >= Header + MaxLength /\ Capacity \in Nat
        /\ Header \in Nat /\ MaxLength \in Nat
    BY <2>1 DEF ReaderTypeOK, ReaderAssumption, ring
  <2>3. CbRead(r, w) # size /\ CbW \in Nat
    BY <2>1, <2>2, Views DEF ReaderTypeOK, TypeOK
  <2>4. CbW > 0
    BY <2>3, Views DEF ReaderTypeOK
  <2>5. CbW' = CbW
    BY <2>1 DEF ring, CbW, WriteEnd, End
  <2> QED
    BY <2>4, <2>5
<1> QED
  BY <1>1, ReaderAssumption, ReaderTypeCorrect, PTL DEF ReaderSpec, RoomAfterParsing

\* Nor does it wait with a whole message in the buffer, wherever the bytes wrapped.
THEOREM ReaderLeavesNoMessage == ReaderSpec => NoMessageIsLeft
<1> DEFINE Partial == \/ Len(Contents) < Header
                      \/ Len(Contents) < Header + Contents[Header]
<1>1. ReaderAssumption /\ ReaderTypeOK /\ ReaderTypeOK' /\ [ReaderNext]_vars
        => [phase = "parse" /\ phase' = "recv" => Partial']_vars
  <2> SUFFICES ASSUME ReaderAssumption, ReaderTypeOK, ReaderTypeOK', ReaderNext,
                      phase = "parse", phase' = "recv"
               PROVE  Partial'
    BY DEF vars
  <2>1. CASE size' = 0
    <3>1. Len(Contents)' = 0
      <4>1. (TypeOK => /\ Contents \in Seq(Byte) /\ Len(Contents) = CbRead(r, w)
                       /\ CbRead(r, w) \in 0..size
                       /\ \A i \in 1..CbRead(r, w) : At(i) \in 0..size /\ Contents[i] = d[At(i)])'
        BY ContentsAre, PTL
      <4> QED
        BY <4>1, <2>1 DEF ReaderTypeOK
    <3> QED
      BY <3>1 DEF ReaderAssumption
  <2>2. CASE size' # 0
    <3>1. /\ UNCHANGED ring /\ CbR(r, w) = CbRead(r, w)
          /\ CbR(r, w) < Header \/ CbR(r, w) < Header + Length
      BY <2>2, EndOfParsing
    <3>2. Contents' = Contents
      BY <3>1 DEF ring, Contents, CbRead, ReadEnd, End
    <3>3. /\ Len(Contents) = CbRead(r, w) /\ CbRead(r, w) \in Nat /\ Header \in Nat \ {0}
          /\ \A i \in 1..CbRead(r, w) : Contents[i] = d[At(i)]
      BY ContentsAre DEF ReaderTypeOK, TypeOK, ReaderAssumption
    <3>4. CASE CbRead(r, w) < Header
      BY <3>2, <3>3, <3>4
    <3>5. CASE ~(CbRead(r, w) < Header)
      <4>1. Header \in 1..CbRead(r, w)
        BY <3>3, <3>5
      <4>2. At(Header) = r + Header - 1
        BY <3>1, <4>1 DEF At, CbR, CbRead, ReadEnd, End, ReaderTypeOK, TypeOK
      <4>3. Contents[Header] = Length
        BY <3>3, <4>1, <4>2 DEF Length
      <4> QED
        BY <3>1, <3>2, <3>3, <3>5, <4>3
    <3> QED
      BY <3>4, <3>5
  <2> QED
    BY <2>1, <2>2
<1>2. ([phase = "parse" /\ phase' = "recv" => Partial']_vars)
        => [phase = "parse" /\ phase' = "recv" =>
              LET c == Contents' IN
                \/ Len(c) < Header
                \/ Len(c) < Header + c[Header]]_vars
  OBVIOUS
<1> QED
  BY <1>1, <1>2, ReaderAssumption, ReaderTypeCorrect, PTL DEF ReaderSpec, NoMessageIsLeft

-----------------------------------------------------------------------------
(* Induction and recursion, as facts about sets and functions.             *)

\* A set of numbers that is not empty has a least one.
LEMMA LeastNumber ==
  ASSUME NEW T \in SUBSET Nat, T # {}
  PROVE  \E x \in T : \A y \in T : x <= y
<1> DEFINE R == {ss \in Nat \X Nat : ss[1] < ss[2]}
<1>1. IsWellFoundedOn(R, Nat)
  BY NatLessThanWellFounded DEF OpToRel
<1>2. \A x, y \in Nat : <<y, x>> \notin R => x <= y
  OBVIOUS
<1> HIDE DEF R
<1>3. PICK x \in T : \A y \in T : <<y, x>> \notin R
  BY <1>1, WFMin
<1> QED
  BY <1>2, <1>3

LEMMA SetInduction ==
  ASSUME NEW S, 0 \in S, \A n \in Nat : n \in S => n + 1 \in S
  PROVE  Nat \subseteq S
<1> DEFINE T == {n \in Nat : n \notin S}
<1> SUFFICES ASSUME T # {} PROVE FALSE
  OBVIOUS
<1>1. PICK x \in T : \A y \in T : x <= y
  BY LeastNumber
<1>2. x \in Nat /\ x \notin S /\ x # 0
  BY <1>1
<1>3. x - 1 \in Nat /\ (x - 1) + 1 = x /\ ~(x <= x - 1)
  BY <1>2
<1>4. x - 1 \in S
  BY <1>1, <1>3
<1> QED
  BY <1>2, <1>3, <1>4

\* Two sequences that begin alike and go on alike are the same.
LEMMA SameSequence ==
  ASSUME NEW f, NEW g, NEW n \in Nat, f[0] = g[0],
         \A k \in Nat : k < n /\ f[k] = g[k] => f[k + 1] = g[k + 1]
  PROVE  \A k \in 0..n : f[k] = g[k]
<1> DEFINE K == {k \in Nat : k <= n => f[k] = g[k]}
<1>1. Nat \subseteq K
  <2>1. 0 \in K
    OBVIOUS
  <2>2. ASSUME NEW k \in Nat, k \in K PROVE k + 1 \in K
    BY <2>2
  <2> HIDE DEF K
  <2> QED
    BY <2>1, <2>2, SetInduction
<1> QED
  BY <1>1

\* A function may be defined by what it is at the number before.
LEMMA Recursion ==
  ASSUME NEW S, NEW a \in S, NEW g \in [Nat -> [S -> S]]
  PROVE  \E f \in [Nat -> S] : f = [k \in Nat |-> IF k = 0 THEN a ELSE g[k - 1][f[k - 1]]]
<1> DEFINE Good(n, f) == f[0] = a /\ \A k \in Nat : k < n => f[k + 1] = g[k][f[k]]
           N == {n \in Nat : \E f \in [Nat -> S] : Good(n, f)}
<1>1. 0 \in N
  <2>1. [k \in Nat |-> a] \in [Nat -> S] /\ Good(0, [k \in Nat |-> a])
    OBVIOUS
  <2> QED
    BY <2>1
<1>2. ASSUME NEW n \in Nat, n \in N PROVE n + 1 \in N
  <2>1. PICK f \in [Nat -> S] : Good(n, f)
    BY <1>2
  <2> DEFINE h == [f EXCEPT ![n + 1] = g[n][f[n]]]
  <2>2. h \in [Nat -> S] /\ h[n + 1] = g[n][f[n]] /\ \A k \in Nat : k # n + 1 => h[k] = f[k]
    OBVIOUS
  <2> HIDE DEF h
  <2>3. ASSUME NEW k \in Nat, k < n + 1 PROVE h[k + 1] = g[k][h[k]]
    <3>1. CASE k = n
      BY <2>2, <3>1
    <3>2. CASE k # n
      BY <2>1, <2>2, <2>3, <3>2
    <3> QED
      BY <3>1, <3>2
  <2>4. h[0] = a
    BY <2>1, <2>2
  <2> QED
    BY <2>2, <2>3, <2>4
<1>3. \A n \in Nat : \E f \in [Nat -> S] : Good(n, f)
  <2>1. Nat \subseteq N
    <3> HIDE DEF N
    <3> QED
      BY <1>1, <1>2, SetInduction
  <2> QED
    BY <2>1
<1> DEFINE F(n) == CHOOSE f \in [Nat -> S] : Good(n, f)
           h == [n \in Nat |-> F(n)[n]]
<1>4. \A n \in Nat : F(n) \in [Nat -> S] /\ Good(n, F(n))
  BY <1>3
<1> HIDE DEF F
<1>5. h \in [Nat -> S] /\ h[0] = a
  BY <1>4
<1>6. ASSUME NEW n \in Nat PROVE h[n + 1] = g[n][h[n]]
  <2>1. \A k \in 0..n : F(n)[k] = F(n + 1)[k]
    <3> DEFINE u == F(n)
               v == F(n + 1)
    <3>1. u \in [Nat -> S] /\ v \in [Nat -> S] /\ Good(n, u) /\ Good(n + 1, v)
      BY <1>4
    <3> HIDE DEF u, v
    <3>2. ASSUME NEW k \in Nat, k < n, u[k] = v[k] PROVE u[k + 1] = v[k + 1]
      <4>1. k < n + 1
        BY <3>2
      <4>2. u[k + 1] = g[k][u[k]] /\ v[k + 1] = g[k][v[k]]
        BY <3>1, <3>2, <4>1
      <4> QED
        BY <3>2, <4>2, Zenon
    <3>3. u[0] = v[0]
      BY <3>1
    <3>4. \A k \in 0..n : u[k] = v[k]
      <4> HIDE DEF Good
      <4> QED
        BY <3>2, <3>3, SameSequence
    <3> QED
      BY <3>4 DEF u, v
  <2>2. F(n + 1)[n + 1] = g[n][F(n + 1)[n]]
    BY <1>4
  <2> QED
    BY <2>1, <2>2
<1> HIDE DEF h
<1>7. h = [k \in Nat |-> IF k = 0 THEN a ELSE g[k - 1][h[k - 1]]]
  <2>1. ASSUME NEW k \in Nat PROVE h[k] = IF k = 0 THEN a ELSE g[k - 1][h[k - 1]]
    <3>1. CASE k = 0
      BY <1>5, <3>1
    <3>2. CASE k # 0
      <4>1. k - 1 \in Nat /\ (k - 1) + 1 = k
        BY <3>2
      <4> QED
        BY <1>6, <3>2, <4>1
    <3> QED
      BY <3>1, <3>2
  <2> QED
    BY <1>5, <2>1
<1> QED
  BY <1>5, <1>7

\* The same, in a form that any set can be put in.
Steps(f, a, g) == f = [k \in Nat |-> IF k = 0 THEN a ELSE g[k - 1][f[k - 1]]]

LEMMA RecursionIn ==
  ASSUME NEW S, NEW a, NEW g, a \in S, g \in [Nat -> [S -> S]]
  PROVE  \E f : f \in [Nat -> S] /\ Steps(f, a, g)
BY Recursion DEF Steps

\* There is a set that has given elements and every pair of its elements.
LEMMA PairsOf ==
  ASSUME NEW B
  PROVE  \E S : B \subseteq S /\ \A x, y \in S : <<x, y>> \in S
<1> DEFINE Closer(X) == X \cup (X \X X)
           Good(n, f) == f[0] = B /\ \A k \in Nat : k < n => f[k + 1] = Closer(f[k])
           N == {n \in Nat : \E f : Good(n, f)}
<1>1. 0 \in N
  <2>1. Good(0, [k \in Nat |-> B])
    OBVIOUS
  <2> QED
    BY <2>1
<1>2. ASSUME NEW n \in Nat, n \in N PROVE n + 1 \in N
  <2>1. PICK f : Good(n, f)
    BY <1>2
  <2> DEFINE h == [k \in Nat |-> IF k = n + 1 THEN Closer(f[n]) ELSE f[k]]
  <2>2. h[n + 1] = Closer(f[n]) /\ \A k \in Nat : k # n + 1 => h[k] = f[k]
    OBVIOUS
  <2> HIDE DEF h
  <2>3. ASSUME NEW k \in Nat, k < n + 1 PROVE h[k + 1] = Closer(h[k])
    <3>1. CASE k = n
      BY <2>2, <3>1
    <3>2. CASE k # n
      BY <2>1, <2>2, <2>3, <3>2
    <3> QED
      BY <3>1, <3>2
  <2>4. h[0] = B
    BY <2>1, <2>2
  <2> QED
    BY <2>3, <2>4
<1>3. \A n \in Nat : \E f : Good(n, f)
  <2>1. Nat \subseteq N
    <3> HIDE DEF N
    <3> QED
      BY <1>1, <1>2, SetInduction
  <2> QED
    BY <2>1
<1> DEFINE F(n) == CHOOSE f : Good(n, f)
           h == [n \in Nat |-> F(n)[n]]
<1>4. \A n \in Nat : Good(n, F(n))
  BY <1>3
<1> HIDE DEF F
<1>5. h[0] = B
  BY <1>4
<1>6. ASSUME NEW n \in Nat PROVE h[n + 1] = Closer(h[n])
  <2>1. \A k \in 0..n : F(n)[k] = F(n + 1)[k]
    <3> DEFINE u == F(n)
               v == F(n + 1)
    <3>1. Good(n, u) /\ Good(n + 1, v)
      BY <1>4
    <3> HIDE DEF u, v, Closer
    <3>2. ASSUME NEW k \in Nat, k < n, u[k] = v[k] PROVE u[k + 1] = v[k + 1]
      <4>1. k < n + 1
        BY <3>2
      <4>2. u[k + 1] = Closer(u[k]) /\ v[k + 1] = Closer(v[k])
        BY <3>1, <3>2, <4>1
      <4> QED
        BY <3>2, <4>2, Zenon
    <3>3. u[0] = v[0]
      BY <3>1
    <3>4. \A k \in 0..n : u[k] = v[k]
      <4> HIDE DEF Good
      <4> QED
        BY <3>2, <3>3, SameSequence
    <3> QED
      BY <3>4 DEF u, v
  <2>2. F(n + 1)[n + 1] = Closer(F(n + 1)[n])
    BY <1>4
  <2> QED
    BY <2>1, <2>2
<1> DEFINE S == UNION {h[n] : n \in Nat}
<1>7. \A n \in Nat : h[n] \subseteq h[n + 1] /\ \A x, y \in h[n] : <<x, y>> \in h[n + 1]
  BY <1>6
<1> HIDE DEF h
<1>8. \A n, m \in Nat : n <= m => h[n] \subseteq h[m]
  <2> SUFFICES ASSUME NEW n \in Nat PROVE \A m \in Nat : n <= m => h[n] \subseteq h[m]
    OBVIOUS
  <2> DEFINE M == {m \in Nat : n <= m => h[n] \subseteq h[m]}
  <2>1. 0 \in M
    OBVIOUS
  <2>2. ASSUME NEW m \in Nat, m \in M PROVE m + 1 \in M
    <3>1. CASE n <= m
      BY <1>7, <2>2, <3>1
    <3>2. CASE ~(n <= m)
      <4>1. n <= m + 1 => n = m + 1
        BY <3>2
      <4> QED
        BY <4>1
    <3> QED
      BY <3>1, <3>2
  <2>3. Nat \subseteq M
    <3> HIDE DEF M
    <3> QED
      BY <2>1, <2>2, SetInduction
  <2> QED
    BY <2>3
<1>9. ASSUME NEW x \in S, NEW y \in S PROVE <<x, y>> \in S
  <2>1. PICK n \in Nat, m \in Nat : x \in h[n] /\ y \in h[m]
    OBVIOUS
  <2>2. PICK q \in Nat : n <= q /\ m <= q
    <3>1. CASE n <= m
      BY <3>1
    <3>2. CASE ~(n <= m)
      BY <3>2
    <3> QED
      BY <3>1, <3>2
  <2>3. x \in h[q] /\ y \in h[q]
    BY <1>8, <2>1, <2>2
  <2>4. <<x, y>> \in h[q + 1] /\ q + 1 \in Nat
    BY <1>7, <2>3
  <2> QED
    BY <2>4
<1>10. B \subseteq S
  BY <1>5
<1> HIDE DEF S
<1> QED
  BY <1>9, <1>10

-----------------------------------------------------------------------------
(* The hash tree: its shape.                                               *)

LEMMA Halves ==
  ASSUME NEW n \in Nat
  PROVE  /\ n \div 2 \in Nat /\ n % 2 \in {0, 1} /\ n = 2 * (n \div 2) + (n % 2)
         /\ (n > 0 => n \div 2 < n)
  OBVIOUS

LEMMA AboveIs ==
  ASSUME NEW i \in Nat
  PROVE  Above(i) \in [Nat -> Nat] /\ Above(i)[0] = i /\ \A k \in Nat : Above(i)[k + 1] = Above(i)[k] \div 2
<1> DEFINE g == [k \in Nat |-> [x \in Nat |-> x \div 2]]
           S == Nat
<1>1. g \in [Nat -> [S -> S]]
  BY Halves
<1>2. PICK f \in [Nat -> S] : f = [k \in Nat |-> IF k = 0 THEN i ELSE g[k - 1][f[k - 1]]]
  <2> HIDE DEF g, S
  <2>1. ASSUME NEW a, a \in S
        PROVE  \E f \in [Nat -> S] : f = [k \in Nat |-> IF k = 0 THEN a ELSE g[k - 1][f[k - 1]]]
    BY <1>1, <2>1, Recursion
  <2> QED
    BY <2>1, Zenon DEF S
<1>3. f = [k \in Nat |-> IF k = 0 THEN i ELSE f[k - 1] \div 2]
  <2>1. ASSUME NEW k \in Nat PROVE (IF k = 0 THEN i ELSE g[k - 1][f[k - 1]]) = IF k = 0 THEN i ELSE f[k - 1] \div 2
    OBVIOUS
  <2> HIDE DEF g
  <2> QED
    BY <1>2, <2>1
<1> DEFINE at == CHOOSE a : a = [k \in Nat |-> IF k = 0 THEN i ELSE a[k - 1] \div 2]
<1>4. at = [k \in Nat |-> IF k = 0 THEN i ELSE at[k - 1] \div 2]
  BY <1>3, Zenon
<1>5. Above(i) = at
  BY Zenon DEF Above
<1> HIDE DEF at
<1>6. at[0] = i /\ \A k \in Nat : at[k + 1] = at[k] \div 2
  BY <1>4
<1>7. \A k \in Nat : at[k] \in Nat
  <2> DEFINE K == {k \in Nat : at[k] \in Nat}
  <2>1. 0 \in K /\ \A k \in Nat : k \in K => k + 1 \in K
    BY <1>6, Halves
  <2> HIDE DEF K
  <2>2. Nat \subseteq K
    BY <2>1, SetInduction
  <2> QED
    BY <2>2 DEF K
<1>8. at \in [Nat -> Nat]
  BY <1>4, <1>7
<1> QED
  BY <1>5, <1>6, <1>8

LEMMA WidthIs ==
  Width \in [Nat -> Nat \ {0}] /\ Width[0] = Chunks /\ \A k \in Nat : Width[k + 1] = (Width[k] + 1) \div 2
<1> DEFINE g == [k \in Nat |-> [x \in Nat |-> (x + 1) \div 2]]
           S == Nat
<1>1. g \in [Nat -> [S -> S]] /\ Chunks \in S
  BY TreeAssumption
<1>2. PICK f \in [Nat -> S] : f = [k \in Nat |-> IF k = 0 THEN Chunks ELSE g[k - 1][f[k - 1]]]
  <2> HIDE DEF g, S
  <2> QED
    BY <1>1, Recursion
<1>3. f = [k \in Nat |-> IF k = 0 THEN Chunks ELSE (f[k - 1] + 1) \div 2]
  <2>1. ASSUME NEW k \in Nat
        PROVE  (IF k = 0 THEN Chunks ELSE g[k - 1][f[k - 1]]) = IF k = 0 THEN Chunks ELSE (f[k - 1] + 1) \div 2
    OBVIOUS
  <2> HIDE DEF g
  <2> QED
    BY <1>2, <2>1
<1>4. Width = [k \in Nat |-> IF k = 0 THEN Chunks ELSE (Width[k - 1] + 1) \div 2]
  BY <1>3, Zenon DEF Width
<1>5. Width[0] = Chunks /\ \A k \in Nat : Width[k + 1] = (Width[k] + 1) \div 2
  BY <1>4
<1>6. \A k \in Nat : Width[k] \in Nat \ {0}
  <2> DEFINE K == {k \in Nat : Width[k] \in Nat \ {0}}
  <2>1. 0 \in K
    BY <1>5, TreeAssumption
  <2>3. ASSUME NEW n \in Nat, n > 0 PROVE (n + 1) \div 2 \in Nat \ {0}
    BY <2>3
  <2>4. ASSUME NEW k \in Nat, k \in K PROVE k + 1 \in K
    <3>1. Width[k] \in Nat /\ Width[k] > 0
      BY <2>4
    <3> QED
      BY <1>5, <2>3, <3>1
  <2> HIDE DEF K
  <2>2. Nat \subseteq K
    BY <2>1, <2>4, SetInduction
  <2> QED
    BY <2>2 DEF K
<1> QED
  BY <1>4, <1>5, <1>6

\* The levels narrow down to the root, of which there is one, in Depth steps.
LEMMA DepthIs ==
  /\ Depth \in 0..Chunks /\ Width[Depth] = 1 /\ \A k \in 0..(Depth - 1) : Width[k] > 1
  /\ \A k \in Nat : k >= Depth => Width[k] = 1
  /\ \A k \in Nat : k + 1 = Depth => Width[k] = 2
<1>1. \A k \in Nat : Width[k] = 1 \/ Width[k] + k <= Chunks
  <2> DEFINE K == {k \in Nat : Width[k] = 1 \/ Width[k] + k <= Chunks}
  <2>1. 0 \in K
    BY WidthIs, TreeAssumption
  <2>2. ASSUME NEW k \in Nat, k \in K PROVE k + 1 \in K
    <3>1. Width[k] \in Nat \ {0} /\ Width[k + 1] = (Width[k] + 1) \div 2
      BY WidthIs
    <3> QED
      BY <2>2, <3>1, TreeAssumption
  <2> HIDE DEF K
  <2>3. Nat \subseteq K
    BY <2>1, <2>2, SetInduction
  <2> QED
    BY <2>3 DEF K
<1> DEFINE T == {k \in Nat : Width[k] = 1}
<1>2. Chunks \in T
  BY <1>1, WidthIs, TreeAssumption
<1>3. PICK dd \in T : \A k \in T : dd <= k
  BY <1>2, LeastNumber
<1>4. dd \in 0..Chunks /\ Width[dd] = 1 /\ \A j \in 0..(dd - 1) : Width[j] > 1
  <2>1. dd \in Nat /\ dd <= Chunks /\ Width[dd] = 1
    BY <1>2, <1>3
  <2>2. ASSUME NEW j \in 0..(dd - 1) PROVE Width[j] > 1
    <3>1. j \in Nat /\ ~(dd <= j)
      BY <2>1
    <3>2. j \notin T /\ Width[j] \in Nat \ {0}
      BY <1>3, <3>1, WidthIs
    <3> QED
      BY <3>1, <3>2
  <2> QED
    BY <2>1, <2>2, TreeAssumption
<1>5. Depth \in 0..Chunks /\ Width[Depth] = 1 /\ \A k \in 0..(Depth - 1) : Width[k] > 1
  BY <1>4, Zenon DEF Depth
<1>6. Depth \in Nat
  BY <1>5, TreeAssumption
<1>7. \A k \in Nat : k >= Depth => Width[k] = 1
  <2> DEFINE K == {k \in Nat : k >= Depth => Width[k] = 1}
  <2>1. 0 \in K
    BY <1>5, <1>6
  <2>2. ASSUME NEW k \in Nat, k \in K PROVE k + 1 \in K
    <3>1. CASE k + 1 = Depth
      BY <1>5, <3>1
    <3>2. CASE k + 1 # Depth
      <4>1. k + 1 >= Depth => k >= Depth
        BY <1>6, <3>2
      <4>2. Width[k + 1] = (Width[k] + 1) \div 2
        BY WidthIs
      <4> QED
        BY <2>2, <4>1, <4>2
    <3> QED
      BY <3>1, <3>2
  <2> HIDE DEF K
  <2>3. Nat \subseteq K
    BY <2>1, <2>2, SetInduction
  <2> QED
    BY <2>3 DEF K
<1>8. ASSUME NEW k \in Nat, k + 1 = Depth PROVE Width[k] = 2
  <2>1. Width[k] \in Nat /\ Width[k + 1] = (Width[k] + 1) \div 2
    BY WidthIs
  <2>2. k \in 0..(Depth - 1)
    BY <1>6, <1>8
  <2>3. Width[k] > 1 /\ Width[k + 1] = 1
    BY <1>5, <1>8, <2>2
  <2> QED
    BY <2>1, <2>3
<1> QED
  BY <1>5, <1>7, <1>8

\* The nodes above a chunk are in the tree, the root the last of them.
LEMMA AboveInPlace ==
  ASSUME NEW i \in Chunk
  PROVE  /\ i \in Nat /\ Above(i) \in [Nat -> Nat]
         /\ \A k \in Nat : Above(i)[k] \in Place(k) /\ Above(i)[k] < Width[k] /\ Above(i)[k] \in Nat
         /\ \A k \in Nat : k >= Depth => Above(i)[k] = 0
<1>1. i \in Nat /\ i < Chunks
  BY TreeAssumption DEF Chunk
<1>2. \A k \in Nat : Above(i)[k] < Width[k]
  <2> DEFINE K == {k \in Nat : Above(i)[k] < Width[k]}
  <2>1. 0 \in K
    BY <1>1, AboveIs, WidthIs
  <2>2. ASSUME NEW k \in Nat, k \in K PROVE k + 1 \in K
    <3>1. Width[k] \in Nat \ {0} /\ Width[k + 1] = (Width[k] + 1) \div 2
      BY WidthIs
    <3>2. Above(i)[k] \in Nat /\ Above(i)[k + 1] = Above(i)[k] \div 2
      BY <1>1, AboveIs
    <3> QED
      BY <2>2, <3>1, <3>2
  <2> HIDE DEF K
  <2>3. Nat \subseteq K
    BY <2>1, <2>2, SetInduction
  <2> QED
    BY <2>3 DEF K
<1>3. \A k \in Nat : Above(i)[k] \in Nat /\ Width[k] \in Nat
  BY <1>1, AboveIs, WidthIs
<1>4. \A k \in Nat : Above(i)[k] \in Place(k)
  BY <1>2, <1>3 DEF Place
<1>5. \A k \in Nat : k >= Depth => Above(i)[k] = 0
  BY <1>2, <1>3, DepthIs
<1> QED
  BY <1>1, <1>2, <1>3, <1>4, <1>5, AboveIs

\* The node beside another has the same node above; nodes with the same one above are
\* beside each other.
LEMMA BesideIs ==
  ASSUME NEW a \in Nat
  PROVE  /\ Beside(a) \in Nat /\ Beside(a) # a /\ Beside(Beside(a)) = a /\ Beside(a) \div 2 = a \div 2
         /\ \A b \in Nat : a \div 2 = b \div 2 => a = b \/ b = Beside(a)
         /\ a % 2 = 0 => Beside(a) = a + 1 /\ a = 2 * (a \div 2)
         /\ a % 2 # 0 => Beside(a) = a - 1 /\ a = 2 * (a \div 2) + 1
  BY DEF Beside
LEMMA UsedIs ==
  ASSUME NEW i \in Chunk
  PROVE  /\ Used(i) \in [Nat -> Nat] /\ Used(i)[0] = 0
         /\ \A k \in Nat : Used(i)[k + 1] = Used(i)[k] + (IF HasBeside(k, Above(i)[k]) THEN 1 ELSE 0)
<1> DEFINE at == Above(i)
           add(k) == IF HasBeside(k, at[k]) THEN 1 ELSE 0
           g == [k \in Nat |-> [x \in Nat |-> x + add(k)]]
<1>0. \A k \in Nat : add(k) \in Nat
  OBVIOUS
<1> HIDE DEF add
<1>1. g \in [Nat -> [Nat -> Nat]]
  BY <1>0
<1>2. PICK f \in [Nat -> Nat] : Steps(f, 0, g)
  <2> HIDE DEF g
  <2>2. 0 \in Nat
    OBVIOUS
  <2> QED
    BY <1>1, <2>2, RecursionIn, Zenon
<1>3. f = [k \in Nat |-> IF k = 0 THEN 0 ELSE f[k - 1] + add(k - 1)]
  <2>1. ASSUME NEW k \in Nat
        PROVE  (IF k = 0 THEN 0 ELSE g[k - 1][f[k - 1]]) = IF k = 0 THEN 0 ELSE f[k - 1] + add(k - 1)
    OBVIOUS
  <2> HIDE DEF g
  <2> QED
    BY <1>2, <2>1 DEF Steps
<1> DEFINE n == CHOOSE n : n = [k \in Nat |-> IF k = 0 THEN 0 ELSE n[k - 1] + (IF HasBeside(k - 1, at[k - 1]) THEN 1 ELSE 0)]
<1>4. n = [k \in Nat |-> IF k = 0 THEN 0 ELSE n[k - 1] + add(k - 1)]
  <2>1. f = [k \in Nat |-> IF k = 0 THEN 0 ELSE f[k - 1] + (IF HasBeside(k - 1, at[k - 1]) THEN 1 ELSE 0)]
    BY <1>3, Zenon DEF add
  <2>2. n = [k \in Nat |-> IF k = 0 THEN 0 ELSE n[k - 1] + (IF HasBeside(k - 1, at[k - 1]) THEN 1 ELSE 0)]
    BY <2>1, Zenon
  <2> QED
    BY <2>2, Zenon DEF add
<1>5. Used(i) = n
  BY Zenon DEF Used
<1> HIDE DEF n
<1>6. n[0] = 0 /\ \A k \in Nat : n[k + 1] = n[k] + add(k)
  BY <1>4
<1>7. \A k \in Nat : n[k] \in Nat
  <2> DEFINE K == {k \in Nat : n[k] \in Nat}
  <2>1. 0 \in K /\ \A k \in Nat : k \in K => k + 1 \in K
    BY <1>0, <1>6
  <2> HIDE DEF K
  <2>2. Nat \subseteq K
    BY <2>1, SetInduction
  <2> QED
    BY <2>2 DEF K
<1>8. n \in [Nat -> Nat]
  BY <1>4, <1>7
<1> QED
  BY <1>5, <1>6, <1>8 DEF add

\* The climb, whatever the hashes.
LEMMA ClimbIs ==
  ASSUME NEW i \in Nat, NEW h, NEW side
  PROVE  /\ Climb(i, h, side)[0] = h
         /\ \A k \in Nat : Climb(i, h, side)[k + 1] =
              IF HasBeside(k, Above(i)[k]) THEN Join(Above(i)[k], Climb(i, h, side)[k], side[k])
              ELSE Climb(i, h, side)[k]
<1> DEFINE at == Above(i)
           B == {h} \cup {side[k] : k \in Nat}
           step(k, x) == IF HasBeside(k, at[k]) THEN Join(at[k], x, side[k]) ELSE x
<1>1. PICK S : B \subseteq S /\ \A x, y \in S : <<x, y>> \in S
  BY PairsOf
<1> DEFINE g == [k \in Nat |-> [x \in S |-> step(k, x)]]
<1>2. ASSUME NEW k \in Nat, NEW x \in S PROVE step(k, x) \in S
  <2>1. side[k] \in S
    BY <1>1
  <2>2. Join(at[k], x, side[k]) \in S
    BY <1>1, <2>1 DEF Join
  <2> QED
    BY <2>2
<1>3. h \in S
  BY <1>1
<1> HIDE DEF step
<1>4. g \in [Nat -> [S -> S]]
  BY <1>2
<1>5. PICK f \in [Nat -> S] : f = [k \in Nat |-> IF k = 0 THEN h ELSE g[k - 1][f[k - 1]]]
  <2> HIDE DEF g
  <2> QED
    BY <1>3, <1>4, Recursion
<1>6. f = [k \in Nat |-> IF k = 0 THEN h ELSE step(k - 1, f[k - 1])]
  <2>1. ASSUME NEW k \in Nat
        PROVE  (IF k = 0 THEN h ELSE g[k - 1][f[k - 1]]) = IF k = 0 THEN h ELSE step(k - 1, f[k - 1])
    OBVIOUS
  <2> HIDE DEF g
  <2> QED
    BY <1>5, <2>1
<1> DEFINE up == CHOOSE up : up = [k \in Nat |-> IF k = 0 THEN h
                       ELSE IF HasBeside(k - 1, at[k - 1]) THEN Join(at[k - 1], up[k - 1], side[k - 1])
                       ELSE up[k - 1]]
<1>7. up = [k \in Nat |-> IF k = 0 THEN h ELSE step(k - 1, up[k - 1])]
  <2>1. f = [k \in Nat |-> IF k = 0 THEN h
                       ELSE IF HasBeside(k - 1, at[k - 1]) THEN Join(at[k - 1], f[k - 1], side[k - 1])
                       ELSE f[k - 1]]
    BY <1>6, Zenon DEF step
  <2>2. up = [k \in Nat |-> IF k = 0 THEN h
                       ELSE IF HasBeside(k - 1, at[k - 1]) THEN Join(at[k - 1], up[k - 1], side[k - 1])
                       ELSE up[k - 1]]
    BY <2>1, Zenon
  <2> QED
    BY <2>2, Zenon DEF step
<1>8. Climb(i, h, side) = up
  BY Zenon DEF Climb
<1> HIDE DEF up
<1>9. up[0] = h /\ \A k \in Nat : up[k + 1] = step(k, up[k])
  BY <1>7
<1> QED
  BY <1>8, <1>9 DEF step

-----------------------------------------------------------------------------
(* The hash of every node, from the hashes of the chunks.                  *)

\* The hashes of the nodes, level after level, if those of the chunks are hs.
HashOver(hs) ==
  LET node[k \in Nat] ==
        IF k = 0 THEN hs
        ELSE [j \in Nat |-> IF 2 * j + 1 < Width[k - 1] THEN <<node[k - 1][2 * j], node[k - 1][2 * j + 1]>>
                            ELSE node[k - 1][2 * j]]
  IN node

\* Those of the file.
NodeHash == HashOver([j \in Nat |-> ChunkHash(j)])

\* Each node is the pair of the two below, or the one below.
Paired(H) ==
  \A k, j \in Nat : H[k + 1][j] =
    IF 2 * j + 1 < Width[k] THEN <<H[k][2 * j], H[k][2 * j + 1]>> ELSE H[k][2 * j]

LEMMA HashOverIs ==
  ASSUME NEW V, NEW hs \in [Nat -> V]
  PROVE  HashOver(hs)[0] = hs /\ Paired(HashOver(hs))
<1>1. PICK W : V \subseteq W /\ \A x, y \in W : <<x, y>> \in W
  BY PairsOf
<1> DEFINE S == [Nat -> W]
           up(k, x) == [j \in Nat |-> IF 2 * j + 1 < Width[k] THEN <<x[2 * j], x[2 * j + 1]>> ELSE x[2 * j]]
           g == [k \in Nat |-> [x \in S |-> up(k, x)]]
<1>2. ASSUME NEW k \in Nat, NEW x \in S PROVE up(k, x) \in S
  <2>1. ASSUME NEW j \in Nat
        PROVE  (IF 2 * j + 1 < Width[k] THEN <<x[2 * j], x[2 * j + 1]>> ELSE x[2 * j]) \in W
    <3>1. 2 * j \in Nat /\ 2 * j + 1 \in Nat
      OBVIOUS
    <3>2. x[2 * j] \in W /\ x[2 * j + 1] \in W
      BY <3>1
    <3>3. <<x[2 * j], x[2 * j + 1]>> \in W
      BY <1>1, <3>2, Zenon
    <3> QED
      BY <3>2, <3>3
  <2> QED
    BY <2>1
<1>3. hs \in S
  BY <1>1
<1> HIDE DEF up
<1>4. g \in [Nat -> [S -> S]]
  BY <1>2
<1>5. PICK f : f \in [Nat -> S] /\ Steps(f, hs, g)
  <2> HIDE DEF g, S
  <2> QED
    BY <1>3, <1>4, RecursionIn, Zenon
<1>6. f = [k \in Nat |-> IF k = 0 THEN hs ELSE up(k - 1, f[k - 1])]
  <2>1. ASSUME NEW k \in Nat
        PROVE  (IF k = 0 THEN hs ELSE g[k - 1][f[k - 1]]) = IF k = 0 THEN hs ELSE up(k - 1, f[k - 1])
    <3>1. CASE k = 0
      BY <3>1
    <3>2. CASE k # 0
      <4>1. k - 1 \in Nat
        BY <3>2
      <4>2. f[k - 1] \in S
        BY <1>5, <4>1
      <4> HIDE DEF S
      <4>3. g[k - 1][f[k - 1]] = up(k - 1, f[k - 1])
        BY <4>1, <4>2
      <4> QED
        BY <3>2, <4>3
    <3> QED
      BY <3>1, <3>2
  <2> HIDE DEF g, S
  <2> QED
    BY <1>5, <2>1 DEF Steps
<1> DEFINE node == CHOOSE node : node = [k \in Nat |-> IF k = 0 THEN hs
        ELSE [j \in Nat |-> IF 2 * j + 1 < Width[k - 1] THEN <<node[k - 1][2 * j], node[k - 1][2 * j + 1]>>
                            ELSE node[k - 1][2 * j]]]
<1>7. node = [k \in Nat |-> IF k = 0 THEN hs ELSE up(k - 1, node[k - 1])]
  <2>1. f = [k \in Nat |-> IF k = 0 THEN hs
        ELSE [j \in Nat |-> IF 2 * j + 1 < Width[k - 1] THEN <<f[k - 1][2 * j], f[k - 1][2 * j + 1]>>
                            ELSE f[k - 1][2 * j]]]
    BY <1>6, Zenon DEF up
  <2>2. node = [k \in Nat |-> IF k = 0 THEN hs
        ELSE [j \in Nat |-> IF 2 * j + 1 < Width[k - 1] THEN <<node[k - 1][2 * j], node[k - 1][2 * j + 1]>>
                            ELSE node[k - 1][2 * j]]]
    BY <2>1, Zenon
  <2> QED
    BY <2>2, Zenon DEF up
<1>8. HashOver(hs) = node
  BY Zenon DEF HashOver
<1> HIDE DEF node
<1>9. node[0] = hs /\ \A k \in Nat : node[k + 1] = up(k, node[k])
  BY <1>7
<1> QED
  BY <1>8, <1>9 DEF up, Paired

\* A node, as it is seen from below.
LEMMA NodeUp ==
  ASSUME NEW H, Paired(H), NEW k \in Nat, NEW j \in Nat, j < Width[k]
  PROVE  H[k + 1][j \div 2] = IF HasBeside(k, j) THEN Join(j, H[k][j], H[k][Beside(j)]) ELSE H[k][j]
<1> DEFINE dd == j \div 2
<1>1. dd \in Nat
  BY Halves
<1>2. H[k + 1][dd] = IF 2 * dd + 1 < Width[k] THEN <<H[k][2 * dd], H[k][2 * dd + 1]>> ELSE H[k][2 * dd]
  <2> HIDE DEF dd
  <2> QED
    BY <1>1 DEF Paired
<1>3. Width[k] \in Nat
  BY WidthIs
<1>4. CASE j % 2 = 0
  <2>1. Beside(j) = j + 1 /\ 2 * dd = j
    BY <1>4, BesideIs
  <2> HIDE DEF dd
  <2> QED
    BY <1>2, <1>4, <2>1 DEF HasBeside, Join, dd
<1>5. CASE j % 2 # 0
  <2>1. Beside(j) = j - 1 /\ 2 * dd = j - 1 /\ 2 * dd + 1 = j
    BY <1>5, BesideIs
  <2>2. HasBeside(k, j) /\ 2 * dd + 1 < Width[k]
    BY <1>3, <2>1 DEF HasBeside
  <2>3. H[k + 1][dd] = <<H[k][j - 1], H[k][j]>>
    <3> HIDE DEF dd
    <3> QED
      BY <1>2, <2>1, <2>2
  <2> QED
    BY <1>5, <2>1, <2>2, <2>3 DEF Join, dd
<1> QED
  BY <1>4, <1>5

\* No node is without a hash if no chunk is.
LEMMA HashOverKnown ==
  ASSUME NEW H, Paired(H), \A j \in Nat : H[0][j] # NoHash
  PROVE  \A k, j \in Nat : H[k][j] # NoHash
<1> DEFINE K == {k \in Nat : \A j \in Nat : H[k][j] # NoHash}
<1>1. 0 \in K
  OBVIOUS
<1>2. ASSUME NEW k \in Nat, k \in K PROVE k + 1 \in K
  <2>1. ASSUME NEW j \in Nat PROVE H[k + 1][j] # NoHash
    <3>1. 2 * j \in Nat
      OBVIOUS
    <3>2. H[k][2 * j] # NoHash
      BY <1>2, <3>1
    <3>3. H[k + 1][j] = IF 2 * j + 1 < Width[k] THEN <<H[k][2 * j], H[k][2 * j + 1]>> ELSE H[k][2 * j]
      BY DEF Paired
    <3>4. <<H[k][2 * j], H[k][2 * j + 1]>> # NoHash
      BY DEF NoHash
    <3> QED
      BY <3>2, <3>3, <3>4
  <2> QED
    BY <2>1
<1>3. Nat \subseteq K
  <2> HIDE DEF K
  <2> QED
    BY <1>1, <1>2, SetInduction
<1> QED
  BY <1>3

LEMMA JoinIs ==
  ASSUME NEW j \in Nat, NEW h, NEW g, NEW h2, NEW g2
  PROVE  Join(j, h, g) = Join(j, h2, g2) => h = h2 /\ g = g2
BY DEF Join

LEMMA NodeHashIs ==
  /\ Paired(NodeHash) /\ \A j \in Nat : NodeHash[0][j] = ChunkHash(j)
  /\ \A k, j \in Nat : NodeHash[k][j] # NoHash
<1> DEFINE hs == [j \in Nat |-> ChunkHash(j)]
           V == {ChunkHash(j) : j \in Nat}
<1>1. hs \in [Nat -> V]
  OBVIOUS
<1>2. \A j \in Nat : hs[j] = ChunkHash(j) /\ hs[j] # NoHash
  BY DEF ChunkHash, NoHash
<1>3. NodeHash = HashOver(hs)
  BY DEF NodeHash
<1> HIDE DEF hs, V
<1>4. NodeHash[0] = hs /\ Paired(NodeHash)
  BY <1>1, <1>3, HashOverIs
<1>5. \A j \in Nat : NodeHash[0][j] # NoHash
  BY <1>2, <1>4
<1> QED
  BY <1>2, <1>4, <1>5, HashOverKnown

\* From a right chunk and right hashes beside, the climb leads to right nodes.
LEMMA ClimbRight ==
  ASSUME NEW H, Paired(H), NEW i \in Chunk, NEW h, h = H[0][i], NEW side, NEW k \in Nat,
         \A m \in Nat : m < k /\ HasBeside(m, Above(i)[m]) => side[m] = H[m][Beside(Above(i)[m])]
  PROVE  \A m \in 0..k : Climb(i, h, side)[m] = H[m][Above(i)[m]]
<1> DEFINE at == Above(i)
           up == Climb(i, h, side)
           g == [m \in Nat |-> H[m][at[m]]]
<1>0. i \in Nat /\ at[0] = i
  BY AboveInPlace, AboveIs
<1>1. up[0] = g[0]
  BY <1>0, ClimbIs
<1>2. ASSUME NEW m \in Nat, m < k, up[m] = g[m] PROVE up[m + 1] = g[m + 1]
  <2>1. at[m] \in Nat /\ at[m] < Width[m]
    BY AboveInPlace
  <2>2. at[m + 1] = at[m] \div 2
    BY <1>0, AboveIs
  <2>3. up[m + 1] = IF HasBeside(m, at[m]) THEN Join(at[m], up[m], side[m]) ELSE up[m]
    BY <1>0, ClimbIs
  <2> HIDE DEF at, up
  <2>4. H[m + 1][at[m + 1]] = IF HasBeside(m, at[m]) THEN Join(at[m], H[m][at[m]], H[m][Beside(at[m])]) ELSE H[m][at[m]]
    BY <2>1, <2>2, NodeUp
  <2>5. up[m] = H[m][at[m]] /\ g[m + 1] = H[m + 1][at[m + 1]]
    BY <1>2
  <2>6. CASE HasBeside(m, at[m])
    <3>1. side[m] = H[m][Beside(at[m])]
      BY <1>2, <2>6 DEF at
    <3> QED
      BY <2>3, <2>4, <2>5, <2>6, <3>1
  <2>7. CASE ~HasBeside(m, at[m])
    BY <2>3, <2>4, <2>5, <2>7
  <2> QED
    BY <2>6, <2>7
<1>3. \A m \in 0..k : up[m] = g[m]
  <2> HIDE DEF g, up
  <2> QED
    BY <1>1, <1>2, SameSequence
<1> QED
  BY <1>3

\* A climb that leads to a right node had a right chunk and right hashes beside.
LEMMA ClimbProves ==
  ASSUME NEW H, Paired(H), NEW i \in Chunk, NEW h, NEW side, NEW k \in Nat,
         Climb(i, h, side)[k] = H[k][Above(i)[k]]
  PROVE  /\ h = H[0][i]
         /\ \A m \in Nat : m < k /\ HasBeside(m, Above(i)[m]) => side[m] = H[m][Beside(Above(i)[m])]
<1> DEFINE at == Above(i)
           up == Climb(i, h, side)
           K == {n \in Nat : n <= k => up[k - n] = H[k - n][at[k - n]]}
<1>0. i \in Nat /\ at[0] = i /\ up[0] = h
  <2>1. i \in Nat /\ at[0] = i
    BY AboveInPlace, AboveIs
  <2> QED
    BY <2>1, ClimbIs
<1>1. ASSUME NEW m \in Nat, up[m + 1] = H[m + 1][at[m + 1]]
      PROVE  up[m] = H[m][at[m]] /\ (HasBeside(m, at[m]) => side[m] = H[m][Beside(at[m])])
  <2>1. at[m] \in Nat /\ at[m] < Width[m]
    BY AboveInPlace
  <2>2. at[m + 1] = at[m] \div 2
    BY <1>0, AboveIs
  <2>3. up[m + 1] = IF HasBeside(m, at[m]) THEN Join(at[m], up[m], side[m]) ELSE up[m]
    BY <1>0, ClimbIs
  <2> HIDE DEF at, up
  <2>4. H[m + 1][at[m + 1]] = IF HasBeside(m, at[m]) THEN Join(at[m], H[m][at[m]], H[m][Beside(at[m])]) ELSE H[m][at[m]]
    BY <2>1, <2>2, NodeUp
  <2>5. CASE HasBeside(m, at[m])
    <3>1. Join(at[m], up[m], side[m]) = Join(at[m], H[m][at[m]], H[m][Beside(at[m])])
      BY <1>1, <2>3, <2>4, <2>5
    <3> QED
      BY <2>1, <3>1, JoinIs
  <2>6. CASE ~HasBeside(m, at[m])
    BY <1>1, <2>3, <2>4, <2>6
  <2> QED
    BY <2>5, <2>6
<1> HIDE DEF at, up
<1>2. 0 \in K
  BY DEF at, up
<1>3. ASSUME NEW n \in Nat, n \in K PROVE n + 1 \in K
  <2>1. CASE n + 1 <= k
    <3>1. k - (n + 1) \in Nat /\ (k - (n + 1)) + 1 = k - n /\ n <= k
      BY <2>1
    <3> DEFINE m == k - (n + 1)
    <3>2. up[m + 1] = H[m + 1][at[m + 1]] /\ m \in Nat
      BY <1>3, <3>1
    <3> HIDE DEF m
    <3>3. up[m] = H[m][at[m]]
      BY <1>1, <3>2
    <3> QED
      BY <3>3 DEF m
  <2>2. CASE ~(n + 1 <= k)
    BY <2>2
  <2> QED
    BY <2>1, <2>2
<1>4. Nat \subseteq K
  <2> HIDE DEF K
  <2> QED
    BY <1>2, <1>3, SetInduction
<1>5. ASSUME NEW m \in Nat, m <= k PROVE up[m] = H[m][at[m]]
  <2>1. k - m \in Nat /\ k - m <= k /\ k - (k - m) = m
    BY <1>5
  <2>2. k - m \in K
    BY <1>4, <2>1
  <2> QED
    BY <2>1, <2>2
<1> HIDE DEF K
<1>6. h = H[0][i]
  BY <1>0, <1>5
<1>7. ASSUME NEW m \in Nat, m < k, HasBeside(m, at[m]) PROVE side[m] = H[m][Beside(at[m])]
  <2>1. m + 1 \in Nat /\ m + 1 <= k
    BY <1>7
  <2>2. up[m + 1] = H[m + 1][at[m + 1]]
    BY <1>5, <2>1
  <2> QED
    BY <1>1, <1>7, <2>2
<1> QED
  BY <1>6, <1>7 DEF at

\* The root tells all chunks.
LEMMA RootProves ==
  ASSUME NEW H, NEW G, Paired(H), Paired(G), H[Depth][0] = G[Depth][0]
  PROVE  \A i \in Chunk : H[0][i] = G[0][i]
<1>1. ASSUME NEW i \in Chunk PROVE H[0][i] = G[0][i]
  <2> DEFINE side == [m \in Nat |-> H[m][Beside(Above(i)[m])]]
             h == H[0][i]
  <2>1. Depth \in Nat /\ Above(i)[Depth] = 0
    BY DepthIs, AboveInPlace
  <2>2. \A m \in Nat : m < Depth /\ HasBeside(m, Above(i)[m]) => side[m] = H[m][Beside(Above(i)[m])]
    OBVIOUS
  <2> HIDE DEF side
  <2>3. \A m \in 0..Depth : Climb(i, h, side)[m] = H[m][Above(i)[m]]
    <3>1. h = H[0][i]
      OBVIOUS
    <3> HIDE DEF h
    <3> QED
      BY <2>1, <2>2, <3>1, ClimbRight
  <2>4. Climb(i, h, side)[Depth] = G[Depth][Above(i)[Depth]]
    BY <2>1, <2>3
  <2> HIDE DEF h
  <2>5. h = G[0][i]
    BY <2>1, <2>4, ClimbProves
  <2> QED
    BY <2>5 DEF h
<1> QED
  BY <1>1
-----------------------------------------------------------------------------
(* The paths of the chunks.                                                *)

\* There is a chunk below every node.
LEMMA ChunkBelow ==
  ASSUME NEW k \in Nat, NEW j \in Nat, j < Width[k]
  PROVE  \E i \in Chunk : Above(i)[k] = j
<1> DEFINE K == {m \in Nat : \A b \in Nat : b < Width[m] => \E i \in Chunk : Above(i)[m] = b}
<1>1. 0 \in K
  <2>1. ASSUME NEW b \in Nat, b < Width[0] PROVE b \in Chunk /\ Above(b)[0] = b
    BY <2>1, WidthIs, AboveIs, TreeAssumption DEF Chunk
  <2> QED
    BY <2>1
<1>2. ASSUME NEW m \in Nat, m \in K PROVE m + 1 \in K
  <2>1. ASSUME NEW b \in Nat, b < Width[m + 1] PROVE \E i \in Chunk : Above(i)[m + 1] = b
    <3> DEFINE c == 2 * b
    <3>1. Width[m] \in Nat /\ Width[m + 1] = (Width[m] + 1) \div 2
      BY WidthIs
    <3>2. c \in Nat /\ c < Width[m] /\ c \div 2 = b
      BY <2>1, <3>1
    <3> HIDE DEF c
    <3>3. PICK i \in Chunk : Above(i)[m] = c
      BY <1>2, <3>2
    <3>4. Above(i)[m + 1] = c \div 2
      BY <3>3, AboveInPlace, AboveIs
    <3> QED
      BY <3>2, <3>4
  <2> QED
    BY <2>1
<1>3. Nat \subseteq K
  <2> HIDE DEF K
  <2> QED
    BY <1>1, <1>2, SetInduction
<1> QED
  BY <1>3

\* Two paths that meet stay together.
LEMMA AboveMeet ==
  ASSUME NEW a \in Nat, NEW b \in Nat, NEW k \in Nat, Above(a)[k] = Above(b)[k]
  PROVE  \A m \in Nat : m >= k => Above(a)[m] = Above(b)[m]
<1> DEFINE K == {m \in Nat : m >= k => Above(a)[m] = Above(b)[m]}
<1>1. 0 \in K
  <2>1. 0 >= k => 0 = k
    OBVIOUS
  <2> QED
    BY <2>1
<1>2. ASSUME NEW m \in Nat, m \in K PROVE m + 1 \in K
  <2>1. CASE m >= k
    <3>1. Above(a)[m] = Above(b)[m]
      BY <1>2, <2>1
    <3>2. Above(a)[m + 1] = Above(a)[m] \div 2 /\ Above(b)[m + 1] = Above(b)[m] \div 2
      BY AboveIs
    <3> QED
      BY <3>1, <3>2
  <2>2. CASE ~(m >= k)
    <3>1. m + 1 >= k => m + 1 = k
      BY <2>2
    <3> QED
      BY <3>1
  <2> QED
    BY <2>1, <2>2
<1>3. Nat \subseteq K
  <2> HIDE DEF K
  <2> QED
    BY <1>1, <1>2, SetInduction
<1> QED
  BY <1>3

\* Paths beside each other meet one level above, and not before.
LEMMA AboveBeside ==
  ASSUME NEW a \in Nat, NEW b \in Nat, NEW k \in Nat, Above(b)[k] = Beside(Above(a)[k])
  PROVE  /\ \A m \in Nat : m > k => Above(a)[m] = Above(b)[m]
         /\ \A m \in Nat : m <= k => Above(a)[m] # Above(b)[m]
         /\ \A m \in Nat : m # k => Above(b)[m] # Beside(Above(a)[m])
         /\ Above(a)[k] = Beside(Above(b)[k])
<1>1. \A m \in Nat : Above(a)[m] \in Nat /\ Above(b)[m] \in Nat
      /\ Above(a)[m + 1] = Above(a)[m] \div 2 /\ Above(b)[m + 1] = Above(b)[m] \div 2
  BY AboveIs
<1>2. ASSUME NEW m \in Nat, Above(b)[m] = Beside(Above(a)[m])
      PROVE  Above(a)[m + 1] = Above(b)[m + 1] /\ Above(a)[m] # Above(b)[m]
  <2>1. Beside(Above(a)[m]) \div 2 = Above(a)[m] \div 2 /\ Beside(Above(a)[m]) # Above(a)[m]
    BY <1>1, BesideIs
  <2> QED
    BY <1>1, <1>2, <2>1
<1>3. \A m \in Nat : m > k => Above(a)[m] = Above(b)[m]
  <2>1. Above(a)[k + 1] = Above(b)[k + 1] /\ k + 1 \in Nat
    BY <1>2
  <2>2. \A m \in Nat : m >= k + 1 => Above(a)[m] = Above(b)[m]
    BY <2>1, AboveMeet
  <2>3. \A m \in Nat : m > k => m >= k + 1
    OBVIOUS
  <2> QED
    BY <2>2, <2>3
<1>4. ASSUME NEW m \in Nat, m <= k, Above(a)[m] = Above(b)[m] PROVE FALSE
  <2>1. \A n \in Nat : n >= m => Above(a)[n] = Above(b)[n]
    BY <1>4, AboveMeet
  <2>2. Above(a)[k] = Above(b)[k]
    BY <1>4, <2>1
  <2> QED
    BY <1>2, <2>2
<1>5. ASSUME NEW m \in Nat, m # k, Above(b)[m] = Beside(Above(a)[m]) PROVE FALSE
  <2>1. Above(a)[m + 1] = Above(b)[m + 1] /\ Above(a)[m] # Above(b)[m]
    BY <1>2, <1>5
  <2>2. m > k \/ m + 1 <= k
    BY <1>5
  <2>3. m + 1 \in Nat
    OBVIOUS
  <2> QED
    BY <1>3, <1>4, <2>1, <2>2, <2>3
<1>6. Above(a)[k] = Beside(Above(b)[k])
  <2>1. Beside(Beside(Above(a)[k])) = Above(a)[k]
    BY <1>1, BesideIs
  <2> QED
    BY <2>1
<1> QED
  BY <1>3, <1>4, <1>5, <1>6

\* Two paths that meet are beside each other below the first place where they do.
LEMMA PathsJoin ==
  ASSUME NEW a \in Nat, NEW b \in Nat, a # b, NEW k \in Nat, Above(a)[k] = Above(b)[k]
  PROVE  \E m \in Nat : m < k /\ Above(b)[m] = Beside(Above(a)[m])
<1> DEFINE T == {m \in Nat : Above(a)[m] = Above(b)[m]}
<1>1. k \in T
  OBVIOUS
<1>2. PICK q \in T : \A m \in T : q <= m
  BY <1>1, LeastNumber
<1>3. q \in Nat /\ q <= k /\ q # 0
  <2>1. Above(a)[0] = a /\ Above(b)[0] = b
    BY AboveIs
  <2> QED
    BY <1>1, <1>2, <2>1
<1> DEFINE m == q - 1
<1>4. m \in Nat /\ m + 1 = q /\ ~(q <= m) /\ m < k
  BY <1>3
<1>5. Above(a)[m + 1] = Above(b)[m + 1]
  BY <1>2, <1>4
<1> HIDE DEF m
<1>6. Above(a)[m] # Above(b)[m]
  BY <1>2, <1>4
<1>7. Above(a)[m] \in Nat /\ Above(b)[m] \in Nat /\ Above(a)[m] \div 2 = Above(b)[m] \div 2
  <2>1. \A n \in Nat : /\ Above(a)[n] \in Nat /\ Above(a)[n + 1] = Above(a)[n] \div 2
                      /\ Above(b)[n] \in Nat /\ Above(b)[n + 1] = Above(b)[n] \div 2
    BY AboveIs
  <2> QED
    BY <1>4, <1>5, <2>1
<1>8. Above(b)[m] = Beside(Above(a)[m])
  BY <1>6, <1>7, BesideIs
<1> QED
  BY <1>4, <1>8

\* Only the levels with a node beside the path use a hash; the last below the root does.
LEMMA UsedGrows ==
  ASSUME NEW i \in Chunk
  PROVE  /\ \A k, m \in Nat : k <= m => Used(i)[k] <= Used(i)[m]
         /\ \A k, m \in Nat : k < m /\ HasBeside(k, Above(i)[k]) => Used(i)[k] < Used(i)[m]
         /\ \A k \in Nat : k < Depth => Used(i)[k] < Used(i)[Depth]
<1> DEFINE n == Used(i)
<1>1. \A k \in Nat : n[k] \in Nat /\ n[k] <= n[k + 1] /\ (HasBeside(k, Above(i)[k]) => n[k] < n[k + 1])
  BY UsedIs
<1> HIDE DEF n
<1>2. ASSUME NEW k \in Nat PROVE \A m \in Nat : k <= m => n[k] <= n[m]
  <2> DEFINE K == {m \in Nat : k <= m => n[k] <= n[m]}
  <2>1. 0 \in K
    <3>1. k <= 0 => k = 0
      OBVIOUS
    <3> QED
      BY <1>1, <3>1
  <2>2. ASSUME NEW m \in Nat, m \in K PROVE m + 1 \in K
    <3>1. n[k] \in Nat /\ n[m] \in Nat /\ n[m + 1] \in Nat /\ n[m] <= n[m + 1]
      BY <1>1
    <3>2. k <= m + 1 => k <= m \/ k = m + 1
      OBVIOUS
    <3> QED
      BY <2>2, <3>1, <3>2
  <2>3. Nat \subseteq K
    <3> HIDE DEF K
    <3> QED
      BY <2>1, <2>2, SetInduction
  <2> QED
    BY <2>3
<1>3. ASSUME NEW k \in Nat, NEW m \in Nat, k < m, HasBeside(k, Above(i)[k]) PROVE n[k] < n[m]
  <2>1. k + 1 \in Nat /\ k + 1 <= m
    BY <1>3
  <2>2. n[k] < n[k + 1] /\ n[k + 1] <= n[m]
    BY <1>1, <1>2, <1>3, <2>1
  <2>3. n[k] \in Nat /\ n[k + 1] \in Nat /\ n[m] \in Nat
    BY <1>1, <2>1
  <2> QED
    BY <2>2, <2>3
<1>4. ASSUME NEW k \in Nat, k < Depth PROVE n[k] < n[Depth]
  <2> DEFINE dd == Depth - 1
  <2>1. Depth \in Nat
    BY DepthIs
  <2>2. dd \in Nat /\ dd + 1 = Depth /\ k <= dd
    BY <1>4, <2>1
  <2> HIDE DEF dd
  <2>3. Width[dd] = 2
    BY <2>2, DepthIs
  <2>4. Above(i)[dd] \in Nat /\ Above(i)[dd] < 2
    BY <2>2, <2>3, AboveInPlace
  <2>5. HasBeside(dd, Above(i)[dd])
    BY <2>3, <2>4 DEF HasBeside, Beside
  <2>6. n[dd] < n[Depth]
    BY <1>1, <2>2, <2>5
  <2>7. n[k] \in Nat /\ n[dd] \in Nat /\ n[Depth] \in Nat /\ n[k] <= n[dd]
    BY <1>1, <1>2, <2>1, <2>2
  <2> QED
    BY <2>6, <2>7
<1> QED
  BY <1>2, <1>3, <1>4 DEF n

\* The level a hash that is sent with a chunk is of.
LEMMA LevelOfUsed ==
  ASSUME NEW i \in Chunk, NEW k \in Nat, k < Depth, HasBeside(k, Above(i)[k])
  PROVE  LevelOf(i, Used(i)[k] + 1) = k /\ Used(i)[k] + 1 \in 1..Used(i)[Depth]
<1>1. Depth \in Nat /\ k \in 0..(Depth - 1)
  BY DepthIs
<1>2. \A m \in Nat : Used(i)[m] \in Nat
  BY UsedIs
<1>3. Used(i)[k] + 1 \in 1..Used(i)[Depth]
  <2>1. Used(i)[k] < Used(i)[Depth]
    BY UsedGrows
  <2> QED
    BY <1>1, <1>2, <2>1
<1>4. ASSUME NEW m \in 0..(Depth - 1), HasBeside(m, Above(i)[m]), Used(i)[m] = Used(i)[k] PROVE m = k
  <2>1. m \in Nat /\ Used(i)[m] \in Nat /\ Used(i)[k] \in Nat
    BY <1>1, <1>2
  <2>2. ~(m < k) /\ ~(k < m)
    BY <1>4, <2>1, UsedGrows
  <2> QED
    BY <2>1, <2>2
<1> DEFINE u == Used(i)[k]
<1>5. u + 1 - 1 = u
  BY <1>2
<1>6. ASSUME NEW p, NEW q, q \in 0..(Depth - 1), HasBeside(q, Above(i)[q]), Used(i)[q] = p - 1
      PROVE  /\ LevelOf(i, p) \in 0..(Depth - 1) /\ HasBeside(LevelOf(i, p), Above(i)[LevelOf(i, p)])
             /\ Used(i)[LevelOf(i, p)] = p - 1
  BY <1>6, Zenon DEF LevelOf
<1> DEFINE p == u + 1
           l == LevelOf(i, p)
<1>7. Used(i)[k] = p - 1
  BY <1>2
<1>8. l \in 0..(Depth - 1) /\ HasBeside(l, Above(i)[l]) /\ Used(i)[l] = p - 1
  <2> HIDE DEF p
  <2> QED
    BY <1>1, <1>6, <1>7, Zenon
<1> HIDE DEF l
<1>9. l = k
  BY <1>4, <1>7, <1>8
<1> QED
  BY <1>3, <1>9 DEF l
-----------------------------------------------------------------------------
(* Trees, and the chunks set one after the other.                          *)

IsTree(t) == t = [k \in 0..Depth |-> [j \in Place(k) |-> t[k][j]]]

LEMMA SameTree ==
  ASSUME NEW t, NEW u, IsTree(t), IsTree(u),
         \A k \in 0..Depth : \A j \in Place(k) : t[k][j] = u[k][j]
  PROVE  t = u
<1>1. ASSUME NEW k \in 0..Depth PROVE [j \in Place(k) |-> t[k][j]] = [j \in Place(k) |-> u[k][j]]
  OBVIOUS
<1>2. [k \in 0..Depth |-> [j \in Place(k) |-> t[k][j]]] = [k \in 0..Depth |-> [j \in Place(k) |-> u[k][j]]]
  BY <1>1
<1> QED
  BY <1>2 DEF IsTree

\* The tree with one node changed.
With(t, k, a, v) == [t EXCEPT ![k][a] = v]

LEMMA TreeExcept ==
  ASSUME NEW t, IsTree(t), NEW k \in 0..Depth, NEW a \in Place(k), NEW v
  PROVE  /\ IsTree(With(t, k, a, v))
         /\ \A l \in 0..Depth : \A j \in Place(l) : With(t, k, a, v)[l][j] = IF l = k /\ j = a THEN v ELSE t[l][j]
<1> DEFINE u == [t EXCEPT ![k][a] = v]
<1>1. DOMAIN t = 0..Depth /\ \A l \in 0..Depth : DOMAIN t[l] = Place(l) /\ t[l] = [j \in Place(l) |-> t[l][j]]
  BY DEF IsTree
<1>2. u = [l \in 0..Depth |-> IF l = k THEN [t[k] EXCEPT ![a] = v] ELSE t[l]]
  BY <1>1
<1>3. [t[k] EXCEPT ![a] = v] = [j \in Place(k) |-> IF j = a THEN v ELSE t[k][j]]
  BY <1>1
<1>4. \A l \in 0..Depth : u[l] = [j \in Place(l) |-> IF l = k /\ j = a THEN v ELSE t[l][j]]
  <2>1. ASSUME NEW l \in 0..Depth, l = k PROVE u[l] = [j \in Place(l) |-> IF l = k /\ j = a THEN v ELSE t[l][j]]
    <3>1. u[k] = [t[k] EXCEPT ![a] = v]
      BY <1>2
    <3> HIDE DEF u
    <3> QED
      BY <1>3, <2>1, <3>1
  <2>2. ASSUME NEW l \in 0..Depth, l # k PROVE u[l] = [j \in Place(l) |-> IF l = k /\ j = a THEN v ELSE t[l][j]]
    <3>1. u[l] = t[l]
      BY <1>2, <2>2
    <3> HIDE DEF u
    <3>2. t[l] = [j \in Place(l) |-> t[l][j]]
      BY <1>1
    <3> QED
      BY <2>2, <3>1, <3>2
  <2> QED
    BY <2>1, <2>2
<1>5. DOMAIN u = 0..Depth /\ u = [l \in 0..Depth |-> u[l]]
  BY <1>2
<1> HIDE DEF u
<1>6. \A l \in 0..Depth : \A j \in Place(l) : u[l][j] = IF l = k /\ j = a THEN v ELSE t[l][j]
  BY <1>4
<1>7. \A l \in 0..Depth : u[l] = [j \in Place(l) |-> u[l][j]]
  BY <1>4
<1>8. IsTree(u)
  BY <1>5, <1>7 DEF IsTree
<1>9. With(t, k, a, v) = u
  BY Zenon DEF With, u
<1> QED
  BY <1>6, <1>8, <1>9

\* Where set() ends, and what it leaves.
SetEnds(t, i, k) ==
  \/ k = Depth
  \/ HasBeside(k, Above(i)[k]) /\ t[k][Beside(Above(i)[k])] = NoHash
  \/ t[k + 1][Above(i)[k + 1]] # NoHash
SideOf(t, i) == [k \in Nat |-> t[k][Beside(Above(i)[k])]]

LEMMA SetChunkIs ==
  ASSUME NEW t, IsTree(t), NEW i \in Chunk, NEW h, NEW e \in 0..Depth,
         SetEnds(t, i, e), \A m \in 0..(e - 1) : ~SetEnds(t, i, m)
  PROVE  /\ IsTree(SetChunk(t, i, h))
         /\ \A l \in 0..Depth : \A j \in Place(l) : SetChunk(t, i, h)[l][j] =
              IF l <= e /\ j = Above(i)[l] THEN Climb(i, h, SideOf(t, i))[l] ELSE t[l][j]
<1> DEFINE at == Above(i)
           up == Climb(i, h, SideOf(t, i))
           f == [k \in Nat |-> [l \in 0..Depth |-> [j \in Place(l) |-> IF l <= k /\ j = at[l] THEN up[l] ELSE t[l][j]]]]
           Ends(k) == SetEnds(t, i, k)
           end == CHOOSE k \in 0..Depth : Ends(k) /\ \A m \in 0..(k - 1) : ~Ends(m)
           set == CHOOSE s : s = [k \in Nat |-> IF k = 0 THEN [t EXCEPT ![0][i] = h] ELSE [s[k - 1] EXCEPT ![k][at[k]] = up[k]]]
<1>0. i \in Nat /\ Depth \in Nat /\ 0 \in 0..Depth /\ at[0] = i /\ up[0] = h /\ \A k \in Nat : at[k] \in Place(k)
  <2>1. i \in Nat /\ Depth \in Nat
    BY AboveInPlace, DepthIs
  <2>2. at[0] = i /\ \A k \in Nat : at[k] \in Place(k)
    BY <2>1, AboveIs, AboveInPlace
  <2>3. up[0] = h
    BY <2>1, ClimbIs
  <2> QED
    BY <2>1, <2>2, <2>3
<1>1. SetChunk(t, i, h) = set[end]
  BY Zenon DEF SetChunk, SetEnds, SideOf
<1>2. end = e
  <2>1. ASSUME NEW k \in 0..Depth, Ends(k), \A m \in 0..(k - 1) : ~Ends(m) PROVE k = e
    <3>1. ~(k \in 0..(e - 1)) /\ ~(e \in 0..(k - 1))
      BY <2>1
    <3> QED
      BY <1>0, <3>1
  <2>2. Ends(e) /\ \A m \in 0..(e - 1) : ~Ends(m)
    OBVIOUS
  <2> HIDE DEF Ends
  <2> QED
    BY <2>1, <2>2
<1> HIDE DEF end, at, up, Ends
<1>3. \A k \in Nat : IsTree(f[k])
  BY DEF IsTree
<1>4. \A k \in Nat : \A l \in 0..Depth : \A j \in Place(l) : f[k][l][j] = IF l <= k /\ j = at[l] THEN up[l] ELSE t[l][j]
  OBVIOUS
<1>5. f = [k \in Nat |-> f[k]]
  OBVIOUS
<1> HIDE DEF f
<1>6. f[0] = [t EXCEPT ![0][i] = h]
  <2> DEFINE u == With(t, 0, i, h)
  <2>1. i \in Place(0)
    BY <1>0
  <2>2. IsTree(u) /\ \A l \in 0..Depth : \A j \in Place(l) : u[l][j] = IF l = 0 /\ j = i THEN h ELSE t[l][j]
    BY <1>0, <2>1, TreeExcept
  <2> HIDE DEF u
  <2>3. \A l \in 0..Depth : \A j \in Place(l) : f[0][l][j] = u[l][j]
    BY <1>0, <1>4, <2>2
  <2>4. f[0] = u
    BY <1>3, <2>2, <2>3, SameTree
  <2> QED
    BY <2>4, Zenon DEF u, With
<1>7. ASSUME NEW k \in Nat PROVE f[k + 1] = [f[k] EXCEPT ![k + 1][at[k + 1]] = up[k + 1]]
  <2> DEFINE g == f[k]
             q == k + 1
             u == With(g, q, at[q], up[q])
  <2>0. q \in Nat /\ q # 0 /\ IsTree(g) /\ IsTree(f[q])
    BY <1>3
  <2>1. CASE q \in 0..Depth
    <3>1. at[q] \in Place(q)
      BY <1>0
    <3> HIDE DEF g, q
    <3>2. IsTree(u) /\ \A l \in 0..Depth : \A j \in Place(l) : u[l][j] = IF l = q /\ j = at[q] THEN up[q] ELSE g[l][j]
      BY <2>0, <2>1, <3>1, TreeExcept
    <3> HIDE DEF u
    <3>3. ASSUME NEW l \in 0..Depth, NEW j \in Place(l) PROVE f[q][l][j] = u[l][j]
      <4>1. f[q][l][j] = (IF l <= q /\ j = at[l] THEN up[l] ELSE t[l][j])
            /\ g[l][j] = IF l <= k /\ j = at[l] THEN up[l] ELSE t[l][j]
        BY <1>4, <2>0 DEF g
      <4>2. u[l][j] = IF l = q /\ j = at[q] THEN up[q] ELSE g[l][j]
        BY <3>2
      <4>3. l <= q <=> l <= k \/ l = q
        BY <1>0 DEF q
      <4>4. l = q => ~(l <= k)
        BY <1>0 DEF q
      <4> QED
        BY <4>1, <4>2, <4>3, <4>4
    <3>4. f[q] = u
      BY <2>0, <3>2, <3>3, SameTree
    <3> QED
      BY <3>4, Zenon DEF u, g, q, With
  <2>2. CASE q \notin 0..Depth
    <3>1. \A l \in 0..Depth : l <= k /\ l <= q
      BY <1>0, <2>2
    <3>2. f[q] = g
      <4>1. \A l \in 0..Depth : \A j \in Place(l) : f[q][l][j] = g[l][j]
        BY <1>4, <2>0, <3>1
      <4> HIDE DEF q, g
      <4> QED
        BY <2>0, <4>1, SameTree
    <3>3. u = g
      <4> HIDE DEF g, q
      <4> QED
        BY <2>0, <2>2 DEF IsTree, With
    <3> QED
      BY <3>2, <3>3, Zenon DEF With
  <2> QED
    BY <2>1, <2>2
<1>8. f = [k \in Nat |-> IF k = 0 THEN [t EXCEPT ![0][i] = h] ELSE [f[k - 1] EXCEPT ![k][at[k]] = up[k]]]
  <2>1. ASSUME NEW k \in Nat
        PROVE  f[k] = IF k = 0 THEN [t EXCEPT ![0][i] = h] ELSE [f[k - 1] EXCEPT ![k][at[k]] = up[k]]
    <3>1. CASE k = 0
      BY <1>6, <3>1
    <3>2. CASE k # 0
      <4> DEFINE q == k - 1
      <4>1. q \in Nat /\ q + 1 = k
        BY <3>2
      <4> HIDE DEF q
      <4>2. f[q + 1] = [f[q] EXCEPT ![q + 1][at[q + 1]] = up[q + 1]]
        BY <1>7, <4>1
      <4>3. f[k] = [f[q] EXCEPT ![k][at[k]] = up[k]]
        BY <4>1, <4>2
      <4> QED
        BY <3>2, <4>3 DEF q
    <3> QED
      BY <3>1, <3>2
  <2> QED
    BY <1>5, <2>1
<1>9. set = [k \in Nat |-> IF k = 0 THEN [t EXCEPT ![0][i] = h] ELSE [set[k - 1] EXCEPT ![k][at[k]] = up[k]]]
  BY <1>8, Zenon
<1> HIDE DEF set
<1>10. set[0] = [t EXCEPT ![0][i] = h] /\ \A k \in Nat : set[k + 1] = [set[k] EXCEPT ![k + 1][at[k + 1]] = up[k + 1]]
  BY <1>9
<1>11. ASSUME NEW k \in Nat, k < e, set[k] = f[k] PROVE set[k + 1] = f[k + 1]
  BY <1>7, <1>10, <1>11
<1>12. set[0] = f[0]
  BY <1>6, <1>10
<1>13. e \in Nat
  BY <1>0
<1>14. set[e] = f[e]
  <2>1. \A k \in 0..e : set[k] = f[k]
    BY <1>11, <1>12, <1>13, SameSequence
  <2> QED
    BY <1>13, <2>1
<1>15. IsTree(f[e]) /\ \A l \in 0..Depth : \A j \in Place(l) : f[e][l][j] = IF l <= e /\ j = at[l] THEN up[l] ELSE t[l][j]
  BY <1>3, <1>4, <1>13
<1>16. SetChunk(t, i, h) = f[e]
  BY <1>1, <1>2, <1>14
<1> QED
  BY <1>15, <1>16 DEF at, up
\* The number of nodes of level k that are known when n chunks have been set.
Count(n, k) == IF n = Chunks THEN Width[k] ELSE Above(n)[k]
Begun(H, n) == [k \in 0..Depth |-> [j \in Place(k) |-> IF j < Count(n, k) THEN H[k][j] ELSE NoHash]]

LEMMA CountUp ==
  ASSUME NEW n \in Chunk
  PROVE  /\ n + 1 \in Nat /\ \A k \in Nat : Count(n, k) = Above(n)[k]
         /\ Count(n + 1, 0) = Above(n)[0] + 1
         /\ \A k \in Nat : Count(n + 1, k) = Above(n)[k] + 1 /\ (Above(n)[k] % 2 # 0 \/ ~HasBeside(k, Above(n)[k]))
                           => Count(n + 1, k + 1) = Above(n)[k + 1] + 1
         /\ \A k \in Nat : Count(n + 1, k) = Above(n)[k] + 1 /\ Above(n)[k] % 2 = 0 /\ HasBeside(k, Above(n)[k])
                           => \A m \in Nat : m > k => Count(n + 1, m) = Above(n)[m]
<1> DEFINE p == n + 1
<1>1. n \in Nat /\ n < Chunks /\ p \in Nat /\ Chunks \in Nat
  BY TreeAssumption DEF Chunk
<1>2. \A k \in Nat : Above(n)[k] \in Nat /\ Above(n)[k] < Width[k] /\ Above(n)[k + 1] = Above(n)[k] \div 2
  BY <1>1, AboveInPlace, AboveIs
<1>3. \A k \in Nat : Above(p)[k] \in Nat /\ Above(p)[k + 1] = Above(p)[k] \div 2
  <2> HIDE DEF p
  <2> QED
    BY <1>1, AboveIs
<1>4. \A k \in Nat : Width[k] \in Nat /\ Width[k + 1] = (Width[k] + 1) \div 2
  BY WidthIs
<1>5. \A k \in Nat : Count(n, k) = Above(n)[k]
  BY <1>1 DEF Count
<1>6. Count(p, 0) = Above(n)[0] + 1
  <2>1. Above(n)[0] = n /\ Above(p)[0] = p
    <3> HIDE DEF p
    <3> QED
      BY <1>1, AboveIs
  <2>2. Width[0] = Chunks
    BY WidthIs
  <2> QED
    BY <2>1, <2>2 DEF Count
<1>7. ASSUME NEW k \in Nat, Count(p, k) = Above(n)[k] + 1, Above(n)[k] % 2 # 0 \/ ~HasBeside(k, Above(n)[k])
      PROVE  Count(p, k + 1) = Above(n)[k + 1] + 1
  <2> DEFINE a == Above(n)[k]
  <2>1. a \in Nat /\ a < Width[k] /\ Above(n)[k + 1] = a \div 2
    BY <1>2
  <2>2. CASE p = Chunks
    <3>1. Width[k] = a + 1 /\ Count(p, k + 1) = Width[k + 1] /\ Width[k + 1] = (Width[k] + 1) \div 2
      BY <1>4, <1>7, <2>2 DEF Count
    <3> HIDE DEF a
    <3> QED
      BY <2>1, <3>1
  <2>3. CASE p # Chunks
    <3>1. p \in Chunk
      BY <1>1, <2>3, TreeAssumption DEF Chunk
    <3>2. Above(p)[k] < Width[k]
      <4> HIDE DEF p
      <4> QED
        BY <3>1, AboveInPlace
    <3>3. Above(p)[k] = a + 1 /\ Count(p, k + 1) = Above(p)[k + 1] /\ Above(p)[k + 1] = Above(p)[k] \div 2
      BY <1>3, <1>7, <2>3 DEF Count
    <3>4. a % 2 # 0
      <4>1. CASE ~HasBeside(k, a)
        <5>1. ~(Beside(a) < Width[k])
          BY <4>1 DEF HasBeside
        <5>2. a % 2 = 0 => Beside(a) = a + 1
          BY <2>1, BesideIs
        <5> HIDE DEF a, p
        <5> QED
          BY <3>2, <3>3, <5>1, <5>2
      <4> QED
        BY <1>7, <4>1
    <3> HIDE DEF a, p
    <3>5. (a + 1) \div 2 = (a \div 2) + 1
      BY <2>1, <3>4
    <3> QED
      BY <2>1, <3>3, <3>5
  <2> QED
    BY <2>2, <2>3
<1>8. ASSUME NEW k \in Nat, Count(p, k) = Above(n)[k] + 1, Above(n)[k] % 2 = 0, HasBeside(k, Above(n)[k])
      PROVE  \A m \in Nat : m > k => Count(p, m) = Above(n)[m]
  <2> DEFINE a == Above(n)[k]
  <2>1. a \in Nat /\ Above(n)[k + 1] = a \div 2 /\ Beside(a) = a + 1 /\ Beside(a) < Width[k]
    BY <1>2, <1>8, BesideIs DEF HasBeside
  <2>2. p # Chunks
    BY <1>8, <2>1 DEF Count
  <2>3. Above(p)[k] = a + 1 /\ Above(p)[k + 1] = Above(p)[k] \div 2
    BY <1>3, <1>8, <2>2 DEF Count
  <2>4. Above(p)[k + 1] = Above(n)[k + 1]
    <3>1. a % 2 = 0
      BY <1>8
    <3> HIDE DEF a, p
    <3>2. (a + 1) \div 2 = a \div 2
      BY <2>1, <3>1
    <3> QED
      BY <2>1, <2>3, <3>2
  <2>5. \A m \in Nat : m >= k + 1 => Above(p)[m] = Above(n)[m]
    <3> HIDE DEF p
    <3>1. k + 1 \in Nat
      OBVIOUS
    <3> QED
      BY <1>1, <2>4, <3>1, AboveMeet
  <2>6. \A m \in Nat : m > k => m >= k + 1
    OBVIOUS
  <2> QED
    BY <2>2, <2>5, <2>6 DEF Count
<1> QED
  BY <1>1, <1>5, <1>6, <1>7, <1>8

LEMMA BegunIs ==
  ASSUME NEW H, NEW n \in Nat
  PROVE  /\ IsTree(Begun(H, n))
         /\ \A k \in 0..Depth : \A j \in Place(k) : Begun(H, n)[k][j] = IF j < Count(n, k) THEN H[k][j] ELSE NoHash
BY DEF Begun, IsTree

\* One chunk more is one chunk more.
LEMMA SetNext ==
  ASSUME NEW H, Paired(H), \A k, j \in Nat : H[k][j] # NoHash, NEW n \in Chunk
  PROVE  SetChunk(Begun(H, n), n, H[0][n]) = Begun(H, n + 1)
<1> DEFINE t == Begun(H, n)
           s == Begun(H, n + 1)
           at == Above(n)
           h == H[0][n]
           u == SetChunk(t, n, h)
           side == SideOf(t, n)
<1>1. n \in Nat /\ n + 1 \in Nat /\ Depth \in Nat
  BY DepthIs, AboveInPlace
<1>2. \A k \in Nat : at[k] \in Nat /\ at[k] \in Place(k) /\ at[k] < Width[k] /\ Width[k] \in Nat
  BY AboveInPlace, WidthIs
<1>3. IsTree(t) /\ \A k \in 0..Depth : \A j \in Place(k) : t[k][j] = IF j < at[k] THEN H[k][j] ELSE NoHash
  <2>1. \A k \in 0..Depth : Count(n, k) = at[k]
    BY <1>1, CountUp
  <2> HIDE DEF t, at
  <2> QED
    BY <1>1, <2>1, BegunIs DEF t
<1>4. IsTree(s) /\ \A k \in 0..Depth : \A j \in Place(k) : s[k][j] = IF j < Count(n + 1, k) THEN H[k][j] ELSE NoHash
  BY <1>1, BegunIs
<1> HIDE DEF t, s
<1>5. ASSUME NEW k \in 0..Depth
      PROVE  SetEnds(t, n, k) <=> k = Depth \/ (HasBeside(k, at[k]) /\ at[k] % 2 = 0)
  <2>1. k \in Nat
    BY <1>1
  <2>2. ASSUME k # Depth PROVE ~(t[k + 1][at[k + 1]] # NoHash)
    <3>1. k + 1 \in 0..Depth /\ k + 1 \in Nat
      BY <1>1, <2>2
    <3>2. at[k + 1] \in Place(k + 1) /\ at[k + 1] \in Nat /\ ~(at[k + 1] < at[k + 1])
      BY <1>2, <3>1
    <3> HIDE DEF at
    <3> QED
      BY <1>3, <3>1, <3>2
  <2>3. ASSUME HasBeside(k, at[k]) PROVE t[k][Beside(at[k])] = NoHash <=> at[k] % 2 = 0
    <3> DEFINE b == Beside(at[k])
    <3>1. b \in Nat /\ (at[k] % 2 = 0 => b = at[k] + 1) /\ (at[k] % 2 # 0 => b = at[k] - 1)
      BY <1>2, <2>1, BesideIs
    <3>2. b \in Place(k)
      BY <1>2, <2>1, <2>3, <3>1 DEF HasBeside, Place
    <3>3. H[k][b] # NoHash
      BY <2>1, <3>1
    <3>4. at[k] \in Nat
      BY <1>2, <2>1
    <3> HIDE DEF b, at
    <3>5. b < at[k] <=> at[k] % 2 # 0
      BY <3>1, <3>4
    <3>6. t[k][b] = IF b < at[k] THEN H[k][b] ELSE NoHash
      BY <1>3, <3>2
    <3> QED
      BY <3>3, <3>5, <3>6 DEF b
  <2> QED
    BY <2>2, <2>3 DEF SetEnds
<1> DEFINE T == {k \in 0..Depth : SetEnds(t, n, k)}
<1>6. PICK e \in T : \A k \in T : e <= k
  <2>1. Depth \in T /\ T \in SUBSET Nat
    BY <1>1 DEF SetEnds
  <2> HIDE DEF T
  <2> QED
    BY <2>1, LeastNumber
<1>7. e \in 0..Depth /\ e \in Nat /\ SetEnds(t, n, e) /\ \A m \in 0..(e - 1) : ~SetEnds(t, n, m)
  <2>1. e \in 0..Depth /\ e \in Nat
    BY <1>1, <1>6
  <2>2. ASSUME NEW m \in 0..(e - 1), SetEnds(t, n, m) PROVE FALSE
    <3>1. m \in 0..Depth /\ ~(e <= m)
      BY <1>1, <2>1
    <3> QED
      BY <1>6, <2>2, <3>1
  <2> QED
    BY <1>6, <2>1, <2>2
<1> HIDE DEF T
<1>8. ASSUME NEW m \in Nat, m < e PROVE at[m] % 2 # 0 \/ ~HasBeside(m, at[m])
  <2>1. m \in 0..Depth /\ m \in 0..(e - 1) /\ m # Depth
    BY <1>1, <1>7, <1>8
  <2> QED
    BY <1>5, <1>7, <2>1
<1>9. IsTree(u) /\ \A l \in 0..Depth : \A j \in Place(l) :
        u[l][j] = IF l <= e /\ j = at[l] THEN Climb(n, h, side)[l] ELSE t[l][j]
  <2> HIDE DEF h
  <2> QED
    BY <1>3, <1>7, SetChunkIs
<1>10. \A m \in Nat : m < e /\ HasBeside(m, at[m]) => side[m] = H[m][Beside(at[m])]
  <2>1. ASSUME NEW m \in Nat, m < e, HasBeside(m, at[m]) PROVE side[m] = H[m][Beside(at[m])]
    <3> DEFINE b == Beside(at[m])
    <3>1. at[m] % 2 # 0
      BY <1>8, <2>1
    <3>2. b \in Nat /\ b = at[m] - 1
      BY <1>2, <3>1, BesideIs
    <3>3. b < at[m] /\ m \in 0..Depth /\ b < Width[m] /\ at[m] \in Nat
      BY <1>1, <1>2, <1>7, <2>1, <3>2 DEF HasBeside
    <3>4. b \in Place(m)
      BY <1>2, <3>2, <3>3 DEF Place
    <3>5. side[m] = t[m][b]
      BY DEF SideOf
    <3> HIDE DEF b, side, at
    <3> QED
      BY <1>3, <3>3, <3>4, <3>5 DEF b
  <2> QED
    BY <2>1
<1>11. \A m \in 0..e : Climb(n, h, side)[m] = H[m][at[m]]
  <2>1. h = H[0][n]
    OBVIOUS
  <2>2. e \in Nat
    BY <1>7
  <2> HIDE DEF h, side
  <2> QED
    BY <1>10, <2>1, <2>2, ClimbRight
<1>12. \A k \in Nat : k <= e => Count(n + 1, k) = at[k] + 1
  <2> DEFINE K == {k \in Nat : k <= e => Count(n + 1, k) = at[k] + 1}
  <2>1. 0 \in K
    BY CountUp
  <2>2. ASSUME NEW k \in Nat, k \in K PROVE k + 1 \in K
    <3>1. CASE k < e
      <4>1. Count(n + 1, k) = at[k] + 1
        BY <1>7, <2>2, <3>1
      <4>2. at[k] % 2 # 0 \/ ~HasBeside(k, at[k])
        BY <1>8, <3>1
      <4>3. Count(n + 1, k + 1) = at[k + 1] + 1
        BY <4>1, <4>2, CountUp
      <4> QED
        BY <4>3
    <3>2. CASE ~(k < e)
      BY <1>7, <3>2
    <3> QED
      BY <3>1, <3>2
  <2>3. Nat \subseteq K
    <3> HIDE DEF K
    <3> QED
      BY <2>1, <2>2, SetInduction
  <2> QED
    BY <2>3
<1>13. \A k \in 0..Depth : k > e => Count(n + 1, k) = at[k]
  <2>1. ASSUME NEW k \in 0..Depth, k > e PROVE Count(n + 1, k) = at[k]
    <3>1. e # Depth /\ k \in Nat
      BY <1>1, <1>7, <2>1
    <3>2. HasBeside(e, at[e]) /\ at[e] % 2 = 0
      BY <1>5, <1>7, <3>1
    <3>3. Count(n + 1, e) = at[e] + 1
      BY <1>7, <1>12
    <3> QED
      BY <1>7, <2>1, <3>1, <3>2, <3>3, CountUp
  <2> QED
    BY <2>1
<1> HIDE DEF u, side, h, at
<1>14. ASSUME NEW l \in 0..Depth, NEW j \in Place(l) PROVE u[l][j] = s[l][j]
  <2>1. l \in Nat /\ j \in Nat /\ at[l] \in Nat
    BY <1>1, <1>2 DEF Place
  <2>2. s[l][j] = (IF j < Count(n + 1, l) THEN H[l][j] ELSE NoHash) /\ t[l][j] = IF j < at[l] THEN H[l][j] ELSE NoHash
    BY <1>3, <1>4
  <2>3. u[l][j] = IF l <= e /\ j = at[l] THEN Climb(n, h, side)[l] ELSE t[l][j]
    BY <1>9
  <2>4. CASE l <= e
    <3>1. l \in 0..e
      BY <1>7, <2>1, <2>4
    <3>2. Climb(n, h, side)[l] = H[l][at[l]]
      BY <1>11, <3>1
    <3>3. Count(n + 1, l) = at[l] + 1
      BY <1>12, <2>1, <2>4
    <3>4. j < at[l] + 1 <=> j < at[l] \/ j = at[l]
      BY <2>1
    <3>5. CASE j = at[l]
      BY <2>2, <2>3, <2>4, <3>2, <3>3, <3>4, <3>5
    <3>6. CASE j # at[l]
      BY <2>2, <2>3, <3>3, <3>4, <3>6
    <3> QED
      BY <3>5, <3>6
  <2>5. CASE ~(l <= e)
    <3>1. Count(n + 1, l) = at[l]
      BY <1>7, <1>13, <2>1, <2>5
    <3> QED
      BY <2>2, <2>3, <2>5, <3>1
  <2> QED
    BY <2>4, <2>5
<1>15. u = s
  BY <1>4, <1>9, <1>14, SameTree
<1> QED
  BY <1>15, Zenon DEF u, s, t, h
\* The tree of a peer that has the whole file.
LEMMA FullIs ==
  ASSUME NEW n \in 0..Chunks
  PROVE  FullTo[n] = Begun(NodeHash, n)
<1> DEFINE b == [m \in 0..Chunks |-> Begun(NodeHash, m)]
<1>0. Chunks \in Nat /\ Chunks # 0 /\ 0 \in 0..Chunks
  BY TreeAssumption
<1>1. Begun(NodeHash, 0) = Empty
  <2>1. ASSUME NEW k \in 0..Depth, NEW j \in Place(k) PROVE ~(j < Count(0, k))
    <3>1. 0 \in Chunk /\ k \in Nat /\ j \in Nat
      BY <1>0, DepthIs DEF Chunk, Place
    <3>2. Count(0, k) = Above(0)[k]
      BY <3>1, CountUp
    <3>3. Above(0)[k] = 0
      <4> DEFINE K == {m \in Nat : Above(0)[m] = 0}
      <4>0. \A a \in Nat : Above(a)[0] = a /\ \A m \in Nat : Above(a)[m + 1] = Above(a)[m] \div 2
        BY AboveIs
      <4>1. 0 \in K /\ \A m \in Nat : m \in K => m + 1 \in K
        BY <4>0
      <4>2. Nat \subseteq K
        <5> HIDE DEF K
        <5> QED
          BY <4>1, SetInduction
      <4> QED
        BY <3>1, <4>2
    <3> QED
      BY <3>1, <3>2, <3>3
  <2>2. \A k \in 0..Depth : [j \in Place(k) |-> IF j < Count(0, k) THEN NodeHash[k][j] ELSE NoHash] = [j \in Place(k) |-> NoHash]
    BY <2>1
  <2>3. Begun(NodeHash, 0) = [k \in 0..Depth |-> [j \in Place(k) |-> NoHash]]
    BY <2>2 DEF Begun
  <2> QED
    BY <2>3, Zenon DEF Empty, TreeOf
<1>2. ASSUME NEW m \in 0..Chunks, m # 0
      PROVE  Begun(NodeHash, m) = SetChunk(Begun(NodeHash, m - 1), m - 1, ChunkHash(m - 1))
  <2> DEFINE p == m - 1
  <2>1. p \in Chunk /\ p \in Nat /\ p + 1 = m
    BY <1>0, <1>2 DEF Chunk
  <2> HIDE DEF p
  <2>2. NodeHash[0][p] = ChunkHash(p)
    BY <2>1, NodeHashIs
  <2>3. SetChunk(Begun(NodeHash, p), p, NodeHash[0][p]) = Begun(NodeHash, p + 1)
    BY <2>1, NodeHashIs, SetNext
  <2> QED
    BY <2>1, <2>2, <2>3, Zenon DEF p
<1>3. ASSUME NEW m \in 0..Chunks
      PROVE  b[m] = IF m = 0 THEN Empty ELSE SetChunk(b[m - 1], m - 1, ChunkHash(m - 1))
  <2>1. CASE m = 0
    BY <1>0, <1>1, <2>1
  <2>2. CASE m # 0
    <3>1. m - 1 \in 0..Chunks
      BY <1>0, <2>2
    <3>2. b[m - 1] = Begun(NodeHash, m - 1) /\ b[m] = Begun(NodeHash, m)
      BY <3>1
    <3> QED
      BY <1>2, <2>2, <3>2
  <2> QED
    BY <2>1, <2>2
<1>4. b = [m \in 0..Chunks |-> IF m = 0 THEN Empty ELSE SetChunk(b[m - 1], m - 1, ChunkHash(m - 1))]
  <2>1. b = [m \in 0..Chunks |-> b[m]]
    OBVIOUS
  <2> HIDE DEF b
  <2> QED
    BY <1>3, <2>1
<1>5. FullTo = [m \in 0..Chunks |-> IF m = 0 THEN Empty ELSE SetChunk(FullTo[m - 1], m - 1, ChunkHash(m - 1))]
  <2> HIDE DEF b
  <2> QED
    BY <1>4, Zenon DEF FullTo
<1>6. \A m \in Nat : m < Chunks => FullTo[m + 1] = SetChunk(FullTo[m], m, ChunkHash(m)) /\ b[m + 1] = SetChunk(b[m], m, ChunkHash(m))
  <2> HIDE DEF b
  <2>1. ASSUME NEW m \in Nat, m < Chunks
        PROVE  FullTo[m + 1] = SetChunk(FullTo[m], m, ChunkHash(m)) /\ b[m + 1] = SetChunk(b[m], m, ChunkHash(m))
    <3> DEFINE q == m + 1
    <3>1. q \in 0..Chunks /\ q # 0 /\ q - 1 = m
      BY <1>0, <2>1
    <3> HIDE DEF q
    <3>2. FullTo[q] = SetChunk(FullTo[q - 1], q - 1, ChunkHash(q - 1)) /\ b[q] = SetChunk(b[q - 1], q - 1, ChunkHash(q - 1))
      BY <1>3, <1>5, <3>1
    <3> QED
      BY <3>1, <3>2 DEF q
  <2> QED
    BY <2>1
<1>7. FullTo[0] = b[0]
  BY <1>0, <1>1, <1>5
<1>8. \A m \in 0..Chunks : FullTo[m] = b[m]
  <2> HIDE DEF b
  <2>1. ASSUME NEW m \in Nat, m < Chunks, FullTo[m] = b[m] PROVE FullTo[m + 1] = b[m + 1]
    BY <1>6, <2>1
  <2> QED
    BY <1>0, <1>7, <2>1, SameSequence
<1> QED
  BY <1>8

LEMMA EmptyIs ==
  IsTree(Empty) /\ \A k \in 0..Depth : \A j \in Place(k) : Empty[k][j] = NoHash
<1>1. Empty = [k \in 0..Depth |-> [j \in Place(k) |-> NoHash]]
  BY Zenon DEF Empty, TreeOf
<1> QED
  BY <1>1 DEF IsTree

LEMMA WholeIs ==
  ASSUME NEW H
  PROVE  IsTree(Begun(H, Chunks)) /\ \A k \in 0..Depth : \A j \in Place(k) : Begun(H, Chunks)[k][j] = H[k][j]
<1>1. ASSUME NEW k \in 0..Depth, NEW j \in Place(k) PROVE j < Count(Chunks, k)
  <2>1. k \in Nat /\ Width[k] \in Nat
    BY DepthIs, WidthIs
  <2> QED
    BY <2>1 DEF Count, Place
<1>2. Chunks \in Nat
  BY TreeAssumption
<1> QED
  BY <1>1, <1>2, BegunIs

-----------------------------------------------------------------------------
(* The hashes that go with a chunk.                                        *)

\* Every hash that goes with a chunk is of a level with a node beside the path.
LEMMA LevelOfHash ==
  ASSUME NEW i \in Chunk, NEW m \in 1..Used(i)[Depth]
  PROVE  \E k \in Nat : k < Depth /\ HasBeside(k, Above(i)[k]) /\ LevelOf(i, m) = k /\ m = Used(i)[k] + 1
<1> DEFINE n == Used(i)
           T == {k \in Nat : n[k] >= m}
<1>1. Depth \in Nat /\ \A k \in Nat : n[k] \in Nat
  BY DepthIs, UsedIs
<1>2. m \in Nat /\ m > 0 /\ Depth \in T
  BY <1>1
<1>3. PICK q \in T : \A k \in T : q <= k
  <2> HIDE DEF T
  <2>1. T \in SUBSET Nat
    BY DEF T
  <2> QED
    BY <1>2, <2>1, LeastNumber
<1> DEFINE k == q - 1
<1>4. q # 0
  <2>1. n[0] = 0
    BY UsedIs
  <2> QED
    BY <1>2, <1>3, <2>1
<1>5. k \in Nat /\ k + 1 = q /\ k < Depth /\ ~(q <= k)
  BY <1>1, <1>2, <1>3, <1>4
<1> HIDE DEF k
<1>6. n[k + 1] = n[k] + (IF HasBeside(k, Above(i)[k]) THEN 1 ELSE 0)
  BY <1>5, UsedIs
<1> HIDE DEF n
<1>7. n[k + 1] >= m /\ n[k] < m
  BY <1>1, <1>2, <1>3, <1>5
<1>8. HasBeside(k, Above(i)[k]) /\ m = n[k] + 1
  BY <1>1, <1>2, <1>5, <1>6, <1>7
<1>9. LevelOf(i, n[k] + 1) = k
  BY <1>5, <1>8, LevelOfUsed DEF n
<1> QED
  BY <1>5, <1>8, <1>9 DEF n

\* What goes with a chunk from a tree that has the hashes beside it.
LEMMA HashesAre ==
  ASSUME NEW t, NEW i \in Chunk,
         \A k \in Nat : k < Depth /\ HasBeside(k, Above(i)[k]) => t[k][Beside(Above(i)[k])] = NodeHash[k][Beside(Above(i)[k])]
  PROVE  GetHashes(t, i) = [m \in 1..Used(i)[Depth] |-> NodeHash[LevelOf(i, m)][Beside(Above(i)[LevelOf(i, m)])]]
<1>1. ASSUME NEW m \in 1..Used(i)[Depth]
      PROVE  t[LevelOf(i, m)][Beside(Above(i)[LevelOf(i, m)])] = NodeHash[LevelOf(i, m)][Beside(Above(i)[LevelOf(i, m)])]
  <2>1. PICK k \in Nat : k < Depth /\ HasBeside(k, Above(i)[k]) /\ LevelOf(i, m) = k
    BY LevelOfHash
  <2>2. t[k][Beside(Above(i)[k])] = NodeHash[k][Beside(Above(i)[k])]
    BY <2>1
  <2> QED
    BY <2>1, <2>2, Zenon
<1> QED
  BY <1>1, Zenon DEF GetHashes

\* The hashes a peer that has the file sends.
LEMMA ProofIs ==
  ASSUME NEW i \in Chunk
  PROVE  /\ Proof[i] = [m \in 1..Used(i)[Depth] |-> NodeHash[LevelOf(i, m)][Beside(Above(i)[LevelOf(i, m)])]]
         /\ Len(Proof[i]) = Used(i)[Depth] /\ DOMAIN Proof[i] = 1..Used(i)[Depth]
         /\ \A k \in Nat : k < Depth /\ HasBeside(k, Above(i)[k]) => Proof[i][Used(i)[k] + 1] = NodeHash[k][Beside(Above(i)[k])]
<1> DEFINE t == FullTo[Chunks]
           p == [m \in 1..Used(i)[Depth] |-> NodeHash[LevelOf(i, m)][Beside(Above(i)[LevelOf(i, m)])]]
<1>1. Depth \in Nat /\ Chunks \in Nat /\ Chunks \in 0..Chunks /\ Used(i)[Depth] \in Nat
  <2>1. Depth \in Nat /\ Chunks \in Nat
    BY DepthIs, TreeAssumption
  <2> QED
    BY <2>1, UsedIs
<1>2. ASSUME NEW k \in Nat, k < Depth, HasBeside(k, Above(i)[k])
      PROVE  t[k][Beside(Above(i)[k])] = NodeHash[k][Beside(Above(i)[k])]
  <2> DEFINE b == Beside(Above(i)[k])
  <2>1. Above(i)[k] \in Nat /\ Width[k] \in Nat
    BY AboveInPlace, WidthIs
  <2>2. b \in Nat
    BY <2>1, BesideIs
  <2>3. b \in Place(k) /\ k \in 0..Depth
    BY <1>1, <1>2, <2>1, <2>2 DEF HasBeside, Place
  <2>4. t = Begun(NodeHash, Chunks)
    BY <1>1, FullIs
  <2> HIDE DEF t, b
  <2>5. t[k][b] = NodeHash[k][b]
    BY <2>3, <2>4, WholeIs
  <2> QED
    BY <2>5 DEF b
<1>3. GetHashes(t, i) = p
  <2> HIDE DEF t
  <2> QED
    BY <1>2, HashesAre
<1>4. Proof[i] = p
  BY <1>3 DEF Proof
<1>5. DOMAIN p = 1..Used(i)[Depth] /\ p = [m \in 1..Used(i)[Depth] |-> p[m]]
  OBVIOUS
<1>6. ASSUME NEW k \in Nat, k < Depth, HasBeside(k, Above(i)[k]) PROVE p[Used(i)[k] + 1] = NodeHash[k][Beside(Above(i)[k])]
  <2> DEFINE m == Used(i)[k] + 1
  <2>1. m \in 1..Used(i)[Depth] /\ LevelOf(i, m) = k
    BY <1>6, LevelOfUsed
  <2> HIDE DEF m
  <2>2. p[m] = NodeHash[LevelOf(i, m)][Beside(Above(i)[LevelOf(i, m)])]
    BY <2>1
  <2> HIDE DEF p
  <2>3. p[m] = NodeHash[k][Beside(Above(i)[k])]
    BY <2>1, <2>2, Zenon
  <2> QED
    BY <2>3 DEF m
<1>7. Len(p) = Used(i)[Depth]
  BY <1>1
<1> HIDE DEF p
<1>8. /\ Len(Proof[i]) = Used(i)[Depth] /\ DOMAIN Proof[i] = 1..Used(i)[Depth]
      /\ \A k \in Nat : k < Depth /\ HasBeside(k, Above(i)[k]) => Proof[i][Used(i)[k] + 1] = NodeHash[k][Beside(Above(i)[k])]
  BY <1>4, <1>5, <1>6, <1>7
<1> QED
  BY <1>4, <1>8, Zenon DEF p
-----------------------------------------------------------------------------
(* The root is the merkle_hash of the torrent.                             *)

\* The hash of a tree that is done, from the trees below it and the last chunk.
Heaped(map, h) == LET up[k \in Nat] == IF k = 0 THEN h ELSE <<map[k - 1], up[k - 1]>> IN up

LEMMA HeapedIs ==
  ASSUME NEW map, NEW h
  PROVE  Heaped(map, h)[0] = h /\ \A k \in Nat : Heaped(map, h)[k + 1] = <<map[k], Heaped(map, h)[k]>>
<1> DEFINE B == {h} \cup {map[k] : k \in Nat}
           step(k, x) == <<map[k], x>>
<1>1. PICK S : B \subseteq S /\ \A x, y \in S : <<x, y>> \in S
  BY PairsOf
<1> DEFINE g == [k \in Nat |-> [x \in S |-> step(k, x)]]
<1>2. ASSUME NEW k \in Nat, NEW x \in S PROVE step(k, x) \in S
  <2>1. map[k] \in S
    BY <1>1
  <2> QED
    BY <1>1, <2>1
<1>3. h \in S
  BY <1>1
<1> HIDE DEF step
<1>4. g \in [Nat -> [S -> S]]
  BY <1>2
<1>5. PICK f \in [Nat -> S] : f = [k \in Nat |-> IF k = 0 THEN h ELSE g[k - 1][f[k - 1]]]
  <2> HIDE DEF g
  <2> QED
    BY <1>3, <1>4, Recursion
<1>6. f = [k \in Nat |-> IF k = 0 THEN h ELSE step(k - 1, f[k - 1])]
  <2>1. ASSUME NEW k \in Nat
        PROVE  (IF k = 0 THEN h ELSE g[k - 1][f[k - 1]]) = IF k = 0 THEN h ELSE step(k - 1, f[k - 1])
    OBVIOUS
  <2> HIDE DEF g
  <2> QED
    BY <1>5, <2>1
<1> DEFINE up == CHOOSE up : up = [k \in Nat |-> IF k = 0 THEN h ELSE <<map[k - 1], up[k - 1]>>]
<1>7. up = [k \in Nat |-> IF k = 0 THEN h ELSE <<map[k - 1], up[k - 1]>>]
  <2>1. f = [k \in Nat |-> IF k = 0 THEN h ELSE <<map[k - 1], f[k - 1]>>]
    BY <1>6, Zenon DEF step
  <2> QED
    BY <2>1, Zenon
<1>8. Heaped(map, h) = up
  BY Zenon DEF Heaped
<1> HIDE DEF up
<1>9. up[0] = h /\ \A k \in Nat : up[k + 1] = <<map[k], up[k]>>
  BY <1>7
<1> QED
  BY <1>8, <1>9

\* The trees that are done when one of height q is.
Topped(map, h, q) == [k \in {m \in DOMAIN map : m > q} \cup {q} |-> IF k = q THEN Heaped(map, h)[q] ELSE map[k]]

LEMMA AddedIs ==
  ASSUME NEW map, NEW h, NEW q \in 0..Chunks, q \notin DOMAIN map, \A m \in 0..(q - 1) : m \in DOMAIN map
  PROVE  Added(map, h) = Topped(map, h, q)
<1> DEFINE Free(k) == k \notin DOMAIN map /\ \A m \in 0..(k - 1) : m \in DOMAIN map
           i == CHOOSE k \in 0..Chunks : Free(k)
<1>1. i = q
  <2>1. ASSUME NEW k \in 0..Chunks, Free(k) PROVE k = q
    <3>1. ~(k \in 0..(q - 1)) /\ ~(q \in 0..(k - 1))
      BY <2>1
    <3> QED
      BY <3>1, TreeAssumption
  <2>2. Free(q)
    OBVIOUS
  <2> HIDE DEF Free
  <2> QED
    BY <2>1, <2>2
<1>2. Added(map, h) = Topped(map, h, i)
  BY Zenon DEF Added, Heaped, Topped
<1> HIDE DEF i
<1> QED
  BY <1>1, <1>2

\* One more chunk: the nodes above it become even up to the first that already is.
LEMMA CarryUp ==
  ASSUME NEW n \in Nat
  PROVE  /\ Above(n + 1)[0] = Above(n)[0] + 1
         /\ \A k \in Nat : Above(n + 1)[k] = Above(n)[k] + 1 /\ Above(n)[k] % 2 # 0 => Above(n + 1)[k + 1] = Above(n)[k + 1] + 1
         /\ \A k \in Nat : Above(n + 1)[k] = Above(n)[k] + 1 /\ Above(n)[k] % 2 = 0 => \A m \in Nat : m > k => Above(n + 1)[m] = Above(n)[m]
<1> DEFINE p == n + 1
<1>1. p \in Nat
  OBVIOUS
<1> HIDE DEF p
<1>2. /\ Above(n)[0] = n /\ Above(p)[0] = p
      /\ \A k \in Nat : /\ Above(n)[k] \in Nat /\ Above(n)[k + 1] = Above(n)[k] \div 2
                        /\ Above(p)[k] \in Nat /\ Above(p)[k + 1] = Above(p)[k] \div 2
  BY <1>1, AboveIs
<1>3. ASSUME NEW k \in Nat, Above(p)[k] = Above(n)[k] + 1, Above(n)[k] % 2 # 0 PROVE Above(p)[k + 1] = Above(n)[k + 1] + 1
  <2> DEFINE a == Above(n)[k]
  <2>1. a \in Nat /\ a % 2 # 0
    BY <1>2, <1>3
  <2> HIDE DEF a
  <2>2. (a + 1) \div 2 = (a \div 2) + 1
    BY <2>1
  <2> QED
    BY <1>2, <1>3, <2>2 DEF a
<1>4. ASSUME NEW k \in Nat, Above(p)[k] = Above(n)[k] + 1, Above(n)[k] % 2 = 0, NEW m \in Nat, m > k PROVE Above(p)[m] = Above(n)[m]
  <2> DEFINE a == Above(n)[k]
  <2>1. a \in Nat /\ a % 2 = 0
    BY <1>2, <1>4
  <2>2. Above(p)[k + 1] = Above(n)[k + 1]
    <3> HIDE DEF a
    <3>1. (a + 1) \div 2 = a \div 2
      BY <2>1
    <3> QED
      BY <1>2, <1>4, <3>1 DEF a
  <2>3. k + 1 \in Nat /\ m >= k + 1
    BY <1>4
  <2> QED
    BY <1>1, <2>2, <2>3, AboveMeet
<1> QED
  BY <1>2, <1>3, <1>4 DEF p

\* The trees that are done after n chunks.
Heap(n) == [k \in {m \in Nat : Above(n)[m] % 2 # 0} |-> NodeHash[k][Above(n)[k] - 1]]

LEMMA HeapNext ==
  ASSUME NEW n \in Chunk
  PROVE  Added(Heap(n), ChunkHash(n)) = Heap(n + 1)
<1> DEFINE at == Above(n)
           h == ChunkHash(n)
           map == Heap(n)
<1>1. n \in Nat /\ Chunks \in Nat /\ Depth \in 0..Chunks
  BY AboveInPlace, TreeAssumption, DepthIs
<1>2. at[0] = n /\ \A k \in Nat : at[k] \in Nat /\ at[k] < Width[k] /\ Width[k] \in Nat /\ at[k + 1] = at[k] \div 2
  BY <1>1, AboveIs, AboveInPlace, WidthIs
<1> DEFINE T == {k \in Nat : at[k] % 2 = 0}
<1>3. PICK q \in T : \A k \in T : q <= k
  <2>1. at[Chunks] = 0
    BY <1>1, AboveInPlace
  <2>2. Chunks \in T
    BY <1>1, <2>1
  <2>3. T \in SUBSET Nat
    OBVIOUS
  <2> HIDE DEF T
  <2> QED
    BY <2>2, <2>3, LeastNumber
<1>4. q \in Nat /\ q <= Chunks /\ at[q] % 2 = 0
  <2>1. at[Chunks] = 0
    BY <1>1, AboveInPlace
  <2>2. Chunks \in T
    BY <1>1, <2>1
  <2> QED
    BY <1>3, <2>2
<1>5. \A k \in Nat : k < q => at[k] % 2 # 0
  BY <1>3
<1> HIDE DEF T
<1>6. DOMAIN map = {m \in Nat : at[m] % 2 # 0} /\ \A k \in Nat : at[k] % 2 # 0 => map[k] = NodeHash[k][at[k] - 1]
  BY DEF Heap
<1> HIDE DEF map, at
<1> DEFINE A == Added(map, h)
           up == Heaped(map, h)
<1>7. A = [k \in {m \in DOMAIN map : m > q} \cup {q} |-> IF k = q THEN up[q] ELSE map[k]]
  <2>1. q \in 0..Chunks /\ q \notin DOMAIN map /\ \A m \in 0..(q - 1) : m \in DOMAIN map
    BY <1>1, <1>4, <1>5, <1>6
  <2>2. A = Topped(map, h, q)
    <3> HIDE DEF h
    <3> QED
      BY <2>1, AddedIs, Zenon
  <2> QED
    BY <2>2, Zenon DEF Topped
<1>8. up[q] = NodeHash[q][at[q]]
  <2> DEFINE g == [k \in Nat |-> NodeHash[k][at[k]]]
  <2>1. up[0] = g[0]
    BY <1>1, <1>2, HeapedIs, NodeHashIs
  <2>2. ASSUME NEW k \in Nat, k < q, up[k] = g[k] PROVE up[k + 1] = g[k + 1]
    <3>1. at[k] % 2 # 0 /\ at[k] \in Nat /\ at[k] < Width[k] /\ Width[k] \in Nat
      BY <1>2, <1>5, <2>2
    <3>2. Beside(at[k]) = at[k] - 1 /\ HasBeside(k, at[k])
      BY <3>1, BesideIs DEF HasBeside
    <3>3. NodeHash[k + 1][at[k] \div 2] = IF HasBeside(k, at[k]) THEN Join(at[k], NodeHash[k][at[k]], NodeHash[k][Beside(at[k])]) ELSE NodeHash[k][at[k]]
      BY <3>1, NodeHashIs, NodeUp
    <3>4. NodeHash[k + 1][at[k + 1]] = <<NodeHash[k][at[k] - 1], NodeHash[k][at[k]]>>
      BY <1>2, <3>1, <3>2, <3>3 DEF Join
    <3>5. up[k + 1] = <<map[k], up[k]>>
      BY HeapedIs
    <3>6. map[k] = NodeHash[k][at[k] - 1]
      BY <1>6, <3>1
    <3> QED
      BY <2>2, <3>4, <3>5, <3>6
  <2>3. \A k \in 0..q : up[k] = g[k]
    <3> HIDE DEF up, g
    <3> QED
      BY <1>4, <2>1, <2>2, SameSequence
  <2> QED
    BY <1>4, <2>3
<1> HIDE DEF A, up, h
<1> DEFINE n1 == n + 1
           on == Above(n1)
<1>9. \A k \in Nat : k <= q => on[k] = at[k] + 1
  <2> DEFINE K == {k \in Nat : k <= q => on[k] = at[k] + 1}
  <2>1. 0 \in K
    BY <1>1, CarryUp DEF at
  <2>2. ASSUME NEW k \in Nat, k \in K PROVE k + 1 \in K
    <3>1. CASE k < q
      <4>1. on[k] = at[k] + 1 /\ at[k] % 2 # 0
        BY <1>4, <1>5, <2>2, <3>1
      <4> QED
        BY <1>1, <4>1, CarryUp DEF at
    <3>2. CASE ~(k < q)
      BY <1>4, <3>2
    <3> QED
      BY <3>1, <3>2
  <2>3. Nat \subseteq K
    <3> HIDE DEF K
    <3> QED
      BY <2>1, <2>2, SetInduction
  <2> QED
    BY <2>3
<1>10. \A m \in Nat : m > q => on[m] = at[m]
  <2>1. on[q] = at[q] + 1
    BY <1>4, <1>9
  <2> QED
    BY <1>1, <1>4, <2>1, CarryUp DEF at
<1> HIDE DEF on, n1
<1>11. ASSUME NEW m \in Nat PROVE on[m] % 2 # 0 <=> (m > q /\ at[m] % 2 # 0) \/ m = q
  <2>0. at[m] \in Nat
    BY <1>2
  <2>1. CASE m > q
    BY <1>10, <2>1
  <2>2. CASE m <= q
    <3>1. on[m] = at[m] + 1
      BY <1>9, <2>2
    <3>2. (at[m] + 1) % 2 # 0 <=> at[m] % 2 = 0
      BY <2>0
    <3>3. at[m] % 2 = 0 <=> m = q
      BY <1>4, <1>5, <2>2
    <3>4. ~(m > q)
      BY <1>4, <2>2
    <3> QED
      BY <3>1, <3>2, <3>3, <3>4
  <2> QED
    BY <1>4, <2>1, <2>2
<1>12. {m \in DOMAIN map : m > q} \cup {q} = {m \in Nat : on[m] % 2 # 0}
  BY <1>4, <1>6, <1>11
<1>13. ASSUME NEW k \in {m \in Nat : on[m] % 2 # 0} PROVE (IF k = q THEN up[q] ELSE map[k]) = NodeHash[k][on[k] - 1]
  <2>1. CASE k = q
    <3>1. on[k] = at[k] + 1 /\ at[k] \in Nat
      BY <1>2, <1>4, <1>9, <2>1
    <3>2. on[k] - 1 = at[k]
      BY <3>1
    <3> QED
      BY <1>8, <2>1, <3>2
  <2>2. CASE k # q
    <3>1. k > q /\ at[k] % 2 # 0 /\ on[k] = at[k]
      BY <1>10, <1>11, <2>2
    <3> QED
      BY <1>6, <2>2, <3>1
  <2> QED
    BY <2>1, <2>2
<1>14. A = [k \in {m \in Nat : on[m] % 2 # 0} |-> NodeHash[k][on[k] - 1]]
  BY <1>7, <1>12, <1>13
<1> QED
  BY <1>14, Zenon DEF Heap, A, on, n1, map, h
LEMMA DoneIs == Done[Chunks] = Heap(Chunks)
<1> DEFINE b == [m \in 0..Chunks |-> Heap(m)]
<1>0. Chunks \in Nat /\ Chunks # 0 /\ 0 \in 0..Chunks
  BY TreeAssumption
<1>1. Heap(0) = <<>>
  <2>1. \A m \in Nat : Above(0)[m] = 0
    <3> DEFINE K == {m \in Nat : Above(0)[m] = 0}
    <3>0. \A a \in Nat : Above(a)[0] = a /\ \A m \in Nat : Above(a)[m + 1] = Above(a)[m] \div 2
      BY AboveIs
    <3>1. 0 \in K /\ \A m \in Nat : m \in K => m + 1 \in K
      BY <3>0
    <3>2. Nat \subseteq K
      <4> HIDE DEF K
      <4> QED
        BY <3>1, SetInduction
    <3> QED
      BY <3>2
  <2>2. {m \in Nat : Above(0)[m] % 2 # 0} = {}
    BY <2>1
  <2> QED
    BY <2>2 DEF Heap
<1>2. ASSUME NEW m \in 0..Chunks, m # 0
      PROVE  Heap(m) = Added(Heap(m - 1), ChunkHash(m - 1))
  <2> DEFINE p == m - 1
  <2>1. p \in Chunk /\ p + 1 = m
    BY <1>0, <1>2 DEF Chunk
  <2> HIDE DEF p
  <2>2. Added(Heap(p), ChunkHash(p)) = Heap(p + 1)
    BY <2>1, HeapNext
  <2> QED
    BY <2>1, <2>2, Zenon DEF p
<1>3. ASSUME NEW m \in 0..Chunks
      PROVE  b[m] = IF m = 0 THEN <<>> ELSE Added(b[m - 1], ChunkHash(m - 1))
  <2>1. CASE m = 0
    BY <1>0, <1>1, <2>1
  <2>2. CASE m # 0
    <3>1. m - 1 \in 0..Chunks
      BY <1>0, <2>2
    <3>2. b[m - 1] = Heap(m - 1) /\ b[m] = Heap(m)
      BY <3>1
    <3> QED
      BY <1>2, <2>2, <3>2
  <2> QED
    BY <2>1, <2>2
<1>4. b = [m \in 0..Chunks |-> IF m = 0 THEN <<>> ELSE Added(b[m - 1], ChunkHash(m - 1))]
  <2>1. b = [m \in 0..Chunks |-> b[m]]
    OBVIOUS
  <2> HIDE DEF b
  <2> QED
    BY <1>3, <2>1
<1>5. Done = [m \in 0..Chunks |-> IF m = 0 THEN <<>> ELSE Added(Done[m - 1], ChunkHash(m - 1))]
  <2> HIDE DEF b
  <2> QED
    BY <1>4, Zenon DEF Done
<1>6. ASSUME NEW m \in Nat, m < Chunks, Done[m] = b[m] PROVE Done[m + 1] = b[m + 1]
  <2> HIDE DEF b
  <2> DEFINE q == m + 1
  <2>1. q \in 0..Chunks /\ q # 0 /\ q - 1 = m
    BY <1>0, <1>6
  <2> HIDE DEF q
  <2>2. Done[q] = Added(Done[q - 1], ChunkHash(q - 1)) /\ b[q] = Added(b[q - 1], ChunkHash(q - 1))
    BY <1>3, <1>5, <2>1
  <2>3. Done[q - 1] = b[q - 1]
    BY <1>6, <2>1
  <2> QED
    BY <2>2, <2>3 DEF q
<1>7. Done[0] = b[0]
  BY <1>0, <1>1, <1>5
<1>8. \A m \in 0..Chunks : Done[m] = b[m]
  <2> HIDE DEF b
  <2> QED
    BY <1>0, <1>6, <1>7, SameSequence
<1> QED
  BY <1>0, <1>8

\* What the trees that are done fold to, the lowest first.
Lows(map) ==
  LET low[k \in Nat] == IF k = 0 THEN NoHash
                        ELSE IF k - 1 \notin DOMAIN map THEN low[k - 1]
                        ELSE IF low[k - 1] = NoHash THEN map[k - 1]
                        ELSE <<map[k - 1], low[k - 1]>>
  IN low

LEMMA LowsAre ==
  ASSUME NEW map
  PROVE  /\ Lows(map)[0] = NoHash
         /\ \A k \in Nat : Lows(map)[k + 1] =
              IF k \notin DOMAIN map THEN Lows(map)[k]
              ELSE IF Lows(map)[k] = NoHash THEN map[k] ELSE <<map[k], Lows(map)[k]>>
<1> DEFINE B == {NoHash} \cup {map[k] : k \in Nat}
           step(k, x) == IF k \notin DOMAIN map THEN x ELSE IF x = NoHash THEN map[k] ELSE <<map[k], x>>
<1>1. PICK S : B \subseteq S /\ \A x, y \in S : <<x, y>> \in S
  BY PairsOf
<1> DEFINE g == [k \in Nat |-> [x \in S |-> step(k, x)]]
<1>2. ASSUME NEW k \in Nat, NEW x \in S PROVE step(k, x) \in S
  <2>1. map[k] \in S
    BY <1>1
  <2>2. <<map[k], x>> \in S
    BY <1>1, <2>1
  <2> QED
    BY <2>1, <2>2
<1>3. NoHash \in S
  BY <1>1
<1> HIDE DEF step
<1>4. g \in [Nat -> [S -> S]]
  BY <1>2
<1>5. PICK f \in [Nat -> S] : f = [k \in Nat |-> IF k = 0 THEN NoHash ELSE g[k - 1][f[k - 1]]]
  <2> HIDE DEF g
  <2> QED
    BY <1>3, <1>4, Recursion
<1>6. f = [k \in Nat |-> IF k = 0 THEN NoHash ELSE step(k - 1, f[k - 1])]
  <2>1. ASSUME NEW k \in Nat
        PROVE  (IF k = 0 THEN NoHash ELSE g[k - 1][f[k - 1]]) = IF k = 0 THEN NoHash ELSE step(k - 1, f[k - 1])
    OBVIOUS
  <2> HIDE DEF g
  <2> QED
    BY <1>5, <2>1
<1> DEFINE low == CHOOSE low : low = [k \in Nat |-> IF k = 0 THEN NoHash
                        ELSE IF k - 1 \notin DOMAIN map THEN low[k - 1]
                        ELSE IF low[k - 1] = NoHash THEN map[k - 1]
                        ELSE <<map[k - 1], low[k - 1]>>]
<1>7. low = [k \in Nat |-> IF k = 0 THEN NoHash ELSE step(k - 1, low[k - 1])]
  <2>1. f = [k \in Nat |-> IF k = 0 THEN NoHash
                        ELSE IF k - 1 \notin DOMAIN map THEN f[k - 1]
                        ELSE IF f[k - 1] = NoHash THEN map[k - 1]
                        ELSE <<map[k - 1], f[k - 1]>>]
    BY <1>6, Zenon DEF step
  <2>2. low = [k \in Nat |-> IF k = 0 THEN NoHash
                        ELSE IF k - 1 \notin DOMAIN map THEN low[k - 1]
                        ELSE IF low[k - 1] = NoHash THEN map[k - 1]
                        ELSE <<map[k - 1], low[k - 1]>>]
    BY <2>1, Zenon
  <2> QED
    BY <2>2, Zenon DEF step
<1>8. Lows(map) = low
  BY Zenon DEF Lows
<1> HIDE DEF low
<1>9. low[0] = NoHash /\ \A k \in Nat : low[k + 1] = step(k, low[k])
  BY <1>7
<1> QED
  BY <1>8, <1>9 DEF step

\* compute_root of the chunks is the root of the tree that set() fills.
LEMMA MerkleHashIs == MerkleHash = NodeHash[Depth][0]
<1> DEFINE map == Heap(Chunks)
           low == Lows(map)
           at == Above(Chunks)
           wd == Width
           Low(k) == IF wd[k] = at[k] THEN NoHash ELSE NodeHash[k][at[k]]
           K == {k \in Nat : (wd[k] = at[k] \/ wd[k] = at[k] + 1) /\ low[k] = Low(k)}
<1>1. MerkleHash = low[Chunks]
  <2>1. Folded(map) = low[Chunks]
    BY Zenon DEF Folded, Lows
  <2> QED
    BY <2>1, DoneIs DEF MerkleHash
<1>2. Chunks \in Nat /\ at[0] = Chunks /\ \A k \in Nat : at[k] \in Nat /\ at[k + 1] = at[k] \div 2
  BY AboveIs, TreeAssumption
<1>3. wd[0] = Chunks /\ \A k \in Nat : wd[k] \in Nat /\ wd[k] # 0 /\ wd[k + 1] = (wd[k] + 1) \div 2
  BY WidthIs
<1>4. DOMAIN map = {m \in Nat : at[m] % 2 # 0} /\ \A k \in Nat : at[k] % 2 # 0 => map[k] = NodeHash[k][at[k] - 1]
  BY DEF Heap
<1>5. low[0] = NoHash /\ \A k \in Nat : low[k + 1] = IF k \notin DOMAIN map THEN low[k] ELSE IF low[k] = NoHash THEN map[k] ELSE <<map[k], low[k]>>
  BY LowsAre
<1>6. \A k \in Nat : NodeHash[k + 1][at[k + 1]] =
        IF 2 * at[k + 1] + 1 < wd[k] THEN <<NodeHash[k][2 * at[k + 1]], NodeHash[k][2 * at[k + 1] + 1]>> ELSE NodeHash[k][2 * at[k + 1]]
  <2>1. ASSUME NEW k \in Nat
        PROVE NodeHash[k + 1][at[k + 1]] =
          IF 2 * at[k + 1] + 1 < wd[k] THEN <<NodeHash[k][2 * at[k + 1]], NodeHash[k][2 * at[k + 1] + 1]>> ELSE NodeHash[k][2 * at[k + 1]]
    <3> DEFINE a == at[k + 1]
    <3>1. k + 1 \in Nat
      OBVIOUS
    <3>2. a \in Nat
      <4> HIDE DEF at
      <4> QED
        BY <1>2, <3>1
    <3> HIDE DEF a
    <3>3. NodeHash[k + 1][a] = IF 2 * a + 1 < wd[k] THEN <<NodeHash[k][2 * a], NodeHash[k][2 * a + 1]>> ELSE NodeHash[k][2 * a]
      BY <3>2, NodeHashIs DEF Paired
    <3> QED
      BY <3>3 DEF a
  <2> QED
    BY <2>1
<1>7. \A k, j \in Nat : NodeHash[k][j] # NoHash
  BY NodeHashIs
<1> HIDE DEF map, low, at, wd
<1>8. 0 \in K
  BY <1>2, <1>3, <1>5
<1>9. ASSUME NEW k \in Nat, k \in K PROVE k + 1 \in K
  <2> DEFINE a == at[k]
             dd == at[k + 1]
             ws == wd[k]
             x == wd[k + 1]
             N == NodeHash[k]
             l == low[k]
             m == low[k + 1]
  <2>1. a \in Nat /\ dd = a \div 2 /\ ws \in Nat /\ x = (ws + 1) \div 2 /\ (ws = a \/ ws = a + 1)
    BY <1>2, <1>3, <1>9
  <2>2. l = IF ws = a THEN NoHash ELSE N[a]
    BY <1>9
  <2>3. m = IF a % 2 = 0 THEN l ELSE IF l = NoHash THEN N[a - 1] ELSE <<N[a - 1], l>>
    <3>1. k \in DOMAIN map <=> a % 2 # 0
      BY <1>4
    <3>2. a % 2 # 0 => map[k] = N[a - 1]
      BY <1>4
    <3> QED
      BY <1>5, <3>1, <3>2
  <2>4. NodeHash[k + 1][dd] = IF 2 * dd + 1 < ws THEN <<N[2 * dd], N[2 * dd + 1]>> ELSE N[2 * dd]
    BY <1>6
  <2>5. N[a] # NoHash
    BY <1>7, <2>1
  <2> HIDE DEF a, dd, ws, x, N, l, m
  <2>6. (x = dd \/ x = dd + 1) /\ m = IF x = dd THEN NoHash ELSE NodeHash[k + 1][dd]
    <3>1. CASE a % 2 = 0 /\ ws = a
      <4>1. x = dd
        BY <2>1, <3>1
      <4> QED
        BY <2>2, <2>3, <3>1, <4>1
    <3>2. CASE a % 2 = 0 /\ ws = a + 1
      <4>1. x = dd + 1 /\ 2 * dd = a /\ ~(2 * dd + 1 < ws) /\ ws # a /\ x # dd
        BY <2>1, <3>2
      <4> QED
        BY <2>2, <2>3, <2>4, <3>2, <4>1
    <3>3. CASE a % 2 # 0 /\ ws = a
      <4>1. x = dd + 1 /\ 2 * dd = a - 1 /\ ~(2 * dd + 1 < ws) /\ x # dd
        BY <2>1, <3>3
      <4> QED
        BY <2>2, <2>3, <2>4, <3>3, <4>1
    <3>4. CASE a % 2 # 0 /\ ws = a + 1
      <4>1. x = dd + 1 /\ 2 * dd = a - 1 /\ 2 * dd + 1 = a /\ 2 * dd + 1 < ws /\ ws # a /\ x # dd
        BY <2>1, <3>4
      <4>2. NodeHash[k + 1][dd] = <<N[a - 1], N[a]>>
        BY <2>4, <4>1
      <4>3. m = <<N[a - 1], N[a]>>
        BY <2>2, <2>3, <2>5, <3>4, <4>1
      <4> QED
        BY <4>1, <4>2, <4>3
    <3> QED
      BY <2>1, <3>1, <3>2, <3>3, <3>4
  <2> QED
    BY <2>6 DEF dd, x, m
<1>10. Nat \subseteq K
  <2> HIDE DEF K
  <2> QED
    BY <1>8, <1>9, SetInduction
<1>11. \A k \in Nat : at[k] = 0 \/ at[k] + k <= Chunks
  <2> DEFINE J == {k \in Nat : at[k] = 0 \/ at[k] + k <= Chunks}
  <2>1. 0 \in J
    BY <1>2
  <2>2. ASSUME NEW k \in Nat, k \in J PROVE k + 1 \in J
    <3> DEFINE a == at[k]
               dd == at[k + 1]
    <3>1. a \in Nat /\ dd = a \div 2 /\ (a = 0 \/ a + k <= Chunks)
      BY <1>2, <2>2
    <3> HIDE DEF a, dd
    <3>2. dd = 0 \/ dd + (k + 1) <= Chunks
      BY <1>2, <3>1
    <3> QED
      BY <3>2 DEF dd
  <2>3. Nat \subseteq J
    <3> HIDE DEF J
    <3> QED
      BY <2>1, <2>2, SetInduction
  <2> QED
    BY <2>3
<1>12. at[Chunks] = 0
  BY <1>2, <1>11
<1>13. Depth \in Nat /\ Depth <= Chunks /\ \A k \in Nat : k >= Depth => wd[k] = 1
  BY <1>2, DepthIs DEF wd
<1>14. low[Chunks] = NodeHash[Chunks][0]
  <2>1. Chunks \in K /\ wd[Chunks] = 1
    BY <1>2, <1>10, <1>13
  <2> QED
    BY <1>12, <2>1
<1>15. \A k \in Nat : k >= Depth => NodeHash[k][0] = NodeHash[Depth][0]
  <2> DEFINE J == {k \in Nat : k >= Depth => NodeHash[k][0] = NodeHash[Depth][0]}
  <2>1. 0 \in J
    BY <1>13
  <2>2. ASSUME NEW k \in Nat, k \in J PROVE k + 1 \in J
    <3>1. CASE k >= Depth
      <4>1. NodeHash[k + 1][0] = IF 2 * 0 + 1 < wd[k] THEN <<NodeHash[k][2 * 0], NodeHash[k][2 * 0 + 1]>> ELSE NodeHash[k][2 * 0]
        BY NodeHashIs DEF Paired, wd
      <4>2. wd[k] = 1
        BY <1>13, <3>1
      <4> QED
        BY <2>2, <3>1, <4>1, <4>2
    <3>2. CASE ~(k >= Depth)
      <4>1. k + 1 >= Depth => k + 1 = Depth
        BY <1>13, <3>2
      <4> QED
        BY <4>1
    <3> QED
      BY <3>1, <3>2
  <2>3. Nat \subseteq J
    <3> HIDE DEF J
    <3> QED
      BY <2>1, <2>2, SetInduction
  <2> QED
    BY <2>3
<1> QED
  BY <1>1, <1>2, <1>13, <1>14, <1>15
-----------------------------------------------------------------------------
(* Chunks that are received.                                               *)

\* The lowest node that is known on the path of a chunk is right, whoever sent it.
LowestRight(t) ==
  \A i \in Chunk : \A k \in 0..Depth :
    t[k][Above(i)[k]] # NoHash /\ (\A m \in 0..(k - 1) : t[m][Above(i)[m]] = NoHash)
    => t[k][Above(i)[k]] = NodeHash[k][Above(i)[k]]

\* A node on the path of chunk i is known, at level m or below.
Knows(t, i, m) == \E k \in 0..m : t[k][Above(i)[k]] # NoHash

\* If something is known below a node, something is known below the one beside it.
Covered(t) ==
  \A a, b \in Chunk : \A m \in Nat :
    m < Depth /\ Above(b)[m] = Beside(Above(a)[m]) /\ Knows(t, a, m) => Knows(t, b, m)

LEMMA BesideInPlace ==
  ASSUME NEW i \in Chunk, NEW k \in Nat
  PROVE  /\ Beside(Above(i)[k]) \in Nat
         /\ HasBeside(k, Above(i)[k]) <=> Beside(Above(i)[k]) \in Place(k)
         /\ HasBeside(k, Above(i)[k]) => \E b \in Chunk : Above(b)[k] = Beside(Above(i)[k])
<1> DEFINE b == Beside(Above(i)[k])
<1>1. Width[k] \in Nat /\ Above(i)[k] \in Nat
  BY AboveInPlace, WidthIs
<1>2. b \in Nat
  BY <1>1, BesideIs
<1>3. HasBeside(k, Above(i)[k]) <=> b < Width[k]
  BY DEF HasBeside
<1> HIDE DEF b
<1>4. b < Width[k] <=> b \in Place(k)
  BY <1>1, <1>2 DEF Place
<1>5. b < Width[k] => \E c \in Chunk : Above(c)[k] = b
  BY <1>2, ChunkBelow
<1> QED
  BY <1>2, <1>3, <1>4, <1>5 DEF b

\* The hashes sent with a chunk, by the level they are of.
WordsOf(i, ws) == [k \in Nat |-> ws[Used(i)[k] + 1]]

\* The right hashes are taken where the lowest known node is right.
LEMMA RightPasses ==
  ASSUME NEW t, NEW i \in Chunk, NEW K \in 0..Depth, t[K][Above(i)[K]] = NodeHash[K][Above(i)[K]],
         \A m \in 0..(K - 1) : t[m][Above(i)[m]] = NoHash
  PROVE  Passes(t, i, ChunkHash(i), Proof[i])
<1> DEFINE up == Climb(i, ChunkHash(i), WordsOf(i, Proof[i]))
<1>1. Depth \in Nat /\ K \in Nat /\ K <= Depth /\ i \in Nat
  BY DepthIs, AboveInPlace
<1>2. \A m \in 0..(K - 1) : Used(i)[m] < Len(Proof[i])
  <2>1. ASSUME NEW m \in 0..(K - 1) PROVE Used(i)[m] < Used(i)[Depth]
    <3>1. m \in Nat /\ m < Depth
      BY <1>1
    <3> QED
      BY <3>1, UsedGrows
  <2> QED
    BY <2>1, ProofIs
<1>3. t[K][Above(i)[K]] # NoHash
  <2>1. Above(i)[K] \in Nat
    BY <1>1, AboveInPlace
  <2> QED
    BY <1>1, <2>1, NodeHashIs
<1>4. up[K] = NodeHash[K][Above(i)[K]]
  <2> DEFINE h == ChunkHash(i)
             side == WordsOf(i, Proof[i])
  <2>1. h = NodeHash[0][i]
    BY <1>1, NodeHashIs
  <2>2. ASSUME NEW m \in Nat, m < K, HasBeside(m, Above(i)[m]) PROVE side[m] = NodeHash[m][Beside(Above(i)[m])]
    <3>1. m < Depth
      BY <1>1, <2>2
    <3>2. Proof[i][Used(i)[m] + 1] = NodeHash[m][Beside(Above(i)[m])]
      BY <2>2, <3>1, ProofIs
    <3> QED
      BY <3>2 DEF WordsOf
  <2>3. Paired(NodeHash)
    BY NodeHashIs
  <2> HIDE DEF h, side
  <2>4. \A m \in 0..K : Climb(i, h, side)[m] = NodeHash[m][Above(i)[m]]
    BY <1>1, <2>1, <2>2, <2>3, ClimbRight
  <2> QED
    BY <1>1, <2>4 DEF h, side
<1>5. up[K] = t[K][Above(i)[K]]
  BY <1>4
<1> QED
  BY <1>2, <1>3, <1>5, Zenon DEF Passes, WordsOf

\* What is taken is right, as far up as it was checked.
LEMMA PassesProve ==
  ASSUME NEW t, LowestRight(t), NEW i \in Chunk, NEW h, NEW ws, Passes(t, i, h, ws)
  PROVE  \E K \in 0..Depth :
           /\ \A m \in 0..(K - 1) : t[m][Above(i)[m]] = NoHash /\ Used(i)[m] < Len(ws)
           /\ t[K][Above(i)[K]] # NoHash /\ t[K][Above(i)[K]] = NodeHash[K][Above(i)[K]]
           /\ h = ChunkHash(i)
           /\ \A m \in 0..(K - 1) : HasBeside(m, Above(i)[m]) => ws[Used(i)[m] + 1] = NodeHash[m][Beside(Above(i)[m])]
<1> DEFINE side == WordsOf(i, ws)
<1>1. PICK K \in 0..Depth :
        /\ \A m \in 0..(K - 1) : t[m][Above(i)[m]] = NoHash /\ Used(i)[m] < Len(ws)
        /\ t[K][Above(i)[K]] # NoHash /\ Climb(i, h, side)[K] = t[K][Above(i)[K]]
  BY Zenon DEF Passes, WordsOf
<1>2. t[K][Above(i)[K]] = NodeHash[K][Above(i)[K]]
  BY <1>1 DEF LowestRight
<1>3. K \in Nat /\ i \in Nat
  BY DepthIs, AboveInPlace
<1>4. Climb(i, h, side)[K] = NodeHash[K][Above(i)[K]]
  BY <1>1, <1>2
<1>5. Paired(NodeHash)
  BY NodeHashIs
<1>6. /\ h = NodeHash[0][i]
      /\ \A m \in Nat : m < K /\ HasBeside(m, Above(i)[m]) => side[m] = NodeHash[m][Beside(Above(i)[m])]
  <2> HIDE DEF side
  <2> QED
    BY <1>3, <1>4, <1>5, ClimbProves
<1>7. h = ChunkHash(i)
  BY <1>3, <1>6, NodeHashIs
<1>8. ASSUME NEW m \in 0..(K - 1), HasBeside(m, Above(i)[m]) PROVE ws[Used(i)[m] + 1] = NodeHash[m][Beside(Above(i)[m])]
  <2>1. m \in Nat /\ m < K
    BY <1>3
  <2>2. side[m] = NodeHash[m][Beside(Above(i)[m])]
    BY <1>6, <1>8, <2>1
  <2> QED
    BY <2>1, <2>2 DEF WordsOf
<1> QED
  BY <1>1, <1>2, <1>7, <1>8

\* The tree when chunk i and its hashes have been taken; e is where the keeping ends.
Taken(t, i, h, ws) == Kept([t EXCEPT ![0][i] = h], i, ws)
KeptTo(t, i, h, ws, e, u) ==
  /\ IsTree(u)
  /\ \A k \in 0..Depth : \A j \in Place(k) :
       u[k][j] = IF k < e /\ j = Beside(Above(i)[k]) THEN ws[Used(i)[k] + 1] ELSE IF k = 0 /\ j = i THEN h ELSE t[k][j]
  /\ e = Depth \/ Used(i)[e] >= Len(ws) \/ (HasBeside(e, Above(i)[e]) /\ t[e][Beside(Above(i)[e])] # NoHash)
  /\ \A k \in 0..(e - 1) : ~(Used(i)[k] >= Len(ws)) /\ (HasBeside(k, Above(i)[k]) => t[k][Beside(Above(i)[k])] = NoHash)

LEMMA TakenIs ==
  ASSUME NEW t, IsTree(t), NEW i \in Chunk, NEW h, NEW ws
  PROVE  \E e \in 0..Depth : KeptTo(t, i, h, ws, e, Taken(t, i, h, ws))
<1> DEFINE at == Above(i)
           s == With(t, 0, i, h)
           u == Taken(t, i, h, ws)
           Ends(k) == \/ k = Depth
                      \/ Used(i)[k] >= Len(ws)
                      \/ HasBeside(k, at[k]) /\ s[k][Beside(at[k])] # NoHash
           T == {k \in 0..Depth : Ends(k)}
<1>1. Depth \in Nat /\ i \in Nat /\ at[0] = i /\ i \in Place(0) /\ 0 \in 0..Depth
  <2>1. Depth \in Nat /\ i \in Nat
    BY DepthIs, AboveInPlace
  <2>2. Above(i)[0] = i /\ Above(i)[0] \in Place(0)
    BY <2>1, AboveIs, AboveInPlace
  <2> QED
    BY <2>1, <2>2
<1>2. IsTree(s) /\ \A k \in 0..Depth : \A j \in Place(k) : s[k][j] = IF k = 0 /\ j = i THEN h ELSE t[k][j]
  BY <1>1, TreeExcept
<1>3. u = [k \in 0..Depth |-> [j \in Place(k) |->
            IF j = Beside(at[k]) /\ \A m \in 0..k : ~Ends(m) THEN ws[Used(i)[k] + 1] ELSE s[k][j]]]
  BY Zenon DEF Taken, With, Kept, TreeOf
<1>4. PICK e \in T : \A k \in T : e <= k
  <2>1. Depth \in T /\ T \in SUBSET Nat
    BY <1>1
  <2> HIDE DEF T
  <2> QED
    BY <2>1, LeastNumber
<1>5. e \in 0..Depth /\ e \in Nat /\ Ends(e)
  BY <1>1, <1>4
<1>6. ASSUME NEW k \in 0..Depth PROVE (\A m \in 0..k : ~Ends(m)) <=> k < e
  <2>1. ASSUME k < e, NEW m \in 0..k, Ends(m) PROVE FALSE
    <3>1. m \in 0..Depth /\ ~(e <= m)
      BY <1>1, <1>5, <2>1
    <3> QED
      BY <1>4, <2>1, <3>1
  <2>2. ASSUME ~(k < e) PROVE e \in 0..k
    BY <1>1, <1>5, <2>2
  <2> QED
    BY <1>5, <2>1, <2>2
<1>7. ASSUME NEW k \in 0..Depth, HasBeside(k, at[k]) PROVE s[k][Beside(at[k])] = t[k][Beside(at[k])]
  <2> DEFINE b == Beside(at[k])
  <2>1. k \in Nat /\ at[k] \in Nat
    BY <1>1, AboveInPlace
  <2>2. b \in Place(k) /\ b # at[k]
    BY <1>7, <2>1, BesideInPlace, BesideIs
  <2>3. ~(k = 0 /\ b = i)
    BY <1>1, <2>2
  <2> HIDE DEF b, at, s
  <2>4. s[k][b] = t[k][b]
    BY <1>2, <2>2, <2>3
  <2> QED
    BY <2>4 DEF b
<1> HIDE DEF s, at
<1>8. e = Depth \/ Used(i)[e] >= Len(ws) \/ (HasBeside(e, at[e]) /\ t[e][Beside(at[e])] # NoHash)
  BY <1>5, <1>7
<1>9. ASSUME NEW k \in 0..(e - 1) PROVE ~(Used(i)[k] >= Len(ws)) /\ (HasBeside(k, at[k]) => t[k][Beside(at[k])] = NoHash)
  <2>1. k \in 0..Depth /\ k < e /\ k \in 0..k
    BY <1>1, <1>5
  <2>2. ~Ends(k)
    BY <1>6, <2>1
  <2> QED
    BY <1>7, <2>1, <2>2
<1> HIDE DEF Ends, T
<1>10. IsTree(u)
  <2>1. ASSUME NEW k \in 0..Depth PROVE u[k] = [j \in Place(k) |-> u[k][j]]
    BY <1>3
  <2>2. u = [k \in 0..Depth |-> u[k]]
    BY <1>3
  <2> HIDE DEF u
  <2> QED
    BY <2>1, <2>2 DEF IsTree
<1>11. ASSUME NEW k \in 0..Depth, NEW j \in Place(k)
       PROVE  u[k][j] = IF k < e /\ j = Beside(at[k]) THEN ws[Used(i)[k] + 1] ELSE IF k = 0 /\ j = i THEN h ELSE t[k][j]
  <2>1. u[k][j] = IF j = Beside(at[k]) /\ (\A m \in 0..k : ~Ends(m)) THEN ws[Used(i)[k] + 1] ELSE s[k][j]
    BY <1>3
  <2>2. s[k][j] = IF k = 0 /\ j = i THEN h ELSE t[k][j]
    BY <1>2
  <2> HIDE DEF u
  <2> QED
    BY <1>6, <2>1, <2>2
<1> HIDE DEF u
<1>12. KeptTo(t, i, h, ws, e, u)
  BY <1>8, <1>9, <1>10, <1>11, Zenon DEF KeptTo, at
<1> QED
  BY <1>5, <1>12 DEF u
\* What a chunk that is taken changes on the path of another: one node at most.
PathsTaken(t, u, i, h, ws, e) ==
  \A b \in Chunk : \A rt \in 0..Depth :
    /\ Above(b)[rt] = Beside(Above(i)[rt]) /\ rt < e => u[rt][Above(b)[rt]] = ws[Used(i)[rt] + 1]
    /\ b # i /\ ~(Above(b)[rt] = Beside(Above(i)[rt]) /\ rt < e) => u[rt][Above(b)[rt]] = t[rt][Above(b)[rt]]
    /\ b = i => (rt = 0 => u[rt][Above(b)[rt]] = h) /\ (rt # 0 => u[rt][Above(b)[rt]] = t[rt][Above(b)[rt]])

LEMMA TakenPath ==
  ASSUME NEW t, NEW u, NEW i \in Chunk, NEW h, NEW ws, NEW e \in 0..Depth, KeptTo(t, i, h, ws, e, u)
  PROVE  PathsTaken(t, u, i, h, ws, e)
<1>0. SUFFICES ASSUME NEW b \in Chunk, NEW rt \in 0..Depth
      PROVE  /\ Above(b)[rt] = Beside(Above(i)[rt]) /\ rt < e => u[rt][Above(b)[rt]] = ws[Used(i)[rt] + 1]
             /\ b # i /\ ~(Above(b)[rt] = Beside(Above(i)[rt]) /\ rt < e) => u[rt][Above(b)[rt]] = t[rt][Above(b)[rt]]
             /\ b = i => (rt = 0 => u[rt][Above(b)[rt]] = h) /\ (rt # 0 => u[rt][Above(b)[rt]] = t[rt][Above(b)[rt]])
  BY DEF PathsTaken
<1>1. rt \in Nat /\ b \in Nat /\ i \in Nat /\ Above(b)[0] = b /\ Above(b)[rt] \in Place(rt) /\ Above(b)[rt] \in Nat
  <2>1. rt \in Nat /\ b \in Nat /\ i \in Nat
    BY DepthIs, AboveInPlace
  <2> QED
    BY <2>1, AboveIs, AboveInPlace
<1> DEFINE j == Above(b)[rt]
<1>2. u[rt][j] = IF rt < e /\ j = Beside(Above(i)[rt]) THEN ws[Used(i)[rt] + 1] ELSE IF rt = 0 /\ j = i THEN h ELSE t[rt][j]
  <2>1. j \in Place(rt)
    BY <1>1
  <2> HIDE DEF j
  <2> QED
    BY <2>1 DEF KeptTo
<1>3. rt = 0 /\ j = i => b = i
  BY <1>1
<1>4. b = i => j # Beside(Above(i)[rt])
  BY <1>1, BesideIs
<1>5. b = i /\ rt = 0 => j = i
  BY <1>1
<1> HIDE DEF j
<1> QED
  BY <1>2, <1>3, <1>4, <1>5 DEF j

\* What is known stays known.
LEMMA TakenGrows ==
  ASSUME NEW t, NEW u, NEW i \in Chunk, NEW h, NEW ws, NEW e \in 0..Depth, KeptTo(t, i, h, ws, e, u),
         h # NoHash, Len(ws) \in Nat, \A m \in 1..Len(ws) : ws[m] # NoHash
  PROVE  /\ \A k \in 0..Depth : \A j \in Place(k) : t[k][j] # NoHash => u[k][j] # NoHash
         /\ \A b \in Chunk : \A m \in Nat : m <= Depth /\ Knows(t, b, m) => Knows(u, b, m)
         /\ \A k \in 0..(e - 1) : ws[Used(i)[k] + 1] # NoHash
         /\ Knows(u, i, 0)
<1>1. \A k \in 0..(e - 1) : ws[Used(i)[k] + 1] # NoHash
  <2>1. ASSUME NEW k \in 0..(e - 1) PROVE ws[Used(i)[k] + 1] # NoHash
    <3>1. Used(i)[k] \in Nat
      BY DepthIs, UsedIs
    <3>2. ~(Used(i)[k] >= Len(ws))
      BY DEF KeptTo
    <3>3. Used(i)[k] + 1 \in 1..Len(ws)
      BY <3>1, <3>2
    <3> QED
      BY <3>3
  <2> QED
    BY <2>1
<1>2. \A k \in 0..Depth : \A j \in Place(k) : t[k][j] # NoHash => u[k][j] # NoHash
  <2>1. ASSUME NEW k \in 0..Depth, NEW j \in Place(k), t[k][j] # NoHash PROVE u[k][j] # NoHash
    <3>1. u[k][j] = IF k < e /\ j = Beside(Above(i)[k]) THEN ws[Used(i)[k] + 1] ELSE IF k = 0 /\ j = i THEN h ELSE t[k][j]
      BY DEF KeptTo
    <3>2. k < e => k \in 0..(e - 1)
      BY DepthIs
    <3> QED
      BY <1>1, <2>1, <3>1, <3>2
  <2> QED
    BY <2>1
<1>3. ASSUME NEW b \in Chunk, NEW m \in Nat, m <= Depth, Knows(t, b, m) PROVE Knows(u, b, m)
  <2>1. PICK k \in 0..m : t[k][Above(b)[k]] # NoHash
    BY <1>3 DEF Knows
  <2>2. k \in 0..Depth /\ k \in Nat
    BY <1>3, DepthIs
  <2>3. Above(b)[k] \in Place(k)
    BY <2>2, AboveInPlace
  <2>4. u[k][Above(b)[k]] # NoHash
    BY <1>2, <2>1, <2>2, <2>3
  <2> QED
    BY <2>4 DEF Knows
<1>4. Knows(u, i, 0)
  <2>1. 0 \in 0..Depth
    BY DepthIs
  <2>2. PathsTaken(t, u, i, h, ws, e)
    BY TakenPath, Zenon
  <2>3. u[0][Above(i)[0]] = h
    BY <2>1, <2>2 DEF PathsTaken
  <2> QED
    BY <2>3 DEF Knows
<1> QED
  BY <1>1, <1>2, <1>3, <1>4

\* Beside the path of the chunk that is taken something is known everywhere.
LEMMA TakenCovers ==
  ASSUME NEW t, NEW u, NEW i \in Chunk, NEW h, NEW ws, NEW e \in 0..Depth, KeptTo(t, i, h, ws, e, u),
         h # NoHash, Len(ws) \in Nat, \A m \in 1..Len(ws) : ws[m] # NoHash, Covered(t),
         NEW K \in 0..Depth, t[K][Above(i)[K]] # NoHash, \A m \in 0..(K - 1) : Used(i)[m] < Len(ws),
         NEW b \in Chunk, NEW m \in Nat, m < Depth, Above(b)[m] = Beside(Above(i)[m])
  PROVE  Knows(u, b, m)
<1>0. PathsTaken(t, u, i, h, ws, e)
  BY TakenPath, Zenon
<1>1. Depth \in Nat /\ i \in Nat /\ b \in Nat /\ e \in Nat /\ K \in Nat /\ m \in 0..Depth /\ m \in 0..m /\ m <= Depth
  BY DepthIs, AboveInPlace
<1>2. CASE m < e
  <2>1. u[m][Above(b)[m]] = ws[Used(i)[m] + 1]
    BY <1>0, <1>1, <1>2 DEF PathsTaken
  <2>2. m \in 0..(e - 1)
    BY <1>1, <1>2
  <2>3. ws[Used(i)[m] + 1] # NoHash
    BY <2>2, TakenGrows
  <2> QED
    BY <1>1, <2>1, <2>3 DEF Knows
<1>3. CASE ~(m < e) /\ K <= m
  <2>1. Knows(t, i, m)
    BY <1>1, <1>3 DEF Knows
  <2>2. Knows(t, b, m)
    BY <2>1 DEF Covered
  <2> QED
    BY <1>1, <2>2, TakenGrows
<1>4. CASE ~(m < e) /\ ~(K <= m)
  <2>1. e \in 0..(K - 1) /\ e # Depth /\ Used(i)[e] \in Nat
    <3>1. e \in 0..(K - 1) /\ e # Depth
      BY <1>1, <1>4
    <3> QED
      BY <1>1, <3>1, UsedIs
  <2>2. ~(Used(i)[e] >= Len(ws))
    BY <2>1
  <2>3. HasBeside(e, Above(i)[e]) /\ t[e][Beside(Above(i)[e])] # NoHash
    BY <2>1, <2>2 DEF KeptTo
  <2>4. PICK c \in Chunk : Above(c)[e] = Beside(Above(i)[e])
    BY <1>1, <2>3, BesideInPlace
  <2>5. c \in Nat
    BY AboveInPlace
  <2>6. t[e][Above(c)[e]] # NoHash
    BY <2>3, <2>4
  <2>7. Knows(t, c, m)
    BY <1>1, <1>4, <2>6 DEF Knows
  <2>8. CASE m = e
    <3>1. Above(c)[e] = Above(b)[e]
      BY <2>4, <2>8
    <3>2. t[e][Above(b)[e]] # NoHash
      BY <2>6, <3>1
    <3>3. Knows(t, b, m)
      BY <1>1, <2>8, <3>2 DEF Knows
    <3> QED
      BY <1>1, <3>3, TakenGrows
  <2>9. CASE m # e
    <3>1. m > e
      BY <1>1, <1>4, <2>9
    <3>2. Above(c)[m] = Above(i)[m]
      BY <1>1, <2>4, <2>5, <3>1, AboveBeside
    <3>3. Above(b)[m] = Beside(Above(c)[m])
      BY <3>2
    <3>4. Knows(t, b, m)
      BY <2>7, <3>3 DEF Covered
    <3> QED
      BY <1>1, <3>4, TakenGrows
  <2> QED
    BY <2>8, <2>9
<1> QED
  BY <1>2, <1>3, <1>4
LEMMA TakenCovered ==
  ASSUME NEW t, NEW u, NEW i \in Chunk, NEW h, NEW ws, NEW e \in 0..Depth, KeptTo(t, i, h, ws, e, u),
         h # NoHash, Len(ws) \in Nat, \A m \in 1..Len(ws) : ws[m] # NoHash, Covered(t),
         NEW K \in 0..Depth, t[K][Above(i)[K]] # NoHash, \A m \in 0..(K - 1) : Used(i)[m] < Len(ws)
  PROVE  Covered(u)
<1>0. PathsTaken(t, u, i, h, ws, e)
  BY TakenPath, Zenon
<1>1. Depth \in Nat /\ i \in Nat /\ e \in Nat /\ 0 \in 0..Depth
  BY DepthIs, AboveInPlace
<1>2. SUFFICES ASSUME NEW a \in Chunk, NEW b \in Chunk, NEW m \in Nat, m < Depth,
                      Above(b)[m] = Beside(Above(a)[m]), Knows(u, a, m)
               PROVE  Knows(u, b, m)
  BY DEF Covered
<1>3. a \in Nat /\ b \in Nat /\ m <= Depth /\ m \in 0..Depth /\ \A rt \in Nat : Above(i)[rt] \in Nat
  <2>1. a \in Nat /\ b \in Nat /\ m <= Depth /\ m \in 0..Depth
    BY <1>1, <1>2, AboveInPlace
  <2> QED
    BY <1>1, <2>1, AboveIs
<1>4. PICK k \in 0..m : u[k][Above(a)[k]] # NoHash
  BY <1>2 DEF Knows
<1>5. k \in 0..Depth /\ k \in Nat /\ k <= m
  BY <1>1, <1>2
<1>6. ASSUME NEW c \in Chunk, Above(c)[m] = Beside(Above(i)[m]) PROVE Knows(u, c, m)
  BY <1>2, <1>6, TakenCovers
<1>7. CASE t[k][Above(a)[k]] # NoHash
  <2>1. Knows(t, a, m)
    BY <1>5, <1>7 DEF Knows
  <2>2. Knows(t, b, m)
    BY <1>2, <2>1 DEF Covered
  <2> QED
    BY <1>3, <2>2, TakenGrows
<1>8. CASE a = i
  BY <1>2, <1>6, <1>8
<1>9. CASE t[k][Above(a)[k]] = NoHash /\ a # i
  <2>1. Above(a)[k] = Beside(Above(i)[k]) /\ k < e
    BY <1>0, <1>4, <1>5, <1>9 DEF PathsTaken
  <2>2. CASE m = k
    <3>1. Above(b)[m] = Above(i)[m]
      <4>1. Beside(Beside(Above(i)[m])) = Above(i)[m]
        BY <1>3, BesideIs
      <4> QED
        BY <1>2, <2>1, <2>2, <4>1
    <3>2. CASE b = i
      <4>1. Knows(u, i, 0)
        BY TakenGrows
      <4>2. 0 \in 0..m /\ \A q \in 0..0 : q \in 0..m
        OBVIOUS
      <4> QED
        BY <3>2, <4>1, <4>2 DEF Knows
    <3>3. CASE b # i
      <4>1. PICK p \in Nat : p < m /\ Above(b)[p] = Beside(Above(i)[p])
        BY <1>1, <1>3, <3>1, <3>3, PathsJoin
      <4>2. p \in 0..m /\ p \in 0..Depth /\ p < e /\ p \in 0..(e - 1)
        BY <1>1, <1>2, <2>1, <2>2, <4>1
      <4>3. u[p][Above(b)[p]] = ws[Used(i)[p] + 1]
        BY <1>0, <4>1, <4>2 DEF PathsTaken
      <4>4. ws[Used(i)[p] + 1] # NoHash
        BY <4>2, TakenGrows
      <4> QED
        BY <4>2, <4>3, <4>4 DEF Knows
    <3> QED
      BY <3>2, <3>3
  <2>3. CASE m # k
    <3>1. m > k
      BY <1>5, <2>3
    <3>2. Above(a)[m] = Above(i)[m]
      BY <1>1, <1>3, <1>5, <2>1, <3>1, AboveBeside
    <3> QED
      BY <1>2, <1>6, <3>2
  <2> QED
    BY <2>2, <2>3
<1> QED
  BY <1>7, <1>8, <1>9

LEMMA TakenLowest ==
  ASSUME NEW t, NEW u, NEW i \in Chunk, NEW h, NEW ws, NEW e \in 0..Depth, KeptTo(t, i, h, ws, e, u),
         h # NoHash, h = ChunkHash(i), Len(ws) \in Nat, \A m \in 1..Len(ws) : ws[m] # NoHash, Covered(t), LowestRight(t),
         NEW K \in 0..Depth, t[K][Above(i)[K]] # NoHash,
         \A m \in 0..(K - 1) : HasBeside(m, Above(i)[m]) => ws[Used(i)[m] + 1] = NodeHash[m][Beside(Above(i)[m])]
  PROVE  LowestRight(u)
<1>0. PathsTaken(t, u, i, h, ws, e)
  BY TakenPath, Zenon
<1>1. Depth \in Nat /\ i \in Nat /\ e \in Nat /\ K \in Nat /\ 0 \in 0..Depth
  BY DepthIs, AboveInPlace
<1>7. Knows(u, i, 0)
  BY TakenGrows
<1>8. ASSUME NEW k \in 0..(e - 1) PROVE ws[Used(i)[k] + 1] # NoHash
  <2>1. Used(i)[k] \in Nat
    BY DepthIs, UsedIs
  <2>2. ~(Used(i)[k] >= Len(ws))
    BY DEF KeptTo
  <2>3. Used(i)[k] + 1 \in 1..Len(ws)
    BY <2>1, <2>2
  <2> QED
    BY <2>3
<1>2. SUFFICES ASSUME NEW b \in Chunk, NEW q \in 0..Depth, u[q][Above(b)[q]] # NoHash,
                      \A m \in 0..(q - 1) : u[m][Above(b)[m]] = NoHash
               PROVE  u[q][Above(b)[q]] = NodeHash[q][Above(b)[q]]
  BY DEF LowestRight
<1>3. q \in Nat /\ b \in Nat
  BY <1>1, AboveInPlace
<1>4. CASE b = i
  <2>2. u[0][Above(i)[0]] # NoHash
    BY <1>7 DEF Knows
  <2>3. q = 0
    <3>1. q # 0 => 0 \in 0..(q - 1)
      BY <1>3
    <3> QED
      BY <1>2, <1>4, <2>2, <3>1
  <2>4. u[q][Above(b)[q]] = h
    BY <1>0, <1>4, <2>3 DEF PathsTaken
  <2>5. Above(b)[q] = i
    BY <1>1, <1>4, <2>3, AboveIs
  <2> QED
    BY <1>1, <2>3, <2>4, <2>5, NodeHashIs
<1>5. CASE b # i
  <2>1. Above(i)[Depth] = Above(b)[Depth]
    <3>1. Above(i)[Depth] = 0
      BY <1>1, AboveInPlace
    <3>2. Above(b)[Depth] = 0
      BY <1>1, AboveInPlace
    <3> QED
      BY <3>1, <3>2
  <2>2. PICK p \in Nat : p < Depth /\ Above(b)[p] = Beside(Above(i)[p])
    BY <1>1, <1>3, <1>5, <2>1, PathsJoin
  <2>3. \A rt \in 0..Depth : rt # p => Above(b)[rt] # Beside(Above(i)[rt])
    <3>1. \A rt \in Nat : rt # p => Above(b)[rt] # Beside(Above(i)[rt])
      BY <1>1, <1>3, <2>2, AboveBeside
    <3> QED
      BY <1>1, <3>1
  <2>4. \A rt \in 0..Depth : rt # p \/ ~(p < e) => u[rt][Above(b)[rt]] = t[rt][Above(b)[rt]]
    <3>1. ASSUME NEW rt \in 0..Depth, rt # p \/ ~(p < e) PROVE u[rt][Above(b)[rt]] = t[rt][Above(b)[rt]]
      <4>1. ~(Above(b)[rt] = Beside(Above(i)[rt]) /\ rt < e)
        BY <2>3, <3>1
      <4> QED
        BY <1>0, <1>5, <4>1 DEF PathsTaken
    <3> QED
      BY <3>1
  <2>5. p \in 0..Depth
    BY <1>1, <2>2
  <2>6. ASSUME u[q][Above(b)[q]] = t[q][Above(b)[q]], \A m \in 0..(q - 1) : t[m][Above(b)[m]] = NoHash
        PROVE  u[q][Above(b)[q]] = NodeHash[q][Above(b)[q]]
    BY <1>2, <2>6 DEF LowestRight
  <2>7. \A m \in 0..(q - 1) : m \in 0..Depth
    BY <1>1
  <2>8. CASE ~(p < e)
    BY <1>2, <2>4, <2>6, <2>7, <2>8
  <2>9. CASE p < e
    <3>1. p \in 0..(e - 1) /\ ws[Used(i)[p] + 1] # NoHash
      <4>1. p \in 0..(e - 1)
        BY <1>1, <2>9
      <4> QED
        BY <1>8, <4>1
    <3>2. u[p][Above(b)[p]] = ws[Used(i)[p] + 1]
      BY <1>0, <2>2, <2>5, <2>9 DEF PathsTaken
    <3>3. ~(p \in 0..(q - 1))
      BY <1>2, <3>1, <3>2
    <3>4. CASE q # p
      BY <1>2, <2>4, <2>6, <2>7, <3>3, <3>4
    <3>5. CASE q = p
      <4>1. HasBeside(p, Above(i)[p])
        <5>1. Above(b)[p] \in Place(p)
          BY <2>2, AboveInPlace
        <5> QED
          BY <2>2, <5>1, BesideInPlace
      <4>2. CASE p < K
        <5>1. p \in 0..(K - 1)
          BY <1>1, <4>2
        <5>2. ws[Used(i)[p] + 1] = NodeHash[p][Beside(Above(i)[p])]
          BY <4>1, <5>1
        <5> QED
          BY <2>2, <3>2, <3>5, <5>2
      <4>3. CASE ~(p < K)
        <5>1. Knows(t, i, p)
          BY <1>1, <4>3 DEF Knows
        <5>2. Knows(t, b, p)
          BY <2>2, <5>1 DEF Covered
        <5>3. PICK rt \in 0..p : t[rt][Above(b)[rt]] # NoHash
          BY <5>2 DEF Knows
        <5>4. CASE rt = p
          <6>1. t[p][Beside(Above(i)[p])] = NoHash
            BY <3>1, <4>1 DEF KeptTo
          <6> QED
            BY <2>2, <5>3, <5>4, <6>1
        <5>5. CASE rt # p
          <6>1. rt \in 0..Depth /\ rt \in 0..(q - 1)
            BY <1>1, <2>2, <3>5, <5>5
          <6>2. u[rt][Above(b)[rt]] = t[rt][Above(b)[rt]]
            BY <2>4, <5>5, <6>1
          <6> QED
            BY <1>2, <5>3, <6>1, <6>2
        <5> QED
          BY <5>4, <5>5
      <4> QED
        BY <4>2, <4>3
    <3> QED
      BY <3>4, <3>5
  <2> QED
    BY <2>8, <2>9
<1> QED
  BY <1>4, <1>5
\* Every node that is known is right, and the hashes beside the path of a chunk that is
\* known are known as well: so it is as long as no peer has lied.
AllRight(t) == \A k \in 0..Depth : \A j \in Place(k) : t[k][j] # NoHash => t[k][j] = NodeHash[k][j]
SidesKnown(t) ==
  \A i \in Chunk : \A k \in 0..Depth : \A m \in Nat :
    m < Depth /\ (k < m \/ (k = 0 /\ m = 0)) /\ t[k][Above(i)[k]] # NoHash /\ HasBeside(m, Above(i)[m])
    => t[m][Beside(Above(i)[m])] # NoHash

LEMMA TakenRight ==
  ASSUME NEW t, NEW u, NEW i \in Chunk, NEW e \in 0..Depth, KeptTo(t, i, ChunkHash(i), Proof[i], e, u), AllRight(t)
  PROVE  AllRight(u)
<1>1. Depth \in Nat /\ i \in Nat
  BY DepthIs, AboveInPlace
<1>2. SUFFICES ASSUME NEW k \in 0..Depth, NEW j \in Place(k), u[k][j] # NoHash PROVE u[k][j] = NodeHash[k][j]
  BY DEF AllRight
<1>3. u[k][j] = IF k < e /\ j = Beside(Above(i)[k]) THEN Proof[i][Used(i)[k] + 1] ELSE IF k = 0 /\ j = i THEN ChunkHash(i) ELSE t[k][j]
  BY DEF KeptTo
<1>4. CASE k < e /\ j = Beside(Above(i)[k])
  <2>1. k \in Nat /\ k < Depth /\ HasBeside(k, Above(i)[k])
    <3>1. k \in Nat /\ k < Depth
      BY <1>1, <1>4
    <3> QED
      BY <1>4, <3>1, BesideInPlace
  <2>2. Proof[i][Used(i)[k] + 1] = NodeHash[k][Beside(Above(i)[k])]
    BY <2>1, ProofIs
  <2> QED
    BY <1>3, <1>4, <2>2
<1>5. CASE ~(k < e /\ j = Beside(Above(i)[k])) /\ k = 0 /\ j = i
  <2>1. NodeHash[0][i] = ChunkHash(i)
    BY <1>1, NodeHashIs
  <2> QED
    BY <1>3, <1>5, <2>1
<1>6. CASE ~(k < e /\ j = Beside(Above(i)[k])) /\ ~(k = 0 /\ j = i)
  <2>1. u[k][j] = t[k][j]
    BY <1>3, <1>6
  <2> QED
    BY <1>2, <2>1 DEF AllRight
<1> QED
  BY <1>4, <1>5, <1>6

\* The words of a proof.
LEMMA ProofWords ==
  ASSUME NEW i \in Chunk
  PROVE  Len(Proof[i]) \in Nat /\ \A m \in 1..Len(Proof[i]) : Proof[i][m] # NoHash
<1>1. Used(i)[Depth] \in Nat /\ Len(Proof[i]) = Used(i)[Depth]
  <2>1. Depth \in Nat
    BY DepthIs
  <2>2. Used(i)[Depth] \in Nat
    BY <2>1, UsedIs
  <2> QED
    BY <2>2, ProofIs
<1>2. ASSUME NEW m \in 1..Used(i)[Depth] PROVE Proof[i][m] # NoHash
  <2>1. PICK k \in Nat : k < Depth /\ HasBeside(k, Above(i)[k]) /\ m = Used(i)[k] + 1
    BY LevelOfHash
  <2>2. Proof[i][Used(i)[k] + 1] = NodeHash[k][Beside(Above(i)[k])]
    BY <2>1, ProofIs
  <2>3. Beside(Above(i)[k]) \in Nat
    BY BesideInPlace
  <2>4. NodeHash[k][Beside(Above(i)[k])] # NoHash
    BY <2>3, NodeHashIs
  <2> QED
    BY <2>1, <2>2, <2>4
<1> QED
  BY <1>1, <1>2

LEMMA TakenSides ==
  ASSUME NEW t, NEW u, NEW i \in Chunk, NEW e \in 0..Depth, KeptTo(t, i, ChunkHash(i), Proof[i], e, u), SidesKnown(t)
  PROVE  SidesKnown(u)
<1> DEFINE h == ChunkHash(i)
           ws == Proof[i]
<1>0. h # NoHash /\ Len(ws) \in Nat /\ (\A m \in 1..Len(ws) : ws[m] # NoHash) /\ KeptTo(t, i, h, ws, e, u)
  BY ProofWords DEF ChunkHash, NoHash
<1>1. Depth \in Nat /\ i \in Nat /\ e \in Nat /\ 0 \in 0..Depth /\ Above(i)[0] = i
  <2>1. Depth \in Nat /\ i \in Nat /\ e \in Nat /\ 0 \in 0..Depth
    BY DepthIs, AboveInPlace
  <2> QED
    BY <2>1, AboveIs
<1>2. Len(ws) = Used(i)[Depth]
  BY ProofIs
<1> HIDE DEF h, ws
<1>3. \A k \in 0..Depth : \A j \in Place(k) : t[k][j] # NoHash => u[k][j] # NoHash
  BY <1>0, TakenGrows
<1>4. \A k \in 0..(e - 1) : ws[Used(i)[k] + 1] # NoHash
  BY <1>0, TakenGrows
<1>5. PathsTaken(t, u, i, h, ws, e)
  BY <1>0, TakenPath, Zenon
<1>6. u[0][i] # NoHash
  <2>1. u[0][Above(i)[0]] = h
    BY <1>1, <1>5 DEF PathsTaken
  <2> QED
    BY <1>0, <1>1, <2>1
<1>7. ASSUME NEW m \in Nat, m < Depth, HasBeside(m, Above(i)[m]) PROVE u[m][Beside(Above(i)[m])] # NoHash
  <2>1. m \in 0..Depth /\ Beside(Above(i)[m]) \in Place(m)
    BY <1>1, <1>7, BesideInPlace
  <2>2. PICK b \in Chunk : Above(b)[m] = Beside(Above(i)[m])
    BY <1>7, BesideInPlace
  <2>3. CASE m < e
    <3>1. u[m][Above(b)[m]] = ws[Used(i)[m] + 1]
      BY <1>5, <2>1, <2>2, <2>3 DEF PathsTaken
    <3>2. m \in 0..(e - 1)
      BY <1>1, <2>3
    <3> QED
      BY <1>4, <2>2, <3>1, <3>2
  <2>4. CASE ~(m < e)
    <3>1. e < Depth /\ e # Depth
      BY <1>1, <1>7, <2>4
    <3>2. Used(i)[e] < Used(i)[Depth] /\ Used(i)[e] \in Nat /\ Used(i)[Depth] \in Nat
      BY <1>1, <3>1, UsedGrows, UsedIs
    <3>3. HasBeside(e, Above(i)[e]) /\ t[e][Beside(Above(i)[e])] # NoHash
      <4>1. ~(Used(i)[e] >= Len(ws))
        BY <1>2, <3>2
      <4> QED
        BY <1>0, <3>1, <4>1 DEF KeptTo
    <3>4. CASE m = e
      BY <1>3, <2>1, <3>3, <3>4
    <3>5. CASE m # e
      <4>1. PICK c \in Chunk : Above(c)[e] = Beside(Above(i)[e])
        BY <1>1, <3>3, BesideInPlace
      <4>2. c \in Nat /\ m > e
        BY <1>1, <2>4, <3>5, AboveInPlace
      <4>3. Above(c)[m] = Above(i)[m]
        BY <1>1, <4>1, <4>2, AboveBeside
      <4>4. t[e][Above(c)[e]] # NoHash /\ HasBeside(m, Above(c)[m])
        BY <1>7, <3>3, <4>1, <4>3
      <4>5. t[m][Beside(Above(c)[m])] # NoHash
        BY <1>7, <4>2, <4>4 DEF SidesKnown
      <4> QED
        BY <1>3, <2>1, <4>3, <4>5
    <3> QED
      BY <3>4, <3>5
  <2> QED
    BY <2>3, <2>4
<1>8. SUFFICES ASSUME NEW a \in Chunk, NEW k \in 0..Depth, NEW m \in Nat, m < Depth, k < m \/ (k = 0 /\ m = 0),
                      u[k][Above(a)[k]] # NoHash, HasBeside(m, Above(a)[m])
               PROVE  u[m][Beside(Above(a)[m])] # NoHash
  BY DEF SidesKnown
<1>9. a \in Nat /\ k \in Nat /\ m \in 0..Depth /\ Beside(Above(a)[m]) \in Place(m) /\ Above(a)[0] = a /\ Above(i)[k] \in Nat
  <2>1. a \in Nat /\ k \in Nat /\ m \in 0..Depth
    BY <1>1, <1>8, AboveInPlace
  <2>2. Beside(Above(a)[m]) \in Place(m)
    BY <1>8, BesideInPlace
  <2> QED
    BY <1>1, <2>1, <2>2, AboveIs
<1>10. CASE t[k][Above(a)[k]] # NoHash
  <2>1. t[m][Beside(Above(a)[m])] # NoHash
    BY <1>8, <1>10 DEF SidesKnown
  <2> QED
    BY <1>3, <1>9, <2>1
<1>11. CASE a = i
  BY <1>7, <1>8, <1>11
<1>12. CASE t[k][Above(a)[k]] = NoHash /\ a # i
  <2>1. Above(a)[k] = Beside(Above(i)[k])
    BY <1>5, <1>8, <1>12 DEF PathsTaken
  <2>2. CASE k < m
    <3>1. Above(a)[m] = Above(i)[m]
      BY <1>1, <1>9, <2>1, <2>2, AboveBeside
    <3> QED
      BY <1>7, <1>8, <3>1
  <2>3. CASE k = 0 /\ m = 0
    <3>1. Beside(Beside(Above(i)[k])) = Above(i)[k]
      BY <1>9, BesideIs
    <3>2. Beside(Above(a)[m]) = i
      BY <1>1, <2>1, <2>3, <3>1
    <3> QED
      BY <1>6, <2>3, <3>2
  <2> QED
    BY <1>8, <2>2, <2>3
<1> QED
  BY <1>10, <1>11, <1>12
-----------------------------------------------------------------------------
(* The invariant.                                                          *)

TreeInv(t, v, l) ==
  /\ IsTree(t)
  /\ v = [i \in Chunk |-> v[i]] /\ \A i \in Chunk : v[i] \in {NoHash, ChunkHash(i)}
  /\ \/ t = Empty /\ \A i \in Chunk : v[i] = NoHash
     \/ t[Depth][0] = NodeHash[Depth][0]
  /\ LowestRight(t)
  /\ Covered(t)
  /\ ~l => AllRight(t) /\ SidesKnown(t) /\ \A i \in Chunk : v[i] # NoHash => t[0][i] # NoHash

LEMMA RootIs ==
  /\ Depth \in Nat /\ Depth \in 0..Depth /\ 0 \in Place(Depth) /\ NodeHash[Depth][0] # NoHash
  /\ \A i \in Chunk : Above(i)[Depth] = 0
<1>1. Depth \in Nat /\ Width[Depth] = 1
  BY DepthIs
<1>2. 0 \in Place(Depth)
  BY <1>1 DEF Place
<1>3. NodeHash[Depth][0] # NoHash
  BY <1>1, NodeHashIs
<1>4. \A i \in Chunk : Above(i)[Depth] = 0
  BY <1>1, AboveInPlace
<1> QED
  BY <1>1, <1>2, <1>3, <1>4

\* A chunk that is taken.
LEMMA TakenInv ==
  ASSUME NEW t, NEW v, NEW l, TreeInv(t, v, l), NEW i \in Chunk, NEW h, NEW ws, Passes(t, i, h, ws),
         Len(ws) \in Nat, \A m \in 1..Len(ws) : ws[m] # NoHash
  PROVE  TreeInv(Taken(t, i, h, ws), [v EXCEPT ![i] = h], l \/ h # ChunkHash(i) \/ ws # Proof[i])
<1> DEFINE u == Taken(t, i, h, ws)
           x == [v EXCEPT ![i] = h]
<1>1. IsTree(t) /\ LowestRight(t) /\ Covered(t)
  BY DEF TreeInv
<1>2. PICK e \in 0..Depth : KeptTo(t, i, h, ws, e, u)
  BY <1>1, TakenIs
<1>3. PICK K \in 0..Depth :
        /\ \A m \in 0..(K - 1) : t[m][Above(i)[m]] = NoHash /\ Used(i)[m] < Len(ws)
        /\ t[K][Above(i)[K]] # NoHash /\ t[K][Above(i)[K]] = NodeHash[K][Above(i)[K]]
        /\ h = ChunkHash(i)
        /\ \A m \in 0..(K - 1) : HasBeside(m, Above(i)[m]) => ws[Used(i)[m] + 1] = NodeHash[m][Beside(Above(i)[m])]
  BY <1>1, PassesProve
<1> HIDE DEF u
<1>4. h # NoHash /\ h = ChunkHash(i) /\ t[K][Above(i)[K]] # NoHash
  BY <1>3 DEF ChunkHash, NoHash
<1>5. IsTree(u)
  BY <1>2 DEF KeptTo
<1>6. Covered(u)
  <2>1. \A m \in 0..(K - 1) : Used(i)[m] < Len(ws)
    BY <1>3
  <2> QED
    BY <1>1, <1>2, <1>4, <2>1, TakenCovered
<1>7. LowestRight(u)
  <2>1. \A m \in 0..(K - 1) : HasBeside(m, Above(i)[m]) => ws[Used(i)[m] + 1] = NodeHash[m][Beside(Above(i)[m])]
    BY <1>3
  <2> QED
    BY <1>1, <1>2, <1>4, <2>1, TakenLowest
<1>8. i \in Nat /\ Depth \in Nat /\ 0 \in 0..Depth /\ Above(i)[0] = i /\ i \in Place(0)
  <2>1. i \in Nat /\ Depth \in Nat /\ 0 \in 0..Depth
    BY AboveInPlace, DepthIs
  <2>2. Above(i)[0] = i
    BY <2>1, AboveIs
  <2>3. Above(i)[0] \in Place(0)
    BY AboveInPlace
  <2> QED
    BY <2>1, <2>2, <2>3
<1>9. x = [b \in Chunk |-> x[b]] /\ \A b \in Chunk : x[b] = IF b = i THEN h ELSE v[b]
  <2>1. v = [b \in Chunk |-> v[b]]
    BY DEF TreeInv
  <2> QED
    BY <2>1
<1> HIDE DEF x
<1>10. \A b \in Chunk : x[b] \in {NoHash, ChunkHash(b)}
  BY <1>4, <1>9 DEF TreeInv
<1>11. PathsTaken(t, u, i, h, ws, e)
  BY <1>2, TakenPath, Zenon
<1>12. u[Depth][0] = NodeHash[Depth][0]
  <2>1. t[Depth][0] = NodeHash[Depth][0]
    <3>1. t # Empty
      <4>1. K \in Nat
        BY <1>8
      <4>2. Above(i)[K] \in Place(K)
        BY <4>1, AboveInPlace, Zenon
      <4> QED
        BY <1>4, <4>2, EmptyIs
    <3> QED
      BY <3>1 DEF TreeInv
  <2>2. Above(i)[Depth] = 0 /\ Depth \in 0..Depth
    BY RootIs
  <2>3. CASE Depth = 0
    <3>1. i = 0
      BY <1>8, <2>2, <2>3
    <3>2. u[Depth][0] = h
      BY <1>8, <1>11, <2>2, <2>3, <3>1 DEF PathsTaken
    <3> QED
      BY <1>4, <2>3, <3>1, <3>2, NodeHashIs
  <2>4. CASE Depth # 0
    <3>1. u[Depth][0] = t[Depth][0]
      BY <1>11, <2>2, <2>4 DEF PathsTaken
    <3> QED
      BY <2>1, <3>1
  <2> QED
    BY <2>3, <2>4
<1>13. ASSUME ~(l \/ h # ChunkHash(i) \/ ws # Proof[i])
       PROVE  AllRight(u) /\ SidesKnown(u) /\ \A b \in Chunk : x[b] # NoHash => u[0][b] # NoHash
  <2>1. ~l /\ h = ChunkHash(i) /\ ws = Proof[i]
    BY <1>13
  <2>2. AllRight(t) /\ SidesKnown(t) /\ \A b \in Chunk : v[b] # NoHash => t[0][b] # NoHash
    BY <2>1 DEF TreeInv
  <2>3. KeptTo(t, i, ChunkHash(i), Proof[i], e, u)
    BY <1>2, <2>1
  <2>4. AllRight(u)
    BY <2>2, <2>3, TakenRight
  <2>5. SidesKnown(u)
    BY <2>2, <2>3, TakenSides
  <2>6. ASSUME NEW b \in Chunk, x[b] # NoHash PROVE u[0][b] # NoHash
    <3>1. b \in Nat
      BY AboveInPlace
    <3>2. Above(b)[0] = b
      BY <3>1, AboveIs
    <3>3. CASE b = i
      BY <1>4, <1>8, <1>11, <3>2, <3>3 DEF PathsTaken
    <3>4. CASE b # i
      <4>1. t[0][b] # NoHash
        BY <1>9, <2>2, <2>6, <3>4
      <4>2. Above(b)[0] \in Place(0)
        BY AboveInPlace
      <4>3. \A k \in 0..Depth : \A j \in Place(k) : t[k][j] # NoHash => u[k][j] # NoHash
        BY <1>2, <1>4, TakenGrows
      <4> QED
        BY <1>8, <3>2, <4>1, <4>2, <4>3
    <3> QED
      BY <3>3, <3>4
  <2> QED
    BY <2>4, <2>5, <2>6
<1> QED
  BY <1>5, <1>6, <1>7, <1>9, <1>10, <1>12, <1>13, Zenon DEF TreeInv, u, x

\* A tree that only has the root.
LEMMA RootInv ==
  ASSUME NEW l
  PROVE  TreeInv(With(Empty, Depth, 0, NodeHash[Depth][0]), [i \in Chunk |-> NoHash], l)
<1> DEFINE rt == NodeHash[Depth][0]
           t == With(Empty, Depth, 0, rt)
           v == [i \in Chunk |-> NoHash]
<1>1. Depth \in Nat /\ Depth \in 0..Depth /\ 0 \in Place(Depth)
  BY RootIs
<1>2. IsTree(t) /\ \A k \in 0..Depth : \A j \in Place(k) : t[k][j] = IF k = Depth /\ j = 0 THEN rt ELSE NoHash
  <2> HIDE DEF rt
  <2>1. IsTree(t) /\ \A k \in 0..Depth : \A j \in Place(k) : t[k][j] = IF k = Depth /\ j = 0 THEN rt ELSE Empty[k][j]
    BY <1>1, EmptyIs, TreeExcept
  <2> HIDE DEF t
  <2> QED
    BY <2>1, EmptyIs
<1> HIDE DEF t
<1>3. \A k \in 0..Depth : \A j \in Place(k) : t[k][j] # NoHash => k = Depth /\ j = 0 /\ t[k][j] = NodeHash[k][j]
  <2>1. ASSUME NEW k \in 0..Depth, NEW j \in Place(k), t[k][j] # NoHash PROVE k = Depth /\ j = 0 /\ t[k][j] = NodeHash[k][j]
    <3>1. t[k][j] = IF k = Depth /\ j = 0 THEN rt ELSE NoHash
      BY <1>2
    <3>2. CASE k = Depth /\ j = 0
      BY <3>1, <3>2
    <3>3. CASE ~(k = Depth /\ j = 0)
      BY <2>1, <3>1, <3>3
    <3> QED
      BY <3>2, <3>3
  <2> QED
    BY <2>1
<1>4. \A i \in Chunk : \A k \in 0..Depth : Above(i)[k] \in Place(k)
  BY <1>1, AboveInPlace
<1>5. LowestRight(t) /\ AllRight(t)
  BY <1>3, <1>4 DEF LowestRight, AllRight
<1>6. Covered(t)
  <2>1. ASSUME NEW a \in Chunk, NEW m \in Nat, m < Depth, Knows(t, a, m) PROVE FALSE
    <3>1. PICK k \in 0..m : t[k][Above(a)[k]] # NoHash
      BY <2>1 DEF Knows
    <3>2. k \in 0..Depth /\ k # Depth
      BY <1>1, <2>1
    <3> QED
      BY <1>3, <1>4, <3>1, <3>2
  <2> QED
    BY <2>1 DEF Covered
<1>7. SidesKnown(t)
  <2>1. ASSUME NEW i \in Chunk, NEW k \in 0..Depth, NEW m \in Nat, m < Depth, k < m \/ (k = 0 /\ m = 0), t[k][Above(i)[k]] # NoHash
        PROVE  FALSE
    <3>1. k = Depth
      BY <1>3, <1>4, <2>1
    <3> QED
      BY <1>1, <2>1, <3>1
  <2> QED
    BY <2>1 DEF SidesKnown
<1>8. t[Depth][0] = NodeHash[Depth][0]
  BY <1>1, <1>2
<1>9. v = [i \in Chunk |-> v[i]] /\ \A i \in Chunk : v[i] = NoHash
  OBVIOUS
<1> HIDE DEF v, rt
<1>10. TreeInv(t, v, l)
  BY <1>2, <1>5, <1>6, <1>7, <1>8, <1>9 DEF TreeInv
<1> QED
  BY <1>10 DEF t, v, rt

\* The tree of the whole file.
LEMMA WholeInv ==
  ASSUME NEW l
  PROVE  TreeInv(Begun(NodeHash, Chunks), [i \in Chunk |-> ChunkHash(i)], l)
<1> DEFINE t == Begun(NodeHash, Chunks)
           v == [i \in Chunk |-> ChunkHash(i)]
<1>1. Depth \in Nat /\ Depth \in 0..Depth /\ 0 \in Place(Depth) /\ 0 \in 0..Depth
  BY RootIs
<1>2. IsTree(t) /\ \A k \in 0..Depth : \A j \in Place(k) : t[k][j] = NodeHash[k][j]
  BY WholeIs
<1> HIDE DEF t
<1>3. \A k \in 0..Depth : \A j \in Place(k) : t[k][j] = NodeHash[k][j] /\ t[k][j] # NoHash
  <2>1. ASSUME NEW k \in 0..Depth, NEW j \in Place(k) PROVE NodeHash[k][j] # NoHash
    <3>1. k \in Nat /\ j \in Nat
      BY <1>1 DEF Place
    <3> QED
      BY <3>1, NodeHashIs
  <2> QED
    BY <1>2, <2>1
<1>4. \A i \in Chunk : \A k \in 0..Depth : Above(i)[k] \in Place(k)
  BY <1>1, AboveInPlace
<1>5. LowestRight(t) /\ AllRight(t)
  BY <1>3, <1>4 DEF LowestRight, AllRight
<1>6. Covered(t)
  <2>1. ASSUME NEW b \in Chunk, NEW m \in Nat PROVE Knows(t, b, m)
    <3>1. 0 \in 0..m
      OBVIOUS
    <3>2. t[0][Above(b)[0]] # NoHash
      BY <1>1, <1>3, <1>4
    <3> QED
      BY <3>1, <3>2 DEF Knows
  <2> QED
    BY <2>1 DEF Covered
<1>7. SidesKnown(t)
  <2>1. ASSUME NEW i \in Chunk, NEW m \in Nat, m < Depth, HasBeside(m, Above(i)[m]) PROVE t[m][Beside(Above(i)[m])] # NoHash
    <3>1. m \in 0..Depth /\ Beside(Above(i)[m]) \in Place(m)
      BY <1>1, <2>1, BesideInPlace
    <3> QED
      BY <1>3, <3>1
  <2> QED
    BY <2>1 DEF SidesKnown
<1>8. t[Depth][0] = NodeHash[Depth][0]
  BY <1>1, <1>2
<1>9. v = [i \in Chunk |-> v[i]] /\ \A i \in Chunk : v[i] = ChunkHash(i)
  OBVIOUS
<1> HIDE DEF v
<1>10. \A i \in Chunk : t[0][i] # NoHash
  <2>1. ASSUME NEW i \in Chunk PROVE t[0][i] # NoHash
    <3>1. i \in Nat
      BY AboveInPlace
    <3>2. Above(i)[0] = i
      BY <3>1, AboveIs
    <3> QED
      BY <1>1, <1>3, <1>4, <3>2
  <2> QED
    BY <2>1
<1>11. TreeInv(t, v, l)
  BY <1>2, <1>5, <1>6, <1>7, <1>8, <1>9, <1>10 DEF TreeInv
<1> QED
  BY <1>11 DEF t, v
-----------------------------------------------------------------------------
(* The check of the file.                                                  *)

\* What the check of chunk n does.
HashOf(right, n) == IF n \in right THEN ChunkHash(n) ELSE Wrong
CheckStep(b, n, right) ==
  IF b.t[Depth][0] = MerkleHash
  THEN [b EXCEPT !.v[n] = IF b.t[0][n] = HashOf(right, n) THEN HashOf(right, n) ELSE NoHash]
  ELSE [t |-> SetChunk(b.t, n, HashOf(right, n)), v |-> [b.v EXCEPT ![n] = HashOf(right, n)]]
CheckSteps(s, t, v, right) ==
  s = [n \in 0..Chunks |-> IF n = 0 THEN [t |-> t, v |-> v] ELSE CheckStep(s[n - 1], n - 1, right)]

LEMMA CheckedIs ==
  ASSUME NEW t, NEW v, NEW right, NEW b, CheckSteps(b, t, v, right)
  PROVE  Checked(t, v, right) = b[Chunks]
<1>0. Chunks \in Nat
  BY TreeAssumption
<1> DEFINE s == CHOOSE s : s = [n \in 0..Chunks |->
        IF n = 0 THEN [t |-> t, v |-> v]
        ELSE IF s[n - 1].t[Depth][0] = MerkleHash
             THEN [s[n - 1] EXCEPT !.v[n - 1] =
                     IF s[n - 1].t[0][n - 1] = (IF n - 1 \in right THEN ChunkHash(n - 1) ELSE Wrong)
                     THEN (IF n - 1 \in right THEN ChunkHash(n - 1) ELSE Wrong) ELSE NoHash]
             ELSE [t |-> SetChunk(s[n - 1].t, n - 1, IF n - 1 \in right THEN ChunkHash(n - 1) ELSE Wrong),
                   v |-> [s[n - 1].v EXCEPT ![n - 1] = IF n - 1 \in right THEN ChunkHash(n - 1) ELSE Wrong]]]
<1>1. Checked(t, v, right) = s[Chunks]
  BY Zenon DEF Checked
<1>2. s = CHOOSE q : CheckSteps(q, t, v, right)
  BY Zenon DEF CheckSteps, CheckStep, HashOf
<1>3. CheckSteps(s, t, v, right)
  <2> HIDE DEF s
  <2> QED
    BY <1>2, Zenon
<1> HIDE DEF s
<1>4. ASSUME NEW q, CheckSteps(q, t, v, right) PROVE q[0] = [t |-> t, v |-> v] /\ \A n \in Nat : n < Chunks => q[n + 1] = CheckStep(q[n], n, right)
  <2>1. q[0] = [t |-> t, v |-> v]
    BY <1>0, <1>4 DEF CheckSteps
  <2>2. ASSUME NEW n \in Nat, n < Chunks PROVE q[n + 1] = CheckStep(q[n], n, right)
    <3> DEFINE m == n + 1
    <3>1. m \in 0..Chunks /\ m # 0 /\ m - 1 = n
      BY <1>0, <2>2
    <3> HIDE DEF m
    <3>2. q[m] = CheckStep(q[m - 1], m - 1, right)
      BY <1>4, <3>1 DEF CheckSteps
    <3> QED
      BY <3>1, <3>2, Zenon DEF m
  <2> QED
    BY <2>1, <2>2
<1>5. b[0] = s[0]
  BY <1>3, <1>4
<1>6. ASSUME NEW n \in Nat, n < Chunks, b[n] = s[n] PROVE b[n + 1] = s[n + 1]
  <2>1. b[n + 1] = CheckStep(b[n], n, right)
    BY <1>4, <1>6
  <2>2. s[n + 1] = CheckStep(s[n], n, right)
    BY <1>3, <1>4, <1>6
  <2> QED
    BY <1>6, <2>1, <2>2
<1>7. \A n \in 0..Chunks : b[n] = s[n]
  BY <1>0, <1>5, <1>6, SameSequence
<1> QED
  BY <1>0, <1>1, <1>7

\* The root is known: the tree is left as it is, and tells which chunks are valid.
LEMMA CheckedKnown ==
  ASSUME NEW t, NEW v, NEW right, v = [i \in Chunk |-> v[i]], t[Depth][0] = MerkleHash
  PROVE  Checked(t, v, right) =
           [t |-> t, v |-> [i \in Chunk |-> IF t[0][i] = HashOf(right, i) THEN HashOf(right, i) ELSE NoHash]]
<1> DEFINE val(i) == IF t[0][i] = HashOf(right, i) THEN HashOf(right, i) ELSE NoHash
           vs(n) == [i \in Chunk |-> IF i < n THEN val(i) ELSE v[i]]
           b == [n \in 0..Chunks |-> [t |-> t, v |-> vs(n)]]
<1>0. Chunks \in Nat /\ Chunk \subseteq Nat /\ \A i \in Chunk : i < Chunks
  BY TreeAssumption DEF Chunk
<1>1. vs(0) = v
  <2>1. \A i \in Chunk : ~(i < 0)
    BY <1>0
  <2>2. \A i \in Chunk : (IF i < 0 THEN val(i) ELSE v[i]) = v[i]
    BY <2>1
  <2> QED
    BY <2>2
<1>2. ASSUME NEW n \in Nat, n < Chunks PROVE vs(n + 1) = [vs(n) EXCEPT ![n] = val(n)]
  <2>1. ASSUME NEW i \in Chunk PROVE i < n + 1 <=> i < n \/ i = n
    BY <1>0
  <2>2. n \in Chunk /\ ~(n < n)
    BY <1>0, <1>2 DEF Chunk
  <2> HIDE DEF val
  <2> QED
    BY <2>1, <2>2
<1>3. ASSUME NEW n \in 0..Chunks, n # 0 PROVE [t |-> t, v |-> vs(n)] = CheckStep([t |-> t, v |-> vs(n - 1)], n - 1, right)
  <2> DEFINE m == n - 1
             x == [t |-> t, v |-> vs(m)]
  <2>1. m \in Nat /\ m < Chunks /\ m + 1 = n
    BY <1>0, <1>3
  <2> HIDE DEF m
  <2>2. vs(n) = [vs(m) EXCEPT ![m] = val(m)]
    BY <1>2, <2>1
  <2> HIDE DEF vs
  <2>3. CheckStep(x, m, right) = [x EXCEPT !.v[m] = val(m)]
    <3>1. x.t = t
      OBVIOUS
    <3> HIDE DEF x
    <3> QED
      BY <3>1, Zenon DEF CheckStep, val
  <2> HIDE DEF val
  <2>4. [x EXCEPT !.v[m] = val(m)] = [t |-> t, v |-> [vs(m) EXCEPT ![m] = val(m)]]
    OBVIOUS
  <2> QED
    BY <2>2, <2>3, <2>4 DEF m
<1> HIDE DEF vs, val
<1>4. ASSUME NEW n \in 0..Chunks PROVE b[n] = IF n = 0 THEN [t |-> t, v |-> v] ELSE CheckStep(b[n - 1], n - 1, right)
  <2>1. CASE n = 0
    BY <1>1, <2>1
  <2>2. CASE n # 0
    <3>1. n - 1 \in 0..Chunks
      BY <1>0, <2>2
    <3>2. b[n - 1] = [t |-> t, v |-> vs(n - 1)] /\ b[n] = [t |-> t, v |-> vs(n)]
      BY <3>1
    <3> HIDE DEF b
    <3> QED
      BY <1>3, <2>2, <3>2
  <2> QED
    BY <2>1, <2>2
<1>5. CheckSteps(b, t, v, right)
  <2>1. b = [n \in 0..Chunks |-> b[n]]
    OBVIOUS
  <2> HIDE DEF b
  <2> QED
    BY <1>4, <2>1 DEF CheckSteps
<1>6. b[Chunks] = [t |-> t, v |-> vs(Chunks)]
  BY <1>0
<1>7. Checked(t, v, right) = b[Chunks]
  <2> HIDE DEF b
  <2> QED
    BY <1>5, CheckedIs, Zenon
<1>8. vs(Chunks) = [i \in Chunk |-> val(i)]
  BY <1>0 DEF vs
<1> QED
  BY <1>6, <1>7, <1>8, Zenon DEF val

\* A tree with nothing in it: the chunks on disk are set.
OnDisk(right) == HashOver([j \in Nat |-> HashOf(right, j)])

LEMMA OnDiskIs ==
  ASSUME NEW right
  PROVE  /\ Paired(OnDisk(right)) /\ \A j \in Nat : OnDisk(right)[0][j] = HashOf(right, j)
         /\ \A k, j \in Nat : OnDisk(right)[k][j] # NoHash
<1> DEFINE hs == [j \in Nat |-> HashOf(right, j)]
           V == {HashOf(right, j) : j \in Nat}
<1>1. hs \in [Nat -> V]
  OBVIOUS
<1>2. \A j \in Nat : hs[j] = HashOf(right, j) /\ hs[j] # NoHash
  BY DEF HashOf, ChunkHash, NoHash, Wrong
<1>3. OnDisk(right) = HashOver(hs)
  BY DEF OnDisk
<1> HIDE DEF hs, V
<1>4. OnDisk(right)[0] = hs /\ Paired(OnDisk(right))
  BY <1>1, <1>3, HashOverIs
<1>5. \A j \in Nat : OnDisk(right)[0][j] # NoHash
  BY <1>2, <1>4
<1> QED
  BY <1>2, <1>4, <1>5, HashOverKnown

LEMMA BegunRoot ==
  ASSUME NEW H, NEW n \in Chunk
  PROVE  Begun(H, n)[Depth][0] # MerkleHash
<1>1. n \in Nat /\ Depth \in Nat /\ Depth \in 0..Depth /\ 0 \in Place(Depth) /\ Above(n)[Depth] = 0
  BY RootIs, AboveInPlace
<1>2. Count(n, Depth) = 0
  BY <1>1, CountUp
<1>3. Begun(H, n)[Depth][0] = NoHash
  BY <1>1, <1>2, BegunIs
<1> QED
  BY <1>3, MerkleHashIs, RootIs

LEMMA BegunNothing ==
  ASSUME NEW H
  PROVE  Begun(H, 0) = Empty
<1>1. 0 \in Chunk /\ 0 \in Nat
  BY TreeAssumption DEF Chunk
<1>2. \A k \in Nat : Above(0)[k] = 0
  <2> DEFINE K == {m \in Nat : Above(0)[m] = 0}
  <2>0. \A a \in Nat : Above(a)[0] = a /\ \A m \in Nat : Above(a)[m + 1] = Above(a)[m] \div 2
    BY AboveIs
  <2>1. 0 \in K /\ \A m \in Nat : m \in K => m + 1 \in K
    BY <2>0
  <2>2. Nat \subseteq K
    <3> HIDE DEF K
    <3> QED
      BY <2>1, SetInduction
  <2> QED
    BY <2>2
<1>3. ASSUME NEW k \in 0..Depth, NEW j \in Place(k) PROVE Begun(H, 0)[k][j] = Empty[k][j]
  <2>1. k \in Nat /\ j \in Nat
    BY DepthIs DEF Place
  <2>2. Count(0, k) = 0
    BY <1>1, <1>2, <2>1, CountUp
  <2>3. Begun(H, 0)[k][j] = IF j < Count(0, k) THEN H[k][j] ELSE NoHash
    BY <1>1, BegunIs
  <2>4. Empty[k][j] = NoHash
    BY EmptyIs
  <2> QED
    BY <2>1, <2>2, <2>3, <2>4
<1>4. IsTree(Begun(H, 0))
  BY <1>1, BegunIs
<1> QED
  BY <1>3, <1>4, EmptyIs, SameTree

LEMMA CheckedEmpty ==
  ASSUME NEW v, NEW right, v = [i \in Chunk |-> v[i]]
  PROVE  Checked(Empty, v, right) = [t |-> Begun(OnDisk(right), Chunks), v |-> [i \in Chunk |-> HashOf(right, i)]]
<1> DEFINE H == OnDisk(right)
           val(i) == HashOf(right, i)
           vs(n) == [i \in Chunk |-> IF i < n THEN val(i) ELSE v[i]]
           b == [n \in 0..Chunks |-> [t |-> Begun(H, n), v |-> vs(n)]]
<1>0. Chunks \in Nat /\ Chunk \subseteq Nat /\ \A i \in Chunk : i < Chunks
  BY TreeAssumption DEF Chunk
<1>1. vs(0) = v
  <2>1. \A i \in Chunk : ~(i < 0)
    BY <1>0
  <2>2. \A i \in Chunk : (IF i < 0 THEN val(i) ELSE v[i]) = v[i]
    BY <2>1
  <2> QED
    BY <2>2
<1>2. ASSUME NEW n \in Nat, n < Chunks PROVE vs(n + 1) = [vs(n) EXCEPT ![n] = val(n)]
  <2>1. ASSUME NEW i \in Chunk PROVE i < n + 1 <=> i < n \/ i = n
    BY <1>0
  <2>2. n \in Chunk /\ ~(n < n)
    BY <1>0, <1>2 DEF Chunk
  <2> HIDE DEF val
  <2> QED
    BY <2>1, <2>2
<1>3. ASSUME NEW n \in 0..Chunks, n # 0
      PROVE  [t |-> Begun(H, n), v |-> vs(n)] = CheckStep([t |-> Begun(H, n - 1), v |-> vs(n - 1)], n - 1, right)
  <2> DEFINE m == n - 1
             x == [t |-> Begun(H, m), v |-> vs(m)]
  <2>1. m \in Nat /\ m < Chunks /\ m + 1 = n /\ m \in Chunk
    BY <1>0, <1>3 DEF Chunk
  <2> HIDE DEF m
  <2>2. vs(n) = [vs(m) EXCEPT ![m] = val(m)]
    BY <1>2, <2>1
  <2> HIDE DEF vs
  <2>3. Begun(H, n) = SetChunk(Begun(H, m), m, val(m))
    <3>1. H[0][m] = val(m)
      BY <2>1, OnDiskIs
    <3>2. SetChunk(Begun(H, m), m, H[0][m]) = Begun(H, m + 1)
      <4>1. Paired(H) /\ \A k, j \in Nat : H[k][j] # NoHash
        BY OnDiskIs
      <4> HIDE DEF H
      <4> QED
        BY <2>1, <4>1, SetNext
    <3> HIDE DEF H, val
    <3> QED
      BY <2>1, <3>1, <3>2
  <2>4. x.t[Depth][0] # MerkleHash
    <3> HIDE DEF H
    <3>1. Begun(H, m)[Depth][0] # MerkleHash
      BY <2>1, BegunRoot
    <3>2. x.t = Begun(H, m)
      OBVIOUS
    <3> QED
      BY <3>1, <3>2, Zenon
  <2>5. x.t = Begun(H, m) /\ x.v = vs(m)
    OBVIOUS
  <2> HIDE DEF x
  <2>6. CheckStep(x, m, right) = [t |-> SetChunk(x.t, m, val(m)), v |-> [x.v EXCEPT ![m] = val(m)]]
    BY <2>4, Zenon DEF CheckStep, val
  <2> HIDE DEF H, val
  <2>7. CheckStep(x, m, right) = [t |-> Begun(H, n), v |-> vs(n)]
    BY <2>2, <2>3, <2>5, <2>6
  <2> QED
    BY <2>7 DEF x, m
<1>a. Begun(H, 0) = Empty
  BY BegunNothing
<1> HIDE DEF vs, val, H
<1>4. ASSUME NEW n \in 0..Chunks PROVE b[n] = IF n = 0 THEN [t |-> Empty, v |-> v] ELSE CheckStep(b[n - 1], n - 1, right)
  <2>1. CASE n = 0
    BY <1>1, <1>a, <2>1
  <2>2. CASE n # 0
    <3>1. n - 1 \in 0..Chunks
      BY <1>0, <2>2
    <3>2. b[n - 1] = [t |-> Begun(H, n - 1), v |-> vs(n - 1)] /\ b[n] = [t |-> Begun(H, n), v |-> vs(n)]
      BY <3>1
    <3> HIDE DEF b
    <3> QED
      BY <1>3, <2>2, <3>2
  <2> QED
    BY <2>1, <2>2
<1>5. CheckSteps(b, Empty, v, right)
  <2>1. b = [n \in 0..Chunks |-> b[n]]
    OBVIOUS
  <2> HIDE DEF b
  <2> QED
    BY <1>4, <2>1 DEF CheckSteps
<1>6. b[Chunks] = [t |-> Begun(H, Chunks), v |-> vs(Chunks)]
  BY <1>0
<1>7. Checked(Empty, v, right) = b[Chunks]
  <2> HIDE DEF b
  <2> QED
    BY <1>5, CheckedIs, Zenon
<1>8. vs(Chunks) = [i \in Chunk |-> val(i)]
  BY <1>0 DEF vs
<1> QED
  BY <1>6, <1>7, <1>8, Zenon DEF val, H
\* The tree tells which of the chunks on disk are of the file.
LEMMA KnownInv ==
  ASSUME NEW t, NEW v, NEW l, NEW right, TreeInv(t, v, l), t[Depth][0] = NodeHash[Depth][0]
  PROVE  TreeInv(t, [i \in Chunk |-> IF t[0][i] = HashOf(right, i) THEN HashOf(right, i) ELSE NoHash], l)
<1> DEFINE x == [i \in Chunk |-> IF t[0][i] = HashOf(right, i) THEN HashOf(right, i) ELSE NoHash]
<1>1. ASSUME NEW i \in Chunk PROVE x[i] \in {NoHash, ChunkHash(i)} /\ (x[i] # NoHash => t[0][i] # NoHash)
  <2>1. HashOf(right, i) # NoHash
    BY DEF HashOf, ChunkHash, NoHash, Wrong
  <2>2. t[0][i] # NoHash => t[0][i] = ChunkHash(i)
    <3>1. i \in Nat
      BY AboveInPlace
    <3>2. Above(i)[0] = i
      BY <3>1, AboveIs
    <3>3. NodeHash[0][i] = ChunkHash(i)
      BY <3>1, NodeHashIs
    <3>4. LowestRight(t)
      BY DEF TreeInv
    <3>5. 0 \in 0..Depth /\ \A m \in 0..(0 - 1) : FALSE
      BY RootIs
    <3> QED
      BY <3>2, <3>3, <3>4, <3>5 DEF LowestRight
  <2>3. x[i] = IF t[0][i] = HashOf(right, i) THEN HashOf(right, i) ELSE NoHash
    OBVIOUS
  <2> HIDE DEF x
  <2> QED
    BY <2>1, <2>2, <2>3
<1>2. x = [i \in Chunk |-> x[i]]
  OBVIOUS
<1> HIDE DEF x
<1>3. TreeInv(t, x, l)
  BY <1>1, <1>2 DEF TreeInv
<1> QED
  BY <1>3 DEF x

\* The hashes beside the climb from a chunk are the tree's, and the climb stays in the tree.
BesideIn(H, i, side) == \A m \in Nat : side[m] = H[m][Beside(Above(i)[m])]
StaysIn(H, i, side, k) == \A m \in 0..k : Climb(i, H[0][i], side)[m] = H[m][Above(i)[m]]

LEMMA ClimbStays ==
  ASSUME NEW H, Paired(H), NEW i \in Chunk, NEW side, NEW k \in Nat, BesideIn(H, i, side)
  PROVE  StaysIn(H, i, side, k)
<1> DEFINE h == H[0][i]
<1>1. \A m \in Nat : m < k /\ HasBeside(m, Above(i)[m]) => side[m] = H[m][Beside(Above(i)[m])]
  BY DEF BesideIn
<1>2. h = H[0][i]
  OBVIOUS
<1> HIDE DEF h
<1>3. \A m \in 0..k : Climb(i, h, side)[m] = H[m][Above(i)[m]]
  BY <1>1, <1>2, ClimbRight
<1> QED
  BY <1>2, <1>3 DEF StaysIn

\* From a chunk of the tree, with the tree's own hashes beside, the climb stays in the tree.
LEMMA ClimbInTree ==
  ASSUME NEW H, Paired(H), NEW i \in Chunk
  PROVE  \E side : BesideIn(H, i, side) /\ StaysIn(H, i, side, Depth)
<1> DEFINE side == [m \in Nat |-> H[m][Beside(Above(i)[m])]]
<1>1. BesideIn(H, i, side)
  BY DEF BesideIn
<1>2. Depth \in Nat
  BY DepthIs
<1> HIDE DEF side
<1>3. StaysIn(H, i, side, Depth)
  BY <1>1, <1>2, ClimbStays, Zenon
<1> QED
  BY <1>1, <1>3, Zenon

\* A disk with the root of the file has the file.
LEMMA DiskIsFile ==
  ASSUME NEW right, OnDisk(right)[Depth][0] = NodeHash[Depth][0]
  PROVE  /\ Begun(OnDisk(right), Chunks) = Begun(NodeHash, Chunks)
         /\ \A i \in Chunk : HashOf(right, i) = ChunkHash(i)
<1> DEFINE H == OnDisk(right)
<1>1. Paired(H) /\ \A j \in Nat : H[0][j] = HashOf(right, j)
  BY OnDiskIs
<1>2. H[Depth][0] = NodeHash[Depth][0]
  OBVIOUS
<1>3. Paired(NodeHash) /\ \A j \in Nat : NodeHash[0][j] = ChunkHash(j)
  BY NodeHashIs
<1> HIDE DEF H
<1>4. ASSUME NEW i \in Chunk PROVE HashOf(right, i) = ChunkHash(i)
  <2>1. i \in Nat
    BY AboveInPlace
  <2>2. H[0][i] = NodeHash[0][i]
    BY <1>1, <1>2, <1>3, RootProves
  <2> QED
    BY <1>1, <1>3, <2>1, <2>2
<1>5. ASSUME NEW k \in 0..Depth, NEW j \in Place(k) PROVE H[k][j] = NodeHash[k][j]
  <2>1. k \in Nat /\ j \in Nat /\ j < Width[k] /\ Depth \in Nat
    <3>1. k \in Nat /\ Depth \in Nat
      BY DepthIs
    <3>2. Width[k] \in Nat
      BY <3>1, WidthIs
    <3> QED
      BY <3>1, <3>2 DEF Place
  <2>2. PICK i \in Chunk : Above(i)[k] = j
    BY <2>1, ChunkBelow
  <2> DEFINE h == H[0][i]
  <2>3. PICK side : BesideIn(H, i, side) /\ StaysIn(H, i, side, Depth)
    BY <1>1, ClimbInTree, Zenon
  <2>4. \A m \in 0..Depth : Climb(i, h, side)[m] = H[m][Above(i)[m]]
    BY <2>3 DEF StaysIn
  <2> HIDE DEF h
  <2>5. Climb(i, h, side)[Depth] = NodeHash[Depth][Above(i)[Depth]]
    <3>1. Depth \in 0..Depth /\ Above(i)[Depth] = 0
      BY RootIs
    <3> QED
      BY <1>2, <2>4, <3>1
  <2>6. h = NodeHash[0][i] /\ \A m \in Nat : m < Depth /\ HasBeside(m, Above(i)[m]) => side[m] = NodeHash[m][Beside(Above(i)[m])]
    BY <1>3, <2>1, <2>5, ClimbProves
  <2>7. \A m \in 0..Depth : Climb(i, h, side)[m] = NodeHash[m][Above(i)[m]]
    BY <1>3, <2>1, <2>6, ClimbRight
  <2> QED
    BY <2>2, <2>4, <2>7
<1>6. Begun(H, Chunks) = Begun(NodeHash, Chunks)
  <2>1. IsTree(Begun(H, Chunks)) /\ \A k \in 0..Depth : \A j \in Place(k) : Begun(H, Chunks)[k][j] = H[k][j]
    BY WholeIs
  <2>2. IsTree(Begun(NodeHash, Chunks)) /\ \A k \in 0..Depth : \A j \in Place(k) : Begun(NodeHash, Chunks)[k][j] = NodeHash[k][j]
    BY WholeIs
  <2>3. \A k \in 0..Depth : \A j \in Place(k) : Begun(H, Chunks)[k][j] = Begun(NodeHash, Chunks)[k][j]
    BY <1>5, <2>1, <2>2
  <2> QED
    BY <2>1, <2>2, <2>3, SameTree
<1> QED
  BY <1>4, <1>6 DEF H

LEMMA InvalidatedIs ==
  ASSUME NEW t, NEW v
  PROVE  /\ t[Depth][0] = NodeHash[Depth][0] => Invalidated([t |-> t, v |-> v]) = [t |-> t, v |-> v]
         /\ t[Depth][0] # NodeHash[Depth][0] =>
              Invalidated([t |-> t, v |-> v]) = [t |-> With(Empty, Depth, 0, NodeHash[Depth][0]), v |-> [i \in Chunk |-> NoHash]]
<1> DEFINE s == [t |-> t, v |-> v]
<1>1. s.t = t
  OBVIOUS
<1> HIDE DEF s
<1>2. /\ t[Depth][0] = MerkleHash => Invalidated(s) = s
      /\ t[Depth][0] # MerkleHash => Invalidated(s) = [t |-> With(Empty, Depth, 0, MerkleHash), v |-> [i \in Chunk |-> NoHash]]
  BY <1>1, Zenon DEF Invalidated, With
<1> QED
  BY <1>2, MerkleHashIs, Zenon DEF s

\* A check of the file, whether the tree is new or not.
LEMMA CheckInv ==
  ASSUME NEW t, NEW v, NEW l, NEW right, NEW validate,
         TreeInv(t, v, l) \/ (t = Empty /\ v = [i \in Chunk |-> v[i]]),
         NEW s, s = Invalidated(IF validate THEN Checked(t, v, right) ELSE [t |-> t, v |-> v])
  PROVE  TreeInv(s.t, s.v, l)
<1>1. v = [i \in Chunk |-> v[i]] /\ (t = Empty \/ (TreeInv(t, v, l) /\ t[Depth][0] = NodeHash[Depth][0]))
  BY DEF TreeInv
<1>2. Empty[Depth][0] # NodeHash[Depth][0]
  BY EmptyIs, RootIs
<1>3. ASSUME NEW x, NEW y, x[Depth][0] # NodeHash[Depth][0], s = Invalidated([t |-> x, v |-> y]) PROVE TreeInv(s.t, s.v, l)
  <2> DEFINE e == With(Empty, Depth, 0, NodeHash[Depth][0])
             n == [i \in Chunk |-> NoHash]
  <2>1. TreeInv(e, n, l)
    BY RootInv
  <2>2. s = [t |-> e, v |-> n]
    BY <1>3, InvalidatedIs
  <2> HIDE DEF e, n
  <2>3. s.t = e /\ s.v = n
    BY <2>2
  <2> QED
    BY <2>1, <2>3
<1>4. ASSUME NEW x, NEW y, TreeInv(x, y, l), x[Depth][0] = NodeHash[Depth][0], s = Invalidated([t |-> x, v |-> y])
      PROVE  TreeInv(s.t, s.v, l)
  <2>1. s = [t |-> x, v |-> y]
    BY <1>4, InvalidatedIs
  <2>2. s.t = x /\ s.v = y
    BY <2>1
  <2> QED
    BY <1>4, <2>2
<1>5. CASE ~validate
  <2>1. s = Invalidated([t |-> t, v |-> v])
    BY <1>5
  <2>2. CASE t = Empty
    BY <1>2, <1>3, <2>1, <2>2
  <2>3. CASE TreeInv(t, v, l) /\ t[Depth][0] = NodeHash[Depth][0]
    BY <1>4, <2>1, <2>3
  <2> QED
    BY <1>1, <2>2, <2>3
<1>6. CASE validate /\ t = Empty
  <2> DEFINE x == Begun(OnDisk(right), Chunks)
             y == [i \in Chunk |-> HashOf(right, i)]
  <2>1. Checked(Empty, v, right) = [t |-> x, v |-> y]
    BY <1>1, CheckedEmpty
  <2>2. s = Invalidated([t |-> x, v |-> y])
    BY <1>6, <2>1
  <2>3. x[Depth][0] = OnDisk(right)[Depth][0]
    BY WholeIs, RootIs
  <2>4. CASE x[Depth][0] = NodeHash[Depth][0]
    <3>1. x = Begun(NodeHash, Chunks) /\ \A i \in Chunk : HashOf(right, i) = ChunkHash(i)
      BY <2>3, <2>4, DiskIsFile
    <3>2. y = [i \in Chunk |-> ChunkHash(i)]
      BY <3>1
    <3>3. TreeInv(Begun(NodeHash, Chunks), [i \in Chunk |-> ChunkHash(i)], l)
      BY WholeInv
    <3> HIDE DEF x, y
    <3>4. TreeInv(x, y, l)
      BY <3>1, <3>2, <3>3
    <3> QED
      BY <1>4, <2>2, <2>4, <3>4
  <2>5. CASE x[Depth][0] # NodeHash[Depth][0]
    <3> HIDE DEF x, y
    <3> QED
      BY <1>3, <2>2, <2>5
  <2> QED
    BY <2>4, <2>5
<1>7. CASE validate /\ TreeInv(t, v, l) /\ t[Depth][0] = NodeHash[Depth][0]
  <2> DEFINE y == [i \in Chunk |-> IF t[0][i] = HashOf(right, i) THEN HashOf(right, i) ELSE NoHash]
  <2>1. t[Depth][0] = MerkleHash
    BY <1>7, MerkleHashIs
  <2>2. Checked(t, v, right) = [t |-> t, v |-> y]
    BY <1>1, <2>1, CheckedKnown
  <2>3. TreeInv(t, y, l)
    BY <1>7, KnownInv
  <2> HIDE DEF y
  <2>4. s = Invalidated([t |-> t, v |-> y])
    BY <1>7, <2>2
  <2> QED
    BY <1>4, <1>7, <2>3, <2>4
<1> QED
  BY <1>1, <1>5, <1>6, <1>7
-----------------------------------------------------------------------------
(* The specification.                                                      *)

\* The hashes that are sent.
LEMMA SentWords ==
  ASSUME NEW i \in Chunk, NEW ws \in Sent[i]
  PROVE  Len(ws) \in Nat /\ \A m \in 1..Len(ws) : ws[m] # NoHash
<1> DEFINE to(n, bad) == [k \in 1..n |-> IF k \in bad THEN Wrong ELSE Proof[i][k]]
<1>1. \E n \in 0..Len(Proof[i]) : \E bad \in SUBSET (1..n) : ws = to(n, bad)
  <2>1. ws \in UNION {{to(n, bad) : bad \in SUBSET (1..n)} : n \in 0..Len(Proof[i])}
    BY Zenon DEF Sent
  <2> HIDE DEF to
  <2> QED
    BY <2>1
<1>a. PICK n \in 0..Len(Proof[i]) : \E bad \in SUBSET (1..n) : ws = to(n, bad)
  BY <1>1
<1>2. PICK bad \in SUBSET (1..n) : ws = [k \in 1..n |-> IF k \in bad THEN Wrong ELSE Proof[i][k]]
  BY <1>a
<1>3. n \in Nat /\ Len(Proof[i]) \in Nat /\ \A m \in 1..Len(Proof[i]) : Proof[i][m] # NoHash
  BY ProofWords
<1>4. Len(ws) = n
  BY <1>2, <1>3
<1>5. ASSUME NEW m \in 1..n PROVE ws[m] # NoHash
  <2>1. ws[m] = IF m \in bad THEN Wrong ELSE Proof[i][m]
    BY <1>2
  <2>2. Wrong # NoHash
    BY DEF Wrong, NoHash
  <2>3. Proof[i][m] # NoHash
    BY <1>3
  <2> QED
    BY <2>1, <2>2, <2>3
<1> QED
  BY <1>3, <1>4, <1>5

TreeInvariant == TreeInv(tree, held, lied)

\* The client may not know it has been lied to, and loses nothing by thinking so.
LEMMA LiesWeaken ==
  ASSUME NEW t, NEW v, NEW l, NEW m, TreeInv(t, v, l), l => m
  PROVE  TreeInv(t, v, m)
BY DEF TreeInv

LEMMA TreeBegins == TreeInit => TreeInvariant
<1> SUFFICES ASSUME TreeInit PROVE TreeInv(tree, held, lied)
  BY DEF TreeInvariant
<1>1. tree = Empty /\ held = [i \in Chunk |-> NoHash] /\ lied = FALSE
  BY DEF TreeInit
<1>2. IsTree(tree) /\ \A k \in 0..Depth : \A j \in Place(k) : tree[k][j] = NoHash
  BY <1>1, EmptyIs
<1>3. \A i \in Chunk : \A k \in 0..Depth : Above(i)[k] \in Place(k)
  BY RootIs, AboveInPlace
<1>4. LowestRight(tree) /\ AllRight(tree)
  BY <1>2, <1>3 DEF LowestRight, AllRight
<1>5. Covered(tree)
  <2>1. ASSUME NEW a \in Chunk, NEW m \in Nat, m < Depth PROVE ~Knows(tree, a, m)
    <3>1. \A k \in 0..m : k \in 0..Depth
      BY <2>1, RootIs
    <3> QED
      BY <1>2, <1>3, <3>1 DEF Knows
  <2> QED
    BY <2>1 DEF Covered
<1>6. SidesKnown(tree)
  BY <1>2, <1>3 DEF SidesKnown
<1>7. held = [i \in Chunk |-> held[i]] /\ \A i \in Chunk : held[i] = NoHash
  BY <1>1
<1> QED
  BY <1>1, <1>2, <1>4, <1>5, <1>6, <1>7 DEF TreeInv

LEMMA CheckFileInv ==
  ASSUME TreeInvariant, NEW right, NEW validate, NEW o, CheckFile(right, validate, o)
  PROVE  TreeInvariant'
<1> DEFINE t == IF o THEN Empty ELSE tree
           s == Invalidated(IF validate THEN Checked(t, held, right) ELSE [t |-> t, v |-> held])
<1>1. tree' = s.t /\ held' = s.v /\ lied' = lied
  BY Zenon DEF CheckFile
<1>2. TreeInv(tree, held, lied)
  BY DEF TreeInvariant
<1>3. TreeInv(t, held, lied) \/ (t = Empty /\ held = [i \in Chunk |-> held[i]])
  BY <1>2 DEF TreeInv
<1> HIDE DEF t
<1>4. TreeInv(s.t, s.v, lied)
  BY <1>3, CheckInv, Zenon
<1> HIDE DEF s
<1> QED
  BY <1>1, <1>4 DEF TreeInvariant

LEMMA ReceiveChunkInv ==
  ASSUME TreeInvariant, NEW i \in Chunk, NEW h \in {ChunkHash(i), Wrong}, NEW ws \in Sent[i], ReceiveChunk(i, h, ws)
  PROVE  TreeInvariant'
<1>1. TreeInv(tree, held, lied)
  BY DEF TreeInvariant
<1>2. lied' = (lied \/ h # ChunkHash(i) \/ ws # Proof[i])
  BY DEF ReceiveChunk
<1>3. CASE Passes(tree, i, h, ws)
  <2>1. tree' = Taken(tree, i, h, ws) /\ held' = [held EXCEPT ![i] = h]
    BY <1>3 DEF ReceiveChunk, Taken
  <2>2. Len(ws) \in Nat /\ \A m \in 1..Len(ws) : ws[m] # NoHash
    BY SentWords
  <2>3. TreeInv(Taken(tree, i, h, ws), [held EXCEPT ![i] = h], lied \/ h # ChunkHash(i) \/ ws # Proof[i])
    BY <1>1, <1>3, <2>2, TakenInv
  <2> QED
    BY <1>2, <2>1, <2>3 DEF TreeInvariant
<1>4. CASE ~Passes(tree, i, h, ws)
  <2>1. tree' = tree /\ held' = held
    BY <1>4 DEF ReceiveChunk
  <2>2. lied => lied'
    BY <1>2
  <2>3. TreeInv(tree, held, lied')
    BY <1>1, <2>2, LiesWeaken
  <2> QED
    BY <2>1, <2>3 DEF TreeInvariant
<1> QED
  BY <1>3, <1>4

\* The invariant of the tree: the lowest node known on every path is right, what is known
\* on one side of a node is known on the other, and the root is set as soon as anything is.
THEOREM TreeIsSound == TreeSpec => []TreeInvariant
<1>1. TreeInit => TreeInvariant
  BY TreeBegins
<1>2. TreeInvariant /\ [TreeNext]_merkle => TreeInvariant'
  <2> SUFFICES ASSUME TreeInvariant, [TreeNext]_merkle PROVE TreeInvariant'
    OBVIOUS
  <2>1. ASSUME NEW o \in BOOLEAN, CheckFile({}, FALSE, o) \/ \E right \in SUBSET Chunk : CheckFile(right, TRUE, o)
        PROVE  TreeInvariant'
    <3>1. CASE CheckFile({}, FALSE, o)
      BY <3>1, CheckFileInv
    <3>2. ASSUME NEW right \in SUBSET Chunk, CheckFile(right, TRUE, o) PROVE TreeInvariant'
      BY <3>2, CheckFileInv
    <3> QED
      BY <2>1, <3>1, <3>2
  <2>2. ASSUME NEW i \in Chunk, NEW h \in {ChunkHash(i), Wrong}, NEW ws \in Sent[i], ReceiveChunk(i, h, ws)
        PROVE  TreeInvariant'
    BY <2>2, ReceiveChunkInv
  <2>3. CASE UNCHANGED merkle
    BY <2>3 DEF merkle, TreeInvariant
  <2> QED
    BY <2>1, <2>2, <2>3, Zenon DEF TreeNext
<1> QED
  BY <1>1, <1>2, PTL DEF TreeSpec
\* Above each chunk a node is known, and the lowest one is right: the right hashes prove it.
LEMMA HonestPass ==
  ASSUME NEW t, NEW v, NEW l, TreeInv(t, v, l), t[Depth][0] # NoHash, NEW i \in Chunk
  PROVE  Passes(t, i, ChunkHash(i), Proof[i])
<1> DEFINE D == {k \in 0..Depth : t[k][Above(i)[k]] # NoHash}
<1>1. Depth \in Nat /\ Depth \in D
  BY RootIs
<1>2. PICK K \in D : \A k \in D : K <= k
  <2> HIDE DEF D
  <2>1. D \in SUBSET Nat
    BY <1>1 DEF D
  <2> QED
    BY <1>1, <2>1, LeastNumber
<1>3. K \in 0..Depth /\ t[K][Above(i)[K]] # NoHash
  OBVIOUS
<1>4. ASSUME NEW m \in 0..(K - 1) PROVE t[m][Above(i)[m]] = NoHash
  <2>1. m \in 0..Depth /\ ~(K <= m)
    BY <1>1, <1>3
  <2> QED
    BY <1>2, <2>1
<1>5. t[K][Above(i)[K]] = NodeHash[K][Above(i)[K]]
  BY <1>3, <1>4 DEF TreeInv, LowestRight
<1> HIDE DEF D
<1> QED
  BY <1>3, <1>4, <1>5, RightPasses

\* If no peer has lied, the hashes beside the path of a chunk that is held are all known.
LEMMA HeldProves ==
  ASSUME NEW t, NEW v, TreeInv(t, v, FALSE), NEW i \in Chunk, v[i] # NoHash
  PROVE  GetHashes(t, i) = Proof[i] /\ v[i] = ChunkHash(i)
<1>1. AllRight(t) /\ SidesKnown(t) /\ t[0][i] # NoHash /\ v[i] = ChunkHash(i)
  BY DEF TreeInv
<1>2. i \in Nat /\ Depth \in Nat /\ 0 \in 0..Depth /\ Above(i)[0] = i
  <2>1. i \in Nat /\ Depth \in Nat /\ 0 \in 0..Depth
    BY AboveInPlace, RootIs
  <2> QED
    BY <2>1, AboveIs
<1>3. ASSUME NEW k \in Nat, k < Depth, HasBeside(k, Above(i)[k])
      PROVE  t[k][Beside(Above(i)[k])] = NodeHash[k][Beside(Above(i)[k])]
  <2>1. 0 < k \/ k = 0
    BY <1>3
  <2>2. t[k][Beside(Above(i)[k])] # NoHash
    BY <1>1, <1>2, <1>3, <2>1 DEF SidesKnown
  <2>3. k \in 0..Depth /\ Beside(Above(i)[k]) \in Place(k)
    BY <1>2, <1>3, BesideInPlace
  <2> QED
    BY <1>1, <2>2, <2>3 DEF AllRight
<1>4. GetHashes(t, i) = [m \in 1..Used(i)[Depth] |-> NodeHash[LevelOf(i, m)][Beside(Above(i)[LevelOf(i, m)])]]
  BY <1>3, HashesAre
<1>5. Proof[i] = [m \in 1..Used(i)[Depth] |-> NodeHash[LevelOf(i, m)][Beside(Above(i)[LevelOf(i, m)])]]
  BY ProofIs
<1> QED
  BY <1>1, <1>4, <1>5, Zenon

LEMMA SoundIsOfFile == TreeInvariant => ChunkIsOfFile
<1> SUFFICES ASSUME TreeInv(tree, held, lied) PROVE ChunkIsOfFile
  BY DEF TreeInvariant
<1>1. OnlyOfFile
  BY DEF OnlyOfFile, TreeInv
<1>2. HonestTaken
  BY HonestPass DEF HonestTaken
<1>3. ProofsPassedOn
  <2> SUFFICES ASSUME ~lied, NEW i \in Chunk, held[i] # NoHash
               PROVE  Passes([Empty EXCEPT ![Depth][0] = MerkleHash], i, held[i], GetHashes(tree, i))
    BY Zenon DEF ProofsPassedOn
  <2> DEFINE rt == With(Empty, Depth, 0, NodeHash[Depth][0])
  <2>1. rt = [Empty EXCEPT ![Depth][0] = MerkleHash]
    BY MerkleHashIs, Zenon DEF With
  <2>2. TreeInv(tree, held, FALSE)
    BY DEF TreeInv
  <2>3. GetHashes(tree, i) = Proof[i] /\ held[i] = ChunkHash(i)
    BY <2>2, HeldProves
  <2>4. TreeInv(rt, [k \in Chunk |-> NoHash], FALSE)
    BY RootInv
  <2>5. rt[Depth][0] # NoHash
    <3>1. rt[Depth][0] = NodeHash[Depth][0]
      <4>1. \A k \in 0..Depth : \A j \in Place(k) : rt[k][j] = IF k = Depth /\ j = 0 THEN NodeHash[Depth][0] ELSE Empty[k][j]
        BY RootIs, EmptyIs, TreeExcept
      <4> HIDE DEF rt
      <4> QED
        BY <4>1, RootIs
    <3> QED
      BY <3>1, RootIs
  <2> HIDE DEF rt
  <2>6. Passes(rt, i, ChunkHash(i), Proof[i])
    BY <2>4, <2>5, HonestPass
  <2> QED
    BY <2>1, <2>3, <2>6, Zenon
<1> QED
  BY <1>1, <1>2, <1>3 DEF ChunkIsOfFile

\* Whatever peers send, and in whatever order, with checks of the file in between: only
\* chunks of the file are taken, right ones are never refused, and while no peer has lied
\* the hashes passed on prove the chunks they go with.
THEOREM ChunksAreOfFile == TreeSpec => []ChunkIsOfFile
<1>1. TreeInvariant => ChunkIsOfFile
  BY SoundIsOfFile
<1> QED
  BY <1>1, TreeIsSound, PTL

-----------------------------------------------------------------------------
(* The scheduler.                                                          *)

\* A list whose keys are numbers up to some number; a schedule with times of the day.
Keyed(f) == \E n \in Nat : DOMAIN f \subseteq 0..n
Day == 86400
OfDay(e) == e.time \in 0..Day
Timed(f) == Keyed(f) /\ \A i \in DOMAIN f : OfDay(f[i])

LEMMA ThoseKeyed ==
  ASSUME NEW f, Keyed(f), NEW S
  PROVE  /\ Keyed(Those(f, S)) /\ DOMAIN Those(f, S) = DOMAIN f \cap S
         /\ \A i \in DOMAIN Those(f, S) : Those(f, S)[i] = f[i]
<1>1. DOMAIN Those(f, S) = DOMAIN f \cap S
  BY DEF Those
<1>2. \A i \in DOMAIN Those(f, S) : Those(f, S)[i] = f[i]
  BY DEF Those
<1>3. PICK n \in Nat : DOMAIN f \subseteq 0..n
  BY DEF Keyed
<1>4. DOMAIN Those(f, S) \subseteq 0..n
  BY <1>1, <1>3
<1> QED
  BY <1>1, <1>2, <1>4 DEF Keyed

LEMMA LoadableIs ==
  ASSUME NEW f, Keyed(f)
  PROVE  \E n \in Nat : Loadable(f) \subseteq 0..n
<1> DEFINE S == DOMAIN f
<1>1. PICK n \in Nat : S \subseteq 0..n
  BY DEF Keyed
<1>2. Loadable(f) = 0..(Cardinality(S) - 1)
  BY DEF Loadable
<1> HIDE DEF S
<1>3. IsFiniteSet(0..n)
  BY FS_Interval
<1>4. IsFiniteSet(S)
  BY <1>1, <1>3, FS_Subset
<1>5. Cardinality(S) \in Nat
  BY <1>4, FS_CardinalityType
<1> DEFINE c == Cardinality(S)
<1>6. c \in Nat
  BY <1>5
<1> HIDE DEF c
<1>7. 0..(c - 1) \subseteq 0..c
  BY <1>6
<1> QED
  BY <1>2, <1>6, <1>7 DEF c

LEMMA LoadedTimed ==
  ASSUME NEW f, Timed(f)
  PROVE  Timed(LoadedTimes(f))
<1> DEFINE g == LoadedTimes(f)
           zero == [time |-> 0, profile |-> 0]
<1>1. DOMAIN g = Loadable(f) /\ \A i \in DOMAIN g : g[i] = IF i \in DOMAIN f THEN f[i] ELSE zero
  BY DEF LoadedTimes
<1>2. OfDay(zero)
  <2>1. zero.time = 0
    OBVIOUS
  <2>2. 0 \in 0..Day
    BY DEF Day
  <2> HIDE DEF zero
  <2> QED
    BY <2>1, <2>2 DEF OfDay
<1>3. \E n \in Nat : Loadable(f) \subseteq 0..n
  BY LoadableIs, Zenon DEF Timed
<1> HIDE DEF g, zero
<1>4. Keyed(g)
  BY <1>1, <1>3, Zenon DEF Keyed
<1>5. ASSUME NEW i \in DOMAIN g PROVE OfDay(g[i])
  BY <1>1, <1>2, Zenon DEF Timed
<1> QED
  BY <1>4, <1>5, Zenon DEF Timed, g

LEMMA ThoseTimed ==
  ASSUME NEW f, Timed(f), NEW S
  PROVE  Timed(Those(f, S))
<1>1. Keyed(f)
  BY Zenon DEF Timed
<1>2. /\ Keyed(Those(f, S)) /\ DOMAIN Those(f, S) = DOMAIN f \cap S
      /\ \A i \in DOMAIN Those(f, S) : Those(f, S)[i] = f[i]
  BY <1>1, ThoseKeyed
<1>3. ASSUME NEW i \in DOMAIN Those(f, S) PROVE OfDay(Those(f, S)[i])
  <2>1. i \in DOMAIN f /\ Those(f, S)[i] = f[i]
    BY <1>2
  <2> QED
    BY <2>1, Zenon DEF Timed
<1> QED
  BY <1>2, <1>3, Zenon DEF Timed

\* A new entry gets a key of its own.
LEMMA NextKeyed ==
  ASSUME NEW f, Keyed(f), NEW v
  PROVE  /\ Keyed(WithNext(f, v))
         /\ \A i \in DOMAIN WithNext(f, v) : WithNext(f, v)[i] = v \/ (i \in DOMAIN f /\ WithNext(f, v)[i] = f[i])
<1> DEFINE S == DOMAIN f
           most == CHOOSE i \in S : \A j \in S : j <= i
           n == IF S = {} THEN 0 ELSE 1 + most
<1>1. n \in Nat
  <2>1. CASE S = {}
    BY <2>1
  <2>2. CASE S # {}
    <3>1. PICK m \in Nat : S \subseteq 0..m
      BY DEF Keyed
    <3> DEFINE T == {m - i : i \in S}
    <3>2. T \in SUBSET Nat /\ T # {}
      BY <2>2, <3>1
    <3>3. PICK x \in T : \A y \in T : x <= y
      BY <3>2, LeastNumber
    <3>4. PICK i \in S : x = m - i
      BY <3>3
    <3>5. ASSUME NEW j \in S PROVE j <= i
      <4>1. m - j \in T /\ i \in Nat /\ j \in Nat
        BY <3>1
      <4>2. x <= m - j
        BY <3>3, <4>1
      <4> QED
        BY <3>4, <4>1, <4>2
    <3> HIDE DEF S
    <3>6. most \in S
      BY <3>5
    <3> QED
      BY <2>2, <3>1, <3>6
  <2> QED
    BY <2>1, <2>2
<1>2. WithNext(f, v) = [i \in DOMAIN f \cup {n} |-> IF i = n THEN v ELSE f[i]]
  BY Zenon DEF WithNext
<1> HIDE DEF n
<1>3. PICK m \in Nat : DOMAIN f \subseteq 0..m
  BY DEF Keyed
<1>4. m + n \in Nat /\ DOMAIN f \cup {n} \subseteq 0..(m + n)
  BY <1>1, <1>3
<1>5. DOMAIN WithNext(f, v) \subseteq 0..(m + n)
  BY <1>2, <1>4
<1>6. \A i \in DOMAIN WithNext(f, v) : WithNext(f, v)[i] = v \/ (i \in DOMAIN f /\ WithNext(f, v)[i] = f[i])
  BY <1>2
<1> QED
  BY <1>4, <1>5, <1>6 DEF Keyed

\* Among entries there is a latest one; of those at one time, a first.
LEMMA FirstLatest ==
  ASSUME NEW D \in Nat, NEW S \in SUBSET Nat, S # {}, NEW time \in [S -> 0..D]
  PROVE  \E k \in S : \A j \in S : time[k] > time[j] \/ (time[k] = time[j] /\ k <= j)
<1> DEFINE T == {D - time[i] : i \in S}
<1>0. ASSUME NEW i \in S PROVE time[i] \in 0..D
  BY Zenon
<1>1. \A i \in S : time[i] \in 0..D /\ D - time[i] \in T
  BY <1>0
<1>2. T \in SUBSET Nat /\ T # {}
  <2>1. ASSUME NEW i \in S PROVE D - time[i] \in Nat
    BY <1>0
  <2> QED
    BY <2>1
<1>3. PICK x \in T : \A y \in T : x <= y
  BY <1>2, LeastNumber
<1>4. x \in Nat /\ \E i \in S : D - time[i] = x
  BY <1>2
<1> HIDE DEF T
<1> DEFINE U == {i \in S : D - time[i] = x}
<1>5. U \in SUBSET Nat /\ U # {}
  BY <1>4
<1>6. PICK k \in U : \A j \in U : k <= j
  <2> HIDE DEF U
  <2> QED
    BY <1>5, LeastNumber
<1>7. ASSUME NEW j \in S PROVE time[k] > time[j] \/ (time[k] = time[j] /\ k <= j)
  <2>1. x <= D - time[j]
    BY <1>1, <1>3
  <2>2. D - time[j] = x => k <= j
    BY <1>6
  <2>3. D - time[k] = x /\ time[j] \in 0..D /\ time[k] \in 0..D
    BY <1>1
  <2> HIDE DEF U
  <2> QED
    BY <1>4, <2>1, <2>2, <2>3
<1> QED
  BY <1>7

LEMMA LatestIs ==
  ASSUME Timed(schedule), NEW S, S \subseteq DOMAIN schedule, S # {}
  PROVE  \E i \in S : Latest(S) = schedule[i].profile
<1> DEFINE time == [i \in S |-> schedule[i].time]
           k == CHOOSE k \in S : \A j \in S :
                    \/ schedule[k].time > schedule[j].time
                    \/ schedule[k].time = schedule[j].time /\ k <= j
<1>1. ASSUME NEW i \in S PROVE OfDay(schedule[i])
  BY Zenon DEF Timed
<1>2. ASSUME NEW i \in S PROVE schedule[i].time \in 0..Day
  BY <1>1, Zenon DEF OfDay
<1>3. time \in [S -> 0..Day]
  BY <1>2, Zenon
<1>4. S \in SUBSET Nat
  <2>1. PICK n \in Nat : DOMAIN schedule \subseteq 0..n
    BY Zenon DEF Timed, Keyed
  <2>2. 0..n \subseteq Nat
    OBVIOUS
  <2> QED
    BY <2>1, <2>2, Zenon
<1>5. \A i \in S : time[i] = schedule[i].time
  BY Zenon
<1> HIDE DEF time
<1>6. PICK q \in S : \A j \in S : time[q] > time[j] \/ (time[q] = time[j] /\ q <= j)
  <2>1. Day \in Nat
    BY DEF Day
  <2> QED
    BY <1>3, <1>4, <2>1, FirstLatest
<1>7. \A j \in S : schedule[q].time > schedule[j].time \/ (schedule[q].time = schedule[j].time /\ q <= j)
  BY <1>5, <1>6, Zenon
<1>8. k \in S
  BY <1>7, Zenon
<1>9. Latest(S) = schedule[k].profile
  BY Zenon DEF Latest
<1> HIDE DEF k
<1> QED
  BY <1>8, <1>9, Zenon

\* Every entry of the schedule has a profile that is there, at a time of the day; what is
\* in force was entered, or is the configuration.
ScheduleInvariant ==
  /\ Keyed(profiles) /\ \A i \in DOMAIN profiles : profiles[i] \in Settings
  /\ Timed(schedule) /\ \A i \in DOMAIN schedule : schedule[i].profile \in DOMAIN profiles
  /\ limits \in Settings \cup {NoSettings}

\* Some profile is active at any time, or none at any time.
LEMMA ActiveIs ==
  ASSUME ScheduleInvariant, NEW t
  PROVE  IF \E i \in DOMAIN schedule : schedule[i].time > 0
         THEN Active(t) \in DOMAIN profiles ELSE Active(t) = NoProfile
<1> DEFINE on == {i \in DOMAIN schedule : schedule[i].time > 0}
           passed == {i \in on : schedule[i].time < t}
<1>1. Active(t) = IF passed = {} THEN Latest(on) ELSE Latest(passed)
  BY Zenon DEF Active
<1>2. ASSUME NEW S, S \subseteq DOMAIN schedule PROVE IF S = {} THEN Latest(S) = NoProfile ELSE Latest(S) \in DOMAIN profiles
  <2>1. CASE S = {}
    BY <2>1, Zenon DEF Latest
  <2>2. CASE S # {}
    BY <1>2, <2>2, LatestIs DEF ScheduleInvariant
  <2> QED
    BY <2>1, <2>2
<1>3. on \subseteq DOMAIN schedule /\ passed \subseteq on
  OBVIOUS
<1>4. (on # {}) <=> \E i \in DOMAIN schedule : schedule[i].time > 0
  BY Zenon
<1> HIDE DEF on, passed
<1>5. IF on = {} THEN Active(t) = NoProfile ELSE Active(t) \in DOMAIN profiles
  BY <1>1, <1>2, <1>3
<1> QED
  BY <1>4, <1>5, Zenon

LEMMA SwitchIsFound == ScheduleInvariant => ProfileIsFound
<1> SUFFICES ASSUME ScheduleInvariant, NewProfile # OldProfile PROVE NewProfile \in DOMAIN profiles
  BY DEF ProfileIsFound
<1>1. CASE \E i \in DOMAIN schedule : schedule[i].time > 0
  BY <1>1, ActiveIs DEF NewProfile
<1>2. CASE ~\E i \in DOMAIN schedule : schedule[i].time > 0
  <2>1. NewProfile = NoProfile /\ OldProfile = NoProfile
    BY <1>2, ActiveIs DEF NewProfile, OldProfile
  <2> QED
    BY <2>1
<1> QED
  BY <1>1, <1>2

\* clean_scheduler leaves entries with a profile.
LEMMA CleanedIs ==
  ASSUME NEW s, Timed(s), NEW p
  PROVE  Timed(Cleaned(s, p)) /\ \A i \in DOMAIN Cleaned(s, p) : Cleaned(s, p)[i].profile \in DOMAIN p
<1> DEFINE S == {i \in DOMAIN s : s[i].profile \in DOMAIN p}
<1>1. Cleaned(s, p) = Those(s, S)
  BY DEF Cleaned
<1>2. Timed(Those(s, S))
  BY ThoseTimed
<1>3. /\ DOMAIN Those(s, S) = DOMAIN s \cap S
      /\ \A i \in DOMAIN Those(s, S) : Those(s, S)[i] = s[i]
  BY ThoseKeyed DEF Timed
<1> QED
  BY <1>1, <1>2, <1>3

LEMMA ProfilesLoaded ==
  ASSUME NEW f, Keyed(f), \A i \in DOMAIN f : f[i] \in Settings
  PROVE  Keyed(Loaded(f)) /\ \A i \in DOMAIN Loaded(f) : Loaded(f)[i] \in Settings
<1>1. /\ Keyed(Those(f, Loadable(f))) /\ DOMAIN Those(f, Loadable(f)) = DOMAIN f \cap Loadable(f)
      /\ \A i \in DOMAIN Those(f, Loadable(f)) : Those(f, Loadable(f))[i] = f[i]
  BY ThoseKeyed
<1> QED
  BY <1>1 DEF Loaded

LEMMA EditedProfilesFit ==
  ASSUME ScheduleInvariant, NEW f \in EditedProfiles
  PROVE  Keyed(f) /\ \A i \in DOMAIN f : f[i] \in Settings
<1>1. ASSUME NEW S PROVE Keyed(Those(profiles, S)) /\ \A i \in DOMAIN Those(profiles, S) : Those(profiles, S)[i] \in Settings
  <2>1. /\ Keyed(Those(profiles, S)) /\ DOMAIN Those(profiles, S) = DOMAIN profiles \cap S
        /\ \A i \in DOMAIN Those(profiles, S) : Those(profiles, S)[i] = profiles[i]
    BY ThoseKeyed DEF ScheduleInvariant
  <2> QED
    BY <2>1 DEF ScheduleInvariant
<1>2. (\E S : f = Those(profiles, S)) \/ (\E S : \E v \in Settings : f = WithNext(Those(profiles, S), v))
  BY DEF EditedProfiles
<1>3. ASSUME NEW S, NEW v \in Settings, f = WithNext(Those(profiles, S), v)
      PROVE  Keyed(f) /\ \A i \in DOMAIN f : f[i] \in Settings
  <2> DEFINE g == Those(profiles, S)
  <2>1. Keyed(g) /\ \A i \in DOMAIN g : g[i] \in Settings
    BY <1>1
  <2> HIDE DEF g
  <2>2. Keyed(WithNext(g, v))
        /\ \A i \in DOMAIN WithNext(g, v) : WithNext(g, v)[i] = v \/ (i \in DOMAIN g /\ WithNext(g, v)[i] = g[i])
    BY <2>1, NextKeyed
  <2>3. f = WithNext(g, v)
    BY <1>3 DEF g
  <2> QED
    BY <2>1, <2>2, <2>3
<1> QED
  BY <1>1, <1>2, <1>3

LEMMA EditedSchedulesFit ==
  ASSUME ScheduleInvariant, NEW f \in EditedSchedules
  PROVE  Timed(f)
<1> DEFINE shown == LoadedTimes(schedule)
<1>1. Timed(shown)
  BY LoadedTimed DEF ScheduleInvariant
<1>2. ASSUME NEW t \in Time PROVE Entered(t) \in 0..Day
  <2>1. t.h \in Int /\ 0 <= t.h /\ t.h <= 23 /\ t.m \in Int /\ 0 <= t.m /\ t.m <= 59
    <3>1. t.h \in Hours /\ t.m \in Minutes
      BY DEF Time
    <3>2. ASSUME NEW x \in Hours PROVE x \in Int /\ 0 <= x /\ x <= 23
      BY SchedulerAssumption
    <3>3. ASSUME NEW x \in Minutes PROVE x \in Int /\ 0 <= x /\ x <= 59
      BY SchedulerAssumption
    <3> QED
      BY <3>1, <3>2, <3>3, Zenon
  <2>2. Entered(t) \in Int /\ 0 <= Entered(t) /\ Entered(t) <= Day
    <3>1. ASSUME NEW h \in Int, NEW m \in Int, 0 <= h, h <= 23, 0 <= m, m <= 59
          PROVE  60 * (60 * h + m) \in Int /\ 0 <= 60 * (60 * h + m) /\ 60 * (60 * h + m) <= Day
      BY <3>1 DEF Day
    <3>2. Entered(t) = 60 * (60 * t.h + t.m)
      BY DEF Entered
    <3> QED
      BY <2>1, <3>1, <3>2
  <2>3. Day \in Int
    BY DEF Day
  <2> QED
    BY <2>2, <2>3
<1>3. \/ \E S : f = Those(shown, S)
      \/ \E S : \E t \in Time : \E i \in DOMAIN profiles : f = WithNext(Those(shown, S), [time |-> Entered(t), profile |-> i])
  BY DEF EditedSchedules
<1> HIDE DEF shown
<1>4. ASSUME NEW S, NEW t \in Time, NEW i \in DOMAIN profiles, f = WithNext(Those(shown, S), [time |-> Entered(t), profile |-> i])
      PROVE  Timed(f)
  <2> DEFINE g == Those(shown, S)
             v == [time |-> Entered(t), profile |-> i]
  <2>1. Timed(g)
    BY <1>1, ThoseTimed
  <2>2. OfDay(v)
    <3>1. v.time = Entered(t)
      OBVIOUS
    <3> QED
      BY <1>2, <3>1, Zenon DEF OfDay
  <2>3. f = WithNext(g, v)
    BY <1>4
  <2> HIDE DEF g, v
  <2>4. Keyed(WithNext(g, v))
        /\ \A j \in DOMAIN WithNext(g, v) : WithNext(g, v)[j] = v \/ (j \in DOMAIN g /\ WithNext(g, v)[j] = g[j])
    BY <2>1, NextKeyed DEF Timed
  <2> QED
    BY <2>1, <2>2, <2>3, <2>4 DEF Timed
<1> QED
  BY <1>1, <1>3, <1>4, ThoseTimed

LEMMA ScheduleBegins == SchedulerInit => ScheduleInvariant
<1> SUFFICES ASSUME SchedulerInit PROVE ScheduleInvariant
  OBVIOUS
<1>1. profiles = <<>> /\ schedule = <<>> /\ limits = NoSettings
  BY DEF SchedulerInit
<1>2. DOMAIN profiles = {} /\ DOMAIN schedule = {}
  BY <1>1
<1>3. 0 \in Nat
  OBVIOUS
<1>4. Keyed(profiles) /\ Keyed(schedule)
  BY <1>2, <1>3 DEF Keyed
<1> QED
  BY <1>1, <1>2, <1>4 DEF ScheduleInvariant, Timed

LEMMA ScheduleStep == ScheduleInvariant /\ [SchedulerNext]_scheduler => ScheduleInvariant'
<1> SUFFICES ASSUME ScheduleInvariant, [SchedulerNext]_scheduler PROVE ScheduleInvariant'
  OBVIOUS
<1> USE DEF ScheduleInvariant
<1>1. CASE TimePasses
  BY <1>1 DEF TimePasses
<1>2. CASE RunScheduler
  <2>1. CASE NewProfile = OldProfile
    BY <1>2, <2>1 DEF RunScheduler
  <2>2. CASE NewProfile # OldProfile
    <3>1. NewProfile \in DOMAIN profiles
      BY <2>2, SwitchIsFound DEF ProfileIsFound
    <3>2. limits' = profiles[NewProfile] /\ UNCHANGED <<profiles, schedule>>
      BY <1>2, <2>2 DEF RunScheduler
    <3> QED
      BY <3>1, <3>2
  <2> QED
    BY <2>1, <2>2
<1>3. CASE Restart
  <2>1. profiles' = Loaded(profiles) /\ schedule' = Cleaned(LoadedTimes(schedule), profiles') /\ limits' = NoSettings
    BY <1>3 DEF Restart
  <2>2. Keyed(Loaded(profiles)) /\ \A i \in DOMAIN Loaded(profiles) : Loaded(profiles)[i] \in Settings
    BY ProfilesLoaded
  <2>3. Timed(LoadedTimes(schedule))
    BY LoadedTimed
  <2>4. Timed(schedule') /\ \A i \in DOMAIN schedule' : schedule'[i].profile \in DOMAIN profiles'
    BY <2>1, <2>3, CleanedIs
  <2> QED
    BY <2>1, <2>2, <2>4
<1>4. ASSUME NEW f \in EditedProfiles, SetProfiles(f) PROVE ScheduleInvariant'
  <2>1. profiles' = Loaded(f) /\ schedule' = Cleaned(schedule, profiles') /\ limits' = limits
    BY <1>4 DEF SetProfiles
  <2>2. Keyed(f) /\ \A i \in DOMAIN f : f[i] \in Settings
    BY EditedProfilesFit
  <2>3. Keyed(Loaded(f)) /\ \A i \in DOMAIN Loaded(f) : Loaded(f)[i] \in Settings
    BY <2>2, ProfilesLoaded
  <2>4. Timed(schedule') /\ \A i \in DOMAIN schedule' : schedule'[i].profile \in DOMAIN profiles'
    BY <2>1, CleanedIs
  <2> QED
    BY <2>1, <2>3, <2>4
<1>5. ASSUME NEW f \in EditedSchedules, SetScheduler(f) PROVE ScheduleInvariant'
  <2>1. schedule' = Cleaned(LoadedTimes(f), profiles) /\ profiles' = profiles /\ limits' = limits
    BY <1>5 DEF SetScheduler
  <2>2. Timed(LoadedTimes(f))
    BY EditedSchedulesFit, LoadedTimed
  <2>3. Timed(schedule') /\ \A i \in DOMAIN schedule' : schedule'[i].profile \in DOMAIN profiles'
    BY <2>1, <2>2, CleanedIs
  <2> QED
    BY <2>1, <2>3
<1>6. ASSUME NEW i \in DOMAIN profiles, Activate(i) PROVE ScheduleInvariant'
  BY <1>6 DEF Activate
<1>7. CASE UNCHANGED scheduler
  BY <1>7 DEF scheduler
<1> QED
  BY <1>1, <1>2, <1>3, <1>4, <1>5, <1>6, <1>7 DEF SchedulerNext

\* The entries keep to profiles that are there, however both lists are edited, cleaned,
\* saved and loaded, and only what was entered comes into force.
THEOREM ScheduleFitsProfiles == SchedulerSpec => []ScheduleInvariant
BY ScheduleBegins, ScheduleStep, PTL DEF SchedulerSpec

\* run_scheduler finds the profile it switches to (server.cpp:732).
THEOREM ScheduledProfileIsFound == SchedulerSpec => []ProfileIsFound
BY ScheduleFitsProfiles, SwitchIsFound, PTL

-----------------------------------------------------------------------------
(* The lists of the Windows client.                                        *)

\* The torrents of the map have ids and hashes of their own and a row each.
ListsFit ==
  /\ DOMAIN files \subseteq 0..MaxId /\ top = DOMAIN files
  /\ \A i, j \in DOMAIN files : files[i].hash = files[j].hash => i = j
  /\ file \in DOMAIN files \cup {None}
  /\ view \in BottomViews /\ events \in Nat /\ fresh \in BOOLEAN

\* What the map has of a torrent after a dump, with all flags or without.
EntryFits(f, full) ==
  /\ f.hash \in Hashes /\ f.info \in BOOLEAN /\ f.events \in Nat /\ f.trackers \in Nat
  /\ f.subs = (IF full /\ f.info THEN PiecesOf[f.hash] ELSE 0)
  /\ f.pieces = f.subs
  /\ ~full => f.events = 0 /\ f.trackers = 0

EntriesFit == \A i \in DOMAIN files : EntryFits(files[i], fresh)

\* The rows rs of a chosen torrent are those of its elements; sub-files and pieces keep
\* theirs when a dump does not name them.
RowsOfChosen(v, f, full, n, rs) ==
  IF v \in {"files", "pieces"}
  THEN /\ rs \in {{}, 0..(PiecesOf[f.hash] - 1)}
       /\ rs # {} => f.info
       /\ v = "files" /\ full => rs = 0..(f.subs - 1)
  ELSE rs = Filled(v, f, n)

\* Without one there are only rows of the server.
RowsOfNone(v, n, rs) == IF v = "global_events" THEN \E k \in 0..n : rs = 0..(k - 1) ELSE rs = {}

RowsFit ==
  IF file = None THEN RowsOfNone(view, events, rows)
  ELSE RowsOfChosen(view, files[file], fresh, events, rows)

ListsInvariant == ListsFit /\ EntriesFit /\ RowsFit

ViewInvariant == ListsInvariant /\ (missed # {} => Stranded)

LEMMA NoneIsNoId ==
  ASSUME NEW i \in Nat
  PROVE  i # None
BY DEF None

\* A list of k rows.
LEMMA RowCount ==
  ASSUME NEW k \in Nat
  PROVE  Cardinality(0..(k - 1)) = k /\ IsFiniteSet(0..(k - 1))
<1>1. 0 \in Int /\ k - 1 \in Int
  OBVIOUS
<1>2. IsFiniteSet(0..(k - 1)) /\ Cardinality(0..(k - 1)) = IF 0 > k - 1 THEN 0 ELSE k - 1 - 0 + 1
  BY <1>1, FS_Interval
<1> QED
  BY <1>2

LEMMA GrownIs ==
  ASSUME NEW k \in Nat, NEW n \in Nat
  PROVE  /\ k <= n => Grown(0..(k - 1), n) = 0..(n - 1)
         /\ n <= k => Grown(0..(k - 1), n) = 0..(k - 1)
<1>1. Grown(0..(k - 1), n) = 0..(k - 1) \cup k..(n - 1)
  BY RowCount, Zenon DEF Grown
<1>2. k <= n => 0..(k - 1) \cup k..(n - 1) = 0..(n - 1)
  OBVIOUS
<1>3. n <= k => 0..(k - 1) \cup k..(n - 1) = 0..(k - 1)
  OBVIOUS
<1> QED
  BY <1>1, <1>2, <1>3, Zenon

\* What is filled in is right.
LEMMA FilledFits ==
  ASSUME NEW f, NEW full \in BOOLEAN, NEW n, NEW v, EntryFits(f, full)
  PROVE  RowsOfChosen(v, f, full, n, Filled(v, f, n))
<1>1. CASE v = "files"
  <2>1. Filled(v, f, n) = 0..(f.subs - 1)
    BY <1>1 DEF Filled
  <2>2. f.subs = 0 \/ (f.info /\ f.subs = PiecesOf[f.hash])
    BY DEF EntryFits
  <2>3. f.subs = 0 => 0..(f.subs - 1) = {}
    OBVIOUS
  <2> QED
    BY <1>1, <2>1, <2>2, <2>3 DEF RowsOfChosen
<1>2. CASE v = "pieces"
  <2>1. Filled(v, f, n) = 0..(f.subs - 1)
    BY <1>2 DEF Filled, EntryFits
  <2>2. f.subs = 0 \/ (f.info /\ f.subs = PiecesOf[f.hash])
    BY DEF EntryFits
  <2>3. f.subs = 0 => 0..(f.subs - 1) = {}
    OBVIOUS
  <2> QED
    BY <1>2, <2>1, <2>2, <2>3 DEF RowsOfChosen
<1>3. CASE v \notin {"files", "pieces"}
  BY <1>3 DEF RowsOfChosen
<1> QED
  BY <1>1, <1>2, <1>3

\* The rows of a torrent that stays chosen.
LEMMA RowsKept ==
  ASSUME ViewAssumption,
         NEW f, EntryFits(f, fresh), RowsOfChosen(view, f, fresh, events, rows),
         NEW g, NEW full \in BOOLEAN, EntryFits(g, full), NEW hosts,
         g.hash = f.hash, f.info => g.info, full => f.events <= g.events,
         DOMAIN f.peers \subseteq DOMAIN g.peers,
         NEW s, EntryFits(s, full), s.hash = g.hash, s.info = g.info, s.events = g.events,
         s.trackers = g.trackers, DOMAIN s.peers = {i \in DOMAIN g.peers : g.peers[i] \in hosts},
         view \in BottomViews, events \in Nat, NEW n \in Nat, events <= n,
         NEW rs \in RowsOf(view, g, hosts)
  PROVE  RowsOfChosen(view, s, full, n, GlobalRows(view, rs, n))
<1>1. CASE view \in {"details", "global_details"}
  <2>1. rows = DetailRows
    BY <1>1 DEF RowsOfChosen, Filled
  <2>2. rs = rows /\ GlobalRows(view, rs, n) = rs
    BY <1>1 DEF RowsOf, GlobalRows
  <2> QED
    BY <1>1, <2>1, <2>2 DEF RowsOfChosen, Filled
<1>2. CASE view = "events"
  <2>0. rs \in CutOrGrown(rows, g.events)
    BY <1>2 DEF RowsOf
  <2>1. f.events \in Nat /\ g.events \in Nat /\ rows = 0..(f.events - 1)
    BY <1>2 DEF RowsOfChosen, Filled, EntryFits
  <2>2. Cardinality(rows) = f.events /\ IsFiniteSet(rows)
    BY <2>1, RowCount
  <2>3. rs = 0..(g.events - 1)
    <3>1. CASE f.events > g.events
      <4>1. ~full /\ g.events = 0
        BY <2>1, <3>1 DEF EntryFits
      <4>2. rs \in SUBSET rows /\ Cardinality(rs) = 0
        <5>1. Cardinality(rows) > g.events
          BY <2>2, <3>1
        <5> QED
          BY <2>0, <4>1, <5>1, Zenon DEF CutOrGrown
      <4>3. IsFiniteSet(rs)
        BY <2>2, <4>2, FS_Subset
      <4>4. rs = {}
        BY <4>2, <4>3, FS_EmptySet
      <4> QED
        BY <4>1, <4>4
    <3>2. CASE f.events <= g.events
      <4>1. rs = Grown(rows, g.events)
        BY <2>0, <2>1, <2>2, <3>2 DEF CutOrGrown
      <4> QED
        BY <2>1, <3>2, <4>1, GrownIs
    <3> QED
      BY <2>1, <3>1, <3>2
  <2>4. GlobalRows(view, rs, n) = rs
    BY <1>2 DEF GlobalRows
  <2> QED
    BY <1>2, <2>3, <2>4 DEF RowsOfChosen, Filled
<1>3. CASE view = "files"
  <2> DEFINE P == PiecesOf[f.hash]
  <2>1. P \in Nat
    BY DEF EntryFits, ViewAssumption
  <2>2. rows \in {{}, 0..(P - 1)} /\ (rows # {} => f.info)
    BY <1>3 DEF RowsOfChosen
  <2>3. rs = Grown(rows, g.subs)
    BY <1>3 DEF RowsOf
  <2>4. g.subs = (IF full /\ g.info THEN P ELSE 0) /\ s.subs = g.subs
    BY DEF EntryFits
  <2>5. GlobalRows(view, rs, n) = rs
    BY <1>3 DEF GlobalRows
  <2>6. PiecesOf[s.hash] = P /\ (f.info => s.info)
    OBVIOUS
  <2> HIDE DEF P
  <2>7. rows = 0..(P - 1) \/ rows = 0..(0 - 1)
    BY <2>2
  <2>8. rs \in {{}, 0..(P - 1)} /\ (rs # {} => s.info) /\ (full => rs = 0..(g.subs - 1))
    <3>1. CASE rows = 0..(P - 1) /\ rows # {}
      <4>1. g.info /\ s.info /\ g.subs <= P /\ g.subs \in Nat
        BY <2>1, <2>2, <2>4, <3>1
      <4>2. rs = 0..(P - 1)
        BY <2>1, <2>3, <3>1, <4>1, GrownIs
      <4>3. full => g.subs = P
        BY <2>4, <4>1
      <4> QED
        BY <4>1, <4>2, <4>3
    <3>2. CASE rows = {}
      <4>1. g.subs \in Nat /\ 0 <= g.subs /\ 0 \in Nat
        BY <2>1, <2>4
      <4>2. rows = 0..(0 - 1)
        BY <3>2
      <4>3. rs = 0..(g.subs - 1)
        BY <2>3, <4>1, <4>2, GrownIs
      <4>4. (g.subs = P /\ s.info) \/ g.subs = 0
        BY <2>4
      <4>5. 0..(0 - 1) = {}
        OBVIOUS
      <4> QED
        BY <4>3, <4>4, <4>5
    <3> QED
      BY <2>2, <3>1, <3>2
  <2> QED
    BY <1>3, <2>4, <2>5, <2>6, <2>8 DEF RowsOfChosen
<1>4. CASE view = "pieces"
  <2>1. rs = rows /\ GlobalRows(view, rs, n) = rs
    BY <1>4 DEF RowsOf, GlobalRows
  <2> QED
    BY <1>4, <2>1 DEF RowsOfChosen
<1>5. CASE view = "trackers"
  <2>1. f.trackers \in Nat /\ g.trackers \in Nat /\ rows = 0..(f.trackers - 1)
    BY <1>5 DEF RowsOfChosen, Filled, EntryFits
  <2>2. rs = Grown(rows, g.trackers) \cap (0..(g.trackers - 1)) /\ GlobalRows(view, rs, n) = rs
    BY <1>5 DEF RowsOf, GlobalRows
  <2>3. rs = 0..(g.trackers - 1)
    BY <2>1, <2>2, GrownIs
  <2> QED
    BY <1>5, <2>2, <2>3 DEF RowsOfChosen, Filled
<1>6. CASE view = "peers"
  <2>1. rows = DOMAIN f.peers
    BY <1>6 DEF RowsOfChosen, Filled
  <2>2. rs = (rows \cup DOMAIN g.peers) \ {i \in DOMAIN g.peers : g.peers[i] \notin hosts}
    BY <1>6 DEF RowsOf
  <2>3. GlobalRows(view, rs, n) = rs
    BY <1>6 DEF GlobalRows
  <2>4. rs = DOMAIN s.peers
    BY <2>1, <2>2
  <2> QED
    BY <1>6, <2>3, <2>4 DEF RowsOfChosen, Filled
<1>7. CASE view = "global_events"
  <2>1. rows = 0..(events - 1)
    BY <1>7 DEF RowsOfChosen, Filled
  <2>2. rs = rows /\ GlobalRows(view, rs, n) = Grown(rs, n)
    BY <1>7 DEF RowsOf, GlobalRows
  <2>3. GlobalRows(view, rs, n) = 0..(n - 1)
    BY <2>1, <2>2, GrownIs
  <2> QED
    BY <1>7, <2>3 DEF RowsOfChosen, Filled
<1> QED
  BY <1>1, <1>2, <1>3, <1>4, <1>5, <1>6, <1>7 DEF BottomViews

\* A new id is above all others.
LEMMA NewIdIs ==
  ASSUME NEW S \in SUBSET Nat, NEW m \in Nat, S \subseteq 0..m
  PROVE  NewId(S) \in Nat /\ \A i \in S : i < NewId(S)
<1> DEFINE most == CHOOSE x \in S : \A i \in S : i <= x
<1>1. CASE S = {}
  BY <1>1 DEF NewId
<1>2. CASE S # {}
  <2> DEFINE T == {m - i : i \in S}
  <2>0. \A i \in S : m - i \in Nat
    OBVIOUS
  <2>1. T \in SUBSET Nat /\ T # {}
    BY <1>2, <2>0
  <2>2. PICK x \in T : \A y \in T : x <= y
    BY <2>1, LeastNumber
  <2>3. PICK i \in S : x = m - i
    BY <2>2
  <2>4. ASSUME NEW j \in S PROVE j <= i
    <3>1. m - j \in T /\ i \in Nat /\ j \in Nat
      OBVIOUS
    <3>2. x <= m - j
      BY <2>2, <3>1
    <3> QED
      BY <2>3, <3>1, <3>2
  <2>5. most \in S /\ \A j \in S : j <= most
    BY <2>4
  <2>6. NewId(S) = 1 + most
    BY <1>2 DEF NewId
  <2> HIDE DEF most
  <2>7. most \in Nat
    BY <2>5
  <2> QED
    BY <2>5, <2>6, <2>7
<1> QED
  BY <1>1, <1>2

\* What is inserted comes behind what was there.
Behind(m, new, l, e) ==
  /\ DOMAIN m \subseteq DOMAIN e /\ DOMAIN e \subseteq Nat
  /\ \A i \in DOMAIN m : e[i] = m[i]
  /\ \A i \in DOMAIN e \ DOMAIN m :
       \E k \in 1..l : i = NewId(DOMAIN m) - 1 + k /\ e[i] = new[k]

LEMMA InsertIs ==
  ASSUME NEW m, NEW b \in Nat, DOMAIN m \subseteq 0..b, NEW l \in Nat, NEW new, DOMAIN new = 1..l
  PROVE  Behind(m, new, l, Insert(m, new))
<1> DEFINE id == NewId(DOMAIN m)
<1>1. id \in Nat /\ \A i \in DOMAIN m : i < id
  <2>1. DOMAIN m \in SUBSET Nat
    OBVIOUS
  <2> QED
    BY <2>1, NewIdIs
<1>2. Insert(m, new) = [i \in DOMAIN m \cup {id - 1 + k : k \in 1..l} |-> IF i \in DOMAIN m THEN m[i] ELSE new[i - (id - 1)]]
  BY DEF Insert
<1> HIDE DEF id
<1>3. DOMAIN Insert(m, new) = DOMAIN m \cup {id - 1 + k : k \in 1..l}
  BY <1>2
<1>4. \A k \in 1..l : id - 1 + k \in Nat /\ (id - 1 + k) - (id - 1) = k /\ id - 1 + k \notin DOMAIN m
  BY <1>1
<1>5. DOMAIN Insert(m, new) \subseteq Nat
  BY <1>3, <1>4
<1>6. \A i \in DOMAIN m : Insert(m, new)[i] = m[i]
  BY <1>2
<1>7. ASSUME NEW i \in DOMAIN Insert(m, new) \ DOMAIN m
      PROVE  \E k \in 1..l : i = id - 1 + k /\ Insert(m, new)[i] = new[k]
  <2>1. PICK k \in 1..l : i = id - 1 + k
    BY <1>3
  <2>2. Insert(m, new)[i] = new[i - (id - 1)]
    BY <1>2
  <2>3. i - (id - 1) = k
    BY <1>4, <2>1
  <2> QED
    BY <2>1, <2>2, <2>3
<1> QED
  BY <1>3, <1>5, <1>6, <1>7 DEF id, Behind

\* The entry of a torrent after a dump: g what is read into f, s what stays of that.
ReadInto(f, c, full, hosts, g, s) ==
  /\ EntryFits(g, full) /\ EntryFits(s, full)
  /\ g.hash = f.hash /\ g.info = c.info /\ g.peers = PeersAfter(f.peers, IF full THEN c.hosts ELSE {})
  /\ full => g.events = c.events
  /\ s.hash = g.hash /\ s.info = g.info /\ s.events = g.events /\ s.trackers = g.trackers
  /\ DOMAIN s.peers = {i \in DOMAIN g.peers : g.peers[i] \in hosts}

Cut(g, hosts) == [g EXCEPT !.peers = Named(@, hosts)]

LEMMA EntryRead ==
  ASSUME ViewAssumption, NEW full \in BOOLEAN, NEW f, f.hash \in Hashes, NEW c \in Says, NEW hosts
  PROVE  ReadInto(f, c, full, hosts, Updated(f, c, full), Cut(Updated(f, c, full), hosts))
<1> DEFINE p == PeersAfter(f.peers, IF full THEN c.hosts ELSE {})
           parts == IF full /\ c.info THEN PiecesOf[f.hash] ELSE 0
           e == IF full THEN c.events ELSE 0
           t == IF full THEN c.trackers ELSE 0
           g == Updated(f, c, full)
           s == Cut(g, hosts)
<1>1. g = [hash |-> f.hash, info |-> c.info, peers |-> p, subs |-> parts, pieces |-> parts, events |-> e, trackers |-> t]
  BY DEF Updated
<1>2. c.info \in BOOLEAN /\ e \in Nat /\ t \in Nat /\ (full => e = c.events) /\ (~full => e = 0 /\ t = 0)
  BY DEF ViewAssumption
<1>3. parts = IF full /\ c.info THEN PiecesOf[f.hash] ELSE 0
  OBVIOUS
<1> HIDE DEF p, parts, e, t, g
<1>4. g.hash = f.hash /\ g.info = c.info /\ g.peers = p /\ g.subs = parts /\ g.pieces = parts /\ g.events = e /\ g.trackers = t
  BY <1>1
<1>5. /\ s.hash = g.hash /\ s.info = g.info /\ s.subs = g.subs /\ s.pieces = g.pieces
      /\ s.events = g.events /\ s.trackers = g.trackers
      /\ s.peers = Named(g.peers, hosts)
  BY <1>1 DEF Cut
<1>6. DOMAIN s.peers = {i \in DOMAIN g.peers : g.peers[i] \in hosts}
  BY <1>5 DEF Named
<1> HIDE DEF s
<1>7. EntryFits(g, full)
  BY <1>2, <1>3, <1>4 DEF EntryFits
<1>8. EntryFits(s, full)
  BY <1>5, <1>7 DEF EntryFits
<1> QED
  BY <1>2, <1>4, <1>5, <1>6, <1>7, <1>8 DEF ReadInto, g, s, p

\* Peers that are known keep their ids.
LEMMA PeersStay ==
  ASSUME NEW peers, NEW hosts
  PROVE  DOMAIN peers \subseteq DOMAIN PeersAfter(peers, hosts)
BY DEF PeersAfter, Insert

\* A dump keeps the lists right.
LEMMA DumpKeeps ==
  ASSUME ViewAssumption, ListsInvariant, NEW full \in BOOLEAN, NEW S \in SUBSET Hashes, NEW c \in [S -> Says],
         Sends(full, c), NEW new \in SetToSeqs(S \ {files[i].hash : i \in DOMAIN files}),
         NEW n \in events..MaxEvents, ReadDump(full, new, c, n), view' = view
  PROVE  ListsInvariant'
<1> DEFINE fresh0 == [k \in DOMAIN new |-> NoEntry(new[k])]
           entries == Insert(files, fresh0)
           kept == {i \in DOMAIN entries : entries[i].hash \in DOMAIN c}
           hosts(h) == IF full THEN c[h].hosts ELSE {}
           read == [i \in kept |-> Updated(entries[i], c[entries[i].hash], full)]
           after == [i \in kept |-> [read[i] EXCEPT !.peers = Named(@, hosts(read[i].hash))]]
           first == {i \in kept : read[i].hash \in {files[j].hash : j \in DOMAIN files} \/ read[i].hash = new[1]}
<1>1. /\ \A i \in kept : i <= MaxId
      /\ files' = after
      /\ top' = (top \cup DOMAIN entries) \ (DOMAIN entries \ kept)
      /\ events' = n
      /\ fresh' = full
  BY DEF ReadDump
<1>2. \/ /\ file = None /\ DOMAIN c = {}
         /\ file' = None /\ rows' = GlobalRows(view, rows, n)
      \/ /\ file = None
         /\ file' \in first
         /\ rows' = GlobalRows(view, FillPeers(view, after, file', n), n)
      \/ /\ file \in kept
         /\ file' = file
         /\ \E rs \in RowsOf(view, read[file], hosts(read[file].hash)) : rows' = GlobalRows(view, rs, n)
      \/ /\ file # None /\ file \notin kept
         /\ file' = None /\ rows' = {}
  BY DEF ReadDump
<1>3. PICK l \in Nat : /\ DOMAIN new = 1..l /\ \A k \in 1..l : new[k] \in S /\ new[k] \notin {files[j].hash : j \in DOMAIN files}
                       /\ \A j, k \in 1..l : new[j] = new[k] => j = k
  <2> DEFINE known == {files[j].hash : j \in DOMAIN files}
             l == Cardinality(S \ known)
  <2>1. new \in {f \in [1..l -> S \ known] : \A j, k \in 1..l : j # k => f[j] # f[k]}
    BY DEF SetToSeqs
  <2>2. l \in Nat
    <3>1. IsFiniteSet(S \ known)
      <4>1. IsFiniteSet(Hashes) /\ S \ known \subseteq Hashes
        BY DEF ViewAssumption
      <4> HIDE DEF known
      <4> QED
        BY <4>1, FS_Subset
    <3> HIDE DEF known
    <3> QED
      BY <3>1, FS_CardinalityType
  <2> HIDE DEF l, known
  <2>3. DOMAIN new = 1..l /\ (\A k \in 1..l : new[k] \in S /\ new[k] \notin known)
        /\ \A j, k \in 1..l : new[j] = new[k] => j = k
    BY <2>1
  <2> QED
    BY <2>2, <2>3 DEF known
<1>4. /\ DOMAIN files \subseteq DOMAIN entries /\ DOMAIN entries \subseteq Nat
      /\ \A i \in DOMAIN files : entries[i] = files[i]
      /\ \A i \in DOMAIN entries \ DOMAIN files :
           \E k \in 1..l : i = NewId(DOMAIN files) - 1 + k /\ entries[i].hash = new[k]
  <2>1. DOMAIN fresh0 = 1..l /\ \A k \in 1..l : fresh0[k].hash = new[k]
    BY <1>3 DEF NoEntry
  <2>2. DOMAIN files \subseteq 0..MaxId /\ MaxId \in Nat
    BY DEF ListsInvariant, ListsFit, ViewAssumption
  <2> HIDE DEF fresh0
  <2>3. Behind(files, fresh0, l, entries)
    BY <2>1, <2>2, InsertIs, Zenon
  <2> HIDE DEF entries
  <2> QED
    BY <2>1, <2>3 DEF Behind
<1> HIDE DEF entries, fresh0
<1>5. \A i, j \in DOMAIN entries : entries[i].hash = entries[j].hash => i = j
  <2>1. NewId(DOMAIN files) \in Nat
    <3>1. DOMAIN files \in SUBSET Nat /\ DOMAIN files \subseteq 0..MaxId /\ MaxId \in Nat
      BY DEF ListsInvariant, ListsFit, ViewAssumption
    <3> QED
      BY <3>1, NewIdIs
  <2>2. \A i, j \in DOMAIN files : files[i].hash = files[j].hash => i = j
    BY DEF ListsInvariant, ListsFit
  <2>3. \A i, j \in DOMAIN files : entries[i].hash = entries[j].hash => i = j
    BY <1>4, <2>2
  <2>4. \A i \in DOMAIN files, j \in DOMAIN entries \ DOMAIN files : entries[i].hash # entries[j].hash
    BY <1>3, <1>4
  <2>5. \A i, j \in DOMAIN entries \ DOMAIN files : entries[i].hash = entries[j].hash => i = j
    BY <1>3, <1>4
  <2> QED
    BY <2>3, <2>4, <2>5
<1>6. \A i \in kept : entries[i].hash \in S /\ entries[i].hash \in Hashes /\ c[entries[i].hash] \in Says
  OBVIOUS
<1> DEFINE own(i) == hosts(entries[i].hash)
<1>7. ASSUME NEW i \in kept
      PROVE  /\ EntryFits(read[i], full) /\ EntryFits(after[i], full)
             /\ read[i].hash = entries[i].hash /\ read[i].info = c[entries[i].hash].info
             /\ DOMAIN entries[i].peers \subseteq DOMAIN read[i].peers
             /\ full => read[i].events = c[entries[i].hash].events
             /\ after[i].hash = read[i].hash /\ after[i].info = read[i].info /\ after[i].events = read[i].events
             /\ after[i].trackers = read[i].trackers
             /\ DOMAIN after[i].peers = {p \in DOMAIN read[i].peers : read[i].peers[p] \in own(i)}
  <2> DEFINE e == entries[i]
             s == c[e.hash]
             g == Updated(e, s, full)
             h == own(i)
             q == [g EXCEPT !.peers = Named(@, h)]
  <2>1. read[i] = g
    OBVIOUS
  <2>2. e.hash \in Hashes /\ s \in Says
    BY <1>6
  <2>3. /\ EntryFits(g, full) /\ EntryFits(q, full)
        /\ g.hash = e.hash /\ g.info = s.info /\ g.peers = PeersAfter(e.peers, IF full THEN s.hosts ELSE {})
        /\ full => g.events = s.events
        /\ q.hash = g.hash /\ q.info = g.info /\ q.events = g.events /\ q.trackers = g.trackers
        /\ DOMAIN q.peers = {p \in DOMAIN g.peers : g.peers[p] \in h}
    <3>1. q = Cut(g, h)
      BY DEF Cut
    <3>2. ReadInto(e, s, full, h, g, Cut(g, h))
      <4> HIDE DEF e, s, h
      <4> QED
        BY <2>2, EntryRead, Zenon
    <3> HIDE DEF e, s, h, g, q
    <3> QED
      BY <3>1, <3>2 DEF ReadInto
  <2>4. after[i] = q
    <3>1. hosts(read[i].hash) = h
      BY <2>1, <2>3
    <3>2. after[i] = [read[i] EXCEPT !.peers = Named(@, hosts(read[i].hash))]
      OBVIOUS
    <3> HIDE DEF after, g, h, read, hosts
    <3> QED
      BY <2>1, <3>1, <3>2
  <2> HIDE DEF after, g, q, h, read
  <2>5. DOMAIN e.peers \subseteq DOMAIN g.peers
    BY <2>3, PeersStay
  <2> QED
    BY <2>1, <2>3, <2>4, <2>5 DEF h
<1>8. kept \subseteq 0..MaxId /\ DOMAIN after = kept /\ top' = kept
  <2>1. top = DOMAIN files /\ kept \subseteq DOMAIN entries
    BY DEF ListsInvariant, ListsFit
  <2>2. \A i \in kept : i \in Nat
    BY <1>4
  <2>3. MaxId \in Nat
    BY DEF ViewAssumption
  <2>4. kept \subseteq 0..MaxId
    <3> HIDE DEF kept
    <3> QED
      BY <1>1, <2>2, <2>3
  <2> QED
    BY <1>1, <1>4, <2>1, <2>4
<1>9. \A i \in kept : file = i => file # None
  <2>1. \A i \in kept : i \in Nat
    BY <1>4
  <2> HIDE DEF kept
  <2> QED
    BY <2>1, NoneIsNoId
<1>10. kept \subseteq DOMAIN entries
  OBVIOUS
<1>11. file # None => file \in DOMAIN files
  BY DEF ListsInvariant, ListsFit
<1>12. /\ events \in Nat /\ n \in Nat /\ events <= n /\ view \in BottomViews /\ fresh \in BOOLEAN
  BY DEF ListsInvariant, ListsFit, ViewAssumption
<1>13. first \subseteq kept
  OBVIOUS
<1> HIDE DEF first
<1>14. \A i \in kept : i \in DOMAIN files => entries[i] = files[i] /\ files[i].hash \in DOMAIN c
  BY <1>4
<1> HIDE DEF kept
<1>15. ListsFit'
  <2>1. file' \in kept \cup {None}
    BY <1>2, <1>13
  <2>2. \A i, j \in kept : after[i].hash = after[j].hash => i = j
    <3> HIDE DEF after, read
    <3> QED
      BY <1>5, <1>7, <1>10
  <2> HIDE DEF after
  <2> QED
    BY <1>1, <1>8, <1>12, <2>1, <2>2 DEF ListsFit
<1> HIDE DEF after
<1>16. EntriesFit'
  BY <1>1, <1>7, <1>8 DEF EntriesFit
<1>17. RowsFit'
  <2>1. CASE file = None /\ file' = None /\ rows' = GlobalRows(view, rows, n)
    <3>1. RowsOfNone(view, events, rows)
      BY <2>1 DEF ListsInvariant, RowsFit
    <3>2. CASE view = "global_events"
      <4>1. PICK k \in 0..events : rows = 0..(k - 1)
        BY <3>1, <3>2 DEF RowsOfNone
      <4>2. k \in Nat /\ k <= n
        BY <1>12, <4>1
      <4>3. rows' = 0..(n - 1)
        BY <1>12, <2>1, <3>2, <4>1, <4>2, GrownIs DEF GlobalRows
      <4>4. RowsOfNone(view, n, rows')
        BY <1>12, <3>2, <4>3 DEF RowsOfNone
      <4> QED
        BY <1>1, <2>1, <4>4 DEF RowsFit
    <3>3. CASE view # "global_events"
      <4>1. rows' = {}
        BY <2>1, <3>1, <3>3 DEF RowsOfNone, GlobalRows
      <4> QED
        BY <1>1, <2>1, <3>3, <4>1 DEF RowsFit, RowsOfNone
    <3> QED
      BY <3>2, <3>3
  <2>2. CASE file' \in first /\ rows' = GlobalRows(view, FillPeers(view, after, file', n), n)
    <3>1. file' \in kept /\ file' # None
      BY <1>8, <1>13, <2>2, NoneIsNoId
    <3>2. FillPeers(view, after, file', n) = Filled(view, after[file'], n)
      BY <3>1 DEF FillPeers
    <3>3. EntryFits(after[file'], full)
      BY <1>7, <3>1
    <3>4. RowsOfChosen(view, after[file'], full, n, Filled(view, after[file'], n))
      BY <3>3, FilledFits
    <3>5. rows' = Filled(view, after[file'], n)
      <4>1. CASE view = "global_events"
        <5>1. Filled(view, after[file'], n) = 0..(n - 1)
          BY <4>1 DEF Filled
        <5> QED
          BY <1>12, <2>2, <3>2, <4>1, <5>1, GrownIs DEF GlobalRows
      <4>2. CASE view # "global_events"
        BY <2>2, <3>2, <4>2 DEF GlobalRows
      <4> QED
        BY <4>1, <4>2
    <3> QED
      BY <1>1, <3>1, <3>4, <3>5 DEF RowsFit
  <2>3. CASE file \in kept /\ file' = file /\ \E rs \in RowsOf(view, read[file], hosts(read[file].hash)) : rows' = GlobalRows(view, rs, n)
    <3> DEFINE f == files[file]
               g == read[file]
               s == after[file]
               h == own(file)
    <3>1. file # None /\ file \in DOMAIN files /\ entries[file] = f /\ f.hash \in DOMAIN c
      BY <1>9, <1>11, <1>14, <2>3
    <3>2. PICK rs \in RowsOf(view, g, hosts(g.hash)) : rows' = GlobalRows(view, rs, n)
      BY <2>3
    <3>3. EntryFits(f, fresh) /\ RowsOfChosen(view, f, fresh, events, rows)
      BY <3>1 DEF ListsInvariant, EntriesFit, RowsFit
    <3>4. /\ EntryFits(g, full) /\ EntryFits(s, full)
          /\ g.hash = f.hash /\ g.info = c[f.hash].info
          /\ DOMAIN f.peers \subseteq DOMAIN g.peers
          /\ full => g.events = c[f.hash].events
          /\ s.hash = g.hash /\ s.info = g.info /\ s.events = g.events
          /\ s.trackers = g.trackers
          /\ DOMAIN s.peers = {p \in DOMAIN g.peers : g.peers[p] \in h}
      <4> HIDE DEF read, f
      <4> QED
        BY <1>7, <2>3, <3>1
    <3>5. (f.info => g.info) /\ (full => f.events <= g.events)
      BY <3>1, <3>4 DEF Sends
    <3>6. hosts(g.hash) = h
      <4>1. g.hash = entries[file].hash
        BY <3>1, <3>4
      <4> HIDE DEF f, g, hosts
      <4> QED
        BY <4>1
    <3> HIDE DEF f, g, s, h, hosts
    <3>7. rs \in RowsOf(view, g, h)
      BY <3>2, <3>6
    <3>8. RowsOfChosen(view, s, full, n, GlobalRows(view, rs, n))
      BY <1>12, <3>3, <3>4, <3>5, <3>7, RowsKept
    <3> QED
      BY <1>1, <2>3, <3>1, <3>2, <3>8 DEF RowsFit, s
  <2>4. CASE file' = None /\ rows' = {}
    <3>1. {} = 0..(0 - 1) /\ 0 \in 0..n
      BY <1>12
    <3>2. RowsOfNone(view, n, {})
      BY <3>1 DEF RowsOfNone
    <3> QED
      BY <1>1, <2>4, <3>2 DEF RowsFit
  <2> QED
    BY <1>2, <2>1, <2>2, <2>3, <2>4
<1> QED
  BY <1>15, <1>16, <1>17 DEF ListsInvariant

LEMMA ListsBegin ==
  ASSUME ViewAssumption
  PROVE  ViewInit => ListsInvariant
<1> SUFFICES ASSUME ViewInit PROVE ListsInvariant
  OBVIOUS
<1>1. DOMAIN files = {} /\ file = None /\ top = {} /\ rows = {} /\ events = 0 /\ view \in BottomViews /\ fresh = TRUE
  BY DEF ViewInit
<1>2. {} = 0..(0 - 1) /\ 0 \in 0..events
  BY <1>1
<1> QED
  BY <1>1, <1>2 DEF ListsInvariant, ListsFit, EntriesFit, RowsFit, RowsOfNone

LEMMA ListsStep ==
  ASSUME ViewAssumption
  PROVE  ListsInvariant /\ [ViewNext]_lists => ListsInvariant'
<1> SUFFICES ASSUME ListsInvariant, [ViewNext]_lists PROVE ListsInvariant'
  OBVIOUS
<1>1. ASSUME NEW full \in BOOLEAN, Dumped(full) PROVE ListsInvariant'
  <2>1. PICK S \in SUBSET Hashes : \E c \in [S -> Says] :
          /\ Sends(full, c)
          /\ \E new \in SetToSeqs(S \ {files[i].hash : i \in DOMAIN files}), n \in events..MaxEvents :
                ReadDump(full, new, c, n)
          /\ UNCHANGED <<view, visible>>
    BY <1>1, Zenon DEF Dumped
  <2>2. PICK c \in [S -> Says] :
          /\ Sends(full, c)
          /\ \E new \in SetToSeqs(S \ {files[i].hash : i \in DOMAIN files}), n \in events..MaxEvents :
                ReadDump(full, new, c, n)
          /\ UNCHANGED <<view, visible>>
    BY <2>1, Zenon
  <2>3. PICK new \in SetToSeqs(S \ {files[i].hash : i \in DOMAIN files}), n \in events..MaxEvents :
          ReadDump(full, new, c, n)
    BY <2>2, Zenon
  <2>4. Sends(full, c) /\ view' = view
    BY <2>2
  <2> QED
    BY <2>3, <2>4, DumpKeeps, Zenon
<1>2. CASE Timer0
  BY <1>1, <1>2 DEF Timer0
<1>3. CASE Timer1
  BY <1>1, <1>3 DEF Timer1
<1>4. CASE Focus
  <2>1. PICK i \in top \ {file} : file' = i /\ rows' = FillPeers(view, files, i, events)
    BY <1>4 DEF Focus
  <2>2. UNCHANGED <<files, top, view, events, visible, fresh>>
    BY <1>4 DEF Focus
  <2>3. i \in DOMAIN files /\ i \in Nat /\ i # None
    BY <2>1, NoneIsNoId DEF ListsInvariant, ListsFit
  <2>4. EntryFits(files[i], fresh) /\ fresh \in BOOLEAN
    BY <2>3 DEF ListsInvariant, ListsFit, EntriesFit
  <2>5. rows' = Filled(view, files[i], events)
    BY <2>1, <2>3 DEF FillPeers
  <2>6. RowsOfChosen(view, files[i], fresh, events, rows')
    BY <2>4, <2>5, FilledFits
  <2>7. RowsFit'
    BY <2>1, <2>2, <2>3, <2>6 DEF RowsFit
  <2> QED
    BY <2>1, <2>2, <2>3, <2>7 DEF ListsInvariant, ListsFit, EntriesFit
<1>5. CASE SetBottomView
  <2>1. view' \in BottomViews /\ rows' = FillPeers(view', files, file, events)
    BY <1>5 DEF SetBottomView
  <2>2. UNCHANGED <<files, file, top, events, visible, fresh>>
    BY <1>5 DEF SetBottomView
  <2>3. CASE file = None
    <3>1. rows' = {} /\ {} = 0..(0 - 1) /\ 0 \in 0..events
      BY <2>1, <2>3 DEF FillPeers, ListsInvariant, ListsFit
    <3>2. RowsFit'
      BY <2>2, <2>3, <3>1 DEF RowsFit, RowsOfNone
    <3> QED
      BY <2>1, <2>2, <3>2 DEF ListsInvariant, ListsFit, EntriesFit
  <2>4. CASE file # None
    <3>1. EntryFits(files[file], fresh) /\ fresh \in BOOLEAN
      BY <2>4 DEF ListsInvariant, ListsFit, EntriesFit
    <3>2. rows' = Filled(view', files[file], events)
      BY <2>1, <2>4 DEF FillPeers
    <3>3. RowsOfChosen(view', files[file], fresh, events, rows')
      BY <3>1, <3>2, FilledFits
    <3>4. RowsFit'
      BY <2>2, <2>4, <3>3 DEF RowsFit
    <3> QED
      BY <2>1, <2>2, <3>4 DEF ListsInvariant, ListsFit, EntriesFit
  <2> QED
    BY <2>3, <2>4
<1>6. CASE ShowHide \/ ColumnClick \/ UNCHANGED lists
  BY <1>6 DEF ShowHide, ColumnClick, lists, ListsInvariant, ListsFit, EntriesFit, RowsFit
<1> QED
  BY <1>2, <1>3, <1>4, <1>5, <1>6 DEF ViewNext

\* Of a list that is right the rows have data, but for those of sub-files and pieces
\* after a dump without flags, of which there is no data at all.
LEMMA RowsOfRightLists ==
  ASSUME ViewAssumption
  PROVE  ListsInvariant =>
           /\ fresh \/ view \notin {"files", "pieces"} => rows \subseteq HasData
           /\ view \notin {"files", "pieces"} /\ file # None => rows = HasData
           /\ view = "files" /\ fresh /\ file # None => rows = HasData
           /\ ~fresh /\ view \in {"files", "pieces"} => HasData = {}
<1> HAVE ListsInvariant
<1>1. /\ file # None => file \in DOMAIN files
      /\ view \in BottomViews /\ events \in Nat
  BY DEF ListsInvariant, ListsFit
<1>2. CASE file = None
  <2>1. RowsOfNone(view, events, rows)
    BY <1>2 DEF ListsInvariant, RowsFit
  <2>2. CASE view = "global_events"
    <3>1. HasData = 0..(events - 1)
      BY <2>2 DEF HasData
    <3>2. rows \subseteq HasData
      BY <1>1, <2>1, <2>2, <3>1 DEF RowsOfNone
    <3> QED
      BY <1>2, <2>2, <3>2
  <2>3. CASE view # "global_events"
    <3>1. rows = {}
      BY <2>1, <2>3 DEF RowsOfNone
    <3>2. view \in {"files", "pieces"} => HasData = {}
      BY <1>2 DEF HasData
    <3> QED
      BY <1>2, <3>1, <3>2
  <2> QED
    BY <2>2, <2>3
<1>3. CASE file # None
  <2> DEFINE f == files[file]
  <2>1. EntryFits(f, fresh) /\ RowsOfChosen(view, f, fresh, events, rows)
    BY <1>1, <1>3 DEF ListsInvariant, EntriesFit, RowsFit
  <2>2. HasData = Filled(view, f, events)
    BY <1>3 DEF HasData, Filled
  <2> HIDE DEF f
  <2>3. CASE view \notin {"files", "pieces"}
    BY <2>1, <2>2, <2>3 DEF RowsOfChosen
  <2>4. CASE view \in {"files", "pieces"}
    <3>1. HasData = 0..(f.subs - 1) /\ f.subs = (IF fresh /\ f.info THEN PiecesOf[f.hash] ELSE 0)
      BY <2>1, <2>2, <2>4 DEF Filled, EntryFits
    <3>2. /\ rows \in {{}, 0..(PiecesOf[f.hash] - 1)} /\ (rows # {} => f.info)
          /\ view = "files" /\ fresh => rows = HasData
      BY <2>1, <2>4, <3>1 DEF RowsOfChosen
    <3>3. fresh => rows \subseteq HasData
      BY <3>1, <3>2
    <3>4. ~fresh => HasData = {}
      BY <3>1
    <3> QED
      BY <2>4, <3>2, <3>3, <3>4
  <2> QED
    BY <2>3, <2>4
<1> QED
  BY <1>2, <1>3

\* A sort at any moment misses no element, or it is that of rows that were stranded.
LEMMA SortFinds ==
  ASSUME ViewAssumption
  PROVE  ListsInvariant => (Missed # {} => Stranded)
<1> SUFFICES ASSUME ListsInvariant PROVE Missed # {} => Stranded
  OBVIOUS
<1>1. SortsPeers \subseteq rows
  BY DEF SortsPeers
<1>2. CASE fresh \/ view \notin {"files", "pieces"}
  BY <1>1, <1>2, RowsOfRightLists DEF Missed
<1>3. CASE ~fresh /\ view \in {"files", "pieces"}
  BY <1>3, RowsOfRightLists DEF Stranded
<1> QED
  BY <1>2, <1>3

\* Rows stay stranded until the next sort of the list.
LEMMA ViewStepKeeps ==
  ASSUME ViewAssumption
  PROVE  ViewInvariant /\ [ViewNext]_lists => ViewInvariant'
<1> SUFFICES ASSUME ViewInvariant, [ViewNext]_lists PROVE ViewInvariant'
  OBVIOUS
<1>1. ListsInvariant'
  BY ListsStep DEF ViewInvariant
<1>2. (Missed # {} => Stranded)'
  BY <1>1, SortFinds, PTL
<1>3. CASE Sort
  BY <1>1, <1>2, <1>3 DEF Sort, ViewInvariant
<1>4. CASE Timer1 /\ missed' = missed
  <2>1. view' = view /\ fresh' = FALSE
    <3>1. \E S \in SUBSET Hashes : \E c \in [S -> Says] :
            /\ \E new \in SetToSeqs(S \ {files[i].hash : i \in DOMAIN files}), n \in events..MaxEvents :
                  ReadDump(FALSE, new, c, n)
            /\ view' = view
      BY <1>4, Zenon DEF Timer1, Dumped
    <3>2. ASSUME NEW new, NEW c, NEW n, ReadDump(FALSE, new, c, n) PROVE fresh' = FALSE
      BY <3>2, Zenon DEF ReadDump
    <3> QED
      BY <3>1, <3>2, Zenon
  <2>2. CASE missed # {}
    <3>1. view' \in {"files", "pieces"} /\ ~fresh'
      BY <2>1, <2>2 DEF ViewInvariant, Stranded
    <3>2. HasData' = {}
      <4>1. (~fresh /\ view \in {"files", "pieces"} => HasData = {})'
        BY <1>1, RowsOfRightLists, PTL
      <4> QED
        BY <3>1, <4>1
    <3> QED
      BY <1>1, <3>1, <3>2 DEF ViewInvariant, Stranded
  <2> QED
    BY <1>1, <1>4, <2>2 DEF ViewInvariant
<1>5. CASE ShowHide \/ UNCHANGED lists
  <2>1. UNCHANGED <<files, file, view, events, fresh, missed>>
    BY <1>5 DEF ShowHide, lists
  <2>2. HasData' = HasData
    BY <2>1 DEF HasData
  <2> QED
    BY <1>1, <2>1, <2>2 DEF ViewInvariant, Stranded
<1>6. Timer0 \/ Focus \/ SetBottomView \/ ColumnClick => Sort
  BY DEF Timer0, Focus, SetBottomView, ColumnClick
<1>7. Timer1 => Sort \/ missed' = missed
  BY DEF Timer1
<1> QED
  BY <1>3, <1>4, <1>5, <1>6, <1>7 DEF ViewNext

\* Lists that are right show what is there, and all of it.
LEMMA RightListsMatch ==
  ASSUME ViewAssumption
  PROVE  ViewInvariant => RowsMatchData
<1> SUFFICES ASSUME ViewInvariant PROVE RowsMatchData
  OBVIOUS
<1>1. /\ ListsInvariant
      /\ file # None => file \in DOMAIN files
      /\ top = DOMAIN files
      /\ \A i, j \in DOMAIN files : files[i].hash = files[j].hash => i = j
      /\ view \in BottomViews
      /\ missed # {} => Stranded
  BY DEF ViewInvariant, ListsInvariant, ListsFit
<1>2. Paints \subseteq rows
  BY <1>1 DEF Paints, BottomViews, PaintsDetails, PaintsEvents, PaintsSubFiles, PaintsPeers, PaintsPieces,
              PaintsTrackers, PaintsGlobalDetails, PaintsGlobalEvents
<1>3. Paints \subseteq HasData
  <2>1. CASE fresh \/ view \notin {"files", "pieces"}
    BY <1>1, <1>2, <2>1, RowsOfRightLists
  <2>2. CASE ~fresh /\ view \in {"files", "pieces"}
    <3>1. file # None => files[file].subs = 0 /\ files[file].pieces = 0
      BY <1>1, <2>2 DEF ListsInvariant, EntriesFit, EntryFits
    <3>2. Paints = {}
      BY <2>2, <3>1 DEF Paints, PaintsSubFiles, PaintsPieces
    <3> QED
      BY <3>2
  <2> QED
    BY <2>1, <2>2
<1>4. (fresh /\ file # None /\ view # "pieces") => HasData \subseteq rows
  BY <1>1, RowsOfRightLists
<1> QED
  BY <1>1, <1>3, <1>4 DEF RowsMatchData, RowsHaveData, DataHasRows, PaintsFiles

\* The lists of the Windows client keep to the torrents, peers, events, sub-files and
\* trackers it knows, whatever the server lists, in any order, with all flags or without,
\* whichever torrent and list are chosen and whenever a column is clicked; only a click on
\* sub-files or pieces that a dump without flags took away looks up what is not there
\* (XBT ClientDlg.cpp: read_server_dump, fill_peers, sort_peers).
THEOREM ListsStayRight == ViewSpec => []ViewInvariant
<1>1. ViewInit => ViewInvariant
  BY ViewAssumption, ListsBegin DEF ViewInvariant, ViewInit
<1>2. ViewInvariant /\ [ViewNext]_lists => ViewInvariant'
  BY ViewAssumption, ViewStepKeeps
<1> QED
  BY <1>1, <1>2, PTL DEF ViewSpec

\* What the windows look up by a row is there, at every painting and at every sort but a
\* click on the rows of sub-files or pieces whose data a dump without flags took away, and
\* after a full dump what is there has its row (OnGetdispinfo*, OnColumnclickPeers, sort_*:
\* the lookups ask nothing).
THEOREM RowsAndDataMatch == ViewSpec => []RowsMatchData
<1>1. ViewInvariant => RowsMatchData
  BY ViewAssumption, RightListsMatch
<1> QED
  BY <1>1, ListsStayRight, PTL

-----------------------------------------------------------------------------
(* The quota of a second.                                                  *)

\* A sum is what the numbers up to the last one add up to.
LEMMA TotalIs ==
  ASSUME NEW n \in Nat, NEW q \in [1..n -> Nat]
  PROVE  \E t \in [0..n -> Nat] :
           t[0] = 0 /\ (\A k \in 1..n : t[k] = t[k - 1] + q[k]) /\ Total(q) = t[n]
<1> DEFINE g == [k \in Nat |-> [x \in Nat |-> IF k + 1 \in 1..n THEN x + q[k + 1] ELSE x]]
<1>1. g \in [Nat -> [Nat -> Nat]]
  OBVIOUS
<1>2. PICK f : f \in [Nat -> Nat] /\ Steps(f, 0, g)
  <2> HIDE DEF g
  <2> QED
    BY <1>1, RecursionIn
<1> DEFINE u == [k \in 0..n |-> f[k]]
           t == CHOOSE t : t = [k \in 0..n |-> IF k = 0 THEN 0 ELSE t[k - 1] + q[k]]
<1>3. ASSUME NEW k \in 0..n PROVE u[k] = IF k = 0 THEN 0 ELSE u[k - 1] + q[k]
  <2>1. CASE k = 0
    BY <1>2, <2>1 DEF Steps
  <2>2. CASE k # 0
    <3>1. k - 1 \in Nat /\ k - 1 \in 0..n /\ (k - 1) + 1 = k /\ k \in 1..n /\ k \in Nat
      BY <2>2
    <3>2. f[k] = g[k - 1][f[k - 1]] /\ f[k - 1] \in Nat
      BY <1>2, <2>2, <3>1, Zenon DEF Steps
    <3> QED
      BY <2>2, <3>1, <3>2
  <2> QED
    BY <2>1, <2>2
<1>4. u = [k \in 0..n |-> IF k = 0 THEN 0 ELSE u[k - 1] + q[k]]
  <2> HIDE DEF u
  <2>1. u = [k \in 0..n |-> u[k]]
    BY DEF u
  <2> QED
    BY <1>3, <2>1, Zenon
<1>5. t = [k \in 0..n |-> IF k = 0 THEN 0 ELSE t[k - 1] + q[k]]
  <2> HIDE DEF u
  <2> QED
    BY <1>4, Zenon
<1>6. Total(q) = t[n]
  <2>1. Len(q) = n
    BY FunIsSeq
  <2> QED
    BY <2>1, Zenon DEF Total
<1> HIDE DEF t, u, g
<1>7. t[0] = 0 /\ \A k \in 1..n : t[k] = t[k - 1] + q[k]
  BY <1>5
<1>8. ASSUME NEW k \in 0..n PROVE t[k] \in Nat
  <2> DEFINE K == {j \in Nat : j <= n => t[j] \in Nat}
  <2>1. 0 \in K
    BY <1>7
  <2>2. ASSUME NEW j \in Nat, j \in K PROVE j + 1 \in K
    <3>1. CASE j + 1 <= n
      <4>1. j + 1 \in 1..n /\ j <= n /\ (j + 1) - 1 = j
        BY <3>1
      <4>2. t[j + 1] = t[j] + q[j + 1]
        BY <1>7, <4>1
      <4> QED
        BY <2>2, <4>1, <4>2
    <3>2. CASE ~(j + 1 <= n)
      BY <3>2
    <3> QED
      BY <3>1, <3>2
  <2>3. Nat \subseteq K
    <3> HIDE DEF K
    <3> QED
      BY <2>1, <2>2, SetInduction
  <2> QED
    BY <2>3
<1>9. t \in [0..n -> Nat]
  BY <1>5, <1>8
<1> QED
  BY <1>6, <1>7, <1>9

\* It is a number.
LEMMA TotalInNat ==
  ASSUME NEW n \in Nat, NEW q \in [1..n -> Nat]
  PROVE  Total(q) \in Nat
<1>1. PICK t \in [0..n -> Nat] :
        t[0] = 0 /\ (\A k \in 1..n : t[k] = t[k - 1] + q[k]) /\ Total(q) = t[n]
  BY TotalIs
<1> QED
  BY <1>1

\* Nothing and nothing is nothing.
LEMMA TotalZero ==
  ASSUME NEW n \in Nat
  PROVE  Total([i \in 1..n |-> 0]) = 0
<1> DEFINE q == [i \in 1..n |-> 0]
<1>1. q \in [1..n -> Nat] /\ \A i \in 1..n : q[i] = 0
  OBVIOUS
<1> HIDE DEF q
<1>2. PICK t \in [0..n -> Nat] :
        t[0] = 0 /\ (\A k \in 1..n : t[k] = t[k - 1] + q[k]) /\ Total(q) = t[n]
  BY <1>1, TotalIs
<1> DEFINE K == {j \in Nat : j <= n => t[j] = 0}
<1>3. 0 \in K
  BY <1>2
<1>4. ASSUME NEW j \in Nat, j \in K PROVE j + 1 \in K
  <2>1. CASE j + 1 <= n
    <3>1. j + 1 \in 1..n /\ j <= n /\ (j + 1) - 1 = j
      BY <2>1
    <3> QED
      BY <1>1, <1>2, <1>4, <3>1
  <2>2. CASE ~(j + 1 <= n)
    BY <2>2
  <2> QED
    BY <2>1, <2>2
<1>5. Nat \subseteq K
  <2> HIDE DEF K
  <2> QED
    BY <1>3, <1>4, SetInduction
<1>6. Total(q) = 0
  BY <1>2, <1>5
<1> QED
  BY <1>6 DEF q

\* One number more or less: the sum, likewise.
LEMMA TotalChange ==
  ASSUME NEW n \in Nat, NEW q \in [1..n -> Nat], NEW i \in 1..n, NEW v \in Nat
  PROVE  Total([q EXCEPT ![i] = q[i] + v]) = Total(q) + v
<1> DEFINE p == [q EXCEPT ![i] = q[i] + v]
<1>1. p \in [1..n -> Nat] /\ \A k \in 1..n : p[k] = IF k = i THEN q[k] + v ELSE q[k]
  OBVIOUS
<1> HIDE DEF p
<1>2. PICK t \in [0..n -> Nat] :
        t[0] = 0 /\ (\A k \in 1..n : t[k] = t[k - 1] + q[k]) /\ Total(q) = t[n]
  BY TotalIs
<1>3. PICK u \in [0..n -> Nat] :
        u[0] = 0 /\ (\A k \in 1..n : u[k] = u[k - 1] + p[k]) /\ Total(p) = u[n]
  BY <1>1, TotalIs
<1> DEFINE K == {j \in Nat : j <= n => u[j] = IF j < i THEN t[j] ELSE t[j] + v}
<1>4. 0 \in K
  BY <1>2, <1>3
<1>5. ASSUME NEW j \in Nat, j \in K PROVE j + 1 \in K
  <2>1. CASE j + 1 <= n
    <3>1. j + 1 \in 1..n /\ j <= n /\ (j + 1) - 1 = j /\ j \in 0..n
      BY <2>1
    <3>2. t[j + 1] = t[j] + q[j + 1] /\ u[j + 1] = u[j] + p[j + 1]
      BY <1>2, <1>3, <3>1
    <3>3. t[j] \in Nat /\ q[j + 1] \in Nat /\ u[j] = IF j < i THEN t[j] ELSE t[j] + v
      BY <1>5, <3>1
    <3>4. p[j + 1] = IF j + 1 = i THEN q[j + 1] + v ELSE q[j + 1]
      BY <1>1, <3>1
    <3>5. u[j + 1] = IF j + 1 < i THEN t[j + 1] ELSE t[j + 1] + v
      <4>1. CASE j + 1 < i
        <5>1. j < i /\ j + 1 # i
          BY <4>1
        <5> QED
          BY <3>2, <3>3, <3>4, <4>1, <5>1
      <4>2. CASE j + 1 = i
        <5>1. j < i /\ ~(j + 1 < i)
          BY <4>2
        <5>2. u[j + 1] = t[j] + (q[j + 1] + v) /\ t[j + 1] = t[j] + q[j + 1]
          BY <3>2, <3>3, <3>4, <4>2, <5>1
        <5> QED
          BY <3>3, <5>1, <5>2
      <4>3. CASE j + 1 > i
        <5>1. ~(j < i) /\ j + 1 # i /\ ~(j + 1 < i)
          BY <4>3
        <5>2. u[j + 1] = (t[j] + v) + q[j + 1] /\ t[j + 1] = t[j] + q[j + 1]
          BY <3>2, <3>3, <3>4, <5>1
        <5> QED
          BY <3>3, <5>1, <5>2
      <4> QED
        BY <4>1, <4>2, <4>3
    <3> QED
      BY <3>5
  <2>2. CASE ~(j + 1 <= n)
    BY <2>2
  <2> QED
    BY <2>1, <2>2
<1>6. Nat \subseteq K
  <2> HIDE DEF K
  <2> QED
    BY <1>4, <1>5, SetInduction
<1>7. Total(p) = Total(q) + v
  BY <1>2, <1>3, <1>6
<1> QED
  BY <1>7 DEF p

\* What is left for the others is enough for an even share each.
LEMMA ShareStays ==
  ASSUME NEW quota \in Nat, NEW rest \in Nat, rest >= 1, NEW m \in Nat, quota >= rest * m
  PROVE  /\ quota \div rest \in Nat /\ quota \div rest <= quota
         /\ quota \div rest >= m
         /\ quota - (quota \div rest) >= (rest - 1) * m
<1> DEFINE v == quota \div rest
<1>1. v \in Nat /\ v * rest <= quota /\ quota < (v + 1) * rest
  OBVIOUS
<1> HIDE DEF v
<1>2. v <= v * rest
  BY <1>1
<1>3. v >= m
  <2> SUFFICES ASSUME v + 1 <= m PROVE FALSE
    BY <1>1
  <2>1. (v + 1) * rest <= m * rest
    BY <1>1
  <2>2. m * rest = rest * m
    OBVIOUS
  <2> QED
    BY <1>1, <2>1, <2>2
<1>4. quota - v >= (rest - 1) * m
  <2>1. (rest - 1) * m <= (rest - 1) * v
    BY <1>1, <1>3
  <2>2. (rest - 1) * v = v * rest - v
    BY <1>1
  <2> QED
    BY <1>1, <2>1, <2>2
<1> QED
  BY <1>1, <1>2, <1>3, <1>4 DEF v

\* n links in the middle of a round.  Every one has something to send.
Division(n) ==
  {s \in [links : [1..n -> [has : Nat, holds : Nat, takes : Nat]], quota : Nat, rest : Nat, back : Nat,
          sent : [1..n -> Nat], gone : [1..n -> BOOLEAN]] : \A i \in 1..n : s.links[i].has >= 1}

\* What a link can send is a number, and sending lowers it.
LEMMA CanIs ==
  ASSUME NEW l \in [has : Nat, holds : Nat, takes : Nat], NEW x \in Nat, x <= Can(l)
  PROVE  /\ Can(l) \in Nat /\ l.holds - x \in Nat /\ l.takes - x \in Nat
         /\ Can([l EXCEPT !.holds = @ - x, !.takes = @ - x]) = Can(l) - x
BY DEF Can, Lesser

LEMMA LinkCan ==
  ASSUME NEW n \in Nat, NEW s \in Division(n), NEW i \in 1..n
  PROVE  s.links[i] \in [has : Nat, holds : Nat, takes : Nat] /\ Can(s.links[i]) \in Nat
<1>1. s.links[i] \in [has : Nat, holds : Nat, takes : Nat]
  BY DEF Division
<1> QED
  BY <1>1 DEF Can, Lesser

\* What visits leave as it is: the links that are through stay so, a link that gets
\* through can send no more, and one can send what it could less what was sent.
Goes(n, s, t) ==
  \A i \in 1..n :
    /\ t.links[i].has = s.links[i].has
    /\ Can(t.links[i]) + t.sent[i] = Can(s.links[i]) + s.sent[i]
    /\ t.sent[i] >= s.sent[i]
    /\ s.gone[i] => t.gone[i]
    /\ t.gone[i] => s.gone[i] \/ Can(t.links[i]) = 0

\* What two visits leave as it is.
LEMMA GoesOn ==
  ASSUME NEW n \in Nat, NEW s \in Division(n), NEW t \in Division(n), NEW u \in Division(n),
         Goes(n, s, t), Goes(n, t, u)
  PROVE  Goes(n, s, u)
<1> SUFFICES ASSUME NEW i \in 1..n
             PROVE  /\ u.links[i].has = s.links[i].has
                    /\ Can(u.links[i]) + u.sent[i] = Can(s.links[i]) + s.sent[i]
                    /\ u.sent[i] >= s.sent[i]
                    /\ s.gone[i] => u.gone[i]
                    /\ u.gone[i] => s.gone[i] \/ Can(u.links[i]) = 0
  BY DEF Goes
<1>1. /\ Can(s.links[i]) \in Nat /\ Can(t.links[i]) \in Nat /\ Can(u.links[i]) \in Nat
      /\ s.sent[i] \in Nat /\ t.sent[i] \in Nat /\ u.sent[i] \in Nat
  BY LinkCan DEF Division
<1>2. /\ t.links[i].has = s.links[i].has
      /\ Can(t.links[i]) + t.sent[i] = Can(s.links[i]) + s.sent[i]
      /\ t.sent[i] >= s.sent[i]
      /\ s.gone[i] => t.gone[i]
      /\ t.gone[i] => s.gone[i] \/ Can(t.links[i]) = 0
  BY DEF Goes
<1>3. /\ u.links[i].has = t.links[i].has
      /\ Can(u.links[i]) + u.sent[i] = Can(t.links[i]) + t.sent[i]
      /\ u.sent[i] >= t.sent[i]
      /\ t.gone[i] => u.gone[i]
      /\ u.gone[i] => t.gone[i] \/ Can(u.links[i]) = 0
  BY DEF Goes
<1> QED
  BY <1>1, <1>2, <1>3

\* What none leaves as it is.
LEMMA GoesNowhere ==
  ASSUME NEW n \in Nat, NEW s \in Division(n) PROVE Goes(n, s, s)
<1>1. \A i \in 1..n : Can(s.links[i]) \in Nat /\ s.sent[i] \in Nat
  BY LinkCan DEF Division
<1> QED
  BY <1>1 DEF Goes

\* The lesser of two numbers.
LEMMA LesserIs ==
  ASSUME NEW a \in Nat, NEW b \in Nat
  PROVE  /\ Lesser(a, b) \in Nat /\ Lesser(a, b) <= a /\ Lesser(a, b) <= b
         /\ Lesser(a, b) = a \/ Lesser(a, b) = b
  BY DEF Lesser

\* One visit: q is what the link may send, x what it sends.
VisitGives(n, s, i, q, x) ==
  /\ q \in Nat /\ x \in Nat /\ x <= q /\ q <= s.quota
  /\ q = Lesser(s.links[i].has, s.quota \div s.rest)
  /\ x = Lesser(q, Can(s.links[i]))
  /\ Visit(s, i) \in Division(n)
  /\ Visit(s, i).quota = s.quota - q /\ Visit(s, i).rest = s.rest - 1
  /\ Visit(s, i).back = s.back + (q - x)
  /\ Visit(s, i).sent = [s.sent EXCEPT ![i] = s.sent[i] + x]
  /\ Visit(s, i).gone = [s.gone EXCEPT ![i] = q - x > 0]

\* A link that is still on can be visited when links are left in the round.
LEMMA VisitIs ==
  ASSUME NEW n \in Nat, NEW s \in Division(n), NEW i \in 1..n, s.rest >= 1, ~s.gone[i]
  PROVE  /\ \E q, x : VisitGives(n, s, i, q, x)
         /\ Goes(n, s, Visit(s, i))
<1> DEFINE q == Lesser(s.links[i].has, s.quota \div s.rest)
           x == Lesser(q, Can(s.links[i]))
           t == Visit(s, i)
           links == [s.links EXCEPT ![i] = [s.links[i] EXCEPT !.holds = @ - x, !.takes = @ - x]]
<1>1. /\ s.links \in [1..n -> [has : Nat, holds : Nat, takes : Nat]] /\ s.quota \in Nat /\ s.rest \in Nat /\ s.back \in Nat
      /\ s.sent \in [1..n -> Nat] /\ s.gone \in [1..n -> BOOLEAN]
      /\ \A j \in 1..n : s.links[j].has >= 1
      /\ s.links[i].has \in Nat /\ Can(s.links[i]) \in Nat /\ s.sent[i] \in Nat
  BY LinkCan DEF Division
<1>2. /\ s.quota \in Nat /\ s.rest \in Nat /\ s.rest >= 1 /\ s.back \in Nat
       /\ s.links[i].has \in Nat /\ Can(s.links[i]) \in Nat /\ s.sent[i] \in Nat
  BY <1>1
<1>3. s.quota \div s.rest \in Nat /\ s.quota \div s.rest <= s.quota
  <2>1. s.quota >= s.rest * 0
    BY <1>2
  <2> QED
    BY <1>2, <2>1, ShareStays
<1>4. q \in Nat /\ q <= s.quota
  <2> DEFINE a == s.links[i].has
             b == s.quota \div s.rest
  <2>1. a \in Nat /\ b \in Nat /\ b <= s.quota /\ s.quota \in Nat
    BY <1>2, <1>3
  <2> HIDE DEF a, b
  <2>2. Lesser(a, b) \in Nat /\ Lesser(a, b) <= b
    BY <2>1, LesserIs
  <2>3. Lesser(a, b) <= s.quota
    BY <2>1, <2>2
  <2> QED
    BY <2>2, <2>3 DEF a, b
<1>5. x \in Nat /\ x <= q /\ x <= Can(s.links[i]) /\ (q - x > 0 => Can(s.links[i]) - x = 0)
  <2> HIDE DEF q
  <2>1. Can(s.links[i]) \in Nat
    BY <1>2
  <2>2. x \in Nat /\ x <= q /\ x <= Can(s.links[i]) /\ (x = q \/ x = Can(s.links[i]))
    BY <1>4, <2>1, LesserIs
  <2> HIDE DEF x
  <2> QED
    BY <1>4, <2>1, <2>2
<1>6. s.sent[i] \in Nat /\ Can(s.links[i]) \in Nat /\ x \in Nat
  BY <1>2, <1>5
<1>7. s.sent[i] + x \in Nat
  <2> HIDE DEF x
  <2> QED
    BY <1>6
<1>8. t = [s EXCEPT !.quota = @ - q, !.rest = @ - 1, !.back = @ + (q - x), !.sent[i] = @ + x,
                    !.links[i].holds = @ - x, !.links[i].takes = @ - x, !.gone[i] = q - x > 0]
  BY DEF Visit
<1> HIDE DEF q, x, t
<1>9. t = [links |-> links, quota |-> s.quota - q, rest |-> s.rest - 1, back |-> s.back + (q - x),
           sent |-> [s.sent EXCEPT ![i] = s.sent[i] + x], gone |-> [s.gone EXCEPT ![i] = q - x > 0]]
  BY <1>8 DEF Division
<1>10. links \in [1..n -> [has : Nat, holds : Nat, takes : Nat]] /\ \A j \in 1..n :
        /\ links[j].has = s.links[j].has
        /\ Can(links[j]) = IF j = i THEN Can(s.links[j]) - x ELSE Can(s.links[j])
  <2> DEFINE R == [has : Nat, holds : Nat, takes : Nat]
             k == s.links[i]
             l == [k EXCEPT !.holds = @ - x, !.takes = @ - x]
  <2>1. k \in R /\ k.holds - x \in Nat /\ k.takes - x \in Nat /\ Can(l) = Can(k) - x
    <3>1. k \in R
      BY LinkCan
    <3>2. x \in Nat /\ x <= Can(k)
      BY <1>5
    <3> HIDE DEF k
    <3> QED
      BY <3>1, <3>2, CanIs
  <2>2. l \in R /\ l.has = k.has
    <3> HIDE DEF k
    <3> QED
      BY <2>1
  <2> HIDE DEF l, R
  <2>3. links \in [1..n -> R] /\ \A j \in 1..n : links[j] = IF j = i THEN l ELSE s.links[j]
    <3>1. s.links \in [1..n -> R]
      BY <1>1 DEF R
    <3>2. links = [s.links EXCEPT ![i] = l]
      BY DEF l
    <3> HIDE DEF links
    <3> QED
      BY <2>2, <3>1, <3>2
  <2> HIDE DEF links
  <2> QED
    BY <2>1, <2>2, <2>3 DEF R
<1> HIDE DEF links
<1>11. /\ t.links = links /\ t.quota = s.quota - q /\ t.rest = s.rest - 1 /\ t.back = s.back + (q - x)
      /\ t.sent = [s.sent EXCEPT ![i] = s.sent[i] + x] /\ t.gone = [s.gone EXCEPT ![i] = q - x > 0]
  BY <1>9
<1>12. t \in Division(n)
  <2>1. s.quota - q \in Nat /\ s.rest - 1 \in Nat /\ s.back + (q - x) \in Nat
    <3>1. /\ s.quota \in Nat /\ s.rest \in Nat /\ s.rest >= 1 /\ s.back \in Nat
          /\ q \in Nat /\ q <= s.quota /\ x \in Nat /\ x <= q
      BY <1>2, <1>4, <1>5
    <3> QED
      BY <3>1
  <2>2. [s.sent EXCEPT ![i] = s.sent[i] + x] \in [1..n -> Nat]
    BY <1>1, <1>7
  <2>3. [s.gone EXCEPT ![i] = q - x > 0] \in [1..n -> BOOLEAN]
    BY <1>1
  <2>4. \A j \in 1..n : links[j].has >= 1
    BY <1>1, <1>10
  <2> QED
    BY <1>9, <1>10, <1>11, <2>1, <2>2, <2>3, <2>4 DEF Division
<1>13. Goes(n, s, t)
  <2> SUFFICES ASSUME NEW j \in 1..n
               PROVE  /\ t.links[j].has = s.links[j].has
                      /\ Can(t.links[j]) + t.sent[j] = Can(s.links[j]) + s.sent[j]
                      /\ t.sent[j] >= s.sent[j]
                      /\ s.gone[j] => t.gone[j]
                      /\ t.gone[j] => s.gone[j] \/ Can(t.links[j]) = 0
    BY DEF Goes
  <2>1. Can(s.links[j]) \in Nat /\ s.sent[j] \in Nat
    BY LinkCan DEF Division
  <2>2. CASE j = i
    <3>1. t.sent[i] = s.sent[i] + x /\ Can(t.links[i]) = Can(s.links[i]) - x
      BY <1>1, <1>10, <1>11
    <3>2. t.gone[i] <=> q - x > 0
      BY <1>1, <1>11
    <3>3. t.links[i].has = s.links[i].has
      BY <1>10, <1>11
    <3>4. t.gone[i] => Can(t.links[i]) = 0
      BY <1>5, <3>1, <3>2
    <3>5. Can(t.links[i]) + t.sent[i] = Can(s.links[i]) + s.sent[i] /\ t.sent[i] >= s.sent[i]
      BY <1>6, <3>1
    <3>6. ~s.gone[i]
      OBVIOUS
    <3> QED
      BY <2>2, <3>3, <3>4, <3>5, <3>6
  <2>3. CASE j # i
    <3>1. t.sent[j] = s.sent[j] /\ Can(t.links[j]) = Can(s.links[j]) /\ t.gone[j] = s.gone[j]
      BY <1>1, <1>10, <1>11, <2>3
    <3>2. t.links[j].has = s.links[j].has
      BY <1>10, <1>11
    <3> QED
      BY <2>1, <3>1, <3>2
  <2> QED
    BY <2>2, <2>3
<1>14. VisitGives(n, s, i, q, x)
  BY <1>4, <1>5, <1>11, <1>12 DEF VisitGives, q, x, t
<1> QED
  BY <1>13, <1>14 DEF t

\* The links of a round that are still to come after the k-th.
Ahead(s, k) == {i \in On(s) : i > k}

\* Their number goes down by one with each.
LEMMA AheadIs ==
  ASSUME NEW n \in Nat, NEW s \in Division(n)
  PROVE  /\ On(s) \subseteq 1..n /\ IsFiniteSet(On(s)) /\ Cardinality(On(s)) \in Nat
         /\ \A i \in 1..n : i \in On(s) <=> ~s.gone[i]
         /\ Ahead(s, 0) = On(s) /\ Ahead(s, n) = {} /\ Cardinality(Ahead(s, n)) = 0
         /\ \A k \in Nat : /\ Cardinality(Ahead(s, k)) \in Nat
                           /\ k + 1 \notin On(s) => Ahead(s, k + 1) = Ahead(s, k)
                           /\ k + 1 \in On(s) => /\ Cardinality(Ahead(s, k)) >= 1
                                                 /\ Cardinality(Ahead(s, k + 1)) = Cardinality(Ahead(s, k)) - 1
<1>1. DOMAIN s.links = 1..n
  BY DEF Division
<1>2. On(s) \subseteq 1..n /\ \A i \in 1..n : i \in On(s) <=> ~s.gone[i]
  BY <1>1 DEF On
<1>3. IsFiniteSet(1..n)
  BY FS_Interval
<1>4. IsFiniteSet(On(s)) /\ Cardinality(On(s)) \in Nat
  BY <1>2, <1>3, FS_Subset, FS_CardinalityType
<1>5. \A k \in Nat : IsFiniteSet(Ahead(s, k)) /\ Cardinality(Ahead(s, k)) \in Nat
  <2>1. \A k \in Nat : Ahead(s, k) \subseteq On(s)
    BY DEF Ahead
  <2> QED
    BY <1>4, <2>1, FS_Subset, FS_CardinalityType
<1>6. Ahead(s, 0) = On(s) /\ Ahead(s, n) = {}
  BY <1>2 DEF Ahead
<1>7. Cardinality(Ahead(s, n)) = 0
  BY <1>6, FS_EmptySet
<1>8. ASSUME NEW k \in Nat
      PROVE  /\ k + 1 \notin On(s) => Ahead(s, k + 1) = Ahead(s, k)
             /\ k + 1 \in On(s) => /\ Cardinality(Ahead(s, k)) >= 1
                                   /\ Cardinality(Ahead(s, k + 1)) = Cardinality(Ahead(s, k)) - 1
  <2>1. CASE k + 1 \notin On(s)
    BY <1>2, <2>1 DEF Ahead
  <2>2. CASE k + 1 \in On(s)
    <3>1. k + 1 \in Ahead(s, k) /\ Ahead(s, k + 1) = Ahead(s, k) \ {k + 1}
      BY <1>2, <2>2 DEF Ahead
    <3>2. Cardinality(Ahead(s, k) \ {k + 1}) = Cardinality(Ahead(s, k)) - 1
      BY <1>5, <3>1, FS_RemoveElement
    <3>3. Cardinality(Ahead(s, k + 1)) \in Nat /\ Cardinality(Ahead(s, k)) \in Nat
      BY <1>5
    <3> DEFINE c == Cardinality(Ahead(s, k))
               e == Cardinality(Ahead(s, k + 1))
    <3>4. e = c - 1
      BY <3>1, <3>2, Zenon
    <3> HIDE DEF c, e
    <3>5. c >= 1
      BY <3>3, <3>4 DEF c, e
    <3> QED
      BY <2>2, <3>4, <3>5 DEF c, e
  <2> QED
    BY <2>1, <2>2
<1> QED
  BY <1>2, <1>4, <1>5, <1>6, <1>7, <1>8

\* A round that has come to the k-th link, from s to t: nothing is lost, a link that is
\* still to come is as it was, and what was taken from the quota was sent or stopped a link.
Come(n, s, k, t) ==
  /\ t \in Division(n) /\ Goes(n, s, t)
  /\ t.rest = Cardinality(Ahead(s, k))
  /\ t.quota + t.back + Total(t.sent) = s.quota + Total(s.sent)
  /\ t.quota <= s.quota /\ t.quota + t.back <= s.quota
  /\ t.quota < s.quota => t.quota + t.back < s.quota \/ \E i \in On(s) : t.gone[i]
  /\ s.quota > 0 /\ On(s) # {} /\ t.rest = 0 => t.quota < s.quota
  /\ \A i \in Ahead(s, k) : ~t.gone[i] /\ Can(t.links[i]) = Can(s.links[i]) /\ t.sent[i] = s.sent[i]

\* And m was left for each of the links to come, and sent by the others if they could.
Fairly(s, m, k, t) ==
  /\ t.quota >= t.rest * m
  /\ \A i \in On(s) \ Ahead(s, k) :
       t.sent[i] - s.sent[i] >= Lesser(Lesser(s.links[i].has, Can(s.links[i])), m)

\* What the e of Visits makes of the k + 1st link.
Visited(s, k, t) == IF k + 1 \in On(s) THEN Visit(t, k + 1) ELSE t

\* The round comes to the next link.
LEMMA ComeOn ==
  ASSUME NEW n \in Nat, NEW s \in Division(n), NEW k \in Nat, NEW t, Come(n, s, k, t)
  PROVE  Come(n, s, k + 1, Visited(s, k, t))
<1>1. CASE k + 1 \notin On(s)
  <2>1. Ahead(s, k + 1) = Ahead(s, k)
    BY <1>1, AheadIs
  <2> QED
    BY <1>1, <2>1 DEF Come, Visited
<1>2. CASE k + 1 \in On(s)
  <2> DEFINE i == k + 1
             u == Visit(t, i)
  <2>1. /\ t \in Division(n) /\ Goes(n, s, t) /\ i \in 1..n /\ i \in Ahead(s, k) /\ ~t.gone[i]
        /\ t.rest >= 1 /\ t.rest - 1 = Cardinality(Ahead(s, k + 1)) /\ t.rest \in Nat
    <3>1. k + 1 \in Ahead(s, k)
      BY <1>2, AheadIs DEF Ahead
    <3> QED
      BY <1>2, <3>1, AheadIs DEF Come
  <2>2. PICK q, x : VisitGives(n, t, i, q, x)
    BY <2>1, VisitIs
  <2>3. u \in Division(n) /\ Goes(n, s, u)
    <3>1. Goes(n, t, u)
      BY <2>1, VisitIs
    <3>2. u \in Division(n)
      BY <2>2 DEF VisitGives
    <3> QED
      BY <2>1, <3>1, <3>2, GoesOn
  <2>4. /\ q \in Nat /\ x \in Nat /\ x <= q /\ q <= t.quota
        /\ u.quota = t.quota - q /\ u.rest = t.rest - 1 /\ u.back = t.back + (q - x)
        /\ u.sent = [t.sent EXCEPT ![i] = t.sent[i] + x]
        /\ u.gone = [t.gone EXCEPT ![i] = q - x > 0]
    BY <2>2 DEF VisitGives
  <2>5. /\ t.quota \in Nat /\ t.back \in Nat /\ s.quota \in Nat /\ Total(s.sent) \in Nat
        /\ t.sent \in [1..n -> Nat] /\ t.gone \in [1..n -> BOOLEAN] /\ t.links[i].has >= 1
        /\ t.links[i].has \in Nat
    <3>1. s.sent \in [1..n -> Nat] /\ t.sent \in [1..n -> Nat]
      BY <2>1 DEF Division
    <3>2. Total(s.sent) \in Nat
      BY <2>1, <3>1, TotalInNat
    <3> QED
      BY <2>1, <3>1, <3>2 DEF Division
  <2>6. Total(t.sent) \in Nat /\ Total(u.sent) = Total(t.sent) + x
    <3>1. Total(t.sent) \in Nat /\ Total([t.sent EXCEPT ![i] = t.sent[i] + x]) = Total(t.sent) + x
      <4>1. x \in Nat /\ t.sent \in [1..n -> Nat] /\ i \in 1..n
        BY <2>1, <2>4, <2>5
      <4> HIDE DEF i
      <4>2. Total(t.sent) \in Nat
        BY <4>1, TotalInNat
      <4> DEFINE y == t.sent
      <4>3. y \in [1..n -> Nat]
        BY <4>1
      <4> HIDE DEF y
      <4>4. Total([y EXCEPT ![i] = y[i] + x]) = Total(y) + x
        BY <4>1, <4>3, TotalChange, ZenonT(60)
      <4> QED
        BY <4>2, <4>4 DEF y
    <3>2. u.sent = [t.sent EXCEPT ![i] = t.sent[i] + x]
      BY <2>4
    <3> QED
      BY <3>1, <3>2, Zenon
  <2>7. /\ t.quota + t.back + Total(t.sent) = s.quota + Total(s.sent)
        /\ t.quota <= s.quota /\ t.quota + t.back <= s.quota
        /\ t.quota < s.quota => t.quota + t.back < s.quota \/ \E j \in On(s) : t.gone[j]
    BY DEF Come
  <2> HIDE DEF u
  <2>8. /\ u.quota + u.back + Total(u.sent) = s.quota + Total(s.sent)
        /\ u.quota <= s.quota /\ u.quota + u.back <= s.quota
    <3>1. /\ q \in Nat /\ x \in Nat /\ x <= q /\ q <= t.quota
          /\ u.quota = t.quota - q /\ u.back = t.back + (q - x)
          /\ t.quota \in Nat /\ t.back \in Nat /\ s.quota \in Nat /\ Total(s.sent) \in Nat
      BY <2>4, <2>5
    <3>2. t.quota + t.back + Total(t.sent) = s.quota + Total(s.sent) /\ t.quota <= s.quota /\ t.quota + t.back <= s.quota
      BY <2>7
    <3> QED
      BY <2>6, <3>1, <3>2
  <2>9. /\ q - x > 0 => u.gone[i]
        /\ \A j \in On(s) : t.gone[j] => u.gone[j]
    <3>1. q - x > 0 => u.gone[i]
      BY <2>1, <2>4, <2>5
    <3>2. \A j \in On(s) : j # i => u.gone[j] = t.gone[j]
      BY <2>1, <2>4, <2>5, AheadIs
    <3> QED
      BY <2>1, <3>1, <3>2
  <2>10. u.quota < s.quota => u.quota + u.back < s.quota \/ \E j \in On(s) : u.gone[j]
    <3>1. CASE q = 0
      <4>1. u.quota = t.quota /\ u.back = t.back
        BY <2>4, <2>5, <3>1
      <4> QED
        BY <2>7, <2>9, <4>1
    <3>2. CASE q - x > 0
      BY <1>2, <2>9, <3>2
    <3>3. CASE q # 0 /\ ~(q - x > 0)
      <4>1. u.quota + u.back < s.quota
        <5>1. /\ q \in Nat /\ x \in Nat /\ x <= q /\ q # 0 /\ ~(q - x > 0)
              /\ u.quota = t.quota - q /\ u.back = t.back + (q - x)
              /\ t.quota \in Nat /\ t.back \in Nat /\ s.quota \in Nat
          BY <2>4, <2>5, <3>3
        <5>2. t.quota + t.back <= s.quota
          BY <2>7
        <5> QED
          BY <5>1, <5>2
      <4> QED
        BY <4>1
    <3> QED
      BY <3>1, <3>2, <3>3
  <2>11. s.quota > 0 /\ On(s) # {} /\ u.rest = 0 => u.quota < s.quota
    <3> SUFFICES ASSUME s.quota > 0, u.rest = 0, u.quota >= s.quota PROVE FALSE
      BY <2>3, <2>5 DEF Division
    <3>1. t.rest = 1 /\ q = 0 /\ t.quota = s.quota
      <4>1. t.rest \in Nat /\ u.rest = t.rest - 1 /\ u.rest = 0
        BY <2>1, <2>4
      <4>2. /\ q \in Nat /\ t.quota \in Nat /\ s.quota \in Nat /\ u.quota = t.quota - q
            /\ t.quota <= s.quota /\ u.quota >= s.quota
        BY <2>4, <2>5, <2>7
      <4> QED
        BY <4>1, <4>2
    <3>2. t.quota \div 1 = t.quota
      BY <2>5
    <3>3. q = Lesser(t.links[i].has, t.quota)
      BY <2>2, <3>1, <3>2 DEF VisitGives
    <3> QED
      BY <2>5, <3>1, <3>3 DEF Lesser
  <2>12. \A j \in Ahead(s, k + 1) :
           ~u.gone[j] /\ Can(u.links[j]) = Can(s.links[j]) /\ u.sent[j] = s.sent[j]
    <3> SUFFICES ASSUME NEW j \in Ahead(s, k + 1)
                 PROVE  ~u.gone[j] /\ Can(u.links[j]) = Can(s.links[j]) /\ u.sent[j] = s.sent[j]
      OBVIOUS
    <3>1. j \in 1..n /\ j # i /\ j \in Ahead(s, k)
      <4>1. j \in On(s) /\ j > k + 1
        BY DEF Ahead
      <4>2. On(s) \subseteq 1..n
        BY AheadIs
      <4> QED
        BY <4>1, <4>2 DEF Ahead
    <3>2. ~t.gone[j] /\ Can(t.links[j]) = Can(s.links[j]) /\ t.sent[j] = s.sent[j]
      BY <3>1 DEF Come
    <3>3. u.gone[j] = t.gone[j] /\ u.sent[j] = t.sent[j]
      BY <2>4, <2>5, <3>1
    <3>4. Can(u.links[j]) + u.sent[j] = Can(s.links[j]) + s.sent[j]
      BY <2>3, <3>1 DEF Goes
    <3>5. Can(u.links[j]) \in Nat /\ Can(s.links[j]) \in Nat /\ s.sent[j] \in Nat
      BY <2>3, <3>1, LinkCan DEF Division
    <3>6. ~u.gone[j] /\ u.sent[j] = s.sent[j]
      BY <3>2, <3>3
    <3>7. Can(u.links[j]) = Can(s.links[j])
      BY <3>4, <3>5, <3>6
    <3> QED
      BY <3>6, <3>7
  <2>13. u.rest = Cardinality(Ahead(s, k + 1))
    BY <2>1, <2>4
  <2>14. Come(n, s, k + 1, u)
    BY <2>3, <2>8, <2>10, <2>11, <2>12, <2>13 DEF Come
  <2> QED
    BY <1>2, <2>14 DEF Visited, u
<1> QED
  BY <1>1, <1>2

\* And stays fair.
LEMMA FairlyOn ==
  ASSUME NEW n \in Nat, NEW s \in Division(n), NEW k \in Nat, NEW t, NEW m \in Nat,
         Come(n, s, k, t), Fairly(s, m, k, t)
  PROVE  Fairly(s, m, k + 1, Visited(s, k, t))
<1>1. CASE k + 1 \notin On(s)
  <2>1. Ahead(s, k + 1) = Ahead(s, k)
    BY <1>1, AheadIs
  <2> QED
    BY <1>1, <2>1 DEF Fairly, Visited
<1>2. CASE k + 1 \in On(s)
  <2> DEFINE i == k + 1
             u == Visit(t, i)
  <2>1. /\ t \in Division(n) /\ i \in 1..n /\ i \in Ahead(s, k) /\ ~t.gone[i]
        /\ Can(t.links[i]) = Can(s.links[i]) /\ t.sent[i] = s.sent[i]
        /\ t.links[i].has = s.links[i].has
        /\ t.rest >= 1 /\ t.rest \in Nat /\ t.quota \in Nat
    <3>1. k + 1 \in Ahead(s, k) /\ k + 1 \in 1..n
      <4>1. k + 1 \in 1..n
        BY <1>2, AheadIs
      <4> QED
        BY <1>2, <4>1 DEF Ahead
    <3>2. t \in Division(n) /\ t.rest = Cardinality(Ahead(s, k)) /\ Goes(n, s, t)
      BY DEF Come
    <3>3. t.quota \in Nat
      BY <3>2 DEF Division
    <3> QED
      BY <1>2, <3>1, <3>2, <3>3, AheadIs DEF Come, Goes
  <2>2. PICK q, x : VisitGives(n, t, i, q, x)
    BY <2>1, VisitIs
  <2>3. /\ q \in Nat /\ x \in Nat
        /\ q = Lesser(t.links[i].has, t.quota \div t.rest) /\ x = Lesser(q, Can(t.links[i]))
        /\ u.quota = t.quota - q /\ u.rest = t.rest - 1
        /\ u.sent = [t.sent EXCEPT ![i] = t.sent[i] + x]
    BY <2>2 DEF VisitGives
  <2> HIDE DEF u
  <2>4. /\ t.quota \div t.rest \in Nat /\ t.quota \div t.rest >= m
        /\ t.quota - (t.quota \div t.rest) >= (t.rest - 1) * m
    BY <2>1, ShareStays DEF Fairly
  <2>5. t.sent \in [1..n -> Nat] /\ t.links[i].has \in Nat /\ Can(t.links[i]) \in Nat
    BY <2>1, LinkCan DEF Division
  <2>6. u.quota >= u.rest * m
    <3>1. q <= t.quota \div t.rest
      BY <2>3, <2>4, <2>5 DEF Lesser
    <3>2. t.quota - q >= t.quota - (t.quota \div t.rest) /\ t.quota - q \in Int
      BY <2>1, <2>3, <2>4, <3>1
    <3>3. (t.rest - 1) * m \in Int
      BY <2>1
    <3>4. t.quota - q >= (t.rest - 1) * m
      BY <2>1, <2>4, <3>2, <3>3
    <3> QED
      BY <2>3, <3>4
  <2>7. ASSUME NEW j \in On(s) \ Ahead(s, k + 1)
        PROVE  u.sent[j] - s.sent[j] >= Lesser(Lesser(s.links[j].has, Can(s.links[j])), m)
    <3>0. j \in 1..n /\ (j = i \/ j \in On(s) \ Ahead(s, k))
      <4>1. j \in On(s) /\ On(s) \subseteq 1..n
        BY AheadIs
      <4> QED
        BY <4>1 DEF Ahead
    <3>1. CASE j = i
      <4>1. u.sent[i] - s.sent[i] = x
        <5>1. u.sent[i] = t.sent[i] + x
          BY <2>1, <2>3, <2>5
        <5>2. t.sent[i] \in Nat /\ x \in Nat /\ t.sent[i] = s.sent[i]
          BY <2>1, <2>3, <2>5
        <5> QED
          BY <5>1, <5>2
      <4>2. x >= Lesser(Lesser(t.links[i].has, Can(t.links[i])), m)
        <5> DEFINE a == t.links[i].has
                   c == Can(t.links[i])
                   y == t.quota \div t.rest
        <5>1. q = Lesser(a, y) /\ x = Lesser(q, c)
          BY <2>3
        <5>2. a \in Nat /\ c \in Nat /\ y \in Nat /\ y >= m
          BY <2>4, <2>5
        <5> HIDE DEF a, c, y
        <5>3. x >= Lesser(Lesser(a, c), m)
          BY <5>1, <5>2 DEF Lesser
        <5> QED
          BY <5>3 DEF a, c
      <4> QED
        BY <2>1, <3>1, <4>1, <4>2
    <3>2. CASE j # i
      <4>1. u.sent[j] = t.sent[j]
        BY <2>3, <2>5, <3>0, <3>2
      <4> QED
        BY <3>0, <3>2, <4>1 DEF Fairly
    <3> QED
      BY <3>1, <3>2
  <2>8. Fairly(s, m, k + 1, u)
    BY <2>6, <2>7 DEF Fairly
  <2> QED
    BY <1>2, <2>8 DEF Visited, u
<1> QED
  BY <1>1, <1>2

\* All the links of a round, one after the other.
LEMMA VisitsEnd ==
  ASSUME NEW n \in Nat, NEW s \in Division(n), s.rest = Cardinality(On(s)), s.back = 0
  PROVE  /\ Come(n, s, n, Visits(s))
         /\ \A m \in Nat : s.quota >= s.rest * m => Fairly(s, m, n, Visits(s))
<1> DEFINE D == Division(n)
           on == On(s)
           g == [k \in Nat |-> [t \in D |-> IF t.rest >= 1 /\ ~t.gone[k + 1] THEN Visited(s, k, t) ELSE t]]
<1>1. ASSUME NEW k \in Nat, NEW t \in D
      PROVE  (IF t.rest >= 1 /\ ~t.gone[k + 1] THEN Visited(s, k, t) ELSE t) \in D
  <2>1. CASE t.rest >= 1 /\ ~t.gone[k + 1] /\ k + 1 \in On(s)
    <3>1. k + 1 \in 1..n
      BY <2>1, AheadIs
    <3> DEFINE i == k + 1
    <3>2. i \in 1..n /\ t.rest >= 1 /\ ~t.gone[i]
      BY <2>1, <3>1
    <3> HIDE DEF i
    <3>3. Visit(t, i) \in D
      BY <3>2, VisitIs DEF VisitGives
    <3> QED
      BY <2>1, <3>3 DEF Visited, i
  <2>2. CASE ~(t.rest >= 1 /\ ~t.gone[k + 1] /\ k + 1 \in On(s))
    BY <2>2 DEF Visited
  <2> QED
    BY <2>1, <2>2
<1>2. g \in [Nat -> [D -> D]]
  <2> HIDE DEF D
  <2> QED
    BY <1>1
<1>3. PICK f : f \in [Nat -> D] /\ Steps(f, s, g)
  <2> HIDE DEF g
  <2> QED
    BY <1>2, RecursionIn
<1>4. Come(n, s, 0, s)
  <2>1. s.rest = Cardinality(Ahead(s, 0)) /\ Ahead(s, 0) = On(s)
    BY AheadIs
  <2>2. s.quota \in Nat /\ s.rest \in Nat /\ s.sent \in [1..n -> Nat]
    BY DEF Division
  <2>3. Total(s.sent) \in Nat
    BY <2>2, TotalInNat
  <2>4. On(s) # {} => s.rest # 0
    BY AheadIs, FS_EmptySet
  <2>5. \A i \in On(s) : ~s.gone[i]
    BY AheadIs
  <2>6. Goes(n, s, s)
    BY GoesNowhere
  <2>7. s.quota + s.back + Total(s.sent) = s.quota + Total(s.sent) /\ s.quota + s.back = s.quota
    BY <2>2, <2>3
  <2> QED
    BY <2>1, <2>2, <2>4, <2>5, <2>6, <2>7 DEF Come
\* Every function that goes on like this comes to the end.
<1>5. ASSUME NEW e, e[0] = s, \A k \in Nat : Come(n, s, k, e[k]) => e[k + 1] = Visited(s, k, e[k])
      PROVE  \A k \in Nat : Come(n, s, k, e[k])
  <2> DEFINE K == {k \in Nat : Come(n, s, k, e[k])}
  <2>1. 0 \in K
    BY <1>4, <1>5
  <2>2. ASSUME NEW k \in Nat, k \in K PROVE k + 1 \in K
    <3>1. Come(n, s, k, e[k]) /\ e[k + 1] = Visited(s, k, e[k])
      BY <1>5, <2>2
    <3>2. Come(n, s, k + 1, Visited(s, k, e[k]))
      BY <3>1, ComeOn
    <3> QED
      BY <3>1, <3>2
  <2>3. Nat \subseteq K
    <3> HIDE DEF K
    <3> QED
      BY <2>1, <2>2, SetInduction
  <2> QED
    BY <2>3
<1>6. f[0] = s /\ \A k \in Nat : f[k + 1] = g[k][f[k]]
  <2> HIDE DEF g, D
  <2> QED
    BY <1>3 DEF Steps
<1>7. ASSUME NEW k \in Nat, Come(n, s, k, f[k]) PROVE f[k + 1] = Visited(s, k, f[k])
  <2>1. f[k] \in D
    BY <1>3
  <2>2. CASE k + 1 \in On(s)
    <3>1. f[k].rest >= 1 /\ ~f[k].gone[k + 1]
      <4>1. k + 1 \in Ahead(s, k)
        BY <2>2 DEF Ahead
      <4> QED
        BY <1>7, <2>2, <4>1, AheadIs DEF Come
    <3>2. g[k][f[k]] = Visited(s, k, f[k])
      <4> HIDE DEF D
      <4> QED
        BY <2>1, <3>1
    <3> QED
      BY <1>6, <3>2
  <2>3. CASE k + 1 \notin On(s)
    <3>1. g[k][f[k]] = f[k]
      BY <2>1, <2>3 DEF Visited
    <3> QED
      BY <1>6, <2>3, <3>1 DEF Visited
  <2> QED
    BY <2>2, <2>3
<1> HIDE DEF g
<1>8. \A k \in Nat : f[k + 1] = Visited(s, k, f[k])
  BY <1>5, <1>6, <1>7
<1> DEFINE Body(e) == [k \in Nat |-> IF k = 0 THEN s ELSE LET t == e[k - 1] IN IF k \in on THEN Visit(t, k) ELSE t]
           e == CHOOSE e : e = Body(e)
<1>9. f = Body(f)
  <2>1. ASSUME NEW k \in Nat, k # 0
        PROVE  f[k] = LET t == f[k - 1] IN IF k \in on THEN Visit(t, k) ELSE t
    <3>1. k - 1 \in Nat /\ (k - 1) + 1 = k
      BY <2>1
    <3>2. f[k] = Visited(s, k - 1, f[k - 1])
      BY <1>8, <3>1
    <3> QED
      BY <3>1, <3>2 DEF Visited
  <2>2. f = [k \in Nat |-> f[k]]
    BY <1>3
  <2>3. \A k \in Nat : f[k] = IF k = 0 THEN s ELSE LET t == f[k - 1] IN IF k \in on THEN Visit(t, k) ELSE t
    BY <1>6, <2>1
  <2> QED
    BY <2>2, <2>3, Zenon
<1>10. Visits(s) = e[n]
  <2>1. s.links \in [1..n -> [has : Nat, holds : Nat, takes : Nat]]
    BY DEF Division
  <2>2. Len(s.links) = n
    BY <2>1, FunIsSeq
  <2> QED
    BY <2>2, Zenon DEF Visits
<1>11. e = Body(e)
  <2> HIDE DEF Body
  <2> QED
    BY <1>9, Zenon
<1> HIDE DEF e
<1>12. e[0] = s /\ \A k \in Nat : e[k + 1] = Visited(s, k, e[k])
  <2>1. \A k \in Nat : e[k] = IF k = 0 THEN s ELSE LET t == e[k - 1] IN IF k \in on THEN Visit(t, k) ELSE t
    <3>1. \A k \in Nat : Body(e)[k] = IF k = 0 THEN s ELSE LET t == e[k - 1] IN IF k \in on THEN Visit(t, k) ELSE t
      BY Zenon
    <3> HIDE DEF Body
    <3> QED
      BY <1>11, <3>1, Zenon
  <2> HIDE DEF Body
  <2>2. ASSUME NEW k \in Nat PROVE e[k + 1] = Visited(s, k, e[k])
    <3>1. k + 1 \in Nat /\ k + 1 # 0 /\ (k + 1) - 1 = k
      OBVIOUS
    <3>2. e[k + 1] = LET t == e[(k + 1) - 1] IN IF k + 1 \in on THEN Visit(t, k + 1) ELSE t
      BY <2>1, <3>1, Zenon
    <3> QED
      BY <3>1, <3>2, Zenon DEF Visited
  <2> QED
    BY <2>1, <2>2
<1>13. \A k \in Nat : Come(n, s, k, e[k])
  BY <1>5, <1>12
<1>14. ASSUME NEW m \in Nat, s.quota >= s.rest * m PROVE Fairly(s, m, n, e[n])
  <2> DEFINE K == {k \in Nat : Fairly(s, m, k, e[k])}
  <2>1. 0 \in K
    <3>1. On(s) \ Ahead(s, 0) = {}
      BY AheadIs
    <3> QED
      BY <1>12, <1>14, <3>1 DEF Fairly
  <2>2. ASSUME NEW k \in Nat, k \in K PROVE k + 1 \in K
    <3>1. Come(n, s, k, e[k]) /\ Fairly(s, m, k, e[k]) /\ e[k + 1] = Visited(s, k, e[k])
      BY <1>12, <1>13, <2>2
    <3>2. Fairly(s, m, k + 1, Visited(s, k, e[k]))
      BY <3>1, FairlyOn
    <3> QED
      BY <3>1, <3>2
  <2>3. Nat \subseteq K
    <3> HIDE DEF K
    <3> QED
      BY <2>1, <2>2, SetInduction
  <2> QED
    BY <2>3
<1> QED
  BY <1>10, <1>13, <1>14

\* A round of links that are still on: nothing is lost, the division comes nearer to its
\* end, and every link gets an even share if it can use it.
LEMMA RoundIs ==
  ASSUME NEW n \in Nat, NEW s \in Division(n), s.quota > 0, On(s) # {}
  PROVE  /\ Round(s) \in Division(n) /\ Goes(n, s, Round(s))
         /\ Round(s).quota + Total(Round(s).sent) = s.quota + Total(s.sent)
         /\ Round(s).quota + Cardinality(On(Round(s))) < s.quota + Cardinality(On(s))
         /\ \A i \in On(s) : Round(s).sent[i] - s.sent[i]
              >= Lesser(Lesser(s.links[i].has, Can(s.links[i])), s.quota \div Cardinality(On(s)))
<1> DEFINE c == Cardinality(On(s))
           b == [s EXCEPT !.rest = c, !.back = 0]
           e == Visits(b)
           z == [e EXCEPT !.quota = @ + e.back]
           m == s.quota \div c
<1>1. c \in Nat /\ c # 0 /\ IsFiniteSet(On(s)) /\ s.quota \in Nat
  <2>1. s.quota \in Nat
    BY DEF Division
  <2> QED
    BY <2>1, AheadIs, FS_EmptySet
<1>2. Round(s) = z
  BY DEF Round
<1>3. /\ b \in Division(n) /\ b.rest = c /\ b.back = 0 /\ b.quota = s.quota
      /\ b.links = s.links /\ b.sent = s.sent /\ b.gone = s.gone
  <2> HIDE DEF c
  <2> QED
    BY <1>1 DEF Division
<1> HIDE DEF b, c
<1>4. On(b) = On(s)
  BY <1>3 DEF On
<1>5. Come(n, b, n, e) /\ \A j \in Nat : b.quota >= b.rest * j => Fairly(b, j, n, e)
  BY <1>3, <1>4, VisitsEnd DEF c
<1> HIDE DEF e
<1>6. /\ e \in Division(n) /\ Goes(n, b, e) /\ e.rest = 0
      /\ e.quota + e.back + Total(e.sent) = b.quota + Total(b.sent)
      /\ e.quota <= b.quota /\ e.quota + e.back <= b.quota
      /\ e.quota < b.quota => e.quota + e.back < b.quota \/ \E i \in On(b) : e.gone[i]
      /\ b.quota > 0 /\ On(b) # {} /\ e.rest = 0 => e.quota < b.quota
  BY <1>3, <1>5, AheadIs DEF Come
<1>7. /\ z \in Division(n) /\ z.quota = e.quota + e.back /\ z.quota \in Nat
      /\ z.links = e.links /\ z.sent = e.sent /\ z.gone = e.gone
  <2>1. e.quota + e.back \in Nat
    <3>1. e.quota \in Nat /\ e.back \in Nat
      BY <1>6 DEF Division
    <3> QED
      BY <3>1
  <2> QED
    BY <1>6, <2>1 DEF Division
<1> HIDE DEF z
<1>8. Goes(n, s, z)
  BY <1>3, <1>6, <1>7 DEF Goes
<1>9. z.quota + Total(z.sent) = s.quota + Total(s.sent)
  BY <1>3, <1>6, <1>7
<1>10. /\ On(z) \subseteq On(s)
       /\ Cardinality(On(z)) <= c /\ Cardinality(On(z)) \in Nat
       /\ (\E i \in On(s) : z.gone[i]) => Cardinality(On(z)) < c
  <2>1. /\ On(z) \subseteq 1..n /\ \A i \in 1..n : i \in On(z) <=> ~z.gone[i]
        /\ Cardinality(On(z)) \in Nat
    BY <1>7, AheadIs
  <2>2. On(s) \subseteq 1..n /\ \A i \in 1..n : i \in On(s) <=> ~s.gone[i]
    BY AheadIs
  <2>3. On(z) \subseteq On(s)
    BY <1>8, <2>1, <2>2 DEF Goes
  <2>4. Cardinality(On(z)) <= c /\ (Cardinality(On(z)) = c => On(z) = On(s))
    BY <1>1, <2>3, FS_Subset DEF c
  <2>5. (\E i \in On(s) : z.gone[i]) => On(z) # On(s)
    BY <2>1, <2>2
  <2> QED
    BY <1>1, <2>1, <2>3, <2>4, <2>5
<1>11. z.quota + Cardinality(On(z)) < s.quota + c
  <2>1. z.quota <= s.quota
    BY <1>3, <1>6, <1>7
  <2>2. z.quota < s.quota \/ \E i \in On(s) : z.gone[i]
    BY <1>3, <1>4, <1>6, <1>7
  <2> QED
    BY <1>1, <1>7, <1>10, <2>1, <2>2
<1>12. m \in Nat /\ s.quota >= c * m
  BY <1>1
<1> HIDE DEF m
<1>13. Fairly(b, m, n, e)
  BY <1>3, <1>5, <1>12
<1>14. \A i \in On(s) : z.sent[i] - s.sent[i] >= Lesser(Lesser(s.links[i].has, Can(s.links[i])), m)
  <2>1. On(b) \ Ahead(b, n) = On(s)
    BY <1>3, <1>4, AheadIs
  <2> QED
    BY <1>3, <1>7, <1>13, <2>1 DEF Fairly
<1> QED
  BY <1>2, <1>7, <1>8, <1>9, <1>11, <1>14 DEF c, m

\* The quota of a second is divided as QuotaShared says (Cserver::post_select, server.cpp:
\* 545-568), whatever the quota, the number of links, what each has to send, finds to
\* send and what its socket takes: the loop ends, nothing is lost or sent twice, the
\* shares are even, and quota is left only when every link has sent all it can.
THEOREM QuotaIsShared ==
  ASSUME NEW links \in Seq([has : Nat \ {0}, holds : Nat, takes : Nat]), NEW quota \in Nat
  PROVE  QuotaShared(links, quota)
<1> DEFINE n == Len(links)
           start == [links |-> links, quota |-> quota, rest |-> 0, back |-> 0,
                     sent |-> [i \in DOMAIN links |-> 0], gone |-> [i \in DOMAIN links |-> FALSE]]
           D == Division(n)
           Next1(s) == IF s.quota = 0 \/ On(s) = {} THEN s ELSE Round(s)
           g == [k \in Nat |-> [s \in D |-> Next1(s)]]
<1>1. n \in Nat /\ DOMAIN links = 1..n /\ links \in [1..n -> [has : Nat, holds : Nat, takes : Nat]]
      /\ \A i \in 1..n : links[i].has >= 1
  <2>1. DOMAIN links = 1..n /\ n \in Nat
    OBVIOUS
  <2>2. \A i \in 1..n : links[i] \in [has : Nat \ {0}, holds : Nat, takes : Nat]
    <3> DEFINE L == [has : Nat \ {0}, holds : Nat, takes : Nat]
    <3>1. links \in Seq(L)
      OBVIOUS
    <3> HIDE DEF L
    <3> QED
      BY <3>1, ElementOfSeq DEF L
  <2>3. \A i \in 1..n : links[i] \in [has : Nat, holds : Nat, takes : Nat] /\ links[i].has >= 1
    <3> HIDE DEF n
    <3> QED
      BY <2>2
  <2>4. links = [i \in 1..n |-> links[i]]
    BY <2>1
  <2> HIDE DEF n
  <2> QED
    BY <2>1, <2>3, <2>4
<1> HIDE DEF n
<1>2. \A i \in 1..n : Can(links[i]) \in Nat
  <2>1. \A i \in 1..n : links[i] \in [has : Nat, holds : Nat, takes : Nat]
    BY <1>1
  <2> QED
    BY <2>1 DEF Can, Lesser
<1>3. start \in D
  <2>1. [i \in 1..n |-> 0] \in [1..n -> Nat] /\ [i \in 1..n |-> FALSE] \in [1..n -> BOOLEAN]
    OBVIOUS
  <2> QED
    BY <1>1, <2>1 DEF Division
<1>4. ASSUME NEW s \in D PROVE Next1(s) \in D
  <2>1. s.quota \in Nat
    BY DEF Division
  <2> QED
    BY <1>1, <1>4, <2>1, RoundIs
<1>5. PICK h : h \in [Nat -> D] /\ Steps(h, start, g)
  <2>1. g \in [Nat -> [D -> D]]
    <3> HIDE DEF Next1
    <3> QED
      BY <1>4
  <2> HIDE DEF g, start, D
  <2> QED
    BY <1>3, <2>1, RecursionIn
<1> DEFINE Body(f) == [k \in Nat |-> IF k = 0 THEN start ELSE LET s == f[k - 1] IN IF s.quota = 0 \/ On(s) = {} THEN s ELSE Round(s)]
           f == CHOOSE f : f = Body(f)
<1>6. h = Body(h)
  <2>1. \A k \in Nat : (IF k = 0 THEN start ELSE g[k - 1][h[k - 1]]) = IF k = 0 THEN start ELSE Next1(h[k - 1])
    <3> SUFFICES ASSUME NEW k \in Nat, k # 0 PROVE g[k - 1][h[k - 1]] = Next1(h[k - 1])
      OBVIOUS
    <3>1. k - 1 \in Nat /\ h[k - 1] \in D
      <4> HIDE DEF D
      <4> QED
        BY <1>5
    <3> HIDE DEF Next1, D
    <3> QED
      BY <3>1
  <2>2. h = [k \in Nat |-> IF k = 0 THEN start ELSE g[k - 1][h[k - 1]]]
    BY <1>5, Zenon DEF Steps
  <2>3. h = [k \in Nat |-> IF k = 0 THEN start ELSE Next1(h[k - 1])]
    <3> HIDE DEF g, start, Next1
    <3> QED
      BY <2>1, <2>2, Zenon
  <2> QED
    BY <2>3, Zenon
<1>7. f = Body(f)
  <2> HIDE DEF Body
  <2> QED
    BY <1>6, Zenon
<1>8. Divided(links, quota, quota + Len(links)) = f[quota + n]
  BY Zenon DEF Divided, n
<1> HIDE DEF f
<1>9. f[0] = start /\ \A k \in Nat : f[k + 1] = Next1(f[k])
  <2>1. f = [k \in Nat |-> IF k = 0 THEN start ELSE Next1(f[k - 1])]
    BY <1>7, Zenon
  <2> HIDE DEF start, Next1, Body
  <2>2. f[0] = start
    BY <2>1
  <2>3. ASSUME NEW k \in Nat PROVE f[k + 1] = Next1(f[k])
    <3>1. k + 1 \in Nat /\ k + 1 # 0 /\ (k + 1) - 1 = k
      OBVIOUS
    <3>2. f[k + 1] = IF k + 1 = 0 THEN start ELSE Next1(f[(k + 1) - 1])
      BY <2>1, <3>1, Zenon
    <3> QED
      BY <3>1, <3>2
  <2> QED
    BY <2>2, <2>3
\* What every round keeps, and what the first round gives.
<1> DEFINE Fair(i) == Lesser(Lesser(links[i].has, Can(links[i])), quota \div n)
           Due(k, s) ==
             /\ s \in D /\ Goes(n, start, s)
             /\ s.quota + Total(s.sent) = quota
             /\ s.quota = 0 \/ On(s) = {} \/ s.quota + Cardinality(On(s)) <= quota + n - k
             /\ k > 0 => \A i \in 1..n : s.sent[i] >= Fair(i)
<1>10. /\ start.links = links /\ start.quota = quota
       /\ \A i \in 1..n : start.sent[i] = 0 /\ ~start.gone[i]
       /\ Total(start.sent) = 0 /\ On(start) = 1..n /\ Cardinality(On(start)) = n
  <2>1. start.sent = [i \in 1..n |-> 0] /\ start.gone = [i \in 1..n |-> FALSE]
    BY <1>1
  <2>2. On(start) = 1..n
    BY <1>1, <2>1 DEF On
  <2>3. Cardinality(1..n) = n
    BY <1>1, FS_Interval
  <2> QED
    BY <1>1, <2>1, <2>2, <2>3, TotalZero
<1> HIDE DEF start
<1>11. Due(0, f[0])
  <2>1. Goes(n, start, start)
    BY <1>1, <1>3, GoesNowhere
  <2>2. /\ start.quota + Total(start.sent) = quota
        /\ start.quota + Cardinality(On(start)) <= quota + n - 0
    <3>1. start.quota = quota /\ Total(start.sent) = 0 /\ Cardinality(On(start)) = n
      BY <1>10, Zenon
    <3>2. n \in Nat
      BY <1>1
    <3> QED
      BY <3>1, <3>2
  <2> HIDE DEF Fair, D
  <2> QED
    BY <1>3, <1>9, <2>1, <2>2
<1>12. ASSUME NEW k \in Nat, Due(k, f[k]) PROVE Due(k + 1, f[k + 1])
  <2> DEFINE s == f[k]
  <2>1. s \in D /\ s.quota \in Nat /\ Goes(n, start, s)
    BY <1>12 DEF Division
  <2>2. CASE s.quota = 0 \/ On(s) = {}
    <3>1. f[k + 1] = s
      BY <1>9, <2>2
    <3>2. ASSUME NEW i \in 1..n, k = 0 PROVE s.sent[i] >= Fair(i)
      <4>1. s = start /\ quota = 0
        BY <1>9, <1>10, <2>2, <3>2
      <4>2. n \in Nat /\ n >= 1 /\ quota \div n = 0
        BY <1>1, <4>1
      <4>3. links[i].has \in Nat /\ Can(links[i]) \in Nat
        BY <1>1, <1>2
      <4>4. Fair(i) <= 0
        BY <4>2, <4>3 DEF Lesser
      <4>5. Fair(i) \in Int /\ s.sent[i] = 0
        BY <1>10, <4>1, <4>2, <4>3 DEF Lesser
      <4> HIDE DEF Fair, s
      <4> QED
        BY <4>4, <4>5
    <3> HIDE DEF Fair, s
    <3> QED
      BY <1>12, <2>1, <2>2, <3>1, <3>2 DEF s
  <2>3. CASE s.quota # 0 /\ On(s) # {}
    <3> DEFINE t == f[k + 1]
    <3>1. t = Round(s)
      BY <1>9, <2>3
    <3> HIDE DEF s, t
    <3>2. /\ t \in D /\ Goes(n, s, t)
          /\ t.quota + Total(t.sent) = s.quota + Total(s.sent)
          /\ t.quota + Cardinality(On(t)) < s.quota + Cardinality(On(s))
          /\ \A i \in On(s) : t.sent[i] - s.sent[i]
               >= Lesser(Lesser(s.links[i].has, Can(s.links[i])), s.quota \div Cardinality(On(s)))
      BY <1>1, <2>1, <2>3, <3>1, RoundIs
    <3>3. Goes(n, start, t)
      BY <1>1, <1>3, <2>1, <3>2, GoesOn
    <3>4. t.quota + Total(t.sent) = quota
      BY <1>12, <3>2 DEF s
    <3>5. t.quota + Cardinality(On(t)) <= quota + n - (k + 1)
      <4>1. t.quota \in Nat /\ Cardinality(On(t)) \in Nat /\ Cardinality(On(s)) \in Nat
        BY <1>1, <2>1, <3>2, AheadIs DEF Division
      <4>2. s.quota + Cardinality(On(s)) <= quota + n - k
        BY <1>12, <2>3 DEF s
      <4> QED
        BY <1>1, <2>1, <3>2, <4>1, <4>2
    <3>6. ASSUME NEW i \in 1..n PROVE t.sent[i] >= Fair(i)
      <4>1. links[i].has \in Nat /\ Can(links[i]) \in Nat
        BY <1>1, <1>2
      <4>2. CASE k = 0
        <5>1. s = start
          BY <1>9, <4>2 DEF s
        <5>2. i \in On(s) /\ s.links = links /\ s.sent[i] = 0 /\ s.quota = quota /\ Cardinality(On(s)) = n
          BY <1>10, <5>1
        <5>3. t.sent[i] - 0 >= Fair(i)
          BY <3>2, <5>2
        <5>4. t.sent[i] \in Nat
          BY <3>2 DEF Division
        <5> HIDE DEF Fair
        <5> QED
          BY <5>3, <5>4
      <4>3. CASE k # 0
        <5>1. s.sent[i] >= Fair(i)
          BY <1>12, <4>3 DEF s
        <5>2. t.sent[i] >= s.sent[i]
          BY <3>2 DEF Goes
        <5>3. quota \div n \in Int
          BY <1>1
        <5>4. Fair(i) \in Int
          BY <4>1, <5>3 DEF Lesser
        <5>5. t.sent[i] \in Nat /\ s.sent[i] \in Nat
          BY <2>1, <3>2 DEF Division
        <5> HIDE DEF Fair
        <5> QED
          BY <5>1, <5>2, <5>4, <5>5
      <4> QED
        BY <4>2, <4>3
    <3> HIDE DEF Fair
    <3> QED
      BY <3>2, <3>3, <3>4, <3>5, <3>6 DEF t
  <2> QED
    BY <2>2, <2>3
<1>13. \A k \in Nat : Due(k, f[k])
  <2> DEFINE K == {k \in Nat : Due(k, f[k])}
  <2> HIDE DEF Due
  <2>1. Nat \subseteq K
    <3>1. 0 \in K /\ \A k \in Nat : k \in K => k + 1 \in K
      BY <1>11, <1>12
    <3> HIDE DEF K
    <3> QED
      BY <3>1, SetInduction
  <2> QED
    BY <2>1
<1> DEFINE e == f[quota + n]
<1>14. Due(quota + n, e)
  <2>1. quota + n \in Nat
    BY <1>1
  <2> HIDE DEF Due
  <2> QED
    BY <1>13, <2>1
<1> HIDE DEF e
<1>15. /\ e \in D /\ Goes(n, start, e) /\ e.quota \in Nat
       /\ e.quota + Total(e.sent) = quota /\ Total(e.sent) \in Nat
       /\ \A i \in 1..n : (i \in On(e) <=> ~e.gone[i])
  <2>1. e \in D
    BY <1>14
  <2>2. e.quota \in Nat /\ e.sent \in [1..n -> Nat]
    BY <2>1 DEF Division
  <2>3. \A i \in 1..n : (i \in On(e) <=> ~e.gone[i])
    BY <1>1, <2>1, AheadIs
  <2>4. Total(e.sent) \in Nat
    BY <1>1, <2>2, TotalInNat
  <2> QED
    BY <1>14, <2>2, <2>3, <2>4
<1>16. e.quota = 0 \/ On(e) = {}
  <2>1. Cardinality(On(e)) \in Nat /\ IsFiniteSet(On(e))
    BY <1>1, <1>15, AheadIs
  <2>2. Cardinality(On(e)) = 0 => On(e) = {}
    BY <2>1, FS_EmptySet
  <2>3. e.quota = 0 \/ On(e) = {} \/ e.quota + Cardinality(On(e)) <= quota + n - (quota + n)
    BY <1>14
  <2> QED
    BY <1>1, <1>15, <2>1, <2>2, <2>3
<1>17. ASSUME NEW i \in 1..n
       PROVE  e.sent[i] >= Fair(i) /\ (e.quota > 0 => e.sent[i] = Can(links[i]))
  <2>1. quota + n > 0
    BY <1>1
  <2>2. e.sent[i] >= Fair(i)
    BY <1>14, <2>1
  <2>3. ASSUME e.quota > 0 PROVE e.sent[i] = Can(links[i])
    <3>1. e.gone[i]
      BY <1>15, <1>16, <2>3
    <3>2. Can(e.links[i]) = 0 /\ Can(e.links[i]) + e.sent[i] = Can(start.links[i]) + start.sent[i]
      BY <1>10, <1>15, <3>1 DEF Goes
    <3>3. Can(start.links[i]) = Can(links[i]) /\ start.sent[i] = 0 /\ Can(links[i]) \in Nat /\ e.sent[i] \in Nat
      BY <1>2, <1>10, <1>15 DEF Division
    <3> QED
      BY <3>2, <3>3
  <2> QED
    BY <2>2, <2>3
<1>18. QuotaShared(links, quota)
  <2>1. Divided(links, quota, quota + Len(links)) = e
    BY <1>8 DEF e
  <2>2. e.quota = 0 \/ \A i \in DOMAIN links : e.gone[i]
    BY <1>1, <1>15, <1>16
  <2>3. Total(e.sent) + e.quota = quota
    BY <1>15
  <2>4. \A i \in DOMAIN links :
          /\ e.sent[i] >= Lesser(Lesser(links[i].has, Can(links[i])), quota \div Len(links))
          /\ e.quota > 0 => e.sent[i] = Can(links[i])
    BY <1>1, <1>17 DEF n
  <2> QED
    BY <2>1, <2>2, <2>3, <2>4, Zenon DEF QuotaShared
<1> QED
  BY <1>18
=============================================================================
