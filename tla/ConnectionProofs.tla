-------------------------- MODULE ConnectionProofs --------------------------
(* A TCP connection of the tracker answers exactly, for every request,     *)
(* every cut into reads, every socket and every list of denied hosts.      *)
EXTENDS Connection, SequenceTheorems, WellFoundedInduction, TLAPS

-----------------------------------------------------------------------------
(* Induction, as facts about sets of numbers.                              *)

\* A set of numbers that is not empty has a least one.
LEMMA LeastNumber ==
  ASSUME NEW T \in SUBSET Nat, T # {}
  PROVE  \E x \in T : \A y \in T : x <= y
<1> DEFINE R == {ss \in Nat \X Nat : ss[1] < ss[2]}
<1>1. IsWellFoundedOn(R, Nat)
  BY NatLessThanWellFounded DEF OpToRel
<1>2. \A x, y \in Nat : <<y, x>> \notin R => x <= y
  OBVIOUS
<1> HIDE DEF R
<1>3. PICK x \in T : \A y \in T : <<y, x>> \notin R
  BY <1>1, WFMin
<1> QED
  BY <1>2, <1>3

LEMMA SetInduction ==
  ASSUME NEW S, 0 \in S, \A n \in Nat : n \in S => n + 1 \in S
  PROVE  Nat \subseteq S
<1> DEFINE T == {n \in Nat : n \notin S}
<1> SUFFICES ASSUME T # {} PROVE FALSE
  OBVIOUS
<1>1. PICK x \in T : \A y \in T : x <= y
  BY LeastNumber
<1>2. x \in Nat /\ x \notin S /\ x # 0
  BY <1>1
<1>3. x - 1 \in Nat /\ (x - 1) + 1 = x /\ ~(x <= x - 1)
  BY <1>2
<1>4. x - 1 \in S
  BY <1>1, <1>3
<1> QED
  BY <1>2, <1>3, <1>4

\* A function of the first numbers may be defined by what it is at the number before.
LEMMA Recursion ==
  ASSUME NEW S, NEW a \in S, NEW n \in Nat, NEW g \in [1..n -> [S -> S]]
  PROVE  \E f \in [0..n -> S] : f[0] = a /\ \A i \in 1..n : f[i] = g[i][f[i - 1]]
<1> DEFINE Good(k, f) == f[0] = a /\ \A i \in 1..k : f[i] = g[i][f[i - 1]]
           K == {k \in Nat : k <= n => \E f \in [0..k -> S] : Good(k, f)}
<1>1. 0 \in K
  <2>1. [i \in 0..0 |-> a] \in [0..0 -> S] /\ Good(0, [i \in 0..0 |-> a])
    OBVIOUS
  <2> QED
    BY <2>1
<1>2. ASSUME NEW k \in Nat, k \in K PROVE k + 1 \in K
  <2> SUFFICES ASSUME k + 1 <= n PROVE \E f \in [0..(k + 1) -> S] : Good(k + 1, f)
    OBVIOUS
  <2>1. PICK f \in [0..k -> S] : Good(k, f)
    BY <1>2
  <2> DEFINE h == [i \in 0..(k + 1) |-> IF i = k + 1 THEN g[k + 1][f[k]] ELSE f[i]]
  <2>2. f[k] \in S /\ g[k + 1][f[k]] \in S
    OBVIOUS
  <2>3. h \in [0..(k + 1) -> S]
    BY <2>2
  <2>4. h[k + 1] = g[k + 1][f[k]] /\ \A i \in 0..k : h[i] = f[i]
    OBVIOUS
  <2> HIDE DEF h
  <2>5. ASSUME NEW i \in 1..(k + 1) PROVE h[i] = g[i][h[i - 1]]
    <3>1. CASE i = k + 1
      BY <2>4, <3>1
    <3>2. CASE i # k + 1
      <4>1. i \in 1..k /\ i \in 0..k /\ i - 1 \in 0..k
        BY <3>2
      <4> QED
        BY <2>1, <2>4, <4>1
    <3> QED
      BY <3>1, <3>2
  <2>6. h[0] = a
    BY <2>1, <2>4
  <2> QED
    BY <2>3, <2>5, <2>6
<1>3. n \in K
  <2> HIDE DEF K
  <2> QED
    BY <1>1, <1>2, SetInduction
<1>4. PICK f \in [0..n -> S] : Good(n, f)
  BY <1>3
<1> QED
  BY <1>4

-----------------------------------------------------------------------------
(* The loop of recv() over the bytes of one read.                          *)

LEMMA LookType ==
  ASSUME NEW p \in Place, NEW b \in Sign
  PROVE  /\ Look(p, b) \in Place
         /\ p.state # 0 => Look(p, b).state # 0
         /\ p.state = 0 /\ p.on /\ p.began = 0 =>
              IF b \in {"cr", "lf"} THEN Look(p, b).state # 0
              ELSE Look(p, b).state = 0 /\ Look(p, b).on /\ Look(p, b).began = 0
BY DEF Place, Sign, Look, Text, LineEnd

\* Once an end of a line has been read, m_state is not 0 any more; before, it is.
LEMMA ParsedType ==
  ASSUME NEW m \in 0..5, NEW bytes \in Seq(Sign)
  PROVE  /\ Parsed(m, bytes) \in 0..5
         /\ m # 0 => Parsed(m, bytes) # 0
         /\ m = 0 /\ Parsed(m, bytes) = 0 => \A i \in 1..Len(bytes) : bytes[i] \notin {"cr", "lf"}
<1> DEFINE n == Len(bytes)
           a == [state |-> m, began |-> m, on |-> TRUE]
           g == [i \in 1..n |-> [p \in Place |-> Scan[<<p, bytes[i]>>]]]
           at == CHOOSE f : f = [i \in 0..n |-> IF i = 0 THEN a ELSE Scan[<<f[i - 1], bytes[i]>>]]
<1>1. n \in Nat /\ a \in Place /\ \A i \in 1..n : bytes[i] \in Sign
  BY DEF Place
<1>2. \A p \in Place, b \in Sign : Scan[<<p, b>>] = Look(p, b)
  BY DEF Scan
<1>3. g \in [1..n -> [Place -> Place]]
  BY <1>1, <1>2, LookType
<1>4. PICK f \in [0..n -> Place] : f[0] = a /\ \A i \in 1..n : f[i] = g[i][f[i - 1]]
  <2> HIDE DEF a, g, n
  <2>1. n \in Nat
    BY <1>1
  <2>2. a \in Place
    BY <1>1
  <2> QED
    BY <1>3, <2>1, <2>2, Recursion
<1>5. f = [i \in 0..n |-> IF i = 0 THEN a ELSE Scan[<<f[i - 1], bytes[i]>>]]
  <2>1. ASSUME NEW i \in 1..n PROVE f[i] = Scan[<<f[i - 1], bytes[i]>>]
    <3>1. i - 1 \in 0..n
      BY <1>1
    <3>2. f[i - 1] \in Place
      BY <1>4, <3>1
    <3> QED
      BY <1>4, <3>2
  <2>2. \A i \in 0..n : i # 0 => i \in 1..n
    BY <1>1
  <2> HIDE DEF g, a, n
  <2> QED
    BY <1>4, <2>1, <2>2
<1>6. at = [i \in 0..n |-> IF i = 0 THEN a ELSE Scan[<<at[i - 1], bytes[i]>>]]
  BY <1>5
<1>7. Parsed(m, bytes) = at[n].state
  BY DEF Parsed
<1> HIDE DEF at, a, g
<1>8. at[0] = a /\ \A i \in 1..n : at[i] = Scan[<<at[i - 1], bytes[i]>>]
  BY <1>1, <1>6
<1> DEFINE Before(i) == at[i].state = 0 => /\ m = 0 /\ at[i].on /\ at[i].began = 0
                                           /\ \A j \in 1..i : bytes[j] \notin {"cr", "lf"}
           K == {i \in Nat : i <= n => at[i] \in Place /\ Before(i)}
<1>9. 0 \in K
  BY <1>1, <1>8 DEF a
<1>10. ASSUME NEW i \in Nat, i \in K PROVE i + 1 \in K
  <2> SUFFICES ASSUME i + 1 <= n PROVE at[i + 1] \in Place /\ Before(i + 1)
    OBVIOUS
  <2>1. at[i] \in Place /\ Before(i) /\ i + 1 \in 1..n
    BY <1>1, <1>10
  <2>2. bytes[i + 1] \in Sign /\ at[i + 1] = Look(at[i], bytes[i + 1])
    <3>1. bytes[i + 1] \in Sign /\ (i + 1) - 1 = i
      BY <1>1, <2>1
    <3>2. at[i + 1] = Scan[<<at[i], bytes[i + 1]>>]
      BY <1>8, <2>1, <3>1
    <3> QED
      BY <1>2, <2>1, <3>1, <3>2
  <2>3. at[i + 1] \in Place
    BY <2>1, <2>2, LookType
  <2>4. ASSUME at[i + 1].state = 0
        PROVE  m = 0 /\ at[i + 1].on /\ at[i + 1].began = 0 /\ \A j \in 1..(i + 1) : bytes[j] \notin {"cr", "lf"}
    <3>1. at[i].state = 0
      BY <2>1, <2>2, <2>4, LookType
    <3>2. m = 0 /\ at[i].on /\ at[i].began = 0 /\ \A j \in 1..i : bytes[j] \notin {"cr", "lf"}
      BY <2>1, <3>1
    <3>3. bytes[i + 1] \notin {"cr", "lf"} /\ at[i + 1].on /\ at[i + 1].began = 0
      BY <2>1, <2>2, <2>4, <3>1, <3>2, LookType
    <3>4. \A j \in 1..(i + 1) : j \in 1..i \/ j = i + 1
      OBVIOUS
    <3> QED
      BY <3>2, <3>3, <3>4
  <2> QED
    BY <2>3, <2>4
<1>11. n \in K
  <2> HIDE DEF K, n
  <2> QED
    BY <1>1, <1>9, <1>10, SetInduction
<1>12. at[n] \in Place /\ Before(n)
  BY <1>1, <1>11
<1>13. at[n].state \in 0..5
  BY <1>12 DEF Place
<1> QED
  BY <1>7, <1>12, <1>13
-----------------------------------------------------------------------------
(* The bytes of an answer: n positions after the first k.                  *)

Run(k, n) == [i \in 1..n |-> k + i]

LEMMA RunIs ==
  ASSUME NEW k \in Nat, NEW n \in Nat
  PROVE  /\ Run(k, n) \in Seq(Nat) /\ Len(Run(k, n)) = n
         /\ \A i \in 1..n : Run(k, n)[i] = k + i
<1>1. \A i \in 1..n : k + i \in Nat
  OBVIOUS
<1> QED
  BY <1>1 DEF Run

LEMMA RunEqual ==
  ASSUME NEW k \in Nat, NEW n \in Nat, NEW s \in Seq(Nat),
         Len(s) = n, \A i \in 1..n : s[i] = k + i
  PROVE  s = Run(k, n)
<1> DEFINE t == Run(k, n)
<1>1. t \in Seq(Nat) /\ Len(t) = n /\ \A i \in 1..n : t[i] = k + i
  BY RunIs
<1> HIDE DEF t
<1>2. s = t
  BY <1>1, SeqEqual
<1> QED
  BY <1>2 DEF t

LEMMA SubRun ==
  ASSUME NEW k \in Nat, NEW n \in Nat, NEW m \in 1..(n + 1), NEW p \in (m - 1)..n
  PROVE  SubSeq(Run(k, n), m, p) = Run(k + m - 1, p - m + 1)
<1> DEFINE s == SubSeq(Run(k, n), m, p)
<1>1. \A i \in m..p : Run(k, n)[i] = k + i /\ k + i \in Nat
  BY RunIs
<1>2. /\ s \in Seq(Nat)
      /\ Len(s) = IF m <= p THEN p - m + 1 ELSE 0
      /\ \A i \in 1..(p - m + 1) : s[i] = Run(k, n)[m + i - 1]
  <2> HIDE DEF s
  <2>1. m \in Int /\ p \in Int /\ \A i \in m..p : Run(k, n)[i] \in Nat
    BY <1>1
  <2> QED
    BY <2>1, SubSeqProperties DEF s
<1> HIDE DEF s
<1>3. Len(s) = p - m + 1
  BY <1>2
<1>4. k + m - 1 \in Nat /\ p - m + 1 \in Nat
  OBVIOUS
<1>5. ASSUME NEW i \in 1..(p - m + 1) PROVE s[i] = (k + m - 1) + i
  <2>1. m + i - 1 \in m..p
    OBVIOUS
  <2> QED
    BY <1>1, <1>2, <2>1
<1> QED
  BY <1>2, <1>3, <1>4, <1>5, RunEqual DEF s

LEMMA CatRun ==
  ASSUME NEW k \in Nat, NEW n \in Nat, NEW m \in Nat
  PROVE  Run(k, n) \o Run(k + n, m) = Run(k, n + m)
<1> DEFINE s == Run(k, n)
           t == Run(k + n, m)
<1>1. k + n \in Nat /\ n + m \in Nat
  OBVIOUS
<1>2. s \in Seq(Nat) /\ Len(s) = n /\ \A i \in 1..n : s[i] = k + i
  BY RunIs
<1>3. t \in Seq(Nat) /\ Len(t) = m /\ \A i \in 1..m : t[i] = (k + n) + i
  BY <1>1, RunIs
<1> HIDE DEF s, t
<1>4. /\ s \o t \in Seq(Nat) /\ Len(s \o t) = n + m
      /\ \A i \in 1..(n + m) : (s \o t)[i] = IF i <= n THEN s[i] ELSE t[i - n]
  BY <1>2, <1>3, ConcatProperties
<1>5. ASSUME NEW i \in 1..(n + m) PROVE (s \o t)[i] = k + i
  <2>1. CASE i <= n
    BY <1>2, <1>4, <2>1
  <2>2. CASE ~(i <= n)
    <3>1. i - n \in 1..m /\ (k + n) + (i - n) = k + i
      BY <2>2
    <3> QED
      BY <1>3, <1>4, <2>2, <3>1
  <2> QED
    BY <2>1, <2>2
<1>6. s \o t = Run(k, n + m)
  BY <1>1, <1>4, <1>5, RunEqual
<1> QED
  BY <1>6 DEF s, t

-----------------------------------------------------------------------------
(* The invariant.                                                          *)

Size == HeadSize + BodySize
Ending == {"cr", "lf"}

Connections ==
  [read : Nat, filled : Nat, state : 0..5, answers : 0..1, rest : Seq(Nat), out : Seq(Nat),
   unread : Nat, failed : BOOLEAN]

\* What the client has done, and what the buffers and the socket hold of it.
Room(k) ==
  /\ k \in Connections
  /\ k.read <= sent /\ k.filled <= k.read /\ k.filled <= ReadBuffer /\ k.unread <= room

\* What is out is the beginning of the answer; once there is an answer to a proper
\* request, the rest of it waits.
Rest(n) == Run(n, Size - n)
Laid(k) ==
  /\ Len(k.out) <= Size /\ k.out = Run(0, Len(k.out))
  /\ k.rest = Rest(Len(k.out)) \/ (k.out = <<>> /\ k.rest = <<>>)
InOrder(k) == Laid(k) /\ (Proper(request) /\ k.answers = 1 => k.rest = Rest(Len(k.out)))

\* m_state is 0 until an end of a line has been read; then there is an answer, or
\* the client has closed its side before the request was complete.
Once(k) ==
  /\ k.answers = 0 => k.state \in {0, 5} /\ k.out = <<>> /\ k.rest = <<>>
  /\ k.answers = 1 => k.state # 0
  /\ k.state = 0 => k.filled = k.read /\ \A i \in 1..k.read : request[i] \notin Ending
  /\ Proper(request) /\ k.state = 5 /\ k.answers = 0 => gone # "no" /\ sent # Len(request)

Sound(k) == Room(k) /\ InOrder(k) /\ Once(k)

Client ==
  /\ request \in Seq(Sign) /\ room \in Nat \ {0}
  /\ address \in Addresses /\ denied \in DenyLists
  /\ sent \in 0..Len(request) /\ gone \in {"no", "closes", "aborts"}

Closing ==
  /\ conn \in {"new", "open", "refused", "closed"} /\ why \in {"", "served", "error", "late"}
  /\ why = "served" => conn = "closed" /\ c.state = 5 /\ c.rest = <<>>
  /\ conn = "refused" => Denies(denied, address)
  /\ conn \in {"open", "closed"} => ~Denies(denied, address)

ConnInv == Client /\ Sound(c) /\ Closing

-----------------------------------------------------------------------------
(* What is sent of the answer, and what is left over of it.                *)

LEMMA ReplyIs ==
  ASSUME Sensible
  PROVE  Size \in Nat /\ Reply = Run(0, Size)
BY DEF Sensible, Reply, Run, Size

LEMMA LeftOverIs ==
  ASSUME Sensible, NEW n \in 0..Size
  PROVE  LeftOver(n) = Rest(n)
<1>1. Size \in Nat /\ HeadSize \in Nat /\ BodySize \in Nat /\ Size = HeadSize + BodySize /\ Reply = Run(0, Size)
  BY ReplyIs DEF Sensible, Size
<1>2. CASE n < HeadSize
  <2>1. SubSeq(Run(0, Size), n + 1, Size) = Run(0 + (n + 1) - 1, Size - (n + 1) + 1)
    <3>1. n + 1 \in 1..(Size + 1) /\ Size \in ((n + 1) - 1)..Size
      BY <1>1
    <3> QED
      BY <1>1, <3>1, SubRun
  <2>2. 0 + (n + 1) - 1 = n /\ Size - (n + 1) + 1 = Size - n
    BY <1>1
  <2> QED
    BY <1>1, <1>2, <2>1, <2>2 DEF LeftOver, Rest
<1>3. CASE ~(n < HeadSize)
  <2> DEFINE h == n - HeadSize
  <2>1. SubSeq(Run(0, Size), HeadSize + 1, Size) = Run(HeadSize, BodySize)
    <3>1. HeadSize + 1 \in 1..(Size + 1) /\ Size \in ((HeadSize + 1) - 1)..Size
      BY <1>1
    <3>2. SubSeq(Run(0, Size), HeadSize + 1, Size) = Run(0 + (HeadSize + 1) - 1, Size - (HeadSize + 1) + 1)
      BY <1>1, <3>1, SubRun
    <3>3. 0 + (HeadSize + 1) - 1 = HeadSize /\ Size - (HeadSize + 1) + 1 = BodySize
      BY <1>1
    <3> QED
      BY <3>2, <3>3
  <2>2. SubSeq(Run(HeadSize, BodySize), h + 1, BodySize) = Run(n, Size - n)
    <3>1. h + 1 \in 1..(BodySize + 1) /\ BodySize \in ((h + 1) - 1)..BodySize
      BY <1>1, <1>3
    <3>2. SubSeq(Run(HeadSize, BodySize), h + 1, BodySize) = Run(HeadSize + (h + 1) - 1, BodySize - (h + 1) + 1)
      BY <1>1, <3>1, SubRun
    <3>3. HeadSize + (h + 1) - 1 = n /\ BodySize - (h + 1) + 1 = Size - n
      BY <1>1
    <3> QED
      BY <3>2, <3>3
  <2> QED
    BY <1>1, <1>3, <2>1, <2>2 DEF LeftOver, Rest
<1> QED
  BY <1>2, <1>3

\* Of what waits after the first d bytes, n more go out.
LEMMA Pieces ==
  ASSUME Sensible, NEW d \in 0..Size, NEW n \in 0..(Size - d)
  PROVE  /\ Run(0, d) \in Seq(Nat) /\ Len(Run(0, d)) = d
         /\ Rest(d) \in Seq(Nat) /\ Len(Rest(d)) = Size - d
         /\ SubSeq(Rest(d), 1, n) \in Seq(Nat) /\ Len(SubSeq(Rest(d), 1, n)) = n
         /\ Run(0, d) \o SubSeq(Rest(d), 1, n) = Run(0, d + n)
         /\ SubSeq(Rest(d), n + 1, Size - d) = Rest(d + n)
<1>1. Size \in Nat /\ d \in Nat /\ n \in Nat /\ Size - d \in Nat /\ 0 + d = d
  BY ReplyIs
<1>2. Run(0, d) \in Seq(Nat) /\ Len(Run(0, d)) = d
  BY <1>1, RunIs
<1>3. Rest(d) \in Seq(Nat) /\ Len(Rest(d)) = Size - d
  BY <1>1, RunIs DEF Rest
<1>4. SubSeq(Rest(d), 1, n) = Run(d, n)
  <2>1. 1 \in 1..((Size - d) + 1) /\ n \in (1 - 1)..(Size - d)
    BY <1>1
  <2>2. SubSeq(Run(d, Size - d), 1, n) = Run(d + 1 - 1, n - 1 + 1)
    BY <1>1, <2>1, SubRun
  <2>3. d + 1 - 1 = d /\ n - 1 + 1 = n
    BY <1>1
  <2> QED
    BY <2>2, <2>3 DEF Rest
<1>5. Run(d, n) \in Seq(Nat) /\ Len(Run(d, n)) = n
  BY <1>1, RunIs
<1>6. Run(0, d) \o Run(d, n) = Run(0, d + n)
  <2>1. Run(0, d) \o Run(0 + d, n) = Run(0, d + n)
    BY <1>1, CatRun
  <2> QED
    BY <1>1, <2>1
<1>7. SubSeq(Rest(d), n + 1, Size - d) = Rest(d + n)
  <2>1. n + 1 \in 1..((Size - d) + 1) /\ Size - d \in ((n + 1) - 1)..(Size - d)
    BY <1>1
  <2>2. SubSeq(Run(d, Size - d), n + 1, Size - d) = Run(d + (n + 1) - 1, (Size - d) - (n + 1) + 1)
    BY <1>1, <2>1, SubRun
  <2>3. d + (n + 1) - 1 = d + n /\ (Size - d) - (n + 1) + 1 = Size - (d + n)
    BY <1>1
  <2> QED
    BY <2>2, <2>3 DEF Rest
<1> QED
  BY <1>2, <1>3, <1>4, <1>5, <1>6, <1>7

LEMMA Ended ==
  ASSUME Sensible, NEW d \in 0..Size
  PROVE  (Rest(d) = <<>> <=> d = Size) /\ (Run(0, d) = <<>> <=> d = 0)
<1>1. Size \in Nat /\ 0 \in 0..(Size - d) /\ d \in Nat
  BY ReplyIs
<1>2. Rest(d) \in Seq(Nat) /\ Len(Rest(d)) = Size - d /\ Run(0, d) \in Seq(Nat) /\ Len(Run(0, d)) = d
  BY <1>1, Pieces
<1>3. \A s \in Seq(Nat) : s = <<>> <=> Len(s) = 0
  BY EmptySeq
<1> QED
  BY <1>1, <1>2, <1>3

LEMMA LesserIs ==
  ASSUME NEW x \in Nat, NEW y \in Nat
  PROVE  /\ Lesser(x, y) \in Nat /\ Lesser(x, y) <= x /\ Lesser(x, y) <= y
         /\ Lesser(x, y) = x \/ Lesser(x, y) = y
BY DEF Lesser

-----------------------------------------------------------------------------
(* The functions of the connection.                                        *)

\* read(): the answer to a line, the first bytes of it to the socket at once.
LEMMA ReadSound ==
  ASSUME Sensible, Client, NEW k, Room(k), k.out = <<>>, k.rest = <<>>, NEW line
  PROVE  /\ Room(Read(k, line)) /\ Laid(Read(k, line))
         /\ \A f \in {"read", "filled", "state", "answers", "failed"} : Read(k, line)[f] = k[f]
         /\ "?" \notin {line[i] : i \in DOMAIN line} /\ gone # "aborts" =>
              Read(k, line).rest = Rest(Len(Read(k, line).out))
<1>1. Size \in Nat /\ Reply = Run(0, Size) /\ HeadSize + BodySize = Size
  BY ReplyIs DEF Size
<1>2. Run(0, 0) = <<>> /\ Rest(0) = Run(0, Size) /\ Rest(Size) = <<>> /\ Len(<<>>) = 0
  <2>1. 0 \in 0..Size /\ Size \in 0..Size /\ Size - 0 = Size
    BY <1>1
  <2> QED
    BY <2>1, Ended DEF Rest
<1>3. CASE "?" \in {line[i] : i \in DOMAIN line} \/ gone = "aborts"
  <2>1. Read(k, line) = k
    BY <1>3 DEF Read
  <2> QED
    BY <1>1, <1>2, <1>3, <2>1 DEF Laid
<1>4. CASE ~("?" \in {line[i] : i \in DOMAIN line} \/ gone = "aborts")
  <2> DEFINE n == Lesser(room - k.unread, Size)
             r == [k EXCEPT !.out = Run(0, n), !.unread = @ + n, !.rest = Rest(n)]
  <2>1. room - k.unread \in Nat /\ k \in Connections
    BY DEF Client, Room, Connections
  <2>2. n \in Nat /\ n <= Size /\ n <= room - k.unread /\ n \in 0..Size /\ n \in 0..(Size - 0) /\ 0 \in 0..Size
    <3>1. n \in Nat /\ n <= Size /\ n <= room - k.unread
      BY <1>1, <2>1, LesserIs
    <3> HIDE DEF n
    <3> QED
      BY <1>1, <3>1
  <2> HIDE DEF n
  <2>3. k.out \o SubSeq(Reply, 1, n) = Run(0, n) /\ Len(SubSeq(Reply, 1, n)) = n
    <3>1. Run(0, 0) \o SubSeq(Rest(0), 1, n) = Run(0, 0 + n) /\ Len(SubSeq(Rest(0), 1, n)) = n
      BY <2>2, Pieces
    <3>2. 0 + n = n
      BY <2>2
    <3> QED
      BY <1>1, <1>2, <3>1, <3>2
  <2>4. (IF n = Size THEN <<>> ELSE LeftOver(n)) = Rest(n)
    BY <1>2, <2>2, LeftOverIs
  <2>5. Read(k, line) = r
    <3>1. Read(k, line) = [Put(k, SubSeq(Reply, 1, n)) EXCEPT !.rest = IF n = Size THEN <<>> ELSE LeftOver(n)]
      BY <1>1, <1>4 DEF Read, n
    <3>2. Put(k, SubSeq(Reply, 1, n)) = [k EXCEPT !.out = Run(0, n), !.unread = @ + n]
      BY <2>3 DEF Put
    <3> QED
      BY <2>1, <2>4, <3>1, <3>2 DEF Connections
  <2>6. /\ r.out = Run(0, n) /\ r.unread = k.unread + n /\ r.rest = Rest(n)
        /\ \A f \in {"read", "filled", "state", "answers", "failed"} : r[f] = k[f]
    BY <2>1 DEF Connections
  <2>7. Run(0, n) \in Seq(Nat) /\ Len(Run(0, n)) = n /\ Rest(n) \in Seq(Nat)
    <3>1. 0 \in 0..(Size - n)
      BY <2>2, <1>1
    <3> QED
      BY <2>2, <3>1, Pieces
  <2>8. r \in Connections
    <3>1. k.unread + n \in Nat
      BY <2>1, <2>2 DEF Connections
    <3> QED
      BY <2>1, <2>7, <3>1 DEF Connections
  <2> HIDE DEF r
  <2>9. Room(r)
    BY <2>1, <2>2, <2>6, <2>8 DEF Room, Client, Connections
  <2>10. Laid(r) /\ r.rest = Rest(Len(r.out))
    BY <2>2, <2>6, <2>7 DEF Laid
  <2> QED
    BY <2>5, <2>6, <2>9, <2>10
<1> QED
  BY <1>3, <1>4

\* send(): what fits of the rest.
LEMMA SendSound ==
  ASSUME Sensible, Client, NEW k, Sound(k)
  PROVE  Sound(Send(k))
<1> DEFINE n == Lesser(room - k.unread, Len(k.rest))
           d == Len(k.out)
           q == [k EXCEPT !.out = Run(0, d + n), !.unread = @ + n, !.rest = Rest(d + n)]
<1>1. k \in Connections /\ Room(k) /\ Laid(k) /\ Once(k)
  BY DEF Sound, InOrder, Room
<1>2. CASE k.rest = <<>>
  BY <1>2 DEF Send
<1>3. CASE k.rest # <<>> /\ gone = "aborts"
  <2>1. Send(k) = [k EXCEPT !.failed = TRUE]
    BY <1>3 DEF Send
  <2> QED
    BY <1>1, <2>1 DEF Sound, InOrder, Room, Laid, Once, Connections
<1>4. CASE k.rest # <<>> /\ gone # "aborts"
  <2>1. Size \in Nat /\ d \in 0..Size /\ k.out = Run(0, d) /\ k.rest = Rest(d)
    BY <1>1, <1>4, ReplyIs DEF Laid, Connections
  <2>2. Len(k.rest) = Size - d
    <3>1. 0 \in 0..(Size - d)
      BY <2>1
    <3> QED
      BY <2>1, <3>1, Pieces
  <2>3. n \in 0..(Size - d) /\ n <= room - k.unread
    <3>1. room - k.unread \in Nat /\ Size - d \in Nat
      BY <1>1, <2>1 DEF Client, Room, Connections
    <3>2. n \in Nat /\ n <= room - k.unread /\ n <= Size - d
      BY <2>2, <3>1, LesserIs
    <3> HIDE DEF n, d
    <3> QED
      BY <3>1, <3>2
  <2> HIDE DEF n
  <2>4. /\ Len(SubSeq(k.rest, 1, n)) = n /\ k.out \o SubSeq(k.rest, 1, n) = Run(0, d + n)
        /\ SubSeq(k.rest, n + 1, Len(k.rest)) = Rest(d + n)
    <3>1. /\ SubSeq(Rest(d), 1, n) \in Seq(Nat) /\ Len(SubSeq(Rest(d), 1, n)) = n
          /\ Run(0, d) \o SubSeq(Rest(d), 1, n) = Run(0, d + n)
          /\ SubSeq(Rest(d), n + 1, Size - d) = Rest(d + n)
      BY <2>1, <2>3, Pieces
    <3> HIDE DEF d
    <3> QED
      BY <2>1, <2>2, <3>1
  <2>5. Send(k) = q
    <3>1. Send(k) = [Put(k, SubSeq(k.rest, 1, n)) EXCEPT !.rest = SubSeq(@, n + 1, Len(@))]
      BY <1>4 DEF Send, n
    <3>2. Put(k, SubSeq(k.rest, 1, n)) = [k EXCEPT !.out = Run(0, d + n), !.unread = @ + n]
      BY <2>4 DEF Put
    <3> QED
      BY <1>1, <2>4, <3>1, <3>2 DEF Connections
  <2>6. /\ q.out = Run(0, d + n) /\ q.unread = k.unread + n /\ q.rest = Rest(d + n)
        /\ q.read = k.read /\ q.filled = k.filled /\ q.state = k.state /\ q.answers = k.answers
    BY <1>1 DEF Connections
  <2>7. /\ Run(0, d + n) \in Seq(Nat) /\ Len(Run(0, d + n)) = d + n /\ Rest(d + n) \in Seq(Nat)
        /\ d + n \in 0..Size
    <3>1. d + n \in 0..Size /\ 0 \in 0..(Size - (d + n))
      BY <2>1, <2>3
    <3> QED
      BY <3>1, Pieces
  <2>8. q \in Connections
    <3>1. k.unread + n \in Nat
      BY <1>1, <2>3 DEF Connections
    <3> QED
      BY <1>1, <2>7, <3>1 DEF Connections
  <2>9. k.answers = 1
    BY <1>1, <1>4 DEF Once, Connections
  <2> HIDE DEF q, d
  <2>10. Room(q)
    BY <1>1, <2>3, <2>6, <2>8 DEF Room, Client, Connections
  <2>11. InOrder(q)
    BY <2>6, <2>7 DEF InOrder, Laid
  <2>12. Once(q)
    BY <1>1, <2>6, <2>9 DEF Once
  <2> QED
    BY <2>5, <2>10, <2>11, <2>12 DEF Sound
<1> QED
  BY <1>2, <1>3, <1>4

\* A request that is proper ends with an end of a line and fits the buffer.
LEMMA ProperEnd ==
  ASSUME NEW r \in Seq(Sign), Proper(r)
  PROVE  Len(r) \in Nat /\ Len(r) >= 4 /\ Len(r) <= ReadBuffer /\ r[Len(r)] = "lf"
<1>1. Len(r) \in 4..ReadBuffer /\ SubSeq(r, Len(r) - 3, Len(r)) = <<"cr", "lf", "cr", "lf">>
  BY DEF Proper
<1>2. Len(r) \in Nat /\ Len(r) >= 4
  BY <1>1
<1>3. SubSeq(r, Len(r) - 3, Len(r))[4] = r[Len(r)]
  <2> DEFINE m == Len(r) - 3
             l == Len(r)
  <2>1. m \in Int /\ l \in Int /\ \A i \in m..l : r[i] \in Sign
    BY <1>2, ElementOfSeq
  <2>2. 4 \in 1..(l - m + 1) /\ m + 4 - 1 = l
    BY <1>2
  <2> HIDE DEF m, l
  <2>3. SubSeq(r, m, l)[4] = r[m + 4 - 1]
    BY <2>1, <2>2, SubSeqProperties
  <2> QED
    BY <2>2, <2>3 DEF m, l
<1>4. <<"cr", "lf", "cr", "lf">>[4] = "lf"
  OBVIOUS
<1>5. r[Len(r)] = "lf"
  BY <1>1, <1>3, <1>4
<1> QED
  BY <1>1, <1>2, <1>5

\* The line that is answered is the beginning of the request.
LEMMA FirstLine ==
  ASSUME Client
  PROVE  {SubSeq(request, 1, FirstEnd - 1)[i] : i \in DOMAIN SubSeq(request, 1, FirstEnd - 1)}
           \subseteq {request[i] : i \in DOMAIN request}
<1> DEFINE L == Len(request)
           T == {i \in 1..(L + 1) : i \in DOMAIN request => request[i] \in Ending}
<1>1. request \in Seq(Sign) /\ L \in Nat /\ DOMAIN request = 1..L
  BY DEF Client
<1>2. PICK x \in T : \A y \in T : x <= y
  <2>1. L + 1 \in T /\ T \in SUBSET Nat
    BY <1>1
  <2> HIDE DEF T
  <2> QED
    BY <2>1, LeastNumber
<1>3. /\ x \in 1..(L + 1) /\ (x \in DOMAIN request => request[x] \in {"cr", "lf"})
      /\ \A j \in 1..(x - 1) : request[j] \notin {"cr", "lf"}
  BY <1>1, <1>2 DEF Ending
<1>4. FirstEnd \in 1..(L + 1)
  BY <1>3 DEF FirstEnd
<1> DEFINE m == FirstEnd - 1
           line == SubSeq(request, 1, m)
<1>5. m \in 0..L /\ \A i \in 1..m : i \in 1..L /\ request[i] \in Sign
  BY <1>1, <1>4, ElementOfSeq
<1> HIDE DEF m
<1>6. /\ line \in Seq(Sign)
      /\ Len(line) = IF 1 <= m THEN m - 1 + 1 ELSE 0
      /\ \A i \in 1..(m - 1 + 1) : line[i] = request[1 + i - 1]
  <2>1. 1 \in Int /\ m \in Int
    BY <1>1, <1>5
  <2> QED
    BY <1>5, <2>1, SubSeqProperties
<1> HIDE DEF line
<1>7. DOMAIN line = 1..m /\ \A i \in 1..m : line[i] = request[i]
  <2>1. Len(line) = m /\ DOMAIN line = 1..Len(line)
    BY <1>1, <1>5, <1>6
  <2>2. \A i \in 1..m : i \in 1..(m - 1 + 1) /\ 1 + i - 1 = i
    BY <1>1, <1>5
  <2> QED
    BY <1>6, <2>1, <2>2
<1>8. {line[i] : i \in DOMAIN line} \subseteq {request[i] : i \in DOMAIN request}
  BY <1>1, <1>5, <1>7
<1> QED
  BY <1>8 DEF line, m

\* recv(): one read, and the answer when it holds the first end of a line.
LEMMA RecvSound ==
  ASSUME Sensible, Client, NEW k, Sound(k)
  PROVE  Sound(Recv(k))
<1> DEFINE n     == Lesser(sent - k.read, ReadBuffer - k.filled)
           ends  == k.filled = ReadBuffer \/ (n = 0 /\ gone = "closes")
           bytes == SubSeq(request, k.read + 1, k.read + n)
           s     == Parsed(k.state, bytes)
           after == [k EXCEPT !.read = @ + n, !.filled = @ + n, !.state = s]
           line  == SubSeq(request, 1, FirstEnd - 1)
<1>1. /\ k \in Connections /\ Room(k) /\ InOrder(k) /\ Once(k)
      /\ k.read \in Nat /\ k.filled \in Nat /\ k.state \in 0..5 /\ k.answers \in {0, 1}
  BY DEF Sound, Room, Connections
<1>2. n \in Nat /\ n <= sent - k.read /\ n <= ReadBuffer - k.filled /\ (n = 0 => sent = k.read \/ k.filled = ReadBuffer)
  <2>1. sent - k.read \in Nat /\ ReadBuffer - k.filled \in Nat
    BY <1>1 DEF Sensible, Client, Room
  <2>2. n \in Nat /\ n <= sent - k.read /\ n <= ReadBuffer - k.filled /\ (n = sent - k.read \/ n = ReadBuffer - k.filled)
    BY <2>1, LesserIs
  <2> HIDE DEF n
  <2>3. sent \in Int /\ ReadBuffer \in Int
    BY DEF Client, Sensible
  <2> QED
    BY <1>1, <2>2, <2>3
<1>3. k.state = 0 => k.filled = k.read /\ \A i \in 1..k.read : request[i] \notin Ending
  BY <1>1 DEF Once
<1>4. Recv(k) = CASE gone = "aborts" -> [k EXCEPT !.failed = TRUE]
                  [] gone # "aborts" /\ ends -> [k EXCEPT !.state = 5]
                  [] gone # "aborts" /\ ~ends /\ n = 0 -> k
                  [] gone # "aborts" /\ ~ends /\ n > 0 /\ k.state = 5 -> [k EXCEPT !.read = @ + n]
                  [] OTHER -> IF k.state = 0 /\ after.state # 0
                              THEN Read([after EXCEPT !.answers = @ + 1], line) ELSE after
  BY DEF Recv
<1> HIDE DEF n, line
<1>5. CASE gone = "aborts"
  <2>1. Recv(k) = [k EXCEPT !.failed = TRUE]
    BY <1>4, <1>5
  <2> QED
    BY <1>1, <2>1 DEF Sound, InOrder, Room, Laid, Once, Connections
<1>6. CASE gone # "aborts" /\ ends
  <2> DEFINE q == [k EXCEPT !.state = 5]
  <2>1. Recv(k) = q
    BY <1>4, <1>6
  <2>2. /\ q \in Connections /\ q.state = 5 /\ q.answers = k.answers /\ q.out = k.out /\ q.rest = k.rest
        /\ q.read = k.read /\ q.filled = k.filled /\ q.unread = k.unread
    <3>1. 5 \in 0..5 /\ k \in Connections
      BY <1>1
    <3> QED
      BY <3>1 DEF Connections
  <2>3. ASSUME Proper(request), k.answers = 0, k.state = 0
        PROVE  gone # "no" /\ sent # Len(request)
    <3>1. Len(request) \in Nat /\ Len(request) >= 4 /\ Len(request) <= ReadBuffer /\ request[Len(request)] \in Ending
      BY <2>3, ProperEnd DEF Client, Ending
    <3>2. k.read # Len(request)
      BY <1>3, <2>3, <3>1
    <3>3. k.read <= sent /\ sent <= Len(request) /\ sent \in Nat /\ ReadBuffer \in Nat /\ k.filled = k.read
      BY <1>1, <1>3, <2>3, <3>1 DEF Room, Client, Sensible
    <3>4. k.filled # ReadBuffer
      BY <1>1, <3>1, <3>2, <3>3
    <3> QED
      BY <1>2, <1>6, <3>2, <3>3, <3>4
  <2>4. k.answers = 0 => k.state \in {0, 5}
    BY <1>1 DEF Once
  <2> HIDE DEF q
  <2>5. Room(q) /\ InOrder(q)
    BY <1>1, <2>2 DEF Room, InOrder, Laid
  <2>6. Once(q)
    <3>1. Proper(request) /\ q.answers = 0 => gone # "no" /\ sent # Len(request)
      BY <1>1, <2>2, <2>3, <2>4 DEF Once
    <3> QED
      BY <1>1, <2>2, <3>1 DEF Once
  <2> QED
    BY <2>1, <2>5, <2>6 DEF Sound
<1>7. CASE gone # "aborts" /\ ~ends /\ n = 0
  BY <1>4, <1>7
<1>8. CASE gone # "aborts" /\ ~ends /\ n > 0 /\ k.state = 5
  <2> DEFINE q == [k EXCEPT !.read = @ + n]
  <2>1. Recv(k) = q
    BY <1>2, <1>4, <1>8
  <2>2. /\ q.state = 5 /\ q.answers = k.answers /\ q.out = k.out /\ q.rest = k.rest
        /\ q.read = k.read + n /\ q.filled = k.filled /\ q.unread = k.unread
    BY <1>1, <1>8 DEF Connections
  <2>3. k.read + n \in Nat /\ k.read + n <= sent /\ k.filled <= k.read + n
    BY <1>1, <1>2 DEF Room, Client
  <2>4. q \in Connections
    BY <1>1, <2>3 DEF Connections
  <2> HIDE DEF q
  <2>5. Room(q) /\ InOrder(q)
    BY <1>1, <2>2, <2>3, <2>4 DEF Room, InOrder, Laid
  <2>6. Once(q)
    BY <1>1, <1>8, <2>2 DEF Once
  <2> QED
    BY <2>1, <2>5, <2>6 DEF Sound
<1>9. CASE gone # "aborts" /\ ~ends /\ n > 0 /\ k.state # 5
  <2>1. Recv(k) = IF k.state = 0 /\ after.state # 0
                  THEN Read([after EXCEPT !.answers = @ + 1], line) ELSE after
    BY <1>4, <1>9
  <2>2. request \in Seq(Sign) /\ k.read + n <= sent /\ sent <= Len(request) /\ sent \in Nat /\ Len(request) \in Nat
    BY <1>1, <1>2 DEF Client
  <2>3. /\ bytes \in Seq(Sign) /\ Len(bytes) = n
        /\ \A i \in 1..n : bytes[i] = request[k.read + i]
    <3> DEFINE m == k.read + 1
               l == k.read + n
    <3>1. m \in Int /\ l \in Int /\ l - m + 1 = n /\ m <= l
      BY <1>1, <1>2, <1>9
    <3>2. \A i \in m..l : request[i] \in Sign
      BY <1>1, <1>2, <2>2, ElementOfSeq
    <3> HIDE DEF m, l
    <3>3. /\ SubSeq(request, m, l) \in Seq(Sign)
          /\ Len(SubSeq(request, m, l)) = IF m <= l THEN l - m + 1 ELSE 0
          /\ \A i \in 1..(l - m + 1) : SubSeq(request, m, l)[i] = request[m + i - 1]
      BY <3>1, <3>2, SubSeqProperties
    <3>4. \A i \in 1..n : m + i - 1 = k.read + i
      BY <1>1, <1>2 DEF m
    <3> QED
      BY <3>1, <3>3, <3>4 DEF m, l
  <2> HIDE DEF bytes
  <2>4. /\ s \in 0..5 /\ (k.state # 0 => s # 0)
        /\ k.state = 0 /\ s = 0 => \A i \in 1..n : bytes[i] \notin Ending
    BY <1>1, <2>3, ParsedType DEF Ending
  <2> HIDE DEF s
  <2>5. /\ after.read = k.read + n /\ after.filled = k.filled + n /\ after.state = s
        /\ after.answers = k.answers /\ after.out = k.out /\ after.rest = k.rest /\ after.unread = k.unread
    BY <1>1 DEF Connections
  <2>6. /\ k.read + n \in Nat /\ k.filled + n \in Nat /\ k.filled + n <= k.read + n /\ k.filled + n <= ReadBuffer
    BY <1>1, <1>2 DEF Room, Sensible
  <2>7. after \in Connections
    BY <1>1, <2>4, <2>6 DEF Connections
  <2> HIDE DEF after
  <2>8. Room(after)
    BY <1>1, <2>2, <2>5, <2>6, <2>7 DEF Room
  <2>9. CASE k.state = 0 /\ after.state # 0
    <3> DEFINE first == [after EXCEPT !.answers = @ + 1]
               q     == Read(first, line)
    <3>1. k.answers = 0 /\ k.out = <<>> /\ k.rest = <<>>
      BY <1>1, <2>9 DEF Once
    <3>2. /\ first \in Connections /\ first.answers = 1 /\ first.state = s
          /\ first.out = <<>> /\ first.rest = <<>>
          /\ first.read = after.read /\ first.filled = after.filled /\ first.unread = after.unread
      BY <2>5, <2>7, <3>1 DEF Connections
    <3> HIDE DEF first
    <3>3. Room(first)
      BY <2>8, <3>2 DEF Room
    <3>4. /\ Room(q) /\ Laid(q)
          /\ \A f \in {"read", "filled", "state", "answers", "failed"} : q[f] = first[f]
          /\ "?" \notin {line[i] : i \in DOMAIN line} /\ gone # "aborts" => q.rest = Rest(Len(q.out))
      BY <3>2, <3>3, ReadSound
    <3> HIDE DEF q
    <3>5. Proper(request) => "?" \notin {line[i] : i \in DOMAIN line}
      BY FirstLine DEF Proper, line
    <3>6. InOrder(q)
      BY <1>9, <3>4, <3>5 DEF InOrder
    <3>7. Once(q)
      BY <2>5, <2>9, <3>2, <3>4 DEF Once
    <3> QED
      BY <2>1, <2>9, <3>4, <3>6, <3>7 DEF Sound, q, first
  <2>10. CASE ~(k.state = 0 /\ after.state # 0)
    <3>1. InOrder(after)
      BY <1>1, <2>5 DEF InOrder, Laid
    <3>2. Once(after)
      <4>1. CASE k.state = 0
        <5>1. s = 0 /\ k.answers = 0
          BY <1>1, <2>5, <2>10, <4>1 DEF Once
        <5>2. \A i \in 1..(k.read + n) : i \in 1..k.read \/ (i - k.read \in 1..n /\ k.read + (i - k.read) = i)
          BY <1>1, <1>2
        <5>3. \A i \in 1..(k.read + n) : request[i] \notin Ending
          BY <1>3, <2>3, <2>4, <4>1, <5>1, <5>2
        <5> QED
          BY <1>1, <1>3, <2>5, <4>1, <5>1, <5>3 DEF Once
      <4>2. CASE k.state # 0
        <5>1. k.answers = 1 /\ s # 0
          BY <1>1, <1>9, <2>4, <4>2 DEF Once
        <5> QED
          BY <1>1, <2>5, <5>1 DEF Once
      <4> QED
        BY <4>1, <4>2
    <3> QED
      BY <2>1, <2>8, <2>10, <3>1, <3>2 DEF Sound
  <2> QED
    BY <2>9, <2>10
<1>10. n > 0 \/ n = 0
  BY <1>2
<1> QED
  BY <1>5, <1>6, <1>7, <1>8, <1>9, <1>10

\* process_events: whatever of the two is done.
LEMMA ProcessedSound ==
  ASSUME Sensible, Client, Sound(c), NEW in \in BOOLEAN, NEW out \in BOOLEAN, NEW k \in Processed(in, out)
  PROVE  Sound(k)
<1>1. Sound(Recv(c))
  BY RecvSound
<1>2. PICK a : a \in {IF in THEN Recv(c) ELSE c} /\ k \in {IF out /\ ~a.failed THEN Send(a) ELSE a}
  BY DEF Processed
<1>3. Sound(a)
  BY <1>1, <1>2
<1>4. Sound(Send(a))
  BY <1>3, SendSound
<1> QED
  BY <1>2, <1>3, <1>4

-----------------------------------------------------------------------------
(* The steps.                                                              *)

LEMMA InitInv ==
  ASSUME Sensible, Init
  PROVE  ConnInv
<1>1. Client
  <2>1. request \in Seq(Sign)
    BY DEF Sensible, Init, Sign
  <2>2. Len(request) \in Nat
    BY <2>1
  <2>3. room \in Nat \ {0} /\ address \in Addresses /\ denied \in DenyLists
    BY DEF Sensible, Init
  <2>4. sent = 0 /\ gone = "no"
    BY DEF Init
  <2> QED
    BY <2>1, <2>2, <2>3, <2>4 DEF Client
<1>2. /\ c \in Connections /\ c.read = 0 /\ c.filled = 0 /\ c.state = 0 /\ c.answers = 0
      /\ c.rest = <<>> /\ c.out = <<>> /\ c.unread = 0
  <2>1. <<>> \in Seq(Nat) /\ 0 \in 0..5 /\ 0 \in 0..1
    OBVIOUS
  <2> QED
    BY <2>1 DEF Init, Accepted, Connections
<1>3. Room(c)
  BY <1>1, <1>2 DEF Room, Client, Sensible
<1>4. InOrder(c)
  <2>1. Size \in Nat /\ 0 \in 0..Size /\ Len(<<>>) = 0
    BY ReplyIs
  <2>2. Run(0, 0) = <<>>
    BY <2>1, Ended
  <2> QED
    BY <1>2, <2>1, <2>2 DEF InOrder, Laid
<1>5. Once(c)
  BY <1>2 DEF Once
<1>6. Closing
  BY DEF Init, Closing
<1> QED
  BY <1>1, <1>3, <1>4, <1>5, <1>6 DEF ConnInv, Sound

\* What process_events leaves is the connection from then on; it is closed when
\* both sides have ended.
LEMMA GoesInv ==
  ASSUME ConnInv, NEW k, Sound(k), NEW alive, Goes(k, alive), ~Denies(denied, address),
         UNCHANGED <<choice, sent, gone>>
  PROVE  ConnInv'
<1>1. /\ request' = request /\ room' = room /\ address' = address /\ denied' = denied
      /\ sent' = sent /\ gone' = gone /\ c' = k
  BY DEF choice, Goes
<1>2. Client'
  BY <1>1 DEF ConnInv, Client
<1>3. Sound(c)'
  BY <1>1 DEF Sound, Room, InOrder, Laid, Once
<1>4. Closing'
  BY <1>1 DEF Closing, Goes, Ends
<1> QED
  BY <1>2, <1>3, <1>4 DEF ConnInv

LEMMA StepInv ==
  ASSUME Sensible, ConnInv, [Next]_vars
  PROVE  ConnInv'
<1>1. Client /\ Sound(c) /\ Closing
  BY DEF ConnInv
<1>2. CASE Accept
  <2>1. PICK k \in Processed(TRUE, FALSE) : Goes(k, Readable(k) \/ Writable(k))
    BY <1>2 DEF Accept
  <2>2. Sound(k)
    BY <1>1, ProcessedSound
  <2> QED
    BY <1>2, <2>1, <2>2, GoesInv DEF Accept
<1>3. CASE Refuse
  <2>1. Client'
    BY <1>1, <1>3 DEF Refuse, choice, Client
  <2>2. Sound(c)'
    BY <1>1, <1>3 DEF Refuse, choice, Sound, Room, InOrder, Laid, Once
  <2>3. Closing'
    BY <1>1, <1>3 DEF Refuse, choice, Closing
  <2> QED
    BY <2>1, <2>2, <2>3 DEF ConnInv
<1>4. CASE Deliver
  <2>1. PICK k \in Processed(Readable(c), Writable(c)) : Goes(k, FALSE)
    BY <1>4 DEF Deliver
  <2>2. Readable(c) \in BOOLEAN /\ Writable(c) \in BOOLEAN
    BY DEF Readable, Writable
  <2>3. Sound(k)
    BY <1>1, <2>2, ProcessedSound
  <2>4. ~Denies(denied, address)
    BY <1>1, <1>4 DEF Deliver, Closing
  <2> QED
    BY <1>4, <2>1, <2>3, <2>4, GoesInv DEF Deliver
<1>5. CASE Expire
  <2>1. Client'
    BY <1>1, <1>5 DEF Expire, choice, Client
  <2>2. Sound(c)'
    BY <1>1, <1>5 DEF Expire, choice, Sound, Room, InOrder, Laid, Once
  <2>3. Closing'
    BY <1>1, <1>5 DEF Expire, choice, Closing
  <2> QED
    BY <2>1, <2>2, <2>3 DEF ConnInv
<1>6. CASE ClientSends
  <2>1. PICK n \in 1..(Len(request) - sent) : sent' = sent + n
    BY <1>6 DEF ClientSends
  <2>2. /\ request' = request /\ room' = room /\ address' = address /\ denied' = denied
        /\ gone' = gone /\ c' = c /\ conn' = conn /\ why' = why /\ gone = "no"
    BY <1>6 DEF ClientSends, choice
  <2>3. sent \in Nat /\ Len(request) \in Nat /\ sent <= Len(request)
    BY <1>1 DEF Client
  <2>4. sent' \in 0..Len(request) /\ sent <= sent'
    BY <2>1, <2>3
  <2>5. Client'
    BY <1>1, <2>2, <2>4 DEF Client
  <2>6. Room(c)'
    BY <1>1, <2>2, <2>3, <2>4 DEF Sound, Room, Connections
  <2>7. InOrder(c)'
    BY <1>1, <2>2 DEF Sound, InOrder, Laid
  <2>8. Once(c)'
    BY <1>1, <2>2 DEF Sound, Once
  <2>9. Closing'
    BY <1>1, <2>2 DEF Closing
  <2> QED
    BY <2>5, <2>6, <2>7, <2>8, <2>9 DEF ConnInv, Sound
<1>7. CASE ClientGoes
  <2>1. /\ request' = request /\ room' = room /\ address' = address /\ denied' = denied
        /\ sent' = sent /\ c' = c /\ conn' = conn /\ why' = why /\ gone = "no"
        /\ gone' \in {"closes", "aborts"}
    BY <1>7 DEF ClientGoes, choice
  <2>2. Client'
    BY <1>1, <2>1 DEF Client
  <2>3. Sound(c)'
    BY <1>1, <2>1 DEF Sound, Room, InOrder, Laid, Once
  <2>4. Closing'
    BY <1>1, <2>1 DEF Closing
  <2> QED
    BY <2>2, <2>3, <2>4 DEF ConnInv
<1>8. CASE ClientReads
  <2>1. PICK n \in 1..c.unread : c' = [c EXCEPT !.unread = @ - n]
    BY <1>8 DEF ClientReads
  <2>2. /\ request' = request /\ room' = room /\ address' = address /\ denied' = denied
        /\ sent' = sent /\ gone' = gone /\ conn' = conn /\ why' = why
    BY <1>8 DEF ClientReads, choice
  <2>3. c \in Connections /\ c.unread \in Nat /\ c.unread <= room /\ room \in Nat
    BY <1>1 DEF Sound, Room, Connections, Client
  <2>4. c.unread - n \in Nat /\ c.unread - n <= room
    BY <2>3
  <2>5. c' \in Connections
    BY <2>1, <2>3, <2>4 DEF Connections
  <2>6. /\ c'.unread = c.unread - n /\ c'.read = c.read /\ c'.filled = c.filled /\ c'.state = c.state
        /\ c'.answers = c.answers /\ c'.rest = c.rest /\ c'.out = c.out
    BY <2>1, <2>3 DEF Connections
  <2>7. Client'
    BY <1>1, <2>2 DEF Client
  <2>8. Sound(c)'
    BY <1>1, <2>2, <2>4, <2>5, <2>6 DEF Sound, Room, InOrder, Laid, Once
  <2>9. Closing'
    BY <1>1, <2>2, <2>6 DEF Closing
  <2> QED
    BY <2>7, <2>8, <2>9 DEF ConnInv
<1>9. CASE UNCHANGED vars
  <2>1. Client'
    BY <1>1, <1>9 DEF vars, choice, Client
  <2>2. Sound(c)'
    BY <1>1, <1>9 DEF vars, choice, Sound, Room, InOrder, Laid, Once
  <2>3. Closing'
    BY <1>1, <1>9 DEF vars, choice, Closing
  <2> QED
    BY <2>1, <2>2, <2>3 DEF ConnInv
<1> QED
  BY <1>2, <1>3, <1>4, <1>5, <1>6, <1>7, <1>8, <1>9 DEF Next

-----------------------------------------------------------------------------
(* What it means.                                                          *)

\* accept looks at the range with the lowest end that is not below the address;
\* when no two overlap, no other range can hold it.
LEMMA DeniesIsInRange ==
  ASSUME Sensible, Client, Apart(denied)
  PROVE  Denies(denied, address) <=> InRange(denied, address)
<1> DEFINE E == {e \in DOMAIN denied : e >= address}
           least == CHOOSE e \in E : \A o \in E : e <= o
<1>1. \A e \in DOMAIN denied : e \in Nat /\ denied[e] \in Nat /\ denied[e] <= e
  BY DEF Sensible, Client, Apart
<1>2. address \in Nat
  BY DEF Sensible, Client
<1>3. Denies(denied, address) <=> E # {} /\ address >= denied[least]
  BY DEF Denies
<1>4. E # {} => least \in E /\ \A o \in E : least <= o
  <2> SUFFICES ASSUME E # {} PROVE \E e \in E : \A o \in E : e <= o
    OBVIOUS
  <2>1. E \in SUBSET Nat
    BY <1>1
  <2> HIDE DEF E
  <2> QED
    BY <2>1, LeastNumber
<1> HIDE DEF least
<1>5. ASSUME E # {}, address >= denied[least] PROVE InRange(denied, address)
  <2>1. least \in DOMAIN denied /\ least >= address
    BY <1>4, <1>5
  <2> QED
    BY <1>1, <1>2, <1>5, <2>1 DEF InRange
<1>6. ASSUME NEW e \in DOMAIN denied, denied[e] <= address, address <= e
      PROVE  E # {} /\ address >= denied[least]
  <2>1. e \in E /\ E # {}
    BY <1>1, <1>2, <1>6
  <2>2. least \in DOMAIN denied /\ least >= address /\ least <= e
    BY <1>4, <2>1
  <2>3. CASE least = e
    BY <1>1, <1>2, <1>6, <2>1, <2>3
  <2>4. CASE least # e
    <3>1. least < e
      BY <1>1, <2>2, <2>4
    <3>2. least < denied[e]
      BY <2>2, <3>1 DEF Apart
    <3>3. FALSE
      BY <1>1, <1>2, <1>6, <2>2, <3>2
    <3> QED
      BY <3>3
  <2> QED
    BY <2>3, <2>4
<1> QED
  BY <1>3, <1>5, <1>6 DEF InRange

LEMMA InvImplies ==
  ASSUME Sensible, ConnInv
  PROVE  AnswersExact
<1>1. Client /\ Sound(c) /\ Closing /\ Laid(c) /\ Once(c) /\ c \in Connections
  BY DEF ConnInv, Sound, InOrder, Room
<1>2. c.answers \in {0, 1} /\ c.answers <= 1
  BY <1>1 DEF Connections
<1>3. Size \in Nat /\ Reply = Run(0, Size) /\ Len(c.out) \in 0..Size /\ c.out = Run(0, Len(c.out))
  BY <1>1, ReplyIs DEF Laid, Connections
<1>4. IsPrefix(c.out, Reply)
  <2> DEFINE d == Len(c.out)
  <2>1. SubSeq(Run(0, Size), 1, d) = Run(0, d) /\ SubSeq(Run(0, d), 1, d) = Run(0, d)
    <3>1. 1 \in 1..(Size + 1) /\ d \in (1 - 1)..Size /\ 1 \in 1..(d + 1) /\ d \in (1 - 1)..d /\ d \in Nat
      BY <1>3
    <3>2. 0 + 1 - 1 = 0 /\ d - 1 + 1 = d
      BY <3>1
    <3> HIDE DEF d
    <3>3. SubSeq(Run(0, Size), 1, d) = Run(0 + 1 - 1, d - 1 + 1) /\ SubSeq(Run(0, d), 1, d) = Run(0 + 1 - 1, d - 1 + 1)
      BY <1>3, <3>1, SubRun
    <3> QED
      BY <3>2, <3>3
  <2>2. Len(Run(0, Size)) = Size
    BY <1>3, RunIs
  <2> QED
    BY <1>3, <2>1, <2>2 DEF IsPrefix
<1>5. ASSUME why = "served", Proper(request), sent = Len(request)
      PROVE  c.out = Reply
  <2>1. c.state = 5 /\ c.rest = <<>>
    BY <1>1, <1>5 DEF Closing
  <2>2. c.answers = 1
    BY <1>1, <1>2, <1>5, <2>1 DEF Once
  <2>3. Rest(Len(c.out)) = <<>>
    BY <1>5, <2>1, <2>2 DEF ConnInv, Sound, InOrder
  <2>4. Len(c.out) = Size
    BY <1>3, <2>3, Ended
  <2> QED
    BY <1>3, <2>4
<1>6. ASSUME Apart(denied), conn # "new"
      PROVE  conn = "refused" <=> InRange(denied, address)
  BY <1>1, <1>6, DeniesIsInRange DEF Closing
<1> QED
  BY <1>2, <1>4, <1>5, <1>6 DEF AnswersExact

(* However a request in CRLF lines is cut into reads, and however little the   *)
(* socket takes at a time, it is answered once, in order and to its end, and a *)
(* host is turned away exactly when a range holds it: for every set of         *)
(* requests, every size of the buffer and of the answer, and every deny list   *)
(* (recv, send, read, process_events of connection.cpp, accept of server.cpp). *)
THEOREM RequestsAreAnswered ==
  ASSUME Sensible
  PROVE  Spec => []AnswersExact
<1>1. Init => ConnInv
  BY InitInv
<1>2. ConnInv /\ [Next]_vars => ConnInv'
  BY StepInv
<1>3. ConnInv => AnswersExact
  BY InvImplies
<1> QED
  BY <1>1, <1>2, <1>3, PTL DEF Spec
=============================================================================
