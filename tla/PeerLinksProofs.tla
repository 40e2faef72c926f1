-------------------------- MODULE PeerLinksProofs --------------------------
(* What a peer is told by us is complete and in order, for every number of *)
(* hosts and pieces.                                                       *)
EXTENDS PeerLinks, SequenceTheorems, TLAPS

Message ==
  [kind : {"bitfield", "have"}, pieces : SUBSET Piece]
    \cup [kind : {"choke"}, on : BOOLEAN] \cup [kind : {"piece"}, piece : Piece]
Knowledge == [pieces : SUBSET Piece, choked : BOOLEAN]

\* The type of every variable; a blocked host is not accepted.
TypeOK ==
  /\ state \in {"running", "paused", "stopped"}
  /\ valid \subseteq Piece /\ new \subseteq Host /\ accepted \subseteq Host \ Blocked
  /\ stage \in [Host -> {NoLink, 2, 3, 4}]
  /\ remote \in [Host -> SUBSET Piece] /\ haves \in [Host -> SUBSET Piece]
  /\ choked \in [Host -> BOOLEAN] /\ goal \in [Host -> BOOLEAN]
  /\ requests \in [Host -> Seq(Piece)] /\ out \in [Host -> Seq(Message)]
  /\ heard \in [Host -> Knowledge]

-----------------------------------------------------------------------------
(* Lists of messages.                                                      *)

\* One of the messages names piece p as ours.
Names(l, p) == \E i \in DOMAIN l : l[i].kind \in {"bitfield", "have"} /\ p \in l[i].pieces

\* A peer that knows k and reads the messages ends up choked or not, as c says.
Leaves(l, k, c) ==
  /\ \A i \in DOMAIN l :
       l[i].kind = "choke" /\ (\A j \in DOMAIN l : j > i => l[j].kind # "choke") => l[i].on = c
  /\ (\A i \in DOMAIN l : l[i].kind # "choke") => k.choked = c

\* Only the first message may be a piece, and only for a peer that is not choked.
PieceInFront(l, k) == \A i \in DOMAIN l : l[i].kind = "piece" => i = 1 /\ ~k.choked

LEMMA NothingToRead ==
  ASSUME NEW k, NEW c, NEW p
  PROVE  /\ ~Names(<<>>, p) /\ PieceInFront(<<>>, k)
         /\ Leaves(<<>>, k, c) <=> k.choked = c
BY DEF Names, PieceInFront, Leaves

\* A longer list names what either part does.
LEMMA NamesOfBoth ==
  ASSUME NEW l \in Seq(Message), NEW m \in Seq(Message), NEW p
  PROVE  Names(l \o m, p) <=> Names(l, p) \/ Names(m, p)
<1>1. /\ Len(l \o m) = Len(l) + Len(m) /\ DOMAIN (l \o m) = 1..(Len(l) + Len(m))
      /\ DOMAIN l = 1..Len(l) /\ DOMAIN m = 1..Len(m) /\ Len(l) \in Nat /\ Len(m) \in Nat
  OBVIOUS
<1>2. \A i \in 1..Len(l) : i \in 1..(Len(l) + Len(m)) /\ (l \o m)[i] = l[i]
  BY ConcatProperties, <1>1
<1>3. \A i \in 1..Len(m) : i + Len(l) \in 1..(Len(l) + Len(m)) /\ (l \o m)[i + Len(l)] = m[i]
  BY ConcatProperties, <1>1
<1>4. \A i \in 1..(Len(l) + Len(m)) : i \in 1..Len(l) \/ i - Len(l) \in 1..Len(m)
  BY <1>1
<1>5. ASSUME Names(l \o m, p) PROVE Names(l, p) \/ Names(m, p)
  <2>1. PICK i \in 1..(Len(l) + Len(m)) :
          (l \o m)[i].kind \in {"bitfield", "have"} /\ p \in (l \o m)[i].pieces
    BY <1>1, <1>5 DEF Names
  <2>2. CASE i \in 1..Len(l)
    BY <1>1, <1>2, <2>1, <2>2 DEF Names
  <2>3. CASE i - Len(l) \in 1..Len(m)
    <3>1. (i - Len(l)) + Len(l) = i
      BY <1>1
    <3>2. (l \o m)[i] = m[i - Len(l)]
      BY <1>3, <2>3, <3>1
    <3> QED
      BY <1>1, <2>1, <2>3, <3>2 DEF Names
  <2> QED
    BY <1>4, <2>2, <2>3
<1>6. ASSUME Names(l, p) PROVE Names(l \o m, p)
  BY <1>1, <1>2, <1>6 DEF Names
<1>7. ASSUME Names(m, p) PROVE Names(l \o m, p)
  <2>1. PICK i \in 1..Len(m) : m[i].kind \in {"bitfield", "have"} /\ p \in m[i].pieces
    BY <1>1, <1>7 DEF Names
  <2> QED
    BY <1>1, <1>3, <2>1 DEF Names
<1> QED
  BY <1>5, <1>6, <1>7

\* Messages that are no pieces and no chokes may follow.
LEMMA QuietMessages ==
  ASSUME NEW l \in Seq(Message), NEW m \in Seq(Message), NEW k, NEW c,
         \A i \in DOMAIN m : m[i].kind \notin {"choke", "piece"}
  PROVE  /\ Leaves(l, k, c) => Leaves(l \o m, k, c)
         /\ PieceInFront(l, k) => PieceInFront(l \o m, k)
<1>1. /\ DOMAIN (l \o m) = 1..(Len(l) + Len(m))
      /\ DOMAIN l = 1..Len(l) /\ DOMAIN m = 1..Len(m) /\ Len(l) \in Nat /\ Len(m) \in Nat
  OBVIOUS
<1>2. \A i \in DOMAIN l : i \in DOMAIN (l \o m) /\ (l \o m)[i] = l[i]
  BY ConcatProperties, <1>1
<1>3. \A i \in DOMAIN (l \o m) : i \in DOMAIN l \/ (l \o m)[i].kind \notin {"choke", "piece"}
  BY ConcatProperties, <1>1
<1>4. ASSUME PieceInFront(l, k) PROVE PieceInFront(l \o m, k)
  BY <1>2, <1>3, <1>4 DEF PieceInFront
<1>5. ASSUME Leaves(l, k, c) PROVE Leaves(l \o m, k, c)
  BY <1>2, <1>3, <1>5 DEF Leaves
<1> QED
  BY <1>4, <1>5

\* The last choke decides.
LEMMA ChokeDecides ==
  ASSUME NEW l \in Seq(Message), NEW x \in Message, NEW k, x.kind = "choke"
  PROVE  Leaves(Append(l, x), k, x.on) /\ (PieceInFront(l, k) => PieceInFront(Append(l, x), k))
<1> DEFINE m == Append(l, x)
<1>1. /\ DOMAIN m = 1..(Len(l) + 1) /\ DOMAIN l = 1..Len(l) /\ Len(l) \in Nat
      /\ m[Len(l) + 1] = x /\ \A i \in 1..Len(l) : m[i] = l[i]
  OBVIOUS
<1>2. \A i \in DOMAIN m : i \in DOMAIN l \/ i = Len(l) + 1
  BY <1>1
<1>3. Len(l) + 1 \in DOMAIN m /\ \A i \in DOMAIN l : Len(l) + 1 > i
  BY <1>1
<1> HIDE DEF m
<1>4. Leaves(m, k, x.on)
  BY <1>1, <1>2, <1>3 DEF Leaves
<1>5. PieceInFront(l, k) => PieceInFront(m, k)
  BY <1>1, <1>2 DEF PieceInFront
<1> QED
  BY <1>4, <1>5 DEF m

\* The peer reads the first message.
LEMMA Reading ==
  ASSUME NEW l \in Seq(Message), l # <<>>, NEW k \in Knowledge, NEW c
  PROVE  /\ Learns(k, Head(l)) \in Knowledge
         /\ \A p \in Piece : Names(l, p) => Names(Tail(l), p) \/ p \in Learns(k, Head(l)).pieces
         /\ k.pieces \subseteq Learns(k, Head(l)).pieces
         /\ Leaves(l, k, c) => Leaves(Tail(l), Learns(k, Head(l)), c)
         /\ PieceInFront(l, k) => PieceInFront(Tail(l), Learns(k, Head(l)))
<1> DEFINE t == Tail(l)
           h == Learns(k, Head(l))
<1>1. /\ DOMAIN l = 1..Len(l) /\ DOMAIN t = 1..(Len(l) - 1) /\ Len(l) \in Nat /\ Len(l) >= 1
      /\ t \in Seq(Message) /\ Head(l) = l[1] /\ l[1] \in Message
      /\ \A i \in 1..(Len(l) - 1) : t[i] = l[i + 1]
  BY HeadTailProperties
<1>2. /\ \A i \in DOMAIN t : i + 1 \in DOMAIN l /\ i + 1 # 1 /\ t[i] = l[i + 1]
      /\ \A i \in DOMAIN l : i = 1 \/ (i - 1 \in DOMAIN t /\ t[i - 1] = l[i])
      /\ 1 \in DOMAIN l
  BY <1>1
<1>3. \A x \in Message : /\ Learns(k, x) \in Knowledge /\ k.pieces \subseteq Learns(k, x).pieces
                         /\ x.kind \in {"bitfield", "have"} => x.pieces \subseteq Learns(k, x).pieces
                         /\ x.kind = "choke" => Learns(k, x).choked = x.on
                         /\ x.kind # "choke" => Learns(k, x).choked = k.choked
  BY DEF Message, Knowledge, Learns
<1>4. h \in Knowledge /\ k.pieces \subseteq h.pieces
  BY <1>1, <1>3
<1>5. ASSUME NEW p \in Piece, Names(l, p) PROVE Names(t, p) \/ p \in h.pieces
  <2>1. PICK i \in DOMAIN l : l[i].kind \in {"bitfield", "have"} /\ p \in l[i].pieces
    BY <1>5 DEF Names
  <2>2. CASE i = 1
    BY <1>1, <1>3, <2>1, <2>2
  <2>3. CASE i # 1
    BY <1>2, <2>1, <2>3 DEF Names
  <2> QED
    BY <2>2, <2>3
<1>6. ASSUME Leaves(l, k, c) PROVE Leaves(t, h, c)
  <2>1. ASSUME NEW i \in DOMAIN t, t[i].kind = "choke", \A j \in DOMAIN t : j > i => t[j].kind # "choke"
        PROVE  t[i].on = c
    <3>1. ASSUME NEW j \in DOMAIN l, j > i + 1 PROVE l[j].kind # "choke"
      <4>1. i \in Nat /\ j \in Nat /\ j # 1 /\ j - 1 > i
        BY <1>1, <3>1
      <4>2. j - 1 \in DOMAIN t /\ t[j - 1] = l[j]
        BY <1>2, <4>1
      <4> QED
        BY <2>1, <4>1, <4>2
    <3> QED
      BY <1>2, <1>6, <2>1, <3>1 DEF Leaves
  <2>2. ASSUME \A i \in DOMAIN t : t[i].kind # "choke" PROVE h.choked = c
    <3>1. ASSUME NEW j \in DOMAIN l, j > 1 PROVE l[j].kind # "choke"
      <4>1. j # 1
        BY <1>1, <3>1
      <4> QED
        BY <1>2, <2>2, <4>1
    <3>2. CASE l[1].kind = "choke"
      BY <1>1, <1>2, <1>3, <1>6, <3>1, <3>2 DEF Leaves
    <3>3. CASE l[1].kind # "choke"
      <4>1. \A j \in DOMAIN l : l[j].kind # "choke"
        BY <1>2, <2>2, <3>3
      <4> QED
        BY <1>1, <1>3, <1>6, <3>3, <4>1 DEF Leaves
    <3> QED
      BY <3>2, <3>3
  <2> HIDE DEF t, h
  <2> QED
    BY <2>1, <2>2 DEF Leaves
<1>7. ASSUME PieceInFront(l, k) PROVE PieceInFront(t, h)
  BY <1>2, <1>7 DEF PieceInFront
<1> QED
  BY <1>4, <1>5, <1>6, <1>7

-----------------------------------------------------------------------------
(* The invariant.                                                          *)

Told(h) ==
  stage[h] = 3 => \A p \in valid : Names(out[h], p) \/ p \in heard[h].pieces \cup haves[h] \cup remote[h]

InOrder(h) == Leaves(out[h], heard[h], choked[h]) /\ PieceInFront(out[h], heard[h])

LinksInv == TypeOK /\ \A h \in Host : Told(h) /\ InOrder(h)

LEMMA HavesTold ==
  ASSUME TypeOK, NEW h \in Host
  PROVE  /\ HavesOf(h) \in Seq(Message)
         /\ \A i \in DOMAIN HavesOf(h) : HavesOf(h)[i].kind \notin {"choke", "piece"}
         /\ stage[h] = 3 => \A p \in haves[h] \ remote[h] : Names(HavesOf(h), p)
<1> DEFINE ps == IF stage[h] = 3 THEN haves[h] \ remote[h] ELSE {}
           m == [kind |-> "have", pieces |-> ps]
<1>1. ps \in SUBSET Piece
  BY DEF TypeOK
<1>2. m \in Message
  BY <1>1 DEF Message
<1>3. HavesOf(h) = IF ps = {} THEN <<>> ELSE <<m>>
  BY DEF HavesOf
<1>4. m.kind = "have" /\ m.pieces = ps
  OBVIOUS
<1> HIDE DEF m, ps
<1>5. CASE ps = {}
  BY <1>3, <1>5 DEF ps
<1>6. CASE ps # {}
  <2>1. HavesOf(h) = <<m>> /\ HavesOf(h) \in Seq(Message) /\ DOMAIN HavesOf(h) = {1} /\ HavesOf(h)[1] = m
    BY <1>2, <1>3, <1>6
  <2>2. stage[h] = 3 => ps = haves[h] \ remote[h]
    BY DEF ps
  <2> QED
    BY <1>4, <2>1, <2>2 DEF Names
<1> QED
  BY <1>5, <1>6

LEMMA RequestCancelled ==
  ASSUME NEW l \in Seq(Piece), NEW i \in DOMAIN l
  PROVE  SubSeq(l, 1, i - 1) \o SubSeq(l, i + 1, Len(l)) \in Seq(Piece)
<1>1. SubSeq(l, 1, i - 1) \in Seq(Piece) /\ SubSeq(l, i + 1, Len(l)) \in Seq(Piece)
  OBVIOUS
<1> QED
  BY <1>1, ConcatProperties

\* What one link writes, reads and keeps does not concern the others.
LEMMA OthersKeep ==
  ASSUME NEW g \in Host, Told(g), InOrder(g), valid' = valid,
         stage'[g] = stage[g], remote'[g] = remote[g], haves'[g] = haves[g],
         choked'[g] = choked[g], out'[g] = out[g], heard'[g] = heard[g]
  PROVE  Told(g)' /\ InOrder(g)'
BY DEF Told, InOrder

\* A link that begins, or ends, has said nothing.
LEMMA ResetInv ==
  ASSUME LinksInv, NEW h \in Host, NEW g \in {NoLink, 2, 4}, Reset(h, g),
         UNCHANGED <<state, valid>>, new' \subseteq Host, accepted' \subseteq Host \ Blocked
  PROVE  LinksInv'
<1>1. Fresh \in Knowledge /\ Fresh.choked = TRUE
  BY DEF Fresh, Knowledge
<1>2. TypeOK'
  BY <1>1 DEF LinksInv, TypeOK, Reset
<1>3. ASSUME NEW k \in Host PROVE Told(k)' /\ InOrder(k)'
  <2>1. CASE k = h
    <3>1. stage'[h] # 3 /\ out'[h] = <<>> /\ heard'[h] = Fresh /\ choked'[h] = TRUE
      BY DEF Reset, LinksInv, TypeOK, NoLink
    <3>2. Leaves(<<>>, Fresh, TRUE) /\ PieceInFront(<<>>, Fresh)
      BY <1>1, NothingToRead
    <3>3. InOrder(h)'
      BY <3>1, <3>2 DEF InOrder
    <3>4. Told(h)'
      BY <3>1 DEF Told
    <3> QED
      BY <2>1, <3>3, <3>4
  <2>2. CASE k # h
    <3>1. /\ valid' = valid /\ stage'[k] = stage[k] /\ remote'[k] = remote[k] /\ haves'[k] = haves[k]
          /\ choked'[k] = choked[k] /\ out'[k] = out[k] /\ heard'[k] = heard[k]
      BY <2>2 DEF Reset, LinksInv, TypeOK
    <3> QED
      BY <3>1, OthersKeep DEF LinksInv
  <2> QED
    BY <2>1, <2>2
<1> QED
  BY <1>2, <1>3 DEF LinksInv

\* The step of one link: it is enough to look at that link.
LEMMA OneLink ==
  ASSUME LinksInv, NEW h \in Host, TypeOK', valid' = valid, Told(h)', InOrder(h)',
         \A k \in Host \ {h} :
           /\ stage'[k] = stage[k] /\ remote'[k] = remote[k] /\ haves'[k] = haves[k]
           /\ choked'[k] = choked[k] /\ out'[k] = out[k] /\ heard'[k] = heard[k]
  PROVE  LinksInv'
<1>1. ASSUME NEW k \in Host \ {h} PROVE Told(k)' /\ InOrder(k)'
  BY OthersKeep DEF LinksInv
<1> QED
  BY <1>1 DEF LinksInv

\* Told(h) and InOrder(h) rest on these variables only.
LEMMA LinksKeep ==
  ASSUME LinksInv, TypeOK', UNCHANGED <<valid, stage, remote, haves, choked, out, heard>>
  PROVE  LinksInv'
BY DEF LinksInv, Told, InOrder

-----------------------------------------------------------------------------
(* One lemma for every action that writes, reads or forgets.               *)

LEMMA ReadHandshakeInv ==
  ASSUME LinksInv, NEW h \in Host, ReadHandshake(h)
  PROVE  LinksInv'
<1>1. TypeOK'
  BY DEF LinksInv, TypeOK, ReadHandshake
<1>2. Told(h)' /\ InOrder(h)'
  BY DEF LinksInv, TypeOK, ReadHandshake, Told, InOrder
<1>3. /\ valid' = valid
      /\ \A k \in Host \ {h} :
           /\ stage'[k] = stage[k] /\ remote'[k] = remote[k] /\ haves'[k] = haves[k]
           /\ choked'[k] = choked[k] /\ out'[k] = out[k] /\ heard'[k] = heard[k]
  BY DEF ReadHandshake, LinksInv, TypeOK
<1> QED
  BY <1>1, <1>2, <1>3, OneLink

LEMMA ReadPeerIdInv ==
  ASSUME LinksInv, NEW h \in Host, ReadPeerId(h)
  PROVE  LinksInv'
<1> DEFINE m == [kind |-> "bitfield", pieces |-> valid]
           l == IF valid = {} THEN <<>> ELSE <<m>>
<1>1. TypeOK /\ out[h] \in Seq(Message) /\ InOrder(h)
  BY DEF LinksInv, TypeOK
<1>2. m \in Message /\ m.kind = "bitfield" /\ m.pieces = valid
  BY <1>1 DEF TypeOK, Message
<1> HIDE DEF m
<1>3. /\ l \in Seq(Message) /\ \A i \in DOMAIN l : l[i].kind \notin {"choke", "piece"}
      /\ \A p \in valid : Names(l, p)
  BY <1>2 DEF Names
<1>4. out' = [out EXCEPT ![h] = @ \o l]
  <2>1. CASE valid = {}
    BY <1>1, <2>1, ConcatEmptySeq DEF ReadPeerId, TypeOK
  <2>2. CASE valid # {}
    BY <1>1, <1>2, <2>2, AppendIsConcat DEF ReadPeerId, m
  <2> QED
    BY <2>1, <2>2
<1> HIDE DEF l
<1>5. out[h] \o l \in Seq(Message)
  BY <1>1, <1>3
<1>6. TypeOK'
  BY <1>1, <1>4, <1>5 DEF TypeOK, ReadPeerId
<1>7. out'[h] = out[h] \o l /\ heard'[h] = heard[h] /\ choked'[h] = choked[h]
  BY <1>1, <1>4 DEF TypeOK, ReadPeerId
<1>8. InOrder(h)'
  BY <1>1, <1>3, <1>7, QuietMessages DEF InOrder
<1>9. Told(h)'
  <2>1. valid' = valid /\ \A p \in valid : Names(out[h] \o l, p)
    BY <1>1, <1>3, NamesOfBoth DEF ReadPeerId
  <2> QED
    BY <1>7, <2>1 DEF Told
<1>10. /\ valid' = valid
       /\ \A k \in Host \ {h} :
            /\ stage'[k] = stage[k] /\ remote'[k] = remote[k] /\ haves'[k] = haves[k]
            /\ choked'[k] = choked[k] /\ out'[k] = out[k] /\ heard'[k] = heard[k]
  BY <1>1, <1>4 DEF ReadPeerId, TypeOK
<1> QED
  BY <1>6, <1>8, <1>9, <1>10, OneLink

LEMMA RemoteHasInv ==
  ASSUME LinksInv, NEW h \in Host, NEW p \in Piece, RemoteHas(h, p)
  PROVE  LinksInv'
<1>1. TypeOK'
  BY DEF LinksInv, TypeOK, RemoteHas
<1>2. Told(h)' /\ InOrder(h)'
  BY DEF LinksInv, TypeOK, RemoteHas, Told, InOrder
<1>3. /\ valid' = valid
      /\ \A k \in Host \ {h} :
           /\ stage'[k] = stage[k] /\ remote'[k] = remote[k] /\ haves'[k] = haves[k]
           /\ choked'[k] = choked[k] /\ out'[k] = out[k] /\ heard'[k] = heard[k]
  BY DEF RemoteHas, LinksInv, TypeOK
<1> QED
  BY <1>1, <1>2, <1>3, OneLink

\* A piece that is completed waits in the queue of every link.
LEMMA QueueHaveInv ==
  ASSUME LinksInv, NEW p \in Piece, QueueHave(p)
  PROVE  LinksInv'
<1>1. TypeOK'
  BY DEF LinksInv, TypeOK, QueueHave
<1>2. ASSUME NEW h \in Host PROVE InOrder(h)'
  BY DEF LinksInv, QueueHave, InOrder
<1>3. ASSUME NEW h \in Host PROVE Told(h)'
  <2>1. CASE stage[h] = 3
    <3>1. haves'[h] = haves[h] \cup {p} /\ valid' = valid \cup {p}
      BY <2>1 DEF QueueHave, Linked, NoLink
    <3> QED
      BY <2>1, <3>1 DEF LinksInv, Told, QueueHave
  <2>2. CASE stage[h] # 3
    BY <2>2 DEF Told, QueueHave
  <2> QED
    BY <2>1, <2>2
<1> QED
  BY <1>1, <1>2, <1>3 DEF LinksInv

LEMMA WriteChokeInv ==
  ASSUME LinksInv, NEW h \in Host, WriteChoke(h)
  PROVE  LinksInv'
<1> DEFINE m == [kind |-> "choke", on |-> goal[h]]
<1>1. TypeOK /\ out[h] \in Seq(Message) /\ InOrder(h) /\ Told(h) /\ goal[h] \in BOOLEAN
  BY DEF LinksInv, TypeOK
<1>2. m \in Message /\ m.kind = "choke" /\ m.on = goal[h]
  BY <1>1 DEF Message
<1>3. out' = [out EXCEPT ![h] = Append(@, m)] /\ choked' = [choked EXCEPT ![h] = goal[h]]
  BY DEF WriteChoke
<1> HIDE DEF m
<1>4. /\ Append(out[h], m) \in Seq(Message) /\ Append(out[h], m) = out[h] \o <<m>>
      /\ <<m>> \in Seq(Message)
  BY <1>1, <1>2, AppendProperties, AppendIsConcat
<1>5. requests' \in [Host -> Seq(Piece)]
  BY <1>1 DEF TypeOK, WriteChoke
<1>6. TypeOK'
  BY <1>1, <1>3, <1>4, <1>5 DEF TypeOK, WriteChoke
<1>7. /\ out'[h] = Append(out[h], m) /\ choked'[h] = goal[h]
      /\ UNCHANGED <<valid, stage, remote, haves, heard>>
  BY <1>1, <1>3 DEF TypeOK, WriteChoke
<1>8. InOrder(h)'
  BY <1>1, <1>2, <1>7, ChokeDecides DEF InOrder
<1>9. Told(h)'
  <2>1. \A p \in valid : Names(out[h], p) => Names(Append(out[h], m), p)
    <3>1. \A p : Names(out[h], p) => Names(out[h] \o <<m>>, p)
      BY <1>1, <1>4, NamesOfBoth
    <3> QED
      BY <1>4, <3>1, Zenon
  <2> QED
    BY <1>1, <1>7, <2>1 DEF Told
<1>10. \A k \in Host \ {h} : choked'[k] = choked[k] /\ out'[k] = out[k]
  BY <1>1, <1>3 DEF TypeOK
<1> QED
  BY <1>6, <1>7, <1>8, <1>9, <1>10, OneLink

LEMMA IdleHavesInv ==
  ASSUME LinksInv, NEW h \in Host, IdleHaves(h)
  PROVE  LinksInv'
<1>1. TypeOK /\ out[h] \in Seq(Message) /\ InOrder(h) /\ Told(h) /\ stage[h] = 3
  BY DEF LinksInv, TypeOK, IdleHaves
<1>2. /\ out[h] \o HavesOf(h) \in Seq(Message)
      /\ \A p \in haves[h] \ remote[h] : Names(HavesOf(h), p)
  BY <1>1, HavesTold
<1>3. TypeOK'
  BY <1>1, <1>2 DEF TypeOK, IdleHaves
<1>4. /\ out'[h] = out[h] \o HavesOf(h) /\ UNCHANGED <<valid, stage, remote, choked, heard>>
      /\ \A k \in Host \ {h} : haves'[k] = haves[k] /\ out'[k] = out[k]
  BY <1>1 DEF TypeOK, IdleHaves
<1>5. InOrder(h)'
  BY <1>1, <1>4, HavesTold, QuietMessages DEF InOrder
<1>6. Told(h)'
  BY <1>1, <1>2, <1>4, HavesTold, NamesOfBoth DEF Told
<1> QED
  BY <1>3, <1>4, <1>5, <1>6, OneLink

\* An answer is written only once the peer has read that it is not choked.
LEMMA AnswerNextInv ==
  ASSUME LinksInv, NEW h \in Host, AnswerNext(h)
  PROVE  LinksInv'
<1> DEFINE m == [kind |-> "piece", piece |-> Head(requests[h])]
<1>1. TypeOK /\ out[h] = <<>> /\ InOrder(h) /\ Told(h) /\ choked[h] = FALSE
      /\ requests[h] \in Seq(Piece) /\ requests[h] # <<>> /\ HavesOf(h) \in Seq(Message)
  BY HavesTold DEF LinksInv, TypeOK, AnswerNext
<1>2. Head(requests[h]) \in Piece /\ Tail(requests[h]) \in Seq(Piece)
  BY <1>1, HeadTailProperties
<1>3. m \in Message /\ m.kind = "piece"
  BY <1>2 DEF Message
<1>4. out' = [out EXCEPT ![h] = <<m>> \o HavesOf(h)]
  BY DEF AnswerNext
<1> HIDE DEF m
<1>5. <<m>> \in Seq(Message) /\ <<m>> \o HavesOf(h) \in Seq(Message)
  BY <1>1, <1>3
<1>6. TypeOK'
  BY <1>1, <1>2, <1>4, <1>5 DEF TypeOK, AnswerNext
<1>7. /\ out'[h] = <<m>> \o HavesOf(h) /\ UNCHANGED <<valid, stage, remote, choked, heard>>
      /\ \A k \in Host \ {h} : haves'[k] = haves[k] /\ out'[k] = out[k]
  BY <1>1, <1>4 DEF TypeOK, AnswerNext
<1>8. heard[h].choked = FALSE
  BY <1>1, NothingToRead DEF InOrder
<1>9. Leaves(<<m>>, heard[h], FALSE) /\ PieceInFront(<<m>>, heard[h])
  <2>1. DOMAIN <<m>> = {1} /\ <<m>>[1] = m
    OBVIOUS
  <2> QED
    BY <1>3, <1>8, <2>1 DEF Leaves, PieceInFront
<1>10. InOrder(h)'
  BY <1>1, <1>5, <1>7, <1>9, HavesTold, QuietMessages DEF InOrder
<1>11. Told(h)'
  <2>1. \A p \in valid : ~Names(out[h], p)
    BY <1>1, NothingToRead
  <2>2. \A p : Names(HavesOf(h), p) => Names(<<m>> \o HavesOf(h), p)
    BY <1>1, <1>5, NamesOfBoth
  <2>3. stage[h] = 3 => \A p \in haves[h] \ remote[h] : Names(HavesOf(h), p)
    BY <1>1, HavesTold
  <2> QED
    BY <1>1, <1>7, <2>1, <2>2, <2>3 DEF Told
<1> QED
  BY <1>6, <1>7, <1>10, <1>11, OneLink

LEMMA SendInv ==
  ASSUME LinksInv, NEW h \in Host, Send(h)
  PROVE  LinksInv'
<1> DEFINE l == out[h] \o HavesOf(h)
<1>1. /\ TypeOK /\ out[h] # <<>> /\ out[h] \in Seq(Message) /\ heard[h] \in Knowledge
      /\ InOrder(h) /\ Told(h) /\ HavesOf(h) \in Seq(Message)
  BY HavesTold DEF LinksInv, TypeOK, Send
<1>2. l \in Seq(Message) /\ l # <<>> /\ Head(l) = Head(out[h])
  BY <1>1
<1>3. out' = [out EXCEPT ![h] = Tail(l)] /\ heard' = [heard EXCEPT ![h] = Learns(@, Head(l))]
  BY <1>2 DEF Send
<1>4. Leaves(l, heard[h], choked[h]) /\ PieceInFront(l, heard[h])
  BY <1>1, HavesTold, QuietMessages DEF InOrder
<1>5. stage[h] = 3 => \A p \in valid : Names(l, p) \/ p \in heard[h].pieces \cup remote[h]
  BY <1>1, HavesTold, NamesOfBoth DEF Told
<1> HIDE DEF l
<1>6. Tail(l) \in Seq(Message) /\ Learns(heard[h], Head(l)) \in Knowledge
  BY <1>1, <1>2, Reading, HeadTailProperties
<1>7. TypeOK'
  BY <1>1, <1>3, <1>6 DEF TypeOK, Send
<1>8. /\ out'[h] = Tail(l) /\ heard'[h] = Learns(heard[h], Head(l))
      /\ UNCHANGED <<valid, stage, remote, choked>>
      /\ \A k \in Host \ {h} : haves'[k] = haves[k] /\ out'[k] = out[k] /\ heard'[k] = heard[k]
  BY <1>1, <1>3 DEF TypeOK, Send
<1>9. InOrder(h)'
  BY <1>1, <1>2, <1>4, <1>8, Reading DEF InOrder
<1>10. Told(h)'
  <2>1. valid \subseteq Piece
    BY <1>1 DEF TypeOK
  <2> QED
    BY <1>1, <1>2, <1>5, <1>8, <2>1, Reading DEF Told
<1> QED
  BY <1>7, <1>8, <1>9, <1>10, OneLink

LEMMA SetStateInv ==
  ASSUME LinksInv, NEW s \in {"running", "paused", "stopped"}, SetState(s)
  PROVE  LinksInv'
<1>1. CASE s # "stopped"
  <2>1. TypeOK' /\ UNCHANGED <<valid, link>>
    BY <1>1 DEF LinksInv, TypeOK, SetState, link
  <2> QED
    BY <2>1, LinksKeep DEF link
<1>2. CASE s = "stopped"
  <2>1. Fresh \in Knowledge /\ Fresh.choked = TRUE
    BY DEF Fresh, Knowledge
  <2>2. TypeOK'
    <3>1. stage' \in [Host -> {NoLink, 2, 3, 4}] /\ heard' \in [Host -> Knowledge]
      BY <1>2, <2>1 DEF SetState
    <3>2. /\ remote' \in [Host -> SUBSET Piece] /\ haves' \in [Host -> SUBSET Piece]
          /\ choked' \in [Host -> BOOLEAN] /\ goal' \in [Host -> BOOLEAN]
      BY <1>2 DEF SetState
    <3>3. requests' \in [Host -> Seq(Piece)] /\ out' \in [Host -> Seq(Message)]
      <4>1. <<>> \in Seq(Piece) /\ <<>> \in Seq(Message)
        OBVIOUS
      <4> QED
        BY <1>2, <4>1 DEF SetState
    <3> QED
      BY <3>1, <3>2, <3>3 DEF LinksInv, TypeOK, SetState
  <2>3. ASSUME NEW h \in Host PROVE Told(h)' /\ InOrder(h)'
    <3>1. stage'[h] # 3 /\ out'[h] = <<>> /\ heard'[h] = Fresh /\ choked'[h] = TRUE
      BY <1>2 DEF SetState, NoLink
    <3> QED
      BY <2>1, <3>1, NothingToRead DEF Told, InOrder
  <2> QED
    BY <2>2, <2>3 DEF LinksInv
<1> QED
  BY <1>1, <1>2

-----------------------------------------------------------------------------
LEMMA InitLinks == Init => LinksInv
<1> SUFFICES ASSUME Init PROVE LinksInv
  OBVIOUS
<1>1. Fresh \in Knowledge /\ Fresh.choked = TRUE
  BY DEF Fresh, Knowledge
<1>2. TypeOK
  BY <1>1 DEF Init, TypeOK
<1>3. ASSUME NEW h \in Host PROVE Told(h) /\ InOrder(h)
  <2>1. stage[h] # 3 /\ out[h] = <<>> /\ heard[h] = Fresh /\ choked[h] = TRUE
    BY DEF Init, NoLink
  <2> QED
    BY <1>1, <2>1, NothingToRead DEF Told, InOrder
<1> QED
  BY <1>2, <1>3 DEF LinksInv

LEMMA LinksStep == LinksInv /\ [Next]_vars => LinksInv'
<1> SUFFICES ASSUME LinksInv, [Next]_vars PROVE LinksInv'
  OBVIOUS
<1>0. TypeOK
  BY DEF LinksInv
<1>1. ASSUME NEW h \in Host, InsertNewPeer(h) PROVE LinksInv'
  <2>1. TypeOK'
    BY <1>0, <1>1 DEF TypeOK, InsertNewPeer, link
  <2> QED
    BY <1>1, <2>1, LinksKeep DEF InsertNewPeer, link
<1>2. ASSUME NEW h \in Host, Drop(h) PROVE LinksInv'
  BY <1>0, <1>2, ResetInv DEF Drop, TypeOK
<1>3. ASSUME NEW h \in Host, NEW b \in BOOLEAN, Connect(h, b) PROVE LinksInv'
  <2>1. new' \subseteq Host /\ accepted' \subseteq Host \ Blocked /\ UNCHANGED <<state, valid>>
    BY <1>0, <1>3 DEF Connect, TypeOK
  <2>2. CASE UNCHANGED link
    <3>1. TypeOK'
      BY <1>0, <2>1, <2>2 DEF TypeOK, link
    <3> QED
      BY <2>1, <2>2, <3>1, LinksKeep DEF link
  <2>3. CASE Reset(h, 2)
    BY <2>1, <2>3, ResetInv
  <2> QED
    BY <1>3, <2>2, <2>3 DEF Connect
<1>4. ASSUME NEW h \in Host, NEW b \in BOOLEAN, LinkEnds(h, b) PROVE LinksInv'
  <2>1. new' \subseteq Host /\ accepted' \subseteq Host \ Blocked /\ UNCHANGED <<state, valid>>
    BY <1>0, <1>4 DEF LinkEnds, TypeOK
  <2>2. CASE UNCHANGED link
    <3>1. TypeOK'
      BY <1>0, <2>1, <2>2 DEF TypeOK, link
    <3> QED
      BY <2>1, <2>2, <3>1, LinksKeep DEF link
  <2>3. CASE Reset(h, 4)
    BY <2>1, <2>3, ResetInv
  <2> QED
    BY <1>4, <2>2, <2>3 DEF LinkEnds
<1>5. ASSUME NEW h \in Host, NEW p \in Piece, RemoteRequests(h, p) PROVE LinksInv'
  <2>1. requests' \in [Host -> Seq(Piece)]
    BY <1>0, <1>5, AppendProperties DEF RemoteRequests, TypeOK
  <2>2. TypeOK'
    BY <1>0, <1>5, <2>1 DEF TypeOK, RemoteRequests
  <2> QED
    BY <1>5, <2>2, LinksKeep DEF RemoteRequests
<1>6. ASSUME NEW h \in Host, NEW i \in DOMAIN requests[h], RemoteCancels(h, i) PROVE LinksInv'
  <2>1. requests[h] \in Seq(Piece)
    BY <1>0 DEF TypeOK
  <2>2. requests' \in [Host -> Seq(Piece)]
    BY <1>0, <1>6, <2>1, RequestCancelled DEF RemoteCancels, TypeOK
  <2>3. TypeOK'
    BY <1>0, <1>6, <2>2 DEF TypeOK, RemoteCancels
  <2> QED
    BY <1>6, <2>3, LinksKeep DEF RemoteCancels
<1>7. ASSUME NEW h \in Host, Choose(h) PROVE LinksInv'
  <2>1. TypeOK'
    BY <1>0, <1>7 DEF TypeOK, Choose
  <2> QED
    BY <1>7, <2>1, LinksKeep DEF Choose
<1>8. ASSUME NEW h \in Host, Unreadable(h) PROVE LinksInv'
  <2>1. requests' \in [Host -> Seq(Piece)]
    BY <1>0, <1>8, HeadTailProperties DEF Unreadable, TypeOK
  <2>2. TypeOK'
    BY <1>0, <1>8, <2>1 DEF TypeOK, Unreadable
  <2> QED
    BY <1>8, <2>2, LinksKeep DEF Unreadable
<1>9. ASSUME NEW hosts \in SUBSET Host, Accept(hosts) PROVE LinksInv'
  <2>1. TypeOK'
    BY <1>0, <1>9 DEF TypeOK, Accept, link
  <2> QED
    BY <1>9, <2>1, LinksKeep DEF Accept, link
<1>10. ASSUME UNCHANGED vars PROVE LinksInv'
  <2>1. TypeOK'
    BY <1>0, <1>10 DEF TypeOK, vars, link
  <2> QED
    BY <1>10, <2>1, LinksKeep DEF vars, link
<1> QED
  BY <1>1, <1>2, <1>3, <1>4, <1>5, <1>6, <1>7, <1>8, <1>9, <1>10, ReadHandshakeInv, ReadPeerIdInv,
     RemoteHasInv, QueueHaveInv, WriteChokeInv, IdleHavesInv, AnswerNextInv, SendInv, SetStateInv
     DEF Next

\* Every variable keeps its type, and no blocked host is accepted (Cserver::run).
THEOREM LinksTypeCorrect == Spec => []TypeOK
<1>1. LinksInv => TypeOK
  BY DEF LinksInv
<1> QED
  BY <1>1, InitLinks, LinksStep, PTL DEF Spec

\* Whoever connects, whenever pieces are completed, links are choked, requests are made,
\* cancelled and answered: of each of our pieces a peer was told, will be told or has it,
\* and it reads a piece only while it knows that it is not choked (write_bitfield,
\* write_haves, write_choke and send of Cbt_peer_link).
THEOREM PeersAreToldRight == Spec => []PeerToldRight
<1>1. LinksInv => PeerToldRight
  <2> SUFFICES ASSUME LinksInv PROVE EveryPieceTold /\ NoPieceWhileChoked
    BY DEF PeerToldRight
  <2> DEFINE said(h) == UNION {out[h][i].pieces : i \in {j \in DOMAIN out[h] :
                                 out[h][j].kind \in {"bitfield", "have"}}}
  <2>1. ASSUME NEW h \in Host, stage[h] = 3
        PROVE  valid \subseteq said(h) \cup heard[h].pieces \cup haves[h] \cup remote[h]
    <3>1. ASSUME NEW p, Names(out[h], p) PROVE p \in said(h)
      <4>1. PICK i \in DOMAIN out[h] : out[h][i].kind \in {"bitfield", "have"} /\ p \in out[h][i].pieces
        BY <3>1 DEF Names
      <4>2. i \in {j \in DOMAIN out[h] : out[h][j].kind \in {"bitfield", "have"}}
        BY <4>1
      <4> QED
        BY <4>1, <4>2, Zenon
    <3>2. \A p \in valid : Names(out[h], p) \/ p \in heard[h].pieces \cup haves[h] \cup remote[h]
      BY <2>1 DEF LinksInv, Told
    <3> HIDE DEF said
    <3> QED
      BY <3>1, <3>2
  <2>2. ASSUME NEW h \in Host, out[h] # <<>>, Head(out[h]).kind = "piece" PROVE ~heard[h].choked
    <3>1. out[h] \in Seq(Message)
      BY DEF LinksInv, TypeOK
    <3>2. 1 \in DOMAIN out[h] /\ Head(out[h]) = out[h][1]
      BY <2>2, <3>1
    <3> QED
      BY <2>2, <3>2 DEF LinksInv, InOrder, PieceInFront
  <2>3. EveryPieceTold
    BY <2>1, Zenon DEF EveryPieceTold
  <2>4. NoPieceWhileChoked
    BY <2>2 DEF NoPieceWhileChoked
  <2> QED
    BY <2>3, <2>4
<1> QED
  BY <1>1, InitLinks, LinksStep, PTL DEF Spec
=============================================================================
