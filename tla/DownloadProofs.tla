--------------------------- MODULE DownloadProofs ---------------------------
(***************************************************************************)
(* The safety of Download for every set of links, pieces and sub-pieces.   *)
(* The counters of a piece are exact only because a sub-piece is asked of  *)
(* at most one link, and that in turn only because the counters say when   *)
(* nothing is free: the invariant Bookkeeping holds both.                  *)
(***************************************************************************)
EXTENDS Download, FiniteSetTheorems, TLAPS

-----------------------------------------------------------------------------
(* Finite sets.                                                            *)

\* The sub-pieces of a piece are finitely many and not none, and so are their parts.
LEMMA SubFinite ==
  ASSUME NEW i \in Piece
  PROVE  /\ IsFiniteSet(Sub(i)) /\ Sub(i) # {} /\ Sub(i) \subseteq Chunk
         /\ Cardinality(Sub(i)) \in Nat /\ Cardinality(Sub(i)) > 0
<1>1. Sub(i) \in SUBSET Chunk /\ Sub(i) # {}
  BY DownloadAssumption DEF Sub
<1>2. IsFiniteSet(Sub(i))
  BY <1>1, FS_Subset, DownloadAssumption
<1>3. Cardinality(Sub(i)) \in Nat /\ Cardinality(Sub(i)) # 0
  BY <1>1, <1>2, FS_CardinalityType, FS_EmptySet
<1> QED
  BY <1>1, <1>2, <1>3

LEMMA PartFinite ==
  ASSUME NEW i \in Piece, NEW S \in SUBSET Sub(i)
  PROVE  IsFiniteSet(S) /\ Cardinality(S) \in Nat
BY SubFinite, FS_Subset, FS_CardinalityType

\* Taking one element out, and adding the elements of a disjoint set.
LEMMA RemoveOne ==
  ASSUME NEW S, IsFiniteSet(S), NEW c \in S
  PROVE  Cardinality(S \ {c}) = Cardinality(S) - 1
BY FS_RemoveElement

LEMMA AddDisjoint ==
  ASSUME NEW S, NEW T, IsFiniteSet(S), IsFiniteSet(T), S \cap T = {}
  PROVE  Cardinality(S \cup T) = Cardinality(S) + Cardinality(T)
<1>1. Cardinality(S) \in Nat /\ Cardinality(T) \in Nat
  BY FS_CardinalityType
<1>2. Cardinality(S \cup T) = Cardinality(S) + Cardinality(T) - Cardinality(S \cap T)
  BY FS_Union
<1>3. Cardinality(S \cap T) = 0
  BY FS_EmptySet
<1> QED
  BY <1>1, <1>2, <1>3

-----------------------------------------------------------------------------
(* Types.                                                                  *)

LEMMA InitType == Init => TypeOK
<1> SUFFICES ASSUME Init PROVE TypeOK
  OBVIOUS
<1>1. ASSUME NEW i \in Piece PROVE Cardinality(Sub(i)) \in Int
  BY SubFinite
<1>3. left \in [Piece -> Int] /\ unrequested \in [Piece -> Int]
  BY <1>1 DEF Init
<1>4. fileLeft \in Int
  BY FS_CardinalityType, DownloadAssumption DEF Init
<1>2. reqs \in [Peer -> [Chunk -> Nat]] /\ asked \in [Chunk -> SUBSET Peer]
  BY DEF Init
<1>5. /\ valid \in [Piece -> BOOLEAN] /\ mcPeers \in [Piece -> Int]
      /\ conn \in [Peer -> {"none", "up", "closed"}] /\ has \in [Peer -> SUBSET Piece]
  BY DEF Init
<1>6. /\ remoteChoked \in [Peer -> BOOLEAN] /\ interested \in [Peer -> BOOLEAN]
      /\ goal \in [Peer -> BOOLEAN] /\ pending \in [Peer -> Int] /\ window \in [Peer -> Nat]
  BY DEF Init
<1>7. /\ alloc \subseteq Piece /\ got \subseteq Chunk /\ disk \subseteq Chunk /\ excluded \subseteq Piece
      /\ endMode \in BOOLEAN /\ running \in BOOLEAN
      /\ cur \in Peer \cup {NoPeer} /\ phase \in {"idle", "read", "ask"}
  BY DEF Init
<1> QED
  BY <1>2, <1>3, <1>4, <1>5, <1>6, <1>7 DEF TypeOK

\* Giving reservations back keeps the types.
LEMMA GiveBackType ==
  ASSUME TypeOK, NEW p \in Peer, NEW S \in SUBSET Chunk, NEW N \in SUBSET Chunk,
         GiveBack(p, S, N)
  PROVE  asked' \in [Chunk -> SUBSET Peer] /\ unrequested' \in [Piece -> Int]
<1>1. asked' \in [Chunk -> SUBSET Peer]
  BY DEF GiveBack, TypeOK
<1>2. ASSUME NEW i \in Piece
      PROVE  Cardinality(N \cap Sub(i)) \in Int
  <2>1. N \cap Sub(i) \in SUBSET Sub(i)
    OBVIOUS
  <2> QED
    BY <2>1, PartFinite
<1>3. ASSUME NEW i \in Piece
      PROVE  unrequested[i] + Cardinality(N \cap Sub(i)) \in Int
  <2>1. unrequested[i] \in Int
    BY DEF TypeOK
  <2>2. Cardinality(N \cap Sub(i)) \in Int
    BY <1>2
  <2> QED
    BY <2>1, <2>2
<1>4. unrequested' \in [Piece -> Int]
  BY <1>3 DEF GiveBack
<1> QED
  BY <1>1, <1>4

\* And so does closing a link.
LEMMA CloseType ==
  ASSUME TypeOK, NEW p \in Peer, Close(p), conn' \in [Peer -> {"none", "up", "closed"}],
         cur' \in Peer \cup {NoPeer}, phase' \in {"idle", "read", "ask"}
  PROVE  TypeOK'
<1>4. Released(p) \in SUBSET Chunk
  BY DEF Released
<1>1. asked' \in [Chunk -> SUBSET Peer] /\ unrequested' \in [Piece -> Int]
  BY <1>4, GiveBackType DEF Close
<1>2. mcPeers' \in [Piece -> Int] /\ has' \in [Peer -> SUBSET Piece]
  BY DEF Close, TypeOK
<1>3. reqs' \in [Peer -> [Chunk -> Nat]] /\ pending' \in [Peer -> Int]
  BY DEF Close, TypeOK
<1> QED
  BY <1>1, <1>2, <1>3 DEF Close, TypeOK

\* Every step keeps the types.
LEMMA StepType == TypeOK /\ [Next]_vars => TypeOK'
<1> SUFFICES ASSUME TypeOK, [Next]_vars PROVE TypeOK'
  OBVIOUS
<1> USE DEF pieceVars, linkVars
<1>1. ASSUME NEW p \in Peer, Connect(p) PROVE TypeOK'
  BY <1>1 DEF Connect, TypeOK
<1>2. ASSUME NEW p \in Peer, Disconnect(p) PROVE TypeOK'
  BY <1>2, CloseType DEF Disconnect, TypeOK
<1>3. ASSUME NEW p \in Peer, Reap(p) PROVE TypeOK'
  BY <1>3, CloseType DEF Reap, TypeOK
<1>4. ASSUME NEW p \in Peer, Begin(p) PROVE TypeOK'
  BY <1>4 DEF Begin, TypeOK
<1>5. ASSUME NEW p \in Peer, ReadChoke(p) PROVE TypeOK'
  BY <1>5, DownloadAssumption DEF ReadChoke, Lesser, TypeOK
<1>6. ASSUME NEW p \in Peer, ReadUnchoke(p) PROVE TypeOK'
  BY <1>6 DEF ReadUnchoke, TypeOK
<1>7. ASSUME NEW p \in Peer, NEW i \in Piece, ReadHave(p, i) PROVE TypeOK'
  BY <1>7 DEF ReadHave, TypeOK
<1>8. ASSUME NEW p \in Peer, NEW c \in Chunk, TakeRequest(p, c)
      PROVE  /\ reqs' \in [Peer -> [Chunk -> Nat]] /\ pending' \in [Peer -> Int]
             /\ window' \in [Peer -> Nat]
  BY <1>8, DownloadAssumption DEF TakeRequest, Lesser, TypeOK
<1>9. ASSUME NEW p \in Peer, NEW c \in Chunk, NEW fits \in BOOLEAN, ReadRejected(p, c, fits)
      PROVE  TypeOK'
  BY <1>9, <1>8 DEF ReadRejected, TypeOK
<1>10. ASSUME NEW p \in Peer, NEW c \in Chunk, NEW good \in BOOLEAN, NEW written \in BOOLEAN,
              ReadPiece(p, c, good, written)
       PROVE  TypeOK'
  <2>1. disk' \subseteq Chunk /\ running' \in BOOLEAN
    BY <1>10 DEF ReadPiece, Store, TypeOK
  <2>2. PieceOf[c] \in Piece
    BY DownloadAssumption
  <2>3. CASE Accept(c)
    BY <1>10, <1>8, <2>1, <2>2, <2>3 DEF ReadPiece, Accept, TypeOK
  <2>4. CASE Complete(c)
    <3>1. Cardinality(Sub(PieceOf[c])) \in Int
      BY <2>2, SubFinite
    <3> DEFINE n == IF Sub(PieceOf[c]) \subseteq disk' THEN 0 ELSE Cardinality(Sub(PieceOf[c]))
    <3>0. n \in Int
      BY <3>1
    <3>7. /\ left' = [left EXCEPT ![PieceOf[c]] = n]
          /\ unrequested' = [unrequested EXCEPT ![PieceOf[c]] = n]
      BY <2>4 DEF Complete
    <3>2. left' \in [Piece -> Int] /\ unrequested' \in [Piece -> Int]
      <4> HIDE DEF n
      <4> QED BY <3>0, <3>7 DEF TypeOK
    <3>3. fileLeft' \in Int
      BY <2>4 DEF Complete, TypeOK
    <3>4. valid' \in [Piece -> BOOLEAN]
      BY <2>4, Zenon DEF Complete, TypeOK
    <3>5. asked' \in [Chunk -> SUBSET Peer]
      BY <2>4 DEF Complete, TypeOK
    <3>6. alloc' \subseteq Piece /\ got' \subseteq Chunk
      BY <2>4 DEF Complete, TypeOK
    <3> QED
      BY <1>10, <1>8, <2>1, <3>2, <3>3, <3>4, <3>5, <3>6 DEF ReadPiece, TypeOK
  <2> QED
    BY <1>10, <2>3, <2>4 DEF ReadPiece
<1>11. ASSUME NEW p \in Peer, Drop(p) PROVE TypeOK'
  BY <1>11, CloseType DEF Drop, TypeOK
<1>12. ASSUME NEW p \in Peer, Work(p) PROVE TypeOK'
  BY <1>12 DEF Work, TypeOK
<1>13. ASSUME NEW p \in Peer, NEW old \in SUBSET Expirable(p), Check(p, old) PROVE TypeOK'
  <2>1. asked' \in [Chunk -> SUBSET Peer] /\ unrequested' \in [Piece -> Int]
    BY <1>13, GiveBackType DEF Check, Expire, Expirable
  <2>2. goal' \in [Peer -> BOOLEAN] /\ endMode' \in BOOLEAN
    BY <1>13 DEF Check, LookEnds, TypeOK
  <2> QED
    BY <1>13, <2>1, <2>2 DEF Check, TypeOK
<1>14. ASSUME NEW p \in Peer, NEW c \in Chunk, Ask(p, c) PROVE TypeOK'
  <2>1. PieceOf[c] \in Piece
    BY DownloadAssumption
  <2>2. asked' \in [Chunk -> SUBSET Peer] /\ unrequested' \in [Piece -> Int]
    BY <1>14, <2>1 DEF Ask, TypeOK
  <2>3. reqs' \in [Peer -> [Chunk -> Nat]] /\ pending' \in [Peer -> Int]
    BY <1>14 DEF Ask, TypeOK
  <2> QED
    BY <1>14, <2>1, <2>2, <2>3 DEF Ask, TypeOK
<1>15. ASSUME NEW p \in Peer, Finish(p) PROVE TypeOK'
  BY <1>15 DEF Finish, LookEnds, TypeOK
<1>16. ASSUME NEW p \in Peer, FinishSeeder(p) PROVE TypeOK'
  BY <1>16, CloseType DEF FinishSeeder, TypeOK
<1>17. CASE Pause
  BY <1>17 DEF Pause, TypeOK
<1>18. ASSUME NEW i \in Excludable, Prioritise(i) PROVE TypeOK'
  BY <1>18, DownloadAssumption DEF Prioritise, TypeOK
<1>19. CASE UNCHANGED vars
  BY <1>19 DEF vars, TypeOK
<1> QED
  BY <1>1, <1>2, <1>3, <1>4, <1>5, <1>6, <1>7, <1>9, <1>10, <1>11, <1>12, <1>13, <1>14,
     <1>15, <1>16, <1>17, <1>18, <1>19 DEF Next, Pass, Message

\* Every variable of the download core keeps its type (TypeOK).
THEOREM DownloadTypeCorrect == Spec => []TypeOK
BY InitType, StepType, PTL DEF Spec

-----------------------------------------------------------------------------
(* The bookkeeping of the sub-pieces.                                      *)

\* At most one link, and none for what is there.
Owners ==
  /\ \A c \in Chunk : \A p, q \in asked[c] : p = q
  /\ \A c \in got : asked[c] = {}

Bookkeeping == TypeOK /\ Owners /\ CountersExact

\* The initial state has it.
LEMMA InitBookkeeping == Init => Bookkeeping
<1> SUFFICES ASSUME Init PROVE Bookkeeping
  OBVIOUS
<1>1. Owners
  BY DEF Init, Owners
<1>2. ASSUME NEW i \in Piece
      PROVE  Counted(i)
  <2>1. Free(i) = Sub(i) /\ Sub(i) \ got = Sub(i)
    BY DEF Init, Free, Sub
  <2> QED
    BY <2>1, SubFinite DEF Init, Counted, Sub
<1> QED
  BY <1>1, <1>2, InitType DEF Bookkeeping, CountersExact

\* It survives when nothing of it changes.
LEMMA KeepBookkeeping ==
  ASSUME Bookkeeping, UNCHANGED <<valid, alloc, got, asked, left, unrequested>>
  PROVE  Owners' /\ CountersExact'
<1>1. Owners'
  BY DEF Bookkeeping, Owners
<1>2. ASSUME NEW i \in Piece
      PROVE  Counted(i)'
  <2>1. Free(i)' = Free(i)
    BY DEF Free
  <2> QED
    BY <2>1 DEF Bookkeeping, CountersExact, Counted
<1> QED
  BY <1>1, <1>2 DEF CountersExact

\* Reservations of a link are given back: each was its only one, of a sub-piece that
\* is not there, so each is free again.
LEMMA GiveBackBookkeeping ==
  ASSUME Bookkeeping, NEW p \in Peer, NEW S \in SUBSET Chunk, \A c \in S : p \in asked[c],
         GiveBack(p, S, S), UNCHANGED <<valid, alloc, got, left>>
  PROVE  Owners' /\ CountersExact'
<1> USE DEF Bookkeeping
<1>1. /\ \A c \in Chunk : asked'[c] = IF c \in S THEN asked[c] \ {p} ELSE asked[c]
      /\ \A i \in Piece : unrequested'[i] = unrequested[i] + Cardinality(S \cap Sub(i))
  BY DEF GiveBack
<1>2. ASSUME NEW c \in S
      PROVE  asked[c] = {p} /\ asked'[c] = {} /\ c \notin got
  <2>1. c \in Chunk /\ p \in asked[c] /\ asked[c] \in SUBSET Peer
    BY DEF TypeOK
  <2>2. \A q \in asked[c] : q = p
    BY <2>1 DEF Owners
  <2>3. asked[c] = {p}
    BY <2>1, <2>2
  <2>4. asked'[c] = {}
    BY <1>1, <2>1, <2>3
  <2>5. c \notin got
    BY <2>1 DEF Owners
  <2> QED
    BY <2>3, <2>4, <2>5
<1>3. Owners'
  <2>1. \A c \in Chunk : asked'[c] \in SUBSET asked[c]
    BY <1>1
  <2>2. \A c \in Chunk : \A q, r \in asked'[c] : q = r
    BY <2>1 DEF Owners
  <2>3. \A c \in got' : asked'[c] = {}
    BY <2>1 DEF Owners, TypeOK
  <2> QED
    BY <2>2, <2>3 DEF Owners
<1>4. ASSUME NEW i \in Piece
      PROVE  Counted(i)'
  <2> DEFINE G == S \cap Sub(i)
  <2>1. Counted(i)
    BY DEF CountersExact
  <2>2. i \notin alloc => /\ G = {}
                          /\ \A c \in Sub(i) : c \notin got' /\ asked'[c] = {}
    BY <1>1, <1>2, <2>1 DEF Counted, Sub
  <2>3. Free(i) \in SUBSET Sub(i) /\ G \in SUBSET Sub(i)
    BY DEF Free
  <2>4. /\ IsFiniteSet(Free(i)) /\ IsFiniteSet(G)
        /\ Cardinality(Free(i)) \in Nat /\ Cardinality(G) \in Nat
    BY <2>3, PartFinite
  <2>5. Free(i) \cap G = {}
    BY <1>2 DEF Free
  <2>6. Free(i)' = Free(i) \cup G
    BY <1>1, <1>2 DEF Free, Sub
  <2>7. Cardinality(Free(i)') = Cardinality(Free(i)) + Cardinality(G)
    BY <2>4, <2>5, <2>6, AddDisjoint
  <2>8. unrequested'[i] = unrequested[i] + Cardinality(G)
    BY <1>1
  <2>9. CASE ~valid[i]
    BY <2>1, <2>2, <2>7, <2>8, <2>9 DEF Counted
  <2>10. CASE valid[i]
    <3>1. Cardinality(G) = 0
      BY <2>1, <2>2, <2>10, FS_EmptySet DEF Counted
    <3> QED
      BY <2>1, <2>2, <2>8, <2>10, <3>1 DEF Counted
  <2> QED
    BY <2>9, <2>10
<1> QED
  BY <1>3, <1>4 DEF CountersExact

\* The reservations that a close and a check give back are the link's own.
LEMMA CloseBookkeeping ==
  ASSUME Bookkeeping, NEW p \in Peer, Close(p)
  PROVE  Owners' /\ CountersExact'
<1>1. Released(p) \in SUBSET Chunk /\ \A c \in Released(p) : p \in asked[c]
  BY DEF Released
<1> QED
  BY <1>1, GiveBackBookkeeping DEF Close

LEMMA ExpireBookkeeping ==
  ASSUME Bookkeeping, NEW p \in Peer, NEW old \in SUBSET Expirable(p), Expire(p, old),
         UNCHANGED <<valid, alloc, got, left>>
  PROVE  Owners' /\ CountersExact'
<1>1. old \in SUBSET Chunk /\ \A c \in old : p \in asked[c]
  BY DEF Expirable
<1>2. {c \in old : asked[c] = {p}} = old
  BY <1>1 DEF Bookkeeping, Owners, TypeOK
<1> QED
  BY <1>1, <1>2, GiveBackBookkeeping DEF Expire

\* A block is accepted and its piece is not complete.
LEMMA AcceptBookkeeping ==
  ASSUME Bookkeeping, NEW c \in Chunk, ~Rejects(c, TRUE), Accept(c)
  PROVE  Owners' /\ CountersExact'
<1> USE DEF Bookkeeping
<1> DEFINE i == PieceOf[c]
<1>1. i \in Piece /\ ~valid[i] /\ i \in alloc /\ c \notin got /\ c \in Sub(i)
  BY DownloadAssumption DEF Rejects, Sub
<1>2. Owners'
  BY DEF Accept, Owners, TypeOK
<1>3. ASSUME NEW j \in Piece, j # i
      PROVE  Counted(j)'
  <2>1. Counted(j) /\ c \notin Sub(j)
    BY <1>3 DEF CountersExact, Sub
  <2>2. Free(j)' = Free(j) /\ Sub(j) \ got' = Sub(j) \ got
    BY <2>1 DEF Accept, Free, TypeOK, Sub
  <2>3. unrequested'[j] = unrequested[j] /\ left'[j] = left[j] /\ valid'[j] = valid[j]
        /\ alloc' = alloc
    BY <1>3 DEF Accept, TypeOK
  <2>4. \A d \in Sub(j) : (d \in got' <=> d \in got) /\ asked'[d] = asked[d]
    BY <2>1 DEF Accept, TypeOK, Sub
  <2> QED
    BY <2>1, <2>2, <2>3, <2>4 DEF Counted
<1>4. Counted(i)'
  <2>1. Counted(i)
    BY <1>1 DEF CountersExact
  <2>2. Free(i) \in SUBSET Sub(i) /\ Sub(i) \ got \in SUBSET Sub(i) /\ c \in Sub(i) \ got
    BY <1>1 DEF Free
  <2>3. /\ IsFiniteSet(Free(i)) /\ Cardinality(Free(i)) \in Nat
        /\ IsFiniteSet(Sub(i) \ got) /\ Cardinality(Sub(i) \ got) \in Nat
    BY <1>1, <2>2, PartFinite
  <2>4. Sub(i) \ got' = (Sub(i) \ got) \ {c}
    BY DEF Accept
  <2>5. Cardinality(Sub(i) \ got') = Cardinality(Sub(i) \ got) - 1
    BY <2>2, <2>3, <2>4, RemoveOne
  <2>6. left'[i] = left[i] - 1 /\ left[i] # 1 /\ valid' = valid /\ alloc' = alloc
    BY <1>1 DEF Accept, TypeOK
  <2>7. unrequested'[i] = Cardinality(Free(i)')
    <3>1. CASE asked[c] = {}
      <4>1. c \in Free(i) /\ Free(i)' = Free(i) \ {c}
        BY <1>1, <3>1 DEF Accept, Free, TypeOK, Sub
      <4>2. Cardinality(Free(i)') = Cardinality(Free(i)) - 1
        BY <2>3, <4>1, RemoveOne
      <4> QED
        BY <1>1, <2>1, <3>1, <4>2 DEF Accept, Counted, TypeOK
    <3>2. CASE asked[c] # {}
      <4>1. Free(i)' = Free(i)
        BY <1>1, <3>2 DEF Accept, Free, TypeOK, Sub
      <4> QED
        BY <1>1, <2>1, <3>2, <4>1 DEF Accept, Counted, TypeOK
    <3> QED
      BY <3>1, <3>2
  <2>8. left[i] = Cardinality(Sub(i) \ got) /\ left[i] \in Int /\ left[i] > 0
    BY <1>1, <2>1 DEF Counted, TypeOK
  <2>9. left'[i] = Cardinality(Sub(i) \ got') /\ left'[i] > 0
    BY <2>5, <2>6, <2>8
  <2> QED
    BY <1>1, <2>6, <2>7, <2>9 DEF Counted
<1> QED
  BY <1>2, <1>3, <1>4 DEF CountersExact

\* A block is accepted and completes its piece, which is valid or starts again.
LEMMA CompleteBookkeeping ==
  ASSUME Bookkeeping, NEW c \in Chunk, ~Rejects(c, TRUE), Complete(c)
  PROVE  Owners' /\ CountersExact'
<1> USE DEF Bookkeeping
<1> DEFINE i == PieceOf[c]
           n == IF Sub(i) \subseteq disk' THEN 0 ELSE Cardinality(Sub(i))
<1>1. i \in Piece /\ Cardinality(Sub(i)) \in Nat /\ Cardinality(Sub(i)) > 0
  BY DownloadAssumption, SubFinite
<1>2. /\ alloc' = alloc \ {i} /\ got' = got \ Sub(i)
      /\ asked' = [d \in Chunk |-> IF d \in Sub(i) THEN {} ELSE asked[d]]
  BY DEF Complete
<1>3. Owners'
  BY <1>2 DEF Owners, TypeOK
<1>4. ASSUME NEW j \in Piece, j # i
      PROVE  Counted(j)'
  <2>1. Counted(j) /\ Sub(j) \cap Sub(i) = {}
    BY <1>4 DEF CountersExact, Sub
  <2>2. \A d \in Sub(j) : (d \in got' <=> d \in got) /\ asked'[d] = asked[d]
    BY <1>2, <2>1 DEF Sub
  <2>3. Free(j)' = Free(j) /\ Sub(j) \ got' = Sub(j) \ got
    BY <2>2 DEF Free
  <2>4. /\ unrequested'[j] = unrequested[j] /\ left'[j] = left[j]
        /\ valid'[j] = valid[j] /\ (j \in alloc' <=> j \in alloc)
    BY <1>2, <1>4 DEF Complete, TypeOK
  <2> QED
    BY <2>1, <2>2, <2>3, <2>4 DEF Counted
<1>5. Counted(i)'
  <2>1. Sub(i) \ got' = Sub(i) /\ Free(i)' = Sub(i) /\ i \notin alloc'
    BY <1>2 DEF Free, Sub
  <2>2. \A d \in Sub(i) : d \notin got' /\ asked'[d] = {}
    BY <1>2 DEF Sub
  <2>3. unrequested'[i] = n /\ left'[i] = n
    BY <1>1 DEF Complete, TypeOK
  <2>4. valid'[i] <=> Sub(i) \subseteq disk'
    BY <1>1 DEF Complete, TypeOK
  <2> QED
    BY <1>1, <2>1, <2>2, <2>3, <2>4 DEF Counted
<1> QED
  BY <1>3, <1>4, <1>5 DEF CountersExact

\* A free sub-piece is asked of the link.
LEMMA AskBookkeeping ==
  ASSUME Bookkeeping, NEW p \in Peer, NEW c \in Chunk, Ask(p, c)
  PROVE  Owners' /\ CountersExact'
<1> USE DEF Bookkeeping
<1> DEFINE i == PieceOf[c]
<1>1. i \in Piece /\ ~valid[i] /\ c \in Free(i) /\ c \in Sub(i) /\ c \notin got /\ asked[c] = {}
  BY DownloadAssumption DEF Ask, Wanted, FirstFree, Free
<1>2. /\ asked' = [asked EXCEPT ![c] = {p}] /\ alloc' = alloc \cup {i}
      /\ unrequested' = [unrequested EXCEPT ![i] = @ - 1]
      /\ UNCHANGED <<valid, got, left>>
  BY <1>1 DEF Ask, TypeOK
<1>3. Owners'
  BY <1>1, <1>2 DEF Owners, TypeOK
<1>4. ASSUME NEW j \in Piece, j # i
      PROVE  Counted(j)'
  <2>1. Counted(j) /\ c \notin Sub(j)
    BY <1>4 DEF CountersExact, Sub
  <2>2. \A d \in Sub(j) : asked'[d] = asked[d]
    BY <1>2, <2>1 DEF Sub, TypeOK
  <2>3. Free(j)' = Free(j)
    BY <1>2, <2>2 DEF Free
  <2>4. unrequested'[j] = unrequested[j] /\ (j \in alloc' <=> j \in alloc)
    BY <1>2, <1>4 DEF TypeOK
  <2> QED
    BY <1>2, <2>1, <2>2, <2>3, <2>4 DEF Counted
<1>5. Counted(i)'
  <2>1. Counted(i)
    BY <1>1 DEF CountersExact
  <2>2. Free(i) \in SUBSET Sub(i)
    BY DEF Free
  <2>3. IsFiniteSet(Free(i)) /\ Cardinality(Free(i)) \in Nat
    BY <1>1, <2>2, PartFinite
  <2>4. Free(i)' = Free(i) \ {c}
    BY <1>1, <1>2 DEF Free, Sub, TypeOK
  <2>5. Cardinality(Free(i)') = Cardinality(Free(i)) - 1
    BY <1>1, <2>3, <2>4, RemoveOne
  <2>6. unrequested'[i] = unrequested[i] - 1
    BY <1>1, <1>2 DEF TypeOK
  <2> QED
    BY <1>1, <1>2, <2>1, <2>5, <2>6 DEF Counted
<1> QED
  BY <1>3, <1>4, <1>5 DEF CountersExact

\* Every step keeps the bookkeeping.
LEMMA StepBookkeeping == Bookkeeping /\ [Next]_vars => Bookkeeping'
<1> SUFFICES ASSUME Bookkeeping, [Next]_vars PROVE Owners' /\ CountersExact'
  BY StepType DEF Bookkeeping
<1> USE DEF pieceVars, linkVars
<1>1. ASSUME NEW p \in Peer, Close(p) PROVE Owners' /\ CountersExact'
  BY <1>1, CloseBookkeeping
<1>2. ASSUME NEW p \in Peer, NEW old \in SUBSET Expirable(p), Check(p, old)
      PROVE  Owners' /\ CountersExact'
  BY <1>2, ExpireBookkeeping DEF Check
<1>3. ASSUME NEW p \in Peer, NEW c \in Chunk, NEW good \in BOOLEAN, NEW written \in BOOLEAN,
             ReadPiece(p, c, good, written)
      PROVE  Owners' /\ CountersExact'
  BY <1>3, AcceptBookkeeping, CompleteBookkeeping DEF ReadPiece
<1>4. ASSUME NEW p \in Peer, NEW c \in Chunk, Ask(p, c) PROVE Owners' /\ CountersExact'
  BY <1>4, AskBookkeeping
<1>5. CASE UNCHANGED <<valid, alloc, got, asked, left, unrequested>>
  BY <1>5, KeepBookkeeping
<1>6. ASSUME NEW p \in Peer, Connect(p) \/ Disconnect(p) \/ Reap(p)
      PROVE  Owners' /\ CountersExact'
  BY <1>1, <1>5, <1>6 DEF Connect, Disconnect, Reap
<1>7. ASSUME NEW p \in Peer, Message(p) PROVE Owners' /\ CountersExact'
  BY <1>3, <1>5, <1>7 DEF Message, ReadChoke, ReadUnchoke, ReadHave, ReadRejected
<1>8. ASSUME NEW p \in Peer, Begin(p) \/ Drop(p) \/ Work(p) \/ Finish(p) \/ FinishSeeder(p)
      PROVE  Owners' /\ CountersExact'
  BY <1>1, <1>5, <1>8 DEF Begin, Drop, Work, Finish, FinishSeeder
<1>9. CASE Pause \/ \E i \in Excludable : Prioritise(i)
  BY <1>5, <1>9 DEF Pause, Prioritise
<1>10. CASE UNCHANGED vars
  BY <1>5, <1>10 DEF vars
<1> QED
  BY <1>2, <1>4, <1>6, <1>7, <1>8, <1>9, <1>10 DEF Next, Pass

LEMMA BookkeepingInvariant == Spec => []Bookkeeping
BY InitBookkeeping, StepBookkeeping, PTL DEF Spec

\* The counters of every piece say what its sub-pieces say (CountersExact), through
\* late answers, timeouts, closed links and rejected pieces.
THEOREM CountersAreExact == Spec => []CountersExact
<1>1. Bookkeeping => CountersExact
  BY DEF Bookkeeping
<1> QED
  BY <1>1, BookkeepingInvariant, PTL

\* A sub-piece is asked of one link at a time and none once it is there, and a piece
\* that counts unrequested sub-pieces has one (AskedOnce): neither assertion of
\* Cbt_piece can fail.
THEOREM AskedOfOneLink == Spec => []AskedOnce
<1>1. Bookkeeping => AskedOnce
  <2> SUFFICES ASSUME Bookkeeping PROVE AskedOnce
    OBVIOUS
  <2>1. ASSUME NEW i \in Piece, ~valid[i], unrequested[i] # 0
        PROVE  Free(i) # {}
    BY <2>1, FS_EmptySet DEF Bookkeeping, CountersExact, Counted
  <2> QED
    BY <2>1 DEF Bookkeeping, Owners, AskedOnce
<1> QED
  BY <1>1, BookkeepingInvariant, PTL

-----------------------------------------------------------------------------
(* Requests and reservations.                                              *)

\* Only a block of the wrong size leaves a reservation without a request
\* (OnlyMissizedLeaks).
LEMMA LeakingStep == Bookkeeping /\ [Next]_vars => [LeakStep]_vars
<1> SUFFICES ASSUME Bookkeeping, Next PROVE LeakStep
  BY DEF vars
<1> USE DEF pieceVars, linkVars
<1>1. \A c \in Chunk : asked[c] # {} => /\ PieceOf[c] \in alloc /\ ~valid[PieceOf[c]]
                                       /\ c \notin got
  BY DownloadAssumption DEF Bookkeeping, Owners, CountersExact, Counted, Sub
<1>2. CASE UNCHANGED <<asked, reqs>>
  BY <1>2 DEF LeakStep, Leaked
<1>3. ASSUME NEW p \in Peer, Close(p) PROVE LeakStep
  <2>1. \A c \in Chunk : p \in asked[c] /\ reqs[p][c] # 0 => asked'[c] = asked[c] \ {p}
    BY <1>1, <1>3 DEF Close, GiveBack, Released, Bookkeeping, TypeOK
  <2>2. \A c \in Chunk : asked'[c] \subseteq asked[c]
    BY <1>3 DEF Close, GiveBack, Bookkeeping, TypeOK
  <2>3. \A q \in Peer : q # p => reqs'[q] = reqs[q]
    BY <1>3 DEF Close, Bookkeeping, TypeOK
  <2> QED
    BY <2>1, <2>2, <2>3 DEF LeakStep, Leaked, Bookkeeping, TypeOK
<1>4. ASSUME NEW p \in Peer, NEW old \in SUBSET Expirable(p), Check(p, old) PROVE LeakStep
  <2>1. \A c \in Chunk : asked'[c] \subseteq asked[c]
    BY <1>4 DEF Check, Expire, GiveBack, Bookkeeping, TypeOK
  <2> QED
    BY <1>4, <2>1 DEF Check, LeakStep, Leaked
<1>5. ASSUME NEW p \in Peer, NEW c \in Chunk, NEW fits \in BOOLEAN,
             fits \/ p \in Missizing, ReadRejected(p, c, fits)
      PROVE  LeakStep
  <2>1. CASE fits
    <3>1. asked[c] = {} /\ asked' = asked
      BY <1>1, <1>5, <2>1 DEF ReadRejected, Rejects
    <3>2. \A q \in Peer, d \in Chunk : d # c => reqs'[q][d] = reqs[q][d]
      BY <1>5 DEF ReadRejected, TakeRequest, Bookkeeping, TypeOK
    <3> QED
      BY <3>1, <3>2 DEF LeakStep, Leaked, Bookkeeping, TypeOK
  <2>2. CASE ~fits
    BY <1>5, <2>2 DEF LeakStep
  <2> QED
    BY <2>1, <2>2
<1>6. ASSUME NEW p \in Peer, NEW c \in Chunk, NEW good \in BOOLEAN, NEW written \in BOOLEAN,
             ReadPiece(p, c, good, written)
      PROVE  LeakStep
  <2>1. \A q \in Peer, d \in Chunk : d # c => reqs'[q][d] = reqs[q][d]
    BY <1>6 DEF ReadPiece, TakeRequest, Bookkeeping, TypeOK
  <2>2. asked'[c] = {} /\ \A d \in Chunk : asked'[d] \subseteq asked[d]
    <3>1. CASE Accept(c)
      BY <3>1 DEF Accept, Bookkeeping, TypeOK
    <3>2. CASE Complete(c)
      BY <3>2 DEF Complete, Sub, Bookkeeping, TypeOK
    <3> QED
      BY <1>6, <3>1, <3>2 DEF ReadPiece
  <2> QED
    BY <2>1, <2>2 DEF LeakStep, Leaked, Bookkeeping, TypeOK
<1>7. ASSUME NEW p \in Peer, NEW c \in Chunk, Ask(p, c) PROVE LeakStep
  <2>1. asked[c] = {}
    BY <1>7 DEF Ask, FirstFree, Free
  <2>2. asked' = [asked EXCEPT ![c] = {p}] /\ reqs' = [reqs EXCEPT ![p][c] = @ + 1]
    BY <1>7, <2>1 DEF Ask, Bookkeeping, TypeOK
  <2>3. \A d \in Chunk : d # c => asked'[d] = asked[d]
    BY <2>2 DEF Bookkeeping, TypeOK
  <2>4. \A q \in Peer, d \in Chunk : d # c => reqs'[q][d] = reqs[q][d]
    BY <2>2 DEF Bookkeeping, TypeOK
  <2>5. asked'[c] = {p} /\ reqs'[p][c] # 0
    BY <2>2 DEF Bookkeeping, TypeOK
  <2> QED
    BY <2>3, <2>4, <2>5 DEF LeakStep, Leaked, Bookkeeping, TypeOK
<1>8. ASSUME NEW p \in Peer, Connect(p) \/ Disconnect(p) \/ Reap(p) PROVE LeakStep
  BY <1>2, <1>3, <1>8 DEF Connect, Disconnect, Reap
<1>9. ASSUME NEW p \in Peer, Message(p) PROVE LeakStep
  BY <1>2, <1>5, <1>6, <1>9 DEF Message, ReadChoke, ReadUnchoke, ReadHave
<1>10. ASSUME NEW p \in Peer, Begin(p) \/ Drop(p) \/ Work(p) \/ Finish(p) \/ FinishSeeder(p)
       PROVE  LeakStep
  BY <1>2, <1>3, <1>10 DEF Begin, Drop, Work, Finish, FinishSeeder
<1>11. CASE Pause \/ \E i \in Excludable : Prioritise(i)
  BY <1>2, <1>11 DEF Pause, Prioritise
<1> QED
  BY <1>4, <1>7, <1>8, <1>9, <1>10, <1>11 DEF Next, Pass

\* Only a block of the wrong size leaves a reservation without a request that an
\* answer, a close or a timeout could find (OnlyMissizedLeaks).
THEOREM ReservationsHaveRequests == Spec => OnlyMissizedLeaks
BY BookkeepingInvariant, LeakingStep, PTL DEF Spec, OnlyMissizedLeaks

-----------------------------------------------------------------------------
(* Pieces on disk.                                                         *)

\* ValidIsOnDisk is inductive together with the types: a block that is written
\* belongs to a piece that is not valid, and only the hash makes a piece valid.
LEMMA InitDisk == Init => ValidIsOnDisk
<1> SUFFICES ASSUME Init PROVE ValidIsOnDisk
  OBVIOUS
<1>1. Invalid = Piece
  BY DEF Init, Invalid
<1> QED
  BY <1>1 DEF Init, ValidIsOnDisk

LEMMA CompleteDisk ==
  ASSUME TypeOK, ValidIsOnDisk, NEW c \in Chunk, ~valid[PieceOf[c]], Complete(c),
         NEW good \in BOOLEAN, NEW written \in BOOLEAN, Store(c, good, written)
  PROVE  ValidIsOnDisk'
<1> DEFINE i == PieceOf[c]
<1>2. i \in Piece /\ i \in Invalid
  BY DownloadAssumption DEF Invalid
<1>3. \A j \in Piece : valid'[j] = IF j = i THEN Sub(i) \subseteq disk' ELSE valid[j]
  BY <1>2, Zenon DEF Complete, TypeOK
<1>4. ASSUME NEW j \in Piece, valid'[j]
      PROVE  Sub(j) \subseteq disk'
  <2>1. CASE j = i
    BY <1>3, <1>4, <2>1
  <2>2. CASE j # i
    <3>1. valid[j] /\ c \notin Sub(j)
      BY <1>3, <1>4, <2>2 DEF Sub
    <3>2. Sub(j) \subseteq disk /\ disk \ {c} \subseteq disk'
      BY <3>1 DEF ValidIsOnDisk, Store
    <3> QED
      BY <3>1, <3>2
  <2> QED
    BY <2>1, <2>2
<1>5. Invalid \in SUBSET Piece /\ IsFiniteSet(Invalid) /\ Cardinality(Invalid) \in Nat
  <2>1. Invalid \in SUBSET Piece
    BY DEF Invalid
  <2> QED
    BY <2>1, DownloadAssumption, FS_Subset, FS_CardinalityType
<1>6. fileLeft' = Cardinality(Invalid')
  <2>1. CASE Sub(i) \subseteq disk'
    <3>1. Invalid' = Invalid \ {i}
      BY <1>3, <2>1 DEF Invalid
    <3>2. fileLeft' = fileLeft - 1
      BY <2>1 DEF Complete
    <3>3. Cardinality(Invalid') = Cardinality(Invalid) - 1
      BY <1>2, <1>5, <3>1, RemoveOne
    <3> QED
      BY <3>2, <3>3 DEF ValidIsOnDisk
  <2>2. CASE ~(Sub(i) \subseteq disk')
    <3>1. Invalid' = Invalid
      BY <1>2, <1>3, <2>2 DEF Invalid
    <3> QED
      BY <2>2, <3>1 DEF Complete, ValidIsOnDisk
  <2> QED
    BY <2>1, <2>2
<1> QED
  BY <1>4, <1>6 DEF ValidIsOnDisk

LEMMA StepDisk == TypeOK /\ ValidIsOnDisk /\ [Next]_vars => ValidIsOnDisk'
<1> SUFFICES ASSUME TypeOK, ValidIsOnDisk, [Next]_vars PROVE ValidIsOnDisk'
  OBVIOUS
<1> USE DEF pieceVars, linkVars
<1>1. CASE UNCHANGED <<valid, disk, fileLeft>>
  <2>1. Invalid' = Invalid
    BY <1>1 DEF Invalid
  <2> QED
    BY <1>1, <2>1 DEF ValidIsOnDisk
<1>2. ASSUME NEW p \in Peer, NEW c \in Chunk, NEW good \in BOOLEAN, NEW written \in BOOLEAN,
             ReadPiece(p, c, good, written)
      PROVE  ValidIsOnDisk'
  <2>1. ~valid[PieceOf[c]]
    BY <1>2 DEF ReadPiece, Rejects
  <2>2. CASE Complete(c)
    BY <1>2, <2>1, <2>2, CompleteDisk DEF ReadPiece
  <2>3. CASE Accept(c)
    <3>1. valid' = valid /\ fileLeft' = fileLeft /\ Invalid' = Invalid
      BY <2>3 DEF Accept, Invalid
    <3>2. disk \ {c} \subseteq disk'
      BY <1>2 DEF ReadPiece, Store
    <3>3. \A j \in Piece : valid[j] => c \notin Sub(j)
      BY <2>1 DEF Sub
    <3> QED
      BY <3>1, <3>2, <3>3 DEF ValidIsOnDisk
  <2> QED
    BY <1>2, <2>2, <2>3 DEF ReadPiece
<1>3. ASSUME NEW p \in Peer, Connect(p) \/ Disconnect(p) \/ Reap(p) PROVE ValidIsOnDisk'
  BY <1>1, <1>3 DEF Connect, Disconnect, Reap, Close
<1>4. ASSUME NEW p \in Peer, Message(p) PROVE ValidIsOnDisk'
  BY <1>1, <1>2, <1>4 DEF Message, ReadChoke, ReadUnchoke, ReadHave, ReadRejected
<1>5. ASSUME NEW p \in Peer, Begin(p) \/ Drop(p) \/ Work(p) \/ Finish(p) \/ FinishSeeder(p)
      PROVE  ValidIsOnDisk'
  BY <1>1, <1>5 DEF Begin, Drop, Work, Finish, FinishSeeder, Close
<1>6. ASSUME NEW p \in Peer, NEW old \in SUBSET Expirable(p), Check(p, old)
      PROVE  ValidIsOnDisk'
  BY <1>1, <1>6 DEF Check
<1>7. ASSUME NEW p \in Peer, NEW c \in Chunk, Ask(p, c) PROVE ValidIsOnDisk'
  BY <1>1, <1>7 DEF Ask
<1>8. CASE Pause \/ \E i \in Excludable : Prioritise(i)
  BY <1>1, <1>8 DEF Pause, Prioritise
<1>9. CASE UNCHANGED vars
  BY <1>1, <1>9 DEF vars
<1> QED
  BY <1>3, <1>4, <1>5, <1>6, <1>7, <1>8, <1>9 DEF Next, Pass

\* A valid piece has its right bytes on disk and m_left counts the others
\* (ValidIsOnDisk), whatever peers send late or wrongly and whatever the disk does.
THEOREM ValidPiecesAreOnDisk == Spec => []ValidIsOnDisk
BY InitDisk, StepDisk, DownloadTypeCorrect, PTL DEF Spec

-----------------------------------------------------------------------------
(* Availability.                                                           *)

\* A link is visited only while it is up.
VisitUp == phase # "idle" => cur \in Peer /\ conn[cur] = "up"

Availability == TypeOK /\ VisitUp /\ AvailabilityExact

Holders(i) == {p \in Peer : i \in has[p]}

LEMMA InitAvailability == Init => Availability
<1> SUFFICES ASSUME Init PROVE Availability
  OBVIOUS
<1>1. VisitUp
  BY DEF Init, VisitUp
<1>2. ASSUME NEW i \in Piece
      PROVE  mcPeers[i] = Cardinality({p \in Peer : i \in has[p]})
  <2>1. {p \in Peer : i \in has[p]} = {}
    BY DEF Init
  <2> QED
    BY <2>1, FS_EmptySet DEF Init
<1>3. \A p \in Peer : has[p] = {}
  BY DEF Init
<1> QED
  BY <1>1, <1>2, <1>3, InitType DEF Availability, AvailabilityExact

LEMMA HoldersFinite ==
  ASSUME NEW i
  PROVE  IsFiniteSet(Holders(i)) /\ Cardinality(Holders(i)) \in Nat
<1>1. Holders(i) \subseteq Peer
  BY DEF Holders
<1> QED
  BY <1>1, DownloadAssumption, FS_Subset, FS_CardinalityType

\* A close takes the link out of the holders of each of its pieces, and of nothing
\* when it was closed before.
LEMMA CloseAvailability ==
  ASSUME Availability, NEW p \in Peer, Close(p)
  PROVE  /\ \A i \in Piece : mcPeers'[i] = Cardinality({q \in Peer : i \in has'[q]})
         /\ has'[p] = {} /\ \A q \in Peer : q # p => has'[q] = has[q]
<1>1. has'[p] = {} /\ \A q \in Peer : q # p => has'[q] = has[q]
  BY DEF Close, Availability, TypeOK
<1>2. ASSUME NEW i \in Piece
      PROVE  mcPeers'[i] = Cardinality(Holders(i)')
  <2>1. mcPeers[i] = Cardinality(Holders(i))
    BY DEF Availability, AvailabilityExact, Holders
  <2>2. mcPeers'[i] = IF i \in has[p] THEN mcPeers[i] - 1 ELSE mcPeers[i]
    BY DEF Close
  <2>3. CASE i \in has[p]
    <3>1. p \in Holders(i) /\ Holders(i)' = Holders(i) \ {p}
      BY <1>1, <2>3 DEF Holders
    <3>2. Cardinality(Holders(i)') = Cardinality(Holders(i)) - 1
      BY <3>1, HoldersFinite, RemoveOne
    <3> QED
      BY <2>1, <2>2, <2>3, <3>2
  <2>4. CASE i \notin has[p]
    <3>1. Holders(i)' = Holders(i)
      BY <1>1, <2>4 DEF Holders
    <3> QED
      BY <2>1, <2>2, <2>4, <3>1
  <2> QED
    BY <2>3, <2>4
<1> QED
  BY <1>1, <1>2 DEF Holders

LEMMA HaveAvailability ==
  ASSUME Availability, NEW p \in Peer, NEW i \in Piece, ReadHave(p, i)
  PROVE  AvailabilityExact'
<1>1. has'[p] = has[p] \cup {i} /\ \A q \in Peer : q # p => has'[q] = has[q]
  BY DEF ReadHave, Availability, TypeOK
<1>2. i \notin has[p] /\ conn[p] = "up" /\ conn' = conn
  BY DEF ReadHave, Reading, Availability, VisitUp
<1>3. ASSUME NEW j \in Piece
      PROVE  mcPeers'[j] = Cardinality(Holders(j)')
  <2>1. mcPeers[j] = Cardinality(Holders(j))
    BY DEF Availability, AvailabilityExact, Holders
  <2>2. CASE j = i
    <3>1. p \notin Holders(i) /\ Holders(i)' = Holders(i) \cup {p}
      BY <1>1, <1>2 DEF Holders
    <3>2. Cardinality(Holders(i)') = Cardinality(Holders(i)) + 1
      BY <3>1, HoldersFinite, FS_AddElement
    <3>3. mcPeers'[i] = mcPeers[i] + 1
      BY DEF ReadHave, Availability, TypeOK
    <3> QED
      BY <2>1, <2>2, <3>2, <3>3
  <2>3. CASE j # i
    <3>1. Holders(j)' = Holders(j)
      BY <1>1, <2>3 DEF Holders
    <3>2. mcPeers'[j] = mcPeers[j]
      BY <2>3 DEF ReadHave, Availability, TypeOK
    <3> QED
      BY <2>1, <3>1, <3>2
  <2> QED
    BY <2>2, <2>3
<1>4. ASSUME NEW q \in Peer, conn'[q] # "up"
      PROVE  has'[q] = {}
  BY <1>1, <1>2, <1>4 DEF Availability, AvailabilityExact
<1> QED
  BY <1>3, <1>4 DEF AvailabilityExact, Holders

LEMMA StepAvailability == Availability /\ [Next]_vars => Availability'
<1> SUFFICES ASSUME Availability, [Next]_vars PROVE VisitUp' /\ AvailabilityExact'
  BY StepType DEF Availability
<1> USE DEF pieceVars, linkVars
<1>1. CASE UNCHANGED <<mcPeers, has, conn, cur, phase>>
  BY <1>1 DEF Availability, VisitUp, AvailabilityExact
<1>2. ASSUME UNCHANGED <<mcPeers, has, conn>> PROVE AvailabilityExact'
  BY <1>2 DEF Availability, AvailabilityExact
<1>3. ASSUME NEW p \in Peer, Close(p), phase' = "idle",
             conn' = [conn EXCEPT ![p] = "none"] \/ conn' = [conn EXCEPT ![p] = "closed"]
      PROVE  VisitUp' /\ AvailabilityExact'
  <2>1. VisitUp'
    BY <1>3 DEF VisitUp
  <2>2. \A q \in Peer : conn'[q] # "up" => has'[q] = {}
    BY <1>3, CloseAvailability DEF Availability, AvailabilityExact, TypeOK
  <2> QED
    BY <1>3, <2>1, <2>2, CloseAvailability DEF AvailabilityExact
<1>4. ASSUME NEW p \in Peer, Disconnect(p) \/ Reap(p) \/ Drop(p) \/ FinishSeeder(p)
      PROVE  VisitUp' /\ AvailabilityExact'
  BY <1>3, <1>4 DEF Disconnect, Reap, Drop, FinishSeeder
<1>5. ASSUME NEW p \in Peer, Connect(p)
      PROVE  VisitUp' /\ AvailabilityExact'
  <2>1. VisitUp'
    BY <1>5 DEF Connect, VisitUp
  <2>2. \A q \in Peer : conn'[q] # "up" => conn[q] # "up"
    BY <1>5 DEF Connect, Availability, TypeOK
  <2> QED
    BY <1>5, <2>1, <2>2 DEF Connect, Availability, AvailabilityExact
<1>6. ASSUME NEW p \in Peer, Begin(p) \/ Work(p) \/ Finish(p)
                             \/ \E old \in SUBSET Expirable(p) : Check(p, old)
      PROVE  VisitUp' /\ AvailabilityExact'
  <2>1. VisitUp'
    BY <1>6 DEF Begin, Work, Finish, Check, Reading, Availability, VisitUp
  <2>2. UNCHANGED <<mcPeers, has, conn>>
    BY <1>6 DEF Begin, Work, Finish, Check
  <2> QED
    BY <1>2, <2>1, <2>2
<1>7. ASSUME NEW p \in Peer, NEW c \in Chunk, Ask(p, c) PROVE VisitUp' /\ AvailabilityExact'
  BY <1>1, <1>7 DEF Ask
<1>8. ASSUME NEW p \in Peer, NEW i \in Piece, ReadHave(p, i)
      PROVE  VisitUp' /\ AvailabilityExact'
  <2>1. VisitUp'
    BY <1>8 DEF ReadHave, Availability, VisitUp
  <2> QED
    BY <1>8, <2>1, HaveAvailability
<1>9. ASSUME NEW p \in Peer, Message(p) PROVE VisitUp' /\ AvailabilityExact'
  BY <1>1, <1>8, <1>9 DEF Message, ReadChoke, ReadUnchoke, ReadRejected, ReadPiece
<1>10. CASE Pause \/ \E i \in Excludable : Prioritise(i)
  BY <1>1, <1>10 DEF Pause, Prioritise
<1>11. CASE UNCHANGED vars
  BY <1>1, <1>11 DEF vars
<1> QED
  BY <1>4, <1>5, <1>6, <1>7, <1>9, <1>10, <1>11 DEF Next, Pass

\* mc_peers counts the links that have the piece, each once, and a link that is not
\* up has none (AvailabilityExact), though links are closed twice.
THEOREM AvailabilityIsExact == Spec => []AvailabilityExact
<1>1. Availability => AvailabilityExact
  BY DEF Availability
<1> QED
  BY <1>1, InitAvailability, StepAvailability, PTL DEF Spec
=============================================================================
