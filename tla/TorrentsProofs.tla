--------------------------- MODULE TorrentsProofs ---------------------------
(* Proofs about Torrents, for any torrents, pieces and sub files: what an   *)
(* open torrent claims is on disk through crashes and restarts, the bytes   *)
(* left are those of the pieces, and a pause holds.                         *)
EXTENDS Torrents, FiniteSetTheorems, TLAPS

\* The Cbt_file and the record of the state file.
Cbt_file ==
  [state : State, at : Int, validate : BOOLEAN, info : BOOLEAN, valid : SUBSET Nat,
   left : Int, place : Place]
Record ==
  [state : State, info : BOOLEAN, valid : SUBSET Nat, place : Place, validate : BOOLEAN]

Types ==
  /\ phase \in {"down", "running", "stopping"} /\ listed \subseteq Torrent
  /\ tor \in [Torrent -> Cbt_file]
  /\ there \in [Torrent -> [Place -> SUBSET SubFile]]
  /\ disk \in [Torrent -> [Place -> SUBSET Nat]]
  /\ saved \in [Torrent -> Record \cup {NotSaved}]
  /\ fileLies \subseteq Torrent /\ lies \subseteq Torrent

\* What a record claims is on disk, as far as the sub files are still there: a torrent
\* gives the other pieces up when it is opened.
Sound(t, e, th, dk) ==
  {p \in e.valid : Spans[t][p] \subseteq th[e.place]} \subseteq dk[e.place]

\* A torrent in memory, where h says that it does not lie: a check knows what it has
\* looked at; an open torrent knows its pieces; one that is closed, and will not be
\* checked, knows them as far as its sub files stay.
Good(t, r, th, dk, h) ==
  /\ r.valid \subseteq Piece(t)
  /\ r.at # NoHasher => /\ IsOpen(r) /\ r.validate /\ r.info /\ r.at \in 0..N(t)
                        /\ r.valid \cap (1..r.at) \subseteq dk[r.place]
  /\ ~r.info => r.valid = {}
  /\ h /\ IsOpen(r) /\ r.at = NoHasher => r.valid \subseteq dk[r.place]
  /\ h /\ ~IsOpen(r) /\ ~r.validate => Sound(t, r, th, dk)

\* A torrent in the state file.
GoodRecord(t, e, th, dk, h) ==
  /\ e.valid \subseteq Piece(t)
  /\ ~e.info => e.valid = {}
  /\ h /\ ~e.validate => Sound(t, e, th, dk)

IInv ==
  /\ Types
  /\ \A t \in listed : Good(t, tor[t], there[t], disk[t], t \notin lies)
  /\ \A t \in Torrent : saved[t] # NotSaved =>
       GoodRecord(t, saved[t], there[t], disk[t], t \notin fileLies)

-----------------------------------------------------------------------------
(* What the helpers return.                                                 *)

\* A torrent has finitely many pieces, each in at least one sub file.
LEMMA PiecesOf ==
  ASSUME TorrentsAssumption, NEW t \in Torrent
  PROVE  /\ N(t) \in Nat /\ Piece(t) \subseteq Nat /\ PerTurn \in Nat \ {0}
         /\ \A p \in Piece(t) : Spans[t][p] # {} /\ Spans[t][p] \subseteq SubFile
  BY DEF TorrentsAssumption, N, Piece

\* A name gets a directory, and keeps the one it has.
LEMMA DirectoryType ==
  ASSUME NEW t \in Torrent, NEW r \in Cbt_file
  PROVE  /\ Directory(t, r) \in Place /\ Directory(t, r) # "none"
         /\ r.place # "none" => Directory(t, r) = r.place
  BY DEF Directory, Place, Cbt_file

\* A new torrent is a Cbt_file.
LEMMA NewType ==
  ASSUME NEW i \in BOOLEAN
  PROVE  New(i) \in Cbt_file
  BY DEF New, Cbt_file, State, Place, NoHasher

\* A count of missing pieces is a number.
LEMMA MissingType ==
  ASSUME TorrentsAssumption, NEW t \in Torrent, NEW v
  PROVE  Missing(t, v) \in Nat
<1>1. IsFiniteSet(Piece(t)) /\ Piece(t) \ v \in SUBSET Piece(t)
  <2>1. N(t) \in Nat
    BY PiecesOf
  <2>2. IsFiniteSet(1..N(t))
    BY <2>1, FS_Interval
  <2> QED
    BY <2>2 DEF Piece
<1> QED
  BY <1>1, FS_Subset, FS_CardinalityType DEF Missing

\* One field of a torrent changes.
LEMMA FieldTypes ==
  ASSUME NEW r \in Cbt_file
  PROVE  /\ \A v \in State : [r EXCEPT !.state = v] \in Cbt_file
         /\ \A v \in Int : [r EXCEPT !.at = v] \in Cbt_file
         /\ \A v \in BOOLEAN : [r EXCEPT !.validate = v] \in Cbt_file
         /\ \A v \in BOOLEAN : [r EXCEPT !.info = v] \in Cbt_file
         /\ \A v \in SUBSET Nat : [r EXCEPT !.valid = v] \in Cbt_file
         /\ \A v \in Int : [r EXCEPT !.left = v] \in Cbt_file
         /\ \A v \in Place : [r EXCEPT !.place = v] \in Cbt_file
  BY DEF Cbt_file

\* A torrent that is open is closed, and keeps all but its state and its check.
LEMMA ClosedFields ==
  ASSUME NEW r \in Cbt_file
  PROVE  /\ Closed(r) \in Cbt_file /\ ~IsOpen(Closed(r))
         /\ Closed(r).valid = r.valid /\ Closed(r).place = r.place
         /\ Closed(r).info = r.info /\ Closed(r).left = r.left
         /\ IsOpen(r) => /\ Closed(r).at = NoHasher /\ Closed(r).state = "stopped"
                         /\ Closed(r).validate = (r.at # NoHasher)
         /\ ~IsOpen(r) => Closed(r) = r
<1>1. CASE IsOpen(r)
  <2> DEFINE c == [r EXCEPT !.validate = r.at # NoHasher, !.at = NoHasher, !.state = "stopped"]
  <2>1. Closed(r) = c
    BY <1>1 DEF Closed
  <2>2. (r.at # NoHasher) \in BOOLEAN /\ NoHasher \in Int /\ "stopped" \in State
    BY DEF NoHasher, State
  <2>3. [r EXCEPT !.validate = r.at # NoHasher] \in Cbt_file
    BY <2>2, FieldTypes
  <2>4. c \in Cbt_file
    BY <2>2, <2>3 DEF Cbt_file
  <2>5. /\ c.valid = r.valid /\ c.place = r.place /\ c.info = r.info /\ c.left = r.left
        /\ c.at = NoHasher /\ c.state = "stopped" /\ c.validate = (r.at # NoHasher)
    BY DEF Cbt_file
  <2> QED
    BY <1>1, <2>1, <2>4, <2>5 DEF IsOpen
<1>2. CASE ~IsOpen(r)
  BY <1>2 DEF Closed
<1> QED
  BY <1>1, <1>2

\* The pieces a torrent still claims when it is opened.
Kept(t, r) == {p \in r.valid : Spans[t][p] \subseteq there[t][Directory(t, r)]}

\* A torrent that is opened is not changed; one that is not gets its folder, gives up
\* what is not there, and is checked or counted.
LEMMA OpenedFields ==
  ASSUME TorrentsAssumption, NEW t \in Torrent, NEW r \in Cbt_file
  PROVE  /\ Opened(t, r) \in Cbt_file /\ IsOpen(Opened(t, r))
         /\ Opened(t, r).info = r.info /\ Opened(t, r).validate = r.validate
         /\ IsOpen(r) => Opened(t, r) = r
         /\ ~IsOpen(r) /\ ~r.info => Opened(t, r) = [r EXCEPT !.state = "running"]
         /\ ~IsOpen(r) /\ r.info =>
              /\ Opened(t, r).place = Directory(t, r) /\ Opened(t, r).valid = Kept(t, r)
              /\ r.validate => Opened(t, r).at = 0 /\ Opened(t, r).left = 0
              /\ ~r.validate => /\ Opened(t, r).at = r.at
                               /\ Opened(t, r).left = Missing(t, Kept(t, r))
<1>1. CASE IsOpen(r)
  BY <1>1 DEF Opened
<1>2. CASE ~IsOpen(r) /\ ~r.info
  <2>1. Opened(t, r) = [r EXCEPT !.state = "running"]
    BY <1>2 DEF Opened
  <2> QED
    BY <1>2, <2>1 DEF Cbt_file, State, IsOpen
<1>3. CASE ~IsOpen(r) /\ r.info
  <2> DEFINE pl == Directory(t, r)
             v  == Kept(t, r)
             hashing == [r EXCEPT !.place = pl, !.valid = v, !.left = 0, !.at = 0, !.state = "hashing"]
             running == [r EXCEPT !.place = pl, !.valid = v, !.left = Missing(t, v), !.state = "running"]
  <2>1. pl \in Place /\ v \in SUBSET Nat /\ Missing(t, v) \in Int
    BY DirectoryType, MissingType DEF Kept, Cbt_file
  <2>2. Opened(t, r) = IF r.validate THEN hashing ELSE running
    BY <1>3 DEF Opened, Kept
  <2> HIDE DEF v, pl
  <2>3. /\ "hashing" \in State /\ "running" \in State /\ 0 \in Int
    BY DEF State
  <2>4. hashing \in Cbt_file
    BY <2>1, <2>3, ZenonT(30) DEF Cbt_file
  <2>5. running \in Cbt_file
    BY <2>1, <2>3, ZenonT(30) DEF Cbt_file
  <2>6. /\ hashing.state = "hashing" /\ hashing.info = r.info /\ hashing.validate = r.validate
        /\ hashing.place = pl /\ hashing.valid = v /\ hashing.at = 0 /\ hashing.left = 0
    BY DEF Cbt_file
  <2>7. /\ running.state = "running" /\ running.info = r.info /\ running.validate = r.validate
        /\ running.place = pl /\ running.valid = v /\ running.at = r.at
        /\ running.left = Missing(t, v)
    BY DEF Cbt_file
  <2> QED
    <3>1. CASE r.validate
      <4>1. Opened(t, r) = hashing
        BY <3>1, <2>2
      <4> HIDE DEF hashing, running
      <4> QED
        BY <4>1, <2>4, <2>6, <1>3, <3>1 DEF IsOpen, v, pl
    <3>2. CASE ~r.validate
      <4>1. Opened(t, r) = running
        BY <3>2, <2>2
      <4> HIDE DEF hashing, running
      <4> QED
        BY <4>1, <2>5, <2>7, <1>3, <3>2 DEF IsOpen, v, pl
    <3> QED
      BY <3>1, <3>2
<1> QED
  BY <1>1, <1>2, <1>3

-----------------------------------------------------------------------------
(* What is known stays true, helper by helper.                              *)

\* A torrent that is opened knows what it knew, but for one that is misled.
LEMMA OpenedGood ==
  ASSUME TorrentsAssumption, NEW t \in Torrent, NEW r \in Cbt_file, NEW h \in BOOLEAN,
         Good(t, r, there[t], disk[t], h)
  PROVE  Good(t, Opened(t, r), there[t], disk[t], h /\ (Misled(r) => IsOpen(r)))
<1> DEFINE o == Opened(t, r)
<1>0. /\ o \in Cbt_file /\ IsOpen(o) /\ o.info = r.info /\ o.validate = r.validate
  BY OpenedFields
<1>1. CASE IsOpen(r)
  <2>1. o = r
    BY <1>1, OpenedFields
  <2> QED
    BY <1>1, <2>1 DEF Good
<1>2. CASE ~IsOpen(r) /\ ~r.info
  <2>1. o = [r EXCEPT !.state = "running"]
    BY <1>2, OpenedFields
  <2>2. o.valid = r.valid /\ o.at = r.at /\ o.info = r.info
    BY <2>1 DEF Cbt_file
  <2>3. r.valid = {} /\ r.at = NoHasher
    BY <1>2 DEF Good
  <2> QED
    BY <1>0, <1>2, <2>2, <2>3 DEF Good
<1>3. CASE ~IsOpen(r) /\ r.info
  <2>1. o.valid = Kept(t, r) /\ o.place = Directory(t, r)
    BY <1>3, OpenedFields
  <2>2. o.valid \subseteq Piece(t)
    BY <2>1 DEF Kept, Good
  <2>3. CASE r.validate
    <3>1. o.at = 0 /\ N(t) \in Nat
      BY <1>3, <2>3, OpenedFields, PiecesOf
    <3>2. o.valid \cap (1..o.at) = {} /\ o.at \in 0..N(t) /\ o.at # NoHasher
      BY <3>1 DEF NoHasher
    <3> QED
      BY <1>0, <1>3, <2>2, <2>3, <3>2 DEF Good
  <2>4. CASE ~r.validate
    <3>1. o.at = r.at /\ r.at = NoHasher
      BY <1>3, <2>4, OpenedFields DEF Good
    <3>2. ASSUME h, r.place # "none"
          PROVE  o.valid \subseteq disk[t][o.place]
      <4>1. o.place = r.place
        BY <2>1, <3>2, DirectoryType
      <4>2. Sound(t, r, there[t], disk[t])
        BY <1>3, <2>4, <3>2 DEF Good
      <4> QED
        BY <2>1, <4>1, <4>2 DEF Kept, Sound
    <3>3. h /\ (Misled(r) => IsOpen(r)) => h /\ r.place # "none"
      BY <1>3, <2>4 DEF Misled
    <3> QED
      BY <1>0, <1>3, <2>2, <3>1, <3>2, <3>3 DEF Good
  <2> QED
    BY <2>3, <2>4
<1> QED
  BY <1>1, <1>2, <1>3

\* A torrent that is closed will be checked if its check was broken off.
LEMMA ClosedGood ==
  ASSUME NEW t \in Torrent, NEW r \in Cbt_file, NEW h \in BOOLEAN, NEW th, NEW dk,
         Good(t, r, th, dk, h)
  PROVE  Good(t, Closed(r), th, dk, h)
<1>1. CASE IsOpen(r)
  BY <1>1, ClosedFields DEF Good, Sound
<1>2. CASE ~IsOpen(r)
  BY <1>2, ClosedFields
<1> QED
  BY <1>1, <1>2

\* A new torrent claims nothing.
LEMMA NewGood ==
  ASSUME TorrentsAssumption, NEW t \in Torrent, NEW i \in BOOLEAN, NEW th, NEW dk, NEW h \in BOOLEAN
  PROVE  Good(t, New(i), th, dk, h)
  BY DEF Good, New, NoHasher, IsOpen, Sound

\* What state.bin gets of a torrent is as true as what the torrent knows.
LEMMA WrittenGood ==
  ASSUME NEW t \in Torrent, NEW r \in Cbt_file, NEW i \in BOOLEAN, NEW th, NEW dk,
         NEW h \in BOOLEAN, Good(t, r, th, dk, h)
  PROVE  Written(r, i) \in Record /\ GoodRecord(t, Written(r, i), th, dk, h)
<1> DEFINE e == Written(r, i)
<1>1. /\ e.state = r.state /\ e.info = r.info /\ e.valid = r.valid /\ e.place = r.place
      /\ ~e.validate => ~r.validate
  BY DEF Written
<1>2. ((i /\ r.left # 0) \/ r.validate) \in BOOLEAN
  OBVIOUS
<1>3. e \in Record
  BY <1>2 DEF Written, Record, Cbt_file
<1>4. h /\ ~r.validate => Sound(t, r, th, dk)
  BY DEF Good, Sound
<1>5. h /\ ~e.validate => Sound(t, e, th, dk)
  BY <1>1, <1>4 DEF Sound
<1> QED
  BY <1>1, <1>3, <1>5 DEF Good, GoodRecord

\* What is read back is as true as the file, but for a torrent that is misled.
LEMMA LoadedGood ==
  ASSUME TorrentsAssumption, NEW t \in Torrent, NEW e \in Record, NEW h \in BOOLEAN,
         GoodRecord(t, e, there[t], disk[t], h)
  PROVE  /\ Loaded(t, e) \in Cbt_file
         /\ Good(t, Loaded(t, e), there[t], disk[t], h /\ ~Misled(e))
<1> DEFINE r == [New(e.info) EXCEPT !.validate = e.validate, !.valid = e.valid, !.place = e.place]
<1>1. /\ r \in Cbt_file /\ r.at = NoHasher /\ r.info = e.info /\ r.valid = e.valid
      /\ r.validate = e.validate /\ r.place = e.place
  <2> DEFINE n == New(e.info)
  <2>1. /\ e.validate \in BOOLEAN /\ e.info \in BOOLEAN /\ e.valid \in SUBSET Nat
        /\ e.place \in Place
    BY DEF Record
  <2>2. n \in Cbt_file /\ n.at = NoHasher /\ n.info = e.info
    BY <2>1, NewType DEF New
  <2> HIDE DEF n
  <2>3. r = [n EXCEPT !.validate = e.validate, !.valid = e.valid, !.place = e.place]
    BY DEF n
  <2> HIDE DEF r
  <2>4. r \in Cbt_file
    BY <2>1, <2>2, <2>3, ZenonT(30) DEF Cbt_file
  <2> QED
    BY <2>2, <2>3, <2>4 DEF Cbt_file
<1> HIDE DEF r
<1>2. CASE IsOpen(e)
  <2> DEFINE s == [r EXCEPT !.state = "stopped"]
  <2>1. s \in Cbt_file
    BY <1>1, FieldTypes DEF State
  <2>2. /\ s.at = NoHasher /\ s.info = e.info /\ s.valid = e.valid
        /\ s.validate = e.validate /\ s.place = e.place /\ s.state = "stopped"
    BY <1>1 DEF Cbt_file
  <2> HIDE DEF s
  <2>3. ~IsOpen(s)
    BY <2>2 DEF IsOpen
  <2>4. Good(t, s, there[t], disk[t], h)
    BY <2>2, <2>3 DEF Good, GoodRecord, Sound
  <2>5. Loaded(t, e) = Opened(t, s)
    BY <1>2 DEF Loaded, r, s
  <2>6. Misled(s) <=> Misled(e)
    BY <2>2 DEF Misled
  <2>7. (h /\ (Misled(s) => IsOpen(s))) = (h /\ ~Misled(e))
    BY <2>3, <2>6
  <2>8. Good(t, Opened(t, s), there[t], disk[t], h /\ (Misled(s) => IsOpen(s)))
    BY <2>1, <2>4, OpenedGood
  <2> QED
    BY <2>1, <2>5, <2>7, <2>8, OpenedFields
<1>3. CASE ~IsOpen(e)
  <2> DEFINE s == [r EXCEPT !.state = e.state]
  <2>1. s \in Cbt_file
    BY <1>1, FieldTypes DEF Record
  <2>2. /\ s.at = NoHasher /\ s.info = e.info /\ s.valid = e.valid
        /\ s.validate = e.validate /\ s.place = e.place /\ s.state = e.state
    BY <1>1 DEF Cbt_file
  <2> HIDE DEF s
  <2>3. ~IsOpen(s)
    BY <1>3, <2>2 DEF IsOpen
  <2>4. Loaded(t, e) = s
    BY <1>3 DEF Loaded, r, s
  <2> QED
    BY <2>1, <2>2, <2>3, <2>4 DEF Good, GoodRecord, Sound
<1> QED
  BY <1>2, <1>3

\* What is doubted more is claimed less.
LEMMA DoubtedGood ==
  ASSUME NEW t, NEW r, NEW th, NEW dk, NEW h \in BOOLEAN, NEW g \in BOOLEAN, g => h,
         Good(t, r, th, dk, h)
  PROVE  Good(t, r, th, dk, g)
  BY DEF Good

\* A record stays as true as it was while its sub files only go, and of its pieces only
\* those whose sub files went.
LEMMA RecordStays ==
  ASSUME NEW t, NEW e, NEW th, NEW dk, NEW th2, NEW dk2, NEW h \in BOOLEAN, NEW g \in BOOLEAN,
         GoodRecord(t, e, th, dk, h),
         g => /\ h /\ th2[e.place] \subseteq th[e.place]
              /\ \A p \in e.valid : Spans[t][p] \subseteq th2[e.place] /\ p \in dk[e.place]
                                   => p \in dk2[e.place]
  PROVE  GoodRecord(t, e, th2, dk2, g)
<1>1. ASSUME g, ~e.validate
      PROVE  Sound(t, e, th2, dk2)
  <2>1. Sound(t, e, th, dk)
    BY <1>1 DEF GoodRecord
  <2>2. ASSUME NEW p \in e.valid, Spans[t][p] \subseteq th2[e.place]
        PROVE  p \in dk2[e.place]
    <3>1. Spans[t][p] \subseteq th[e.place]
      BY <1>1, <2>2
    <3>2. p \in dk[e.place]
      BY <2>1, <3>1 DEF Sound
    <3> QED
      BY <1>1, <2>2, <3>2
  <2> QED
    BY <2>2 DEF Sound
<1> QED
  BY <1>1 DEF GoodRecord

-----------------------------------------------------------------------------
(* The steps.                                                               *)

\* A step that changes one torrent in memory, and no file.
LEMMA OneTorrent ==
  ASSUME IInv, NEW t \in Torrent, NEW r \in Cbt_file, tor' = [tor EXCEPT ![t] = r],
         phase' = phase, listed' \subseteq listed \cup {t}, UNCHANGED <<files, saved, fileLies>>,
         lies' \subseteq Torrent, lies \ {t} \subseteq lies',
         t \in listed' => Good(t, r, there[t], disk[t], t \notin lies')
  PROVE  IInv'
<1>1. Types'
  BY DEF IInv, Types, files
<1>2. ASSUME NEW u \in listed'
      PROVE  Good(u, tor[u], there[u], disk[u], u \notin lies)'
  <2>1. CASE u = t
    <3>1. tor'[t] = r /\ there' = there /\ disk' = disk
      BY DEF IInv, Types, files
    <3>2. Good(t, r, there[t], disk[t], t \notin lies')
      BY <1>2, <2>1
    <3> QED
      BY <2>1, <3>1, <3>2 DEF Good, Sound
  <2>2. CASE u # t
    <3>1. u \in listed /\ u \in Torrent
      BY <1>2, <2>2 DEF IInv, Types
    <3>2. tor'[u] = tor[u] /\ there' = there /\ disk' = disk
      BY <2>2, <3>1 DEF IInv, Types, files
    <3>3. Good(u, tor[u], there[u], disk[u], u \notin lies)
      BY <3>1 DEF IInv
    <3>4. (u \notin lies') => (u \notin lies)
      BY <2>2
    <3>5. Good(u, tor[u], there[u], disk[u], u \notin lies')
      BY <3>3, <3>4 DEF Good
    <3> QED
      BY <3>2, <3>5 DEF Good, Sound
  <2> QED
    BY <2>1, <2>2
<1>3. \A u \in Torrent : saved'[u] # NotSaved =>
        GoodRecord(u, saved[u], there[u], disk[u], u \notin fileLies)'
  BY DEF IInv, files, GoodRecord, Sound
<1> QED
  BY <1>1, <1>2, <1>3 DEF IInv

\* Nothing is listed, and nothing is saved.
LEMMA InitHolds ==
  ASSUME TorrentsAssumption, Init
  PROVE  IInv
<1>1. Types
  BY NewType DEF Init, Types
<1> QED
  BY <1>1 DEF Init, IInv

\* The next process reads what the file says, and doubts what misleads it.
LEMMA StartStep ==
  ASSUME TorrentsAssumption, IInv, Start
  PROVE  IInv'
<1> DEFINE known == {t \in Torrent : saved[t] # NotSaved}
<1>1. ASSUME NEW t \in known
      PROVE  /\ Loaded(t, saved[t]) \in Cbt_file
             /\ Good(t, Loaded(t, saved[t]), there[t], disk[t], t \notin fileLies /\ ~Misled(saved[t]))
  <2>1. t \in Torrent /\ saved[t] \in Record
    BY DEF IInv, Types
  <2>2. GoodRecord(t, saved[t], there[t], disk[t], t \notin fileLies)
    BY <2>1 DEF IInv
  <2> QED
    BY <2>1, <2>2, LoadedGood
<1>2. /\ listed' = known /\ lies' = fileLies \cup {t \in known : Misled(saved[t])}
      /\ \A t \in known : tor'[t] = Loaded(t, saved[t])
      /\ UNCHANGED <<there, disk, saved, fileLies>>
  BY DEF Start, files
<1>3. tor' \in [Torrent -> Cbt_file]
  <2>1. \A t \in Torrent : (IF t \in known THEN Loaded(t, saved[t]) ELSE New(TRUE)) \in Cbt_file
    BY <1>1, NewType
  <2> QED
    BY <2>1 DEF Start
<1>4. Types'
  BY <1>2, <1>3 DEF IInv, Types, Start
<1>5. ASSUME NEW t \in listed'
      PROVE  Good(t, tor[t], there[t], disk[t], t \notin lies)'
  <2>1. t \in known
    BY <1>2, <1>5
  <2>2. (t \notin lies') <=> (t \notin fileLies /\ ~Misled(saved[t]))
    BY <1>2, <2>1
  <2>3. Good(t, Loaded(t, saved[t]), there[t], disk[t], t \notin lies')
    BY <1>1, <2>1, <2>2 DEF Good
  <2> QED
    BY <1>2, <2>1, <2>3 DEF Good, Sound
<1>6. \A u \in Torrent : saved'[u] # NotSaved =>
        GoodRecord(u, saved[u], there[u], disk[u], u \notin fileLies)'
  BY <1>2 DEF IInv, GoodRecord, Sound
<1> QED
  BY <1>4, <1>5, <1>6 DEF IInv

\* A check looks at pieces, and when it ends it has looked at all.
LEMMA HashStep ==
  ASSUME TorrentsAssumption, IInv, NEW t \in Torrent, Hash(t)
  PROVE  IInv'
<1> DEFINE r == tor[t]
           n == IF r.at + PerTurn <= N(t) THEN PerTurn ELSE N(t) - r.at
           c == (r.at + 1)..(r.at + n)
           v == (r.valid \ c) \cup (c \cap disk[t][r.place])
           s == [r EXCEPT !.valid = v, !.left = r.left + Cardinality(c \ v)]
           new == IF n = PerTurn THEN [s EXCEPT !.at = r.at + n]
                  ELSE [s EXCEPT !.at = NoHasher, !.validate = FALSE, !.state = "running"]
<1>1. /\ t \in listed /\ r.at # NoHasher /\ tor' = [tor EXCEPT ![t] = new]
      /\ lies' = (IF n = PerTurn THEN lies ELSE lies \ {t})
      /\ UNCHANGED <<phase, listed, files, saved, fileLies>>
  BY DEF Hash
<1>2. /\ r \in Cbt_file /\ N(t) \in Nat /\ PerTurn \in Nat \ {0} /\ Piece(t) \subseteq Nat
      /\ Good(t, r, there[t], disk[t], t \notin lies)
  BY <1>1, PiecesOf DEF IInv, Types
<1>3. /\ r.at \in 0..N(t) /\ r.validate /\ r.info /\ IsOpen(r) /\ r.valid \subseteq Piece(t)
      /\ r.valid \cap (1..r.at) \subseteq disk[t][r.place]
  BY <1>1, <1>2 DEF Good
<1>4. n \in Nat /\ r.at + n \in 0..N(t) /\ (n # PerTurn => r.at + n = N(t))
  <2>1. r.at \in Nat /\ r.at <= N(t)
    BY <1>2, <1>3
  <2>2. CASE r.at + PerTurn <= N(t)
    BY <1>2, <2>1, <2>2
  <2>3. CASE ~(r.at + PerTurn <= N(t))
    <3>1. n = N(t) - r.at
      BY <2>3
    <3> HIDE DEF n, r
    <3> QED
      BY <1>2, <2>1, <3>1
  <2> QED
    BY <2>2, <2>3
<1> HIDE DEF n
<1>5. v \subseteq Piece(t) /\ v \cap (1..(r.at + n)) \subseteq disk[t][r.place]
  <2>1. c \subseteq Piece(t)
    BY <1>2, <1>3, <1>4 DEF Piece
  <2>2. ASSUME NEW p \in r.valid, p \notin c, p \in 1..(r.at + n)
        PROVE  p \in disk[t][r.place]
    <3>1. p \in 1..r.at
      BY <1>2, <1>3, <1>4, <2>2
    <3> QED
      BY <1>3, <3>1
  <2> HIDE DEF c
  <2> QED
    BY <1>3, <2>1, <2>2
<1>6. Cardinality(c \ v) \in Nat
  <2>1. r.at + 1 \in Int /\ r.at + n \in Int
    BY <1>2, <1>3, <1>4
  <2>2. IsFiniteSet(c) /\ c \ v \in SUBSET c
    BY <2>1, FS_Interval
  <2>3. IsFiniteSet(c \ v)
    BY <2>2, FS_Subset
  <2> QED
    BY <2>3, FS_CardinalityType
<1> HIDE DEF c, v, r
<1>7. /\ s \in Cbt_file /\ s.valid = v /\ s.place = r.place /\ s.state = r.state
      /\ s.validate /\ s.info
  <2>1. v \in SUBSET Nat /\ r.left + Cardinality(c \ v) \in Int
    BY <1>2, <1>5, <1>6 DEF Cbt_file
  <2>2. s \in Cbt_file
    BY <1>2, <2>1, ZenonT(30) DEF Cbt_file
  <2> QED
    BY <1>2, <1>3, <2>2 DEF Cbt_file
<1> HIDE DEF s
<1>8. CASE n = PerTurn
  <2> DEFINE a == [s EXCEPT !.at = r.at + n]
  <2>1. new = a /\ lies' = lies
    BY <1>1, <1>8
  <2>2. /\ a \in Cbt_file /\ a.at = r.at + n /\ a.valid = v /\ a.place = r.place
        /\ a.state = r.state /\ a.validate /\ a.info
    <3>1. r.at + n \in Int
      BY <1>2, <1>4
    <3>2. a \in Cbt_file
      BY <1>7, <3>1, FieldTypes
    <3> QED
      BY <1>7, <3>1, <3>2 DEF Cbt_file
  <2> HIDE DEF a
  <2>3. a.at # NoHasher
    BY <1>4, <2>2 DEF NoHasher
  <2>4. IsOpen(a)
    BY <1>3, <2>2 DEF IsOpen
  <2>5. Good(t, a, there[t], disk[t], t \notin lies')
    BY <1>4, <1>5, <2>2, <2>3, <2>4 DEF Good
  <2> HIDE DEF new
  <2>6. lies' \subseteq Torrent /\ listed' \subseteq listed \cup {t}
    BY <1>1, <2>1 DEF IInv, Types
  <2>7. tor' = [tor EXCEPT ![t] = a]
    BY <1>1, <2>1
  <2> QED
    BY <1>1, <2>1, <2>2, <2>5, <2>6, <2>7, OneTorrent
<1>9. CASE n # PerTurn
  <2> DEFINE a == [s EXCEPT !.at = NoHasher, !.validate = FALSE, !.state = "running"]
  <2>1. new = a /\ lies' = lies \ {t}
    BY <1>1, <1>9
  <2>2. NoHasher \in Int /\ FALSE \in BOOLEAN /\ "running" \in State
    BY DEF NoHasher, State
  <2>3. a \in Cbt_file
    BY <1>7, <2>2, ZenonT(30) DEF Cbt_file
  <2>4. /\ a.at = NoHasher /\ a.valid = v /\ a.place = r.place /\ a.state = "running" /\ a.info
    BY <1>7 DEF Cbt_file
  <2> HIDE DEF a
  <2>5. IsOpen(a)
    BY <2>4 DEF IsOpen
  <2>6. v \subseteq disk[t][r.place]
    BY <1>2, <1>4, <1>5, <1>9 DEF Piece
  <2>7. Good(t, a, there[t], disk[t], t \notin lies')
    BY <1>5, <2>4, <2>5, <2>6 DEF Good
  <2> HIDE DEF new
  <2>8. lies' \subseteq Torrent /\ listed' \subseteq listed \cup {t} /\ lies \ {t} \subseteq lies'
    BY <1>1, <2>1 DEF IInv, Types
  <2>9. tor' = [tor EXCEPT ![t] = a]
    BY <1>1, <2>1
  <2> QED
    BY <1>1, <2>3, <2>7, <2>8, <2>9, OneTorrent
<1> QED
  BY <1>8, <1>9

\* A complete torrent that is closed knows its pieces as far as its sub files stay.
LEMMA RatioStep ==
  ASSUME TorrentsAssumption, IInv, NEW t \in Torrent, RatioReached(t)
  PROVE  IInv'
<1>1. t \in listed /\ tor[t] \in Cbt_file /\ Good(t, tor[t], there[t], disk[t], t \notin lies)
  BY DEF RatioReached, IInv, Types
<1>2. Closed(tor[t]) \in Cbt_file
  BY <1>1, ClosedFields
<1>3. Good(t, Closed(tor[t]), there[t], disk[t], t \notin lies)
  BY <1>1, ClosedGood
<1>4. tor' = [tor EXCEPT ![t] = Closed(tor[t])]
  BY DEF RatioReached
<1>5. UNCHANGED <<phase, listed, files, saved, fileLies, lies>> /\ lies \subseteq Torrent
  BY DEF RatioReached, IInv, Types
<1> HIDE DEF files
<1> QED
  BY <1>2, <1>3, <1>4, <1>5, OneTorrent

\* A step that changes the files of one torrent, and perhaps the torrent.
LEMMA OneTorrentOnDisk ==
  ASSUME IInv, NEW t \in Torrent, NEW r \in Cbt_file, NEW th \in [Place -> SUBSET SubFile],
         NEW dk \in [Place -> SUBSET Nat],
         tor' = [tor EXCEPT ![t] = r], there' = [there EXCEPT ![t] = th],
         disk' = [disk EXCEPT ![t] = dk],
         UNCHANGED <<phase, saved, lies>>, listed' \subseteq listed,
         fileLies' \in {fileLies, fileLies \cup {t}},
         t \in listed' => Good(t, r, th, dk, t \notin lies),
         saved[t] # NotSaved => GoodRecord(t, saved[t], th, dk, t \notin fileLies')
  PROVE  IInv'
<1>1. Types'
  BY DEF IInv, Types
<1>2. /\ tor'[t] = r /\ there'[t] = th /\ disk'[t] = dk
      /\ \A u \in Torrent \ {t} : /\ tor'[u] = tor[u] /\ there'[u] = there[u] /\ disk'[u] = disk[u]
                                /\ u \in fileLies' <=> u \in fileLies
  BY DEF IInv, Types
<1>3. ASSUME NEW u \in listed'
      PROVE  Good(u, tor[u], there[u], disk[u], u \notin lies)'
  <2>1. u \in listed /\ u \in Torrent
    BY <1>3 DEF IInv, Types
  <2>2. CASE u = t
    BY <1>2, <1>3, <2>2 DEF Good, Sound
  <2>3. CASE u # t
    <3>1. Good(u, tor[u], there[u], disk[u], u \notin lies)
      BY <2>1 DEF IInv
    <3> QED
      BY <1>2, <2>1, <2>3, <3>1 DEF Good, Sound
  <2> QED
    BY <2>2, <2>3
<1>4. ASSUME NEW u \in Torrent, saved'[u] # NotSaved
      PROVE  GoodRecord(u, saved[u], there[u], disk[u], u \notin fileLies)'
  <2>1. CASE u = t
    BY <1>2, <1>4, <2>1 DEF GoodRecord, Sound
  <2>2. CASE u # t
    <3>1. GoodRecord(u, saved[u], there[u], disk[u], u \notin fileLies)
      BY <1>4 DEF IInv
    <3> QED
      BY <1>2, <1>4, <2>2, <3>1 DEF GoodRecord, Sound
  <2> QED
    BY <2>1, <2>2
<1> QED
  BY <1>1, <1>3, <1>4 DEF IInv

\* A chunk makes sub files, and the file of the state may then claim too much.
LEMMA ChunkStep ==
  ASSUME TorrentsAssumption, IInv, NEW t \in Torrent, NEW p \in Piece(t), NEW fails \in BOOLEAN,
         Chunk(t, p, fails)
  PROVE  IInv'
<1> DEFINE r  == tor[t]
           pl == r.place
           th == [there[t] EXCEPT ![pl] = @ \cup Spans[t][p]]
           new == IF fails THEN [r EXCEPT !.state = "paused"] ELSE r
<1>1. /\ t \in listed /\ IsOpen(r) /\ r.at = NoHasher /\ p \notin r.valid
      /\ UNCHANGED <<phase, listed, disk, saved, lies>>
      /\ there' = [there EXCEPT ![t][pl] = @ \cup Spans[t][p]]
      /\ tor' = (IF fails THEN [tor EXCEPT ![t].state = "paused"] ELSE tor)
      /\ fileLies' = (IF Spans[t][p] \subseteq there[t][pl] THEN fileLies ELSE fileLies \cup {t})
  BY DEF Chunk, Polled
<1>2. /\ r \in Cbt_file /\ pl \in Place /\ there[t] \in [Place -> SUBSET SubFile]
      /\ disk[t] \in [Place -> SUBSET Nat] /\ Spans[t][p] \subseteq SubFile
      /\ Good(t, r, there[t], disk[t], t \notin lies)
  BY <1>1, PiecesOf DEF IInv, Types, Cbt_file
<1>3. there' = [there EXCEPT ![t] = th] /\ disk' = [disk EXCEPT ![t] = disk[t]]
  BY <1>1 DEF IInv, Types
<1>4. tor' = [tor EXCEPT ![t] = new]
  BY <1>1 DEF IInv, Types
<1>5. th \in [Place -> SUBSET SubFile]
  BY <1>2
<1>6. /\ new \in Cbt_file /\ IsOpen(new) /\ new.at = NoHasher /\ new.valid = r.valid
      /\ new.place = pl /\ new.info = r.info
  BY <1>1, <1>2 DEF Cbt_file, State, IsOpen
<1>7. Good(t, new, th, disk[t], t \notin lies)
  <2> HIDE DEF new, th
  <2> QED
    BY <1>1, <1>2, <1>6 DEF Good
<1>8. ASSUME saved[t] # NotSaved
      PROVE  GoodRecord(t, saved[t], th, disk[t], t \notin fileLies')
  <2>1. GoodRecord(t, saved[t], there[t], disk[t], t \notin fileLies)
    BY <1>8 DEF IInv
  <2>2. ASSUME t \notin fileLies'
        PROVE  th = there[t]
    BY <1>1, <1>2, <2>2
  <2>3. t \notin fileLies' => t \notin fileLies
    BY <1>1
  <2> HIDE DEF th
  <2> QED
    BY <2>1, <2>2, <2>3, RecordStays
<1>9. fileLies' \in {fileLies, fileLies \cup {t}}
  BY <1>1
<1>10. UNCHANGED <<phase, saved, lies>> /\ listed' \subseteq listed
  BY <1>1
<1>11. new \in Cbt_file /\ disk[t] \in [Place -> SUBSET Nat]
  BY <1>2, <1>6
<1> HIDE DEF new, th
<1> QED
  BY <1>3, <1>4, <1>5, <1>7, <1>8, <1>9, <1>10, <1>11, OneTorrentOnDisk

\* The chunk that completes a piece: the piece is on disk, wherever the sub files go.
LEMMA CompleteStep ==
  ASSUME TorrentsAssumption, IInv, NEW t \in Torrent, NEW p \in Piece(t), NEW moves \in BOOLEAN,
         Complete(t, p, moves)
  PROVE  IInv'
<1> DEFINE r   == tor[t]
           tp  == there[t][r.place] \cup Spans[t][p]
           dp  == disk[t][r.place] \cup {p}
           to  == IF moves THEN "completes" ELSE r.place
           th  == IF moves THEN [there[t] EXCEPT !["completes"] = tp, !["incompletes"] = {}]
                  ELSE [there[t] EXCEPT ![r.place] = tp]
           dk  == IF moves THEN [disk[t] EXCEPT !["completes"] = dp, !["incompletes"] = {}]
                  ELSE [disk[t] EXCEPT ![r.place] = dp]
           new == [r EXCEPT !.valid = @ \cup {p}, !.left = @ - 1, !.place = to]
<1>1. /\ t \in listed /\ IsOpen(r) /\ r.at = NoHasher /\ r.info /\ p \notin r.valid
      /\ UNCHANGED <<phase, listed, saved, lies>> /\ moves => r.place = "incompletes"
      /\ fileLies' = (IF ~moves /\ Spans[t][p] \subseteq there[t][r.place]
                      THEN fileLies ELSE fileLies \cup {t})
  BY DEF Complete, Polled
<1>2. /\ r \in Cbt_file /\ r.place \in Place /\ there[t] \in [Place -> SUBSET SubFile]
      /\ disk[t] \in [Place -> SUBSET Nat] /\ Spans[t][p] \subseteq SubFile /\ p \in Nat
      /\ Good(t, r, there[t], disk[t], t \notin lies)
  BY <1>1, PiecesOf DEF IInv, Types, Cbt_file
<1>3. there' = [there EXCEPT ![t] = th]
  BY DEF IInv, Types, Complete
<1>4. disk' = [disk EXCEPT ![t] = dk]
  BY DEF IInv, Types, Complete
<1>5. tor' = [tor EXCEPT ![t] = new]
  BY DEF IInv, Types, Complete
<1>6. th \in [Place -> SUBSET SubFile] /\ dk \in [Place -> SUBSET Nat] /\ dk[to] = dp
  BY <1>2 DEF Place
<1>7. /\ new \in Cbt_file /\ new.valid = r.valid \cup {p} /\ new.place = to
      /\ new.state = r.state /\ new.at = r.at /\ new.info = r.info
  <2>1. r.valid \cup {p} \in SUBSET Nat /\ r.left - 1 \in Int /\ to \in Place
    BY <1>2 DEF Cbt_file, Place
  <2> HIDE DEF to
  <2>2. new \in Cbt_file
    BY <1>2, <2>1, ZenonT(30) DEF Cbt_file
  <2> QED
    BY <1>2, <2>2 DEF Cbt_file
<1>8. Good(t, new, th, dk, t \notin lies)
  <2>1. new.valid \subseteq Piece(t) /\ IsOpen(new)
    BY <1>1, <1>2, <1>7 DEF Good, IsOpen
  <2>2. t \notin lies => r.valid \subseteq disk[t][r.place]
    BY <1>1, <1>2 DEF Good
  <2>3. dk[new.place] = dp
    BY <1>6, <1>7
  <2> HIDE DEF new, th, dk, to
  <2> QED
    BY <1>1, <1>7, <2>1, <2>2, <2>3 DEF Good
<1>9. ASSUME saved[t] # NotSaved
      PROVE  GoodRecord(t, saved[t], th, dk, t \notin fileLies')
  <2>1. GoodRecord(t, saved[t], there[t], disk[t], t \notin fileLies)
    BY <1>9 DEF IInv
  <2>2. saved[t].place \in Place
    BY <1>9 DEF IInv, Types, Record
  <2>3. ASSUME t \notin fileLies'
        PROVE  /\ t \notin fileLies /\ th = there[t]
               /\ disk[t][saved[t].place] \subseteq dk[saved[t].place]
    <3>1. ~moves /\ Spans[t][p] \subseteq there[t][r.place] /\ t \notin fileLies
      BY <1>1, <2>3
    <3> QED
      BY <1>2, <2>2, <3>1
  <2> HIDE DEF th, dk
  <2> QED
    BY <2>1, <2>3, RecordStays
<1>10. fileLies' \in {fileLies, fileLies \cup {t}}
  BY <1>1
<1>11. UNCHANGED <<phase, saved, lies>> /\ listed' \subseteq listed
  BY DEF Complete
<1>12. new \in Cbt_file /\ th \in [Place -> SUBSET SubFile] /\ dk \in [Place -> SUBSET Nat]
  BY <1>6, <1>7
<1> HIDE DEF new, th, dk
<1> QED
  BY <1>3, <1>4, <1>5, <1>8, <1>9, <1>10, <1>11, <1>12, OneTorrentOnDisk

\* The info that arrives finds a torrent that knows nothing.
LEMMA ReadInfoStep ==
  ASSUME TorrentsAssumption, IInv, NEW t \in Torrent, ReadInfo(t)
  PROVE  IInv'
<1> DEFINE new == [tor[t] EXCEPT !.info = TRUE, !.place = "none"]
<1>1. /\ t \in listed /\ IsOpen(tor[t]) /\ tor[t].at = NoHasher /\ ~tor[t].info
      /\ tor[t] \in Cbt_file /\ Good(t, tor[t], there[t], disk[t], t \notin lies)
  BY DEF ReadInfo, Polled, IInv, Types
<1>2. /\ new \in Cbt_file /\ new.state = tor[t].state /\ new.at = tor[t].at
      /\ new.valid = tor[t].valid
  BY <1>1 DEF Cbt_file, Place
<1>3. tor' = [tor EXCEPT ![t] = new] /\ listed' = listed
  BY DEF IInv, Types, ReadInfo
<1>4. lies' = lies /\ lies \subseteq Torrent /\ phase' = phase
  BY DEF ReadInfo, IInv, Types
<1>5. UNCHANGED <<files, saved, fileLies>>
  BY DEF ReadInfo
<1> HIDE DEF new
<1>6. Good(t, new, there[t], disk[t], t \notin lies)
  BY <1>1, <1>2 DEF Good, IsOpen
<1> HIDE DEF files
<1> QED
  BY <1>2, <1>3, <1>4, <1>5, <1>6, OneTorrent

\* A torrent that is added will be checked.
LEMMA OpenTorrentStep ==
  ASSUME TorrentsAssumption, IInv, NEW t \in Torrent, NEW room \in BOOLEAN, OpenTorrent(t, room)
  PROVE  IInv'
<1> DEFINE n == New(TRUE)
           new == IF room THEN Opened(t, n) ELSE n
<1>1. n \in Cbt_file /\ Good(t, n, there[t], disk[t], TRUE) /\ ~Misled(n)
  BY NewType, NewGood DEF Misled, New
<1> HIDE DEF n
<1>2. Opened(t, n) \in Cbt_file /\ Good(t, Opened(t, n), there[t], disk[t], TRUE)
  <2>1. (TRUE /\ (Misled(n) => IsOpen(n))) = TRUE
    BY <1>1
  <2>2. Good(t, Opened(t, n), there[t], disk[t], TRUE /\ (Misled(n) => IsOpen(n)))
    BY <1>1, OpenedGood
  <2> QED
    BY <1>1, <2>1, <2>2, OpenedFields
<1>3. tor' = [tor EXCEPT ![t] = new] /\ listed' = listed \cup {t}
  BY DEF OpenTorrent, n
<1>4. lies' = lies \ {t} /\ lies \subseteq Torrent /\ phase' = phase
  BY DEF OpenTorrent, IInv, Types
<1>5. UNCHANGED <<files, saved, fileLies>>
  BY DEF OpenTorrent
<1>6. new \in Cbt_file /\ Good(t, new, there[t], disk[t], TRUE)
  BY <1>1, <1>2
<1> HIDE DEF new, files
<1>7. Good(t, new, there[t], disk[t], t \notin lies')
  BY <1>6 DEF Good
<1> QED
  BY <1>3, <1>4, <1>5, <1>6, <1>7, OneTorrent

\* A torrent without its info claims nothing.
LEMMA OpenUrlStep ==
  ASSUME TorrentsAssumption, IInv, NEW t \in Torrent, NEW room \in BOOLEAN, OpenUrl(t, room)
  PROVE  IInv'
<1> DEFINE new == IF room THEN [New(FALSE) EXCEPT !.state = "running"] ELSE New(FALSE)
<1>1. /\ New(FALSE) \in Cbt_file /\ New(FALSE).at = NoHasher /\ New(FALSE).valid = {}
      /\ ~New(FALSE).info
  BY NewType DEF New
<1>2. "running" \in State
  BY DEF State
<1>3. new \in Cbt_file /\ new.at = NoHasher /\ new.valid = {} /\ ~new.info
  BY <1>1, <1>2, FieldTypes DEF Cbt_file
<1>4. tor' = [tor EXCEPT ![t] = new] /\ listed' = listed \cup {t}
  BY DEF OpenUrl
<1>5. lies' = lies \ {t} /\ lies \subseteq Torrent /\ phase' = phase
  BY DEF OpenUrl, IInv, Types
<1>6. UNCHANGED <<files, saved, fileLies>>
  BY DEF OpenUrl
<1> HIDE DEF new, files
<1>7. Good(t, new, there[t], disk[t], t \notin lies')
  BY <1>3 DEF Good, Sound
<1> QED
  BY <1>3, <1>4, <1>5, <1>6, <1>7, OneTorrent

\* A torrent that is removed is not listed; if its files go, no record claims them.
LEMMA CloseTorrentStep ==
  ASSUME TorrentsAssumption, IInv, NEW t \in Torrent, NEW erase \in BOOLEAN, CloseTorrent(t, erase)
  PROVE  IInv'
<1> DEFINE pl == tor[t].place
           th == IF erase THEN [there[t] EXCEPT ![pl] = {}] ELSE there[t]
           dk == IF erase THEN [disk[t] EXCEPT ![pl] = {}] ELSE disk[t]
<1>1. /\ pl \in Place /\ there[t] \in [Place -> SUBSET SubFile]
      /\ disk[t] \in [Place -> SUBSET Nat] /\ New(TRUE) \in Cbt_file
  BY NewType DEF IInv, Types, Cbt_file
<1>2. there' = [there EXCEPT ![t] = th] /\ disk' = [disk EXCEPT ![t] = dk]
  BY DEF CloseTorrent, IInv, Types, files
<1>3. th \in [Place -> SUBSET SubFile] /\ dk \in [Place -> SUBSET Nat]
  BY <1>1
<1>4. tor' = [tor EXCEPT ![t] = New(TRUE)] /\ listed' = listed \ {t}
  BY DEF CloseTorrent
<1>5. UNCHANGED <<phase, saved, lies>> /\ fileLies' = fileLies
  BY DEF CloseTorrent
<1>6. ASSUME saved[t] # NotSaved
      PROVE  GoodRecord(t, saved[t], th, dk, t \notin fileLies')
  <2>1. GoodRecord(t, saved[t], there[t], disk[t], t \notin fileLies)
    BY <1>6 DEF IInv
  <2>2. saved[t].place \in Place /\ saved[t].valid \subseteq Piece(t)
    BY <1>6, <2>1 DEF IInv, Types, Record, GoodRecord
  <2>3. \A p \in saved[t].valid : Spans[t][p] # {}
    BY <2>2, PiecesOf
  <2>4. CASE erase /\ pl = saved[t].place
    <3>1. th[saved[t].place] = {}
      BY <1>1, <2>4
    <3> HIDE DEF th, dk
    <3>2. \A p \in saved[t].valid : ~(Spans[t][p] \subseteq th[saved[t].place])
      BY <2>3, <3>1
    <3>3. th[saved[t].place] \subseteq there[t][saved[t].place]
      BY <3>1
    <3> QED
      BY <1>5, <2>1, <3>2, <3>3, RecordStays
  <2>5. CASE ~(erase /\ pl = saved[t].place)
    <3>1. th[saved[t].place] = there[t][saved[t].place] /\ dk[saved[t].place] = disk[t][saved[t].place]
      BY <1>1, <2>2, <2>5
    <3> HIDE DEF th, dk
    <3> QED
      BY <1>5, <2>1, <3>1, RecordStays
  <2> QED
    BY <2>4, <2>5
<1> HIDE DEF th, dk
<1>7. listed' \subseteq listed /\ t \notin listed' /\ fileLies' \in {fileLies, fileLies \cup {t}}
  BY <1>4, <1>5
<1> QED
  BY <1>1, <1>2, <1>3, <1>4, <1>5, <1>6, <1>7, OneTorrentOnDisk

\* A user deletes a sub file: what is closed or saved claims the pieces that stay.
LEMMA VanishStep ==
  ASSUME TorrentsAssumption, IInv, NEW t \in Torrent, NEW pl \in Place, NEW s \in SubFile,
         Vanish(t, pl, s)
  PROVE  IInv'
<1> DEFINE th == [there[t] EXCEPT ![pl] = @ \ {s}]
           dk == [disk[t] EXCEPT ![pl] = {p \in @ : s \notin Spans[t][p]}]
<1>1. /\ there[t] \in [Place -> SUBSET SubFile] /\ disk[t] \in [Place -> SUBSET Nat]
      /\ tor[t] \in Cbt_file
  BY DEF IInv, Types
<1>2. there' = [there EXCEPT ![t] = th]
  BY DEF Vanish, IInv, Types
<1>3. disk' = [disk EXCEPT ![t] = dk]
  BY DEF Vanish, IInv, Types
<1>4. th \in [Place -> SUBSET SubFile] /\ dk \in [Place -> SUBSET Nat]
  BY <1>1
<1>5. /\ UNCHANGED <<phase, saved, lies>> /\ listed' = listed /\ fileLies' = fileLies
      /\ ~(t \in listed /\ IsOpen(tor[t]))
  BY DEF Vanish
<1>6. tor' = [tor EXCEPT ![t] = tor[t]]
  BY DEF Vanish, IInv, Types
<1>7. \A q \in Place : /\ th[q] \subseteq there[t][q]
                       /\ \A p \in disk[t][q] : Spans[t][p] \subseteq th[q] => p \in dk[q]
  BY <1>1
<1> HIDE DEF th, dk
<1>8. ASSUME t \in listed
      PROVE  Good(t, tor[t], th, dk, t \notin lies)
  <2>1. Good(t, tor[t], there[t], disk[t], t \notin lies) /\ ~IsOpen(tor[t])
    BY <1>5, <1>8 DEF IInv
  <2>2. tor[t].place \in Place
    BY <1>1 DEF Cbt_file
  <2>3. Sound(t, tor[t], there[t], disk[t]) => Sound(t, tor[t], th, dk)
    BY <1>7, <2>2 DEF Sound
  <2> QED
    BY <2>1, <2>3 DEF Good
<1>9. ASSUME saved[t] # NotSaved
      PROVE  GoodRecord(t, saved[t], th, dk, t \notin fileLies')
  <2>1. GoodRecord(t, saved[t], there[t], disk[t], t \notin fileLies) /\ saved[t].place \in Place
    BY <1>9 DEF IInv, Types, Record
  <2> QED
    BY <1>5, <1>7, <2>1, RecordStays
<1>10. listed' \subseteq listed /\ fileLies' \in {fileLies, fileLies \cup {t}}
  BY <1>5
<1> QED
  BY <1>1, <1>2, <1>3, <1>4, <1>5, <1>6, <1>8, <1>9, <1>10, OneTorrentOnDisk

\* A state is set: a torrent is opened, or closed, or only renamed.
LEMMA SetStateStep ==
  ASSUME TorrentsAssumption, IInv, NEW t \in Torrent, NEW v \in State, SetState(t, v)
  PROVE  IInv'
<1> DEFINE r == tor[t]
           shuts == v \in {"queued", "stopped"}
           opens == ~shuts /\ ~IsOpen(r)
           base  == IF shuts THEN Closed(r) ELSE r
           new   == IF opens THEN Opened(t, r) ELSE [base EXCEPT !.state = v]
<1>1. /\ t \in listed /\ lies' = (IF opens /\ Misled(r) THEN lies \cup {t} ELSE lies)
      /\ listed' = listed /\ phase' = phase /\ UNCHANGED <<files, saved, fileLies>>
  BY DEF SetState
<1>2. r \in Cbt_file /\ Good(t, r, there[t], disk[t], t \notin lies) /\ lies \subseteq Torrent
  BY <1>1 DEF IInv, Types
<1>3. tor' = [tor EXCEPT ![t] = new]
  BY DEF SetState, IInv, Types
<1>4. new \in Cbt_file /\ Good(t, new, there[t], disk[t], t \notin lies')
  <2>1. CASE opens
    <3>1. (t \notin lies') => (t \notin lies /\ (Misled(r) => IsOpen(r)))
      BY <1>1, <2>1
    <3>2. Good(t, Opened(t, r), there[t], disk[t], t \notin lies /\ (Misled(r) => IsOpen(r)))
      BY <1>2, OpenedGood
    <3>3. Opened(t, r) \in Cbt_file
      BY <1>2, OpenedFields
    <3>4. Good(t, Opened(t, r), there[t], disk[t], t \notin lies')
      BY <3>1, <3>2, DoubtedGood
    <3> QED
      BY <2>1, <3>3, <3>4
  <2>2. CASE ~opens
    <3> DEFINE s == [base EXCEPT !.state = v]
    <3>1. new = s /\ lies' = lies
      BY <1>1, <2>2
    <3>2. base \in Cbt_file /\ Good(t, base, there[t], disk[t], t \notin lies)
      BY <1>2, ClosedGood, ClosedFields
    <3>3. ~shuts => IsOpen(base)
      BY <2>2
    <3>4. shuts => ~IsOpen(base)
      BY <1>2, ClosedFields
    <3> HIDE DEF base
    <3>5. /\ s \in Cbt_file /\ s.state = v /\ s.at = base.at /\ s.valid = base.valid
          /\ s.place = base.place /\ s.validate = base.validate /\ s.info = base.info
      BY <3>2 DEF Cbt_file
    <3> HIDE DEF s
    <3>6. IsOpen(s) <=> IsOpen(base)
      BY <3>3, <3>4, <3>5 DEF IsOpen, State
    <3>7. Good(t, s, there[t], disk[t], t \notin lies)
      BY <3>2, <3>5, <3>6 DEF Good, Sound
    <3> HIDE DEF new
    <3> QED
      BY <3>1, <3>5, <3>7
  <2> QED
    BY <2>1, <2>2
<1>5. lies' \subseteq Torrent /\ lies \ {t} \subseteq lies' /\ listed' \subseteq listed \cup {t}
  BY <1>1, <1>2
<1> HIDE DEF new, files, opens
<1> QED
  BY <1>1, <1>3, <1>4, <1>5, OneTorrent

\* Torrents that are queued are opened; those that are misled are doubted.
LEMMA DequeuedGood ==
  ASSUME TorrentsAssumption, NEW f \in [Torrent -> Cbt_file], NEW s \in SUBSET listed,
         listed \subseteq Torrent, NEW d \in SUBSET Torrent,
         \A t \in s : f[t].state = "queued",
         \A t \in listed : Good(t, f[t], there[t], disk[t], t \notin lies),
         lies \subseteq d, \A t \in s : Misled(f[t]) => t \in d
  PROVE  /\ Dequeued(f, s) \in [Torrent -> Cbt_file]
         /\ \A t \in listed : Good(t, Dequeued(f, s)[t], there[t], disk[t], t \notin d)
<1>1. Dequeued(f, s) \in [Torrent -> Cbt_file]
  BY OpenedFields DEF Dequeued
<1>2. ASSUME NEW t \in listed
      PROVE  Good(t, Dequeued(f, s)[t], there[t], disk[t], t \notin d)
  <2>1. f[t] \in Cbt_file /\ Good(t, f[t], there[t], disk[t], t \notin lies)
    OBVIOUS
  <2>2. CASE t \in s
    <3>1. Dequeued(f, s)[t] = Opened(t, f[t])
      BY <2>2 DEF Dequeued
    <3>2. (t \notin d) => (t \notin lies /\ (Misled(f[t]) => IsOpen(f[t])))
      BY <2>2
    <3>3. Good(t, Opened(t, f[t]), there[t], disk[t], t \notin lies /\ (Misled(f[t]) => IsOpen(f[t])))
      BY <2>1, OpenedGood
    <3> QED
      BY <3>1, <3>2, <3>3, DoubtedGood
  <2>3. CASE t \notin s
    <3>1. Dequeued(f, s)[t] = f[t]
      BY <2>3 DEF Dequeued
    <3>2. (t \notin d) => (t \notin lies)
      OBVIOUS
    <3> QED
      BY <2>1, <3>1, <3>2, DoubtedGood
  <2> QED
    BY <2>2, <2>3
<1> QED
  BY <1>1, <1>2

\* What is saved is as true as what is known.
LEMMA SavedGood ==
  ASSUME IInv, NEW i \in BOOLEAN, SaveState(i), UNCHANGED files
  PROVE  /\ saved' \in [Torrent -> Record \cup {NotSaved}] /\ fileLies' \subseteq Torrent
         /\ \A t \in Torrent : saved'[t] # NotSaved =>
              GoodRecord(t, saved[t], there[t], disk[t], t \notin fileLies)'
<1>1. ASSUME NEW t \in listed
      PROVE  /\ Written(tor[t], i) \in Record
             /\ GoodRecord(t, Written(tor[t], i), there[t], disk[t], t \notin lies)
  BY WrittenGood DEF IInv, Types
<1>2. saved' \in [Torrent -> Record \cup {NotSaved}] /\ fileLies' \subseteq Torrent
  BY <1>1 DEF SaveState, IInv, Types
<1>3. ASSUME NEW t \in Torrent, saved'[t] # NotSaved
      PROVE  GoodRecord(t, saved[t], there[t], disk[t], t \notin fileLies)'
  <2>1. t \in listed /\ saved'[t] = Written(tor[t], i)
    BY <1>3 DEF SaveState
  <2>2. t \notin fileLies' <=> t \notin lies
    BY <2>1 DEF SaveState
  <2>3. there' = there /\ disk' = disk
    BY DEF files
  <2> QED
    BY <1>1, <2>1, <2>2, <2>3 DEF GoodRecord, Sound
<1> QED
  BY <1>2, <1>3

\* Queued torrents for which there is room are opened.
LEMMA UpdateStatesStep ==
  ASSUME TorrentsAssumption, IInv, NEW s \in SUBSET Torrent, UpdateStates(s)
  PROVE  IInv'
<1>1. s \in SUBSET listed /\ \A t \in s : tor[t].state = "queued"
  BY DEF UpdateStates, Queued
<1>2. /\ tor \in [Torrent -> Cbt_file] /\ listed \in SUBSET Torrent
      /\ \A t \in listed : Good(t, tor[t], there[t], disk[t], t \notin lies)
  BY DEF IInv, Types
<1>3. /\ tor' = Dequeued(tor, s) /\ lies' = lies \cup {u \in s : Misled(tor[u])}
      /\ UNCHANGED <<phase, listed, there, disk, saved, fileLies>>
  BY DEF UpdateStates, files
<1>4. lies' \in SUBSET Torrent /\ lies \subseteq lies' /\ \A t \in s : Misled(tor[t]) => t \in lies'
  BY <1>3 DEF IInv, Types
<1>5. /\ Dequeued(tor, s) \in [Torrent -> Cbt_file]
      /\ \A t \in listed : Good(t, Dequeued(tor, s)[t], there[t], disk[t], t \notin lies')
  BY <1>1, <1>2, <1>4, DequeuedGood
<1>6. Types'
  BY <1>5, <1>3 DEF IInv, Types
<1>7. \A t \in listed' : Good(t, tor[t], there[t], disk[t], t \notin lies)'
  BY <1>5, <1>3 DEF Good, Sound
<1>8. \A t \in Torrent : saved'[t] # NotSaved =>
        GoodRecord(t, saved[t], there[t], disk[t], t \notin fileLies)'
  BY <1>3 DEF IInv, GoodRecord, Sound
<1> QED
  BY <1>6, <1>7, <1>8 DEF IInv

\* A save changes the file only.
LEMMA SaveStep ==
  ASSUME IInv, Save
  PROVE  IInv'
<1>1. /\ UNCHANGED <<phase, listed, tor, there, disk, lies>> /\ UNCHANGED files /\ SaveState(TRUE)
  BY DEF Save, files
<1>2. /\ saved' \in [Torrent -> Record \cup {NotSaved}] /\ fileLies' \subseteq Torrent
      /\ \A t \in Torrent : saved'[t] # NotSaved =>
           GoodRecord(t, saved[t], there[t], disk[t], t \notin fileLies)'
  BY <1>1, SavedGood
<1>3. Types'
  BY <1>1, <1>2 DEF IInv, Types
<1>4. \A t \in listed' : Good(t, tor[t], there[t], disk[t], t \notin lies)'
  BY <1>1 DEF IInv, Good, Sound
<1> QED
  BY <1>2, <1>3, <1>4 DEF IInv

\* The last turn: all is saved, closed, and some of it opened again.
LEMMA StopTurnStep ==
  ASSUME TorrentsAssumption, IInv, NEW s \in SUBSET Torrent, StopTurn(s)
  PROVE  IInv'
<1> DEFINE f == [t \in Torrent |-> IF t \in listed THEN Closed(tor[t]) ELSE tor[t]]
<1>1. /\ phase' = "stopping" /\ SaveState(FALSE) /\ s \subseteq Queued(f) /\ tor' = Dequeued(f, s)
      /\ lies' = lies \cup {t \in s : Misled(f[t])}
      /\ UNCHANGED <<listed, there, disk>> /\ UNCHANGED files
  BY DEF StopTurn, files
<1>2. f \in [Torrent -> Cbt_file] /\ listed \in SUBSET Torrent
  BY ClosedFields DEF IInv, Types
<1>3. ASSUME NEW t \in listed
      PROVE  Good(t, f[t], there[t], disk[t], t \notin lies)
  <2>1. f[t] = Closed(tor[t]) /\ t \in Torrent /\ tor[t] \in Cbt_file
    BY DEF IInv, Types
  <2>2. Good(t, tor[t], there[t], disk[t], t \notin lies)
    BY DEF IInv
  <2> HIDE DEF f
  <2> QED
    BY <2>1, <2>2, ClosedGood
<1> HIDE DEF f
<1>4. s \in SUBSET listed /\ \A t \in s : f[t].state = "queued"
  BY <1>1 DEF Queued
<1>5. lies' \in SUBSET Torrent /\ lies \subseteq lies' /\ \A t \in s : Misled(f[t]) => t \in lies'
  BY <1>1, <1>4 DEF IInv, Types
<1>6. /\ Dequeued(f, s) \in [Torrent -> Cbt_file]
      /\ \A t \in listed : Good(t, Dequeued(f, s)[t], there[t], disk[t], t \notin lies')
  BY <1>2, <1>3, <1>4, <1>5, DequeuedGood
<1>7. /\ saved' \in [Torrent -> Record \cup {NotSaved}] /\ fileLies' \subseteq Torrent
      /\ \A t \in Torrent : saved'[t] # NotSaved =>
           GoodRecord(t, saved[t], there[t], disk[t], t \notin fileLies)'
  BY <1>1, SavedGood
<1>8. Types'
  BY <1>1, <1>4, <1>6, <1>7 DEF IInv, Types
<1>9. \A t \in listed' : Good(t, tor[t], there[t], disk[t], t \notin lies)'
  BY <1>1, <1>6 DEF Good, Sound
<1> QED
  BY <1>7, <1>8, <1>9 DEF IInv

\* The process ends, and its file stays or is lost.
LEMMA DownStep ==
  ASSUME IInv, Down, \/ UNCHANGED saved
                     \/ saved' = [t \in Torrent |-> NotSaved]
  PROVE  IInv'
<1>1. /\ phase' = "down" /\ listed' = {} /\ lies' = {} /\ UNCHANGED <<there, disk, fileLies>>
      /\ tor' = [t \in Torrent |-> New(TRUE)]
  BY DEF Down, files
<1>2. Types'
  BY <1>1, NewType DEF IInv, Types
<1>3. \A t \in Torrent : saved'[t] # NotSaved =>
        GoodRecord(t, saved[t], there[t], disk[t], t \notin fileLies)'
  BY <1>1 DEF IInv, GoodRecord, Sound
<1> QED
  BY <1>1, <1>2, <1>3 DEF IInv

\* Every step keeps the invariant.
LEMMA StepHolds ==
  ASSUME TorrentsAssumption, IInv, [Next]_vars
  PROVE  IInv'
<1>1. CASE UNCHANGED vars
  BY <1>1 DEF vars, files, IInv, Types, Good, GoodRecord, Sound
<1>2. CASE Next
  <2>1. CASE Start
    BY <2>1, StartStep
  <2>2. ASSUME NEW t \in Torrent, Hash(t) PROVE IInv'
    BY <2>2, HashStep
  <2>3. CASE Network
    BY <2>3, RatioStep, ReadInfoStep, ChunkStep, CompleteStep DEF Network
  <2>4. CASE Command
    BY <2>4, OpenTorrentStep, OpenUrlStep, CloseTorrentStep, SetStateStep DEF Command
  <2>5. CASE Save
    BY <2>5, SaveStep
  <2>6. CASE Exit \/ Crash
    BY <2>6, DownStep DEF Exit, Crash
  <2>7. ASSUME NEW s \in SUBSET Torrent, UpdateStates(s) \/ StopTurn(s) PROVE IInv'
    BY <2>7, UpdateStatesStep, StopTurnStep
  <2>8. ASSUME NEW t \in Torrent, NEW pl \in Place, NEW s \in SubFile, Vanish(t, pl, s) PROVE IInv'
    BY <2>8, VanishStep
  <2> QED
    BY <1>2, <2>1, <2>2, <2>3, <2>4, <2>5, <2>6, <2>7, <2>8 DEF Next
<1> QED
  BY <1>1, <1>2

\* The invariant holds from the first process on.
THEOREM Invariant == TorrentsAssumption => (Spec => []IInv)
<1> SUFFICES ASSUME TorrentsAssumption
             PROVE  Spec => []IInv
  OBVIOUS
<1>1. Init => IInv
  BY InitHolds
<1>2. IInv /\ [Next]_vars => IInv'
  BY StepHolds
<1> QED
  BY <1>1, <1>2, PTL DEF Spec

\* KnownIsOnDisk: what an open torrent claims is on disk, for any torrents and sub
\* files, over any number of saves, crashes and restarts.
THEOREM KnownOnDisk == TorrentsAssumption => (Spec => []KnownIsOnDisk)
<1> SUFFICES ASSUME TorrentsAssumption
             PROVE  Spec => []KnownIsOnDisk
  OBVIOUS
<1>1. Spec => []IInv
  BY Invariant
<1>2. IInv => KnownIsOnDisk
  BY DEF IInv, Good, KnownIsOnDisk
<1> QED
  BY <1>1, <1>2, PTL


-----------------------------------------------------------------------------
(* Torrents that are not listed, and the type of the others.                *)

\* The code has no Cbt_file for them.
Unlisted == \A t \in Torrent \ listed : tor[t] = New(TRUE)

\* TypeOK: every field keeps its type, a check stays within its torrent, and no piece
\* is known that the torrent does not have.
THEOREM TypesHold == TorrentsAssumption => (Spec => []TypeOK)
<1> SUFFICES ASSUME TorrentsAssumption
             PROVE  Spec => []TypeOK
  OBVIOUS
<1>1. Init => Unlisted
  BY DEF Init, Unlisted
<1>2. Unlisted /\ IInv /\ [Next]_vars => Unlisted'
  <2> SUFFICES ASSUME Unlisted, IInv, [Next]_vars
               PROVE  Unlisted'
    OBVIOUS
  <2>0. tor \in [Torrent -> Cbt_file] /\ listed \subseteq Torrent
    BY DEF IInv, Types
  <2>1. CASE UNCHANGED vars
    BY <2>1 DEF vars, Unlisted
  <2>2. CASE Start
    BY <2>2 DEF Start, Unlisted
  <2>3. ASSUME NEW t \in Torrent, Hash(t)
        PROVE  Unlisted'
    <3>1. t \in listed /\ listed' = listed
      BY <2>3 DEF Hash
    <3>2. \A u \in Torrent \ {t} : tor'[u] = tor[u]
      BY <2>0, <2>3 DEF Hash
    <3> QED
      BY <3>1, <3>2 DEF Unlisted
  <2>4. CASE Network
    <3>1. ASSUME NEW t \in Torrent, RatioReached(t) \/ ReadInfo(t)
          PROVE  Unlisted'
      BY <2>0, <3>1 DEF RatioReached, ReadInfo, Polled, Unlisted
    <3>2. ASSUME NEW t \in Torrent, NEW p \in Piece(t), NEW b \in BOOLEAN, Chunk(t, p, b)
          PROVE  Unlisted'
      BY <2>0, <3>2 DEF Chunk, Polled, Unlisted
    <3>3. ASSUME NEW t \in Torrent, NEW p \in Piece(t), NEW b \in BOOLEAN, Complete(t, p, b)
          PROVE  Unlisted'
      BY <2>0, <3>3 DEF Complete, Polled, Unlisted
    <3> QED
      BY <2>4, <3>1, <3>2, <3>3 DEF Network
  <2>5. CASE Command
    <3>1. ASSUME NEW t \in Torrent, NEW v \in BOOLEAN, CloseTorrent(t, v)
          PROVE  Unlisted'
      BY <2>0, <3>1 DEF CloseTorrent, Unlisted
    <3>2. ASSUME NEW t \in Torrent, NEW v \in BOOLEAN, OpenTorrent(t, v) \/ OpenUrl(t, v)
          PROVE  Unlisted'
      BY <2>0, <3>2 DEF OpenTorrent, OpenUrl, Unlisted
    <3>3. ASSUME NEW t \in Torrent, NEW v \in State, SetState(t, v)
          PROVE  Unlisted'
      BY <2>0, <3>3 DEF SetState, Unlisted
    <3> QED
      BY <2>5, <3>1, <3>2, <3>3 DEF Command
  <2>6. CASE Save \/ Exit \/ Crash
    BY <2>6 DEF Save, Exit, Crash, Down, Unlisted
  <2>7. ASSUME NEW s \in SUBSET Torrent, UpdateStates(s) \/ StopTurn(s)
        PROVE  Unlisted'
    BY <2>0, <2>7 DEF UpdateStates, StopTurn, Queued, Dequeued, Unlisted
  <2>8. ASSUME NEW t \in Torrent, NEW pl \in Place, NEW s \in SubFile, Vanish(t, pl, s)
        PROVE  Unlisted'
    BY <2>8 DEF Vanish, Unlisted
  <2> QED
    BY <2>1, <2>2, <2>3, <2>4, <2>5, <2>6, <2>7, <2>8 DEF Next
<1>3. Unlisted /\ IInv => TypeOK
  <2> SUFFICES ASSUME Unlisted, IInv, NEW t \in Torrent
               PROVE  /\ tor[t].at \in -1..N(t) /\ tor[t].valid \subseteq Piece(t)
                      /\ tor[t] \in Cbt_file
    BY DEF TypeOK, IInv, Types, Cbt_file
  <2>1. N(t) \in Nat
    BY PiecesOf
  <2>2. CASE t \in listed
    BY <2>1, <2>2 DEF IInv, Types, Good, NoHasher
  <2>3. CASE t \notin listed
    <3>1. tor[t] = New(TRUE) /\ New(TRUE) \in Cbt_file
      BY <2>3, NewType DEF Unlisted
    <3>2. New(TRUE).at = -1 /\ New(TRUE).valid = {}
      BY DEF New, NoHasher
    <3>3. tor[t].at = -1 /\ tor[t].valid = {} /\ tor[t] \in Cbt_file
      BY <3>1, <3>2
    <3>4. tor[t].at \in -1..N(t)
      BY <2>1, <3>3
    <3> QED
      BY <3>3, <3>4
  <2> QED
    BY <2>2, <2>3
<1>4. Spec => []IInv
  BY Invariant
<1> QED
  BY <1>1, <1>2, <1>3, <1>4, PTL DEF Spec

-----------------------------------------------------------------------------
(* A pause.                                                                 *)

\* PauseHolds: whatever runs a torrent that is paused is a user, or the end of a check.
THEOREM PauseIsKept == TorrentsAssumption => (Spec => PauseHolds)
<1> SUFFICES ASSUME TorrentsAssumption
             PROVE  Spec => PauseHolds
  OBVIOUS
<1> DEFINE Holds == \A t \in listed \cap listed' :
              /\ phase = phase'
              /\ tor[t].state = "paused" /\ tor'[t].state \in {"running", "hashing", "queued"}
              => tor[t].at # NoHasher \/ \E v \in State : SetState(t, v)
<1>1. IInv /\ [Next]_vars => [Holds]_vars
  <2> SUFFICES ASSUME IInv, Next, NEW t \in listed \cap listed', phase = phase',
                      tor[t].state = "paused", tor[t].at = NoHasher,
                      tor'[t].state \in {"running", "hashing", "queued"}
               PROVE  \E v \in State : SetState(t, v)
    BY DEF vars
  <2>0. /\ t \in Torrent /\ tor \in [Torrent -> Cbt_file] /\ tor'[t].state # tor[t].state
    BY DEF IInv, Types
  <2>1. ASSUME NEW u \in Torrent, Hash(u)
        PROVE  FALSE
    <3>1. u # t
      BY <2>1 DEF Hash
    <3> QED
      BY <2>0, <2>1, <3>1 DEF Hash
  <2>2. CASE Network
    <3>1. ASSUME NEW u \in Torrent, RatioReached(u)
          PROVE  FALSE
      <4>1. u # t
        BY <3>1 DEF RatioReached
      <4> QED
        BY <2>0, <3>1, <4>1 DEF RatioReached
    <3>2. ASSUME NEW u \in Torrent, ReadInfo(u)
          PROVE  FALSE
      BY <2>0, <3>2 DEF ReadInfo, Cbt_file
    <3>3. ASSUME NEW u \in Torrent, NEW p \in Piece(u), NEW b \in BOOLEAN, Chunk(u, p, b)
          PROVE  FALSE
      BY <2>0, <3>3 DEF Chunk, Cbt_file
    <3>4. ASSUME NEW u \in Torrent, NEW p \in Piece(u), NEW b \in BOOLEAN, Complete(u, p, b)
          PROVE  FALSE
      BY <2>0, <3>4 DEF Complete, Cbt_file
    <3> QED
      BY <2>2, <3>1, <3>2, <3>3, <3>4 DEF Network
  <2>3. CASE Command
    <3>1. ASSUME NEW u \in Torrent, NEW b \in BOOLEAN,
                 OpenTorrent(u, b) \/ OpenUrl(u, b) \/ CloseTorrent(u, b)
          PROVE  FALSE
      BY <2>0, <3>1 DEF OpenTorrent, OpenUrl, CloseTorrent
    <3>2. ASSUME NEW u \in Torrent, NEW v \in State, SetState(u, v)
          PROVE  u = t
      BY <2>0, <3>2 DEF SetState
    <3> QED
      BY <2>3, <3>1, <3>2 DEF Command
  <2>4. CASE Save
    BY <2>0, <2>4 DEF Save
  <2>5. CASE Start \/ Exit \/ Crash
    BY <2>5 DEF Start, Exit, Crash, Down, Up
  <2>6. ASSUME NEW s \in SUBSET Torrent, UpdateStates(s) \/ StopTurn(s)
        PROVE  FALSE
    BY <2>0, <2>6 DEF UpdateStates, StopTurn, Queued, Dequeued
  <2>7. ASSUME NEW u \in Torrent, NEW pl \in Place, NEW s \in SubFile, Vanish(u, pl, s)
        PROVE  FALSE
    BY <2>0, <2>7 DEF Vanish
  <2> QED
    BY <2>1, <2>2, <2>3, <2>4, <2>5, <2>6, <2>7 DEF Next
<1>2. Spec => []IInv
  BY Invariant
<1>3. Spec => [][Holds]_vars
  BY <1>1, <1>2, PTL DEF Spec
<1> QED
  BY <1>3 DEF PauseHolds

-----------------------------------------------------------------------------
(* What is left.                                                            *)

\* The count of a torrent: a check has counted the pieces up to where it is; the others
\* count what is missing, or down from -1; and without info there is nothing to count.
Counted(t, r) ==
  /\ r.at # NoHasher => r.left = Cardinality((1..r.at) \ r.valid)
  /\ IsOpen(r) /\ r.at = NoHasher /\ r.info
       => \/ r.left = Missing(t, r.valid)
          \/ r.place = "none" /\ r.left = -1 - Cardinality(r.valid)
  /\ ~r.info => r.left = -1

AllCounted == \A t \in listed : Counted(t, tor[t])

\* A torrent that is opened is counted, or counted from nothing while it is checked.
LEMMA OpenedCounted ==
  ASSUME TorrentsAssumption, NEW t \in Torrent, NEW r \in Cbt_file, Counted(t, r),
         ~IsOpen(r) => r.at = NoHasher
  PROVE  Counted(t, Opened(t, r))
<1> DEFINE o == Opened(t, r)
<1>0. o \in Cbt_file /\ o.info = r.info
  BY OpenedFields
<1>1. CASE IsOpen(r)
  BY <1>1, OpenedFields
<1>2. CASE ~IsOpen(r) /\ ~r.info
  <2>1. o = [r EXCEPT !.state = "running"]
    BY <1>2, OpenedFields
  <2>2. o.at = NoHasher /\ o.left = -1 /\ ~o.info
    BY <1>0, <1>2, <2>1 DEF Counted, Cbt_file
  <2> QED
    BY <2>2 DEF Counted
<1>3. CASE ~IsOpen(r) /\ r.info /\ r.validate
  <2>1. o.at = 0 /\ o.left = 0 /\ o.info
    BY <1>0, <1>3, OpenedFields
  <2>2. (1..0) \ o.valid = {} /\ NoHasher # 0
    BY DEF NoHasher
  <2>3. Cardinality((1..o.at) \ o.valid) = 0
    BY <2>1, <2>2, FS_EmptySet
  <2> QED
    BY <2>1, <2>2, <2>3 DEF Counted
<1>4. CASE ~IsOpen(r) /\ r.info /\ ~r.validate
  <2>1. o.at = NoHasher /\ o.left = Missing(t, o.valid) /\ o.info
    BY <1>0, <1>4, OpenedFields
  <2> QED
    BY <2>1 DEF Counted
<1> QED
  BY <1>1, <1>2, <1>3, <1>4

\* A torrent that is closed is not counted.
LEMMA ClosedCounted ==
  ASSUME NEW t \in Torrent, NEW r \in Cbt_file, Counted(t, r)
  PROVE  Counted(t, Closed(r))
<1>1. CASE IsOpen(r)
  BY <1>1, ClosedFields DEF Counted
<1>2. CASE ~IsOpen(r)
  BY <1>2, ClosedFields
<1> QED
  BY <1>1, <1>2

\* So is a torrent that is new.
LEMMA NewCounted ==
  ASSUME NEW t \in Torrent, NEW i \in BOOLEAN
  PROVE  Counted(t, New(i)) /\ New(i).at = NoHasher /\ ~IsOpen(New(i))
  BY DEF Counted, New, IsOpen, NoHasher

\* What is read back is counted.
LEMMA LoadedCounted ==
  ASSUME TorrentsAssumption, NEW t \in Torrent, NEW e \in Record
  PROVE  Counted(t, Loaded(t, e))
<1> DEFINE n == New(e.info)
           r == [n EXCEPT !.validate = e.validate, !.valid = e.valid, !.place = e.place]
<1>1. /\ e.validate \in BOOLEAN /\ e.info \in BOOLEAN /\ e.valid \in SUBSET Nat
      /\ e.place \in Place /\ e.state \in State
  BY DEF Record
<1>2. n \in Cbt_file /\ n.at = NoHasher /\ n.left = -1
  BY <1>1, NewType DEF New
<1> HIDE DEF n
<1>3. r \in Cbt_file
  BY <1>1, <1>2, ZenonT(30) DEF Cbt_file
<1>4. r.at = NoHasher /\ r.left = -1
  BY <1>2 DEF Cbt_file
<1>5. Loaded(t, e) = IF IsOpen(e) THEN Opened(t, [r EXCEPT !.state = "stopped"])
                     ELSE [r EXCEPT !.state = e.state]
  BY DEF Loaded, n
<1> HIDE DEF r
<1>6. ASSUME NEW v \in State, ~IsOpen([state |-> v])
      PROVE  /\ [r EXCEPT !.state = v] \in Cbt_file /\ [r EXCEPT !.state = v].at = NoHasher
             /\ Counted(t, [r EXCEPT !.state = v])
  <2> DEFINE s == [r EXCEPT !.state = v]
  <2>1. s \in Cbt_file /\ s.at = NoHasher /\ s.left = -1 /\ s.state = v
    BY <1>3, <1>4 DEF Cbt_file
  <2>2. ~IsOpen(s)
    BY <1>6, <2>1 DEF IsOpen
  <2> HIDE DEF s
  <2>3. Counted(t, s)
    BY <2>1, <2>2 DEF Counted
  <2> QED
    BY <2>1, <2>3 DEF s
<1>7. CASE IsOpen(e)
  <2>1. "stopped" \in State /\ ~IsOpen([state |-> "stopped"])
    BY DEF State, IsOpen
  <2>2. /\ [r EXCEPT !.state = "stopped"] \in Cbt_file
        /\ [r EXCEPT !.state = "stopped"].at = NoHasher
        /\ Counted(t, [r EXCEPT !.state = "stopped"])
    BY <1>6, <2>1
  <2>3. Counted(t, Opened(t, [r EXCEPT !.state = "stopped"]))
    BY <2>2, OpenedCounted
  <2> QED
    BY <1>5, <1>7, <2>3
<1>8. CASE ~IsOpen(e)
  <2>1. ~IsOpen([state |-> e.state])
    BY <1>8 DEF IsOpen
  <2> QED
    BY <1>1, <1>5, <1>6, <1>8, <2>1
<1> QED
  BY <1>7, <1>8

\* Pieces that are counted twice in a row are counted once.
LEMMA CountOn ==
  ASSUME NEW S, NEW T, IsFiniteSet(S), IsFiniteSet(T), S \cap T = {}
  PROVE  Cardinality(S \cup T) = Cardinality(S) + Cardinality(T) /\ Cardinality(S \cup T) \in Nat
<1>1. Cardinality(S \cap T) = 0
  BY FS_EmptySet
<1>2. Cardinality(S \cup T) = Cardinality(S) + Cardinality(T) - Cardinality(S \cap T)
  BY FS_Union
<1>3. Cardinality(S) \in Nat /\ Cardinality(T) \in Nat
  BY FS_CardinalityType
<1> QED
  BY <1>1, <1>2, <1>3

\* A step that changes one torrent, which is counted.
LEMMA OneCounted ==
  ASSUME IInv, AllCounted, NEW t \in Torrent, NEW r, listed' \subseteq listed \cup {t},
         tor' = [tor EXCEPT ![t] = r], t \in listed' => Counted(t, r)
  PROVE  AllCounted'
<1>1. tor'[t] = r /\ \A u \in Torrent \ {t} : tor'[u] = tor[u]
  BY DEF IInv, Types
<1>2. ASSUME NEW u \in listed'
      PROVE  Counted(u, tor[u])'
  <2>1. CASE u = t
    BY <1>1, <1>2, <2>1 DEF Counted, Missing
  <2>2. CASE u # t
    <3>1. u \in listed /\ u \in Torrent
      BY <2>2, <1>2 DEF IInv, Types
    <3>2. Counted(u, tor[u]) /\ tor'[u] = tor[u]
      BY <1>1, <2>2, <3>1 DEF AllCounted
    <3> QED
      BY <3>2 DEF Counted, Missing
  <2> QED
    BY <2>1, <2>2
<1> QED
  BY <1>2 DEF AllCounted

\* What a torrent that is checked adds is what it finds missing.
LEMMA HashCounts ==
  ASSUME TorrentsAssumption, IInv, AllCounted, NEW t \in Torrent, Hash(t)
  PROVE  AllCounted'
<1> DEFINE r == tor[t]
           n == IF r.at + PerTurn <= N(t) THEN PerTurn ELSE N(t) - r.at
           c == (r.at + 1)..(r.at + n)
           v == (r.valid \ c) \cup (c \cap disk[t][r.place])
           l == r.left + Cardinality(c \ v)
           s == [r EXCEPT !.valid = v, !.left = l]
           new == IF n = PerTurn THEN [s EXCEPT !.at = r.at + n]
                  ELSE [s EXCEPT !.at = NoHasher, !.validate = FALSE, !.state = "running"]
<1>1. /\ t \in listed /\ r.at # NoHasher /\ tor' = [tor EXCEPT ![t] = new]
      /\ listed' = listed
  BY DEF Hash
<1>2. /\ r \in Cbt_file /\ N(t) \in Nat /\ PerTurn \in Nat \ {0}
      /\ Good(t, r, there[t], disk[t], t \notin lies)
  BY <1>1, PiecesOf DEF IInv, Types
<1>3. /\ r.at \in Nat /\ r.at <= N(t) /\ r.info
      /\ r.left = Cardinality((1..r.at) \ r.valid)
  <2>1. r.at \in 0..N(t) /\ r.info
    BY <1>1, <1>2 DEF Good
  <2>2. r.left = Cardinality((1..r.at) \ r.valid)
    BY <1>1 DEF AllCounted, Counted
  <2> QED
    BY <1>2, <2>1, <2>2
<1>4. n \in Nat /\ (n # PerTurn => r.at + n = N(t))
  <2>1. CASE r.at + PerTurn <= N(t)
    BY <1>2, <1>3, <2>1
  <2>2. CASE ~(r.at + PerTurn <= N(t))
    <3>1. n = N(t) - r.at
      BY <2>2
    <3> HIDE DEF n, r
    <3> QED
      BY <1>2, <1>3, <3>1
  <2> QED
    BY <2>1, <2>2
<1> HIDE DEF n, r
<1>5. l = Cardinality((1..(r.at + n)) \ v) /\ l \in Nat
  <2> DEFINE S == (1..r.at) \ r.valid
             T == c \ v
  <2>1. r.at \in Int /\ r.at + 1 \in Int /\ r.at + n \in Int
    BY <1>3, <1>4
  <2>2. IsFiniteSet(1..r.at) /\ IsFiniteSet(c)
    <3>1. \A i, j \in Int : IsFiniteSet(i..j)
      BY FS_Interval
    <3>2. 1 \in Int
      OBVIOUS
    <3> QED
      BY <2>1, <3>1, <3>2
  <2>3. S \in SUBSET (1..r.at) /\ T \in SUBSET c
    OBVIOUS
  <2>4. IsFiniteSet(S) /\ IsFiniteSet(T)
    BY <2>2, <2>3, FS_Subset
  <2>5. (1..r.at) \cap c = {}
    BY <1>3, <1>4
  <2>6. 1..(r.at + n) = (1..r.at) \cup c
    BY <1>3, <1>4
  <2> HIDE DEF c
  <2>7. S \cap T = {} /\ (1..(r.at + n)) \ v = S \cup T
    BY <2>5, <2>6
  <2> HIDE DEF S, T
  <2>8. Cardinality(S \cup T) = Cardinality(S) + Cardinality(T) /\ Cardinality(S \cup T) \in Nat
    BY <2>4, <2>7, CountOn
  <2>9. l = Cardinality(S) + Cardinality(T)
    BY <1>3 DEF S, T
  <2> QED
    BY <2>7, <2>8, <2>9
<1>6. v \in SUBSET Nat /\ l \in Int
  BY <1>2, <1>3, <1>4, <1>5 DEF Cbt_file
<1> HIDE DEF c, v, l
<1>7. s \in Cbt_file /\ s.valid = v /\ s.left = l /\ s.info
  <2>1. s \in Cbt_file
    BY <1>2, <1>5, <1>6, ZenonT(30) DEF Cbt_file
  <2> QED
    BY <1>2, <1>3, <2>1 DEF Cbt_file
<1> HIDE DEF s
<1>8. Counted(t, new)
  <2>1. CASE n = PerTurn
    <3> DEFINE a == [s EXCEPT !.at = r.at + n]
    <3>1. new = a
      BY <2>1
    <3>2. a.at = r.at + n /\ a.left = l /\ a.valid = v /\ a.info
      BY <1>7 DEF Cbt_file
    <3>3. a.at # NoHasher
      BY <1>3, <1>4, <3>2 DEF NoHasher
    <3> HIDE DEF a
    <3>4. Counted(t, a)
      BY <1>5, <3>2, <3>3 DEF Counted
    <3> QED
      BY <3>1, <3>4
  <2>2. CASE n # PerTurn
    <3> DEFINE a == [s EXCEPT !.at = NoHasher, !.validate = FALSE, !.state = "running"]
    <3>1. new = a
      BY <2>2
    <3>2. a.at = NoHasher /\ a.left = l /\ a.valid = v /\ a.info
      BY <1>7 DEF Cbt_file
    <3>3. l = Missing(t, v)
      BY <1>4, <1>5, <2>2 DEF Missing, Piece
    <3> HIDE DEF a
    <3>4. Counted(t, a)
      BY <3>2, <3>3 DEF Counted
    <3> QED
      BY <3>1, <3>4
  <2> QED
    BY <2>1, <2>2
<1> HIDE DEF new
<1> QED
  BY <1>1, <1>8, OneCounted

\* A piece that is completed is one less to get.
LEMMA CompleteCounts ==
  ASSUME TorrentsAssumption, IInv, AllCounted, NEW t \in Torrent, NEW p \in Piece(t),
         NEW moves \in BOOLEAN, Complete(t, p, moves)
  PROVE  AllCounted'
<1> DEFINE r   == tor[t]
           to  == IF moves THEN "completes" ELSE r.place
           new == [r EXCEPT !.valid = @ \cup {p}, !.left = @ - 1, !.place = to]
<1>1. /\ t \in listed /\ listed' = listed /\ IsOpen(r) /\ r.at = NoHasher /\ r.info
      /\ p \notin r.valid /\ (moves => r.place = "incompletes")
  BY DEF Complete, Polled
<1>2. r \in Cbt_file /\ Counted(t, r) /\ r.valid \subseteq Piece(t) /\ r.left \in Int
  BY <1>1 DEF IInv, Types, Good, AllCounted, Cbt_file
<1>3. tor' = [tor EXCEPT ![t] = new]
  BY DEF IInv, Types, Complete
<1>4. /\ new.valid = r.valid \cup {p} /\ new.left = r.left - 1 /\ new.place = to
      /\ new.at = NoHasher /\ new.info
  BY <1>1, <1>2 DEF Cbt_file
<1>5. IsFiniteSet(Piece(t))
  <2>1. N(t) \in Int
    BY PiecesOf
  <2> QED
    BY <2>1, FS_Interval DEF Piece
<1> HIDE DEF r, new
<1>6. CASE r.left = Missing(t, r.valid)
  <2>1. Piece(t) \ r.valid \in SUBSET Piece(t) /\ p \in Piece(t) \ r.valid
    BY <1>1
  <2>2. IsFiniteSet(Piece(t) \ r.valid)
    BY <1>5, <2>1, FS_Subset
  <2>3. Cardinality((Piece(t) \ r.valid) \ {p}) = Cardinality(Piece(t) \ r.valid) - 1
    BY <2>1, <2>2, FS_RemoveElement
  <2>4. (Piece(t) \ r.valid) \ {p} = Piece(t) \ new.valid
    BY <1>4
  <2>5. new.left = Missing(t, new.valid)
    BY <1>4, <1>6, <2>3, <2>4 DEF Missing
  <2>6. Counted(t, new)
    BY <1>4, <2>5 DEF Counted
  <2> QED
    BY <1>1, <1>3, <2>6, OneCounted
<1>7. CASE r.place = "none" /\ r.left = -1 - Cardinality(r.valid)
  <2>1. IsFiniteSet(r.valid)
    BY <1>2, <1>5, FS_Subset
  <2>2. Cardinality(r.valid \cup {p}) = Cardinality(r.valid) + 1 /\ Cardinality(r.valid) \in Nat
    BY <1>1, <2>1, FS_AddElement, FS_CardinalityType
  <2>3. new.place = "none" /\ new.left = -1 - Cardinality(new.valid)
    BY <1>1, <1>4, <1>7, <2>2
  <2>4. Counted(t, new)
    BY <1>4, <2>3 DEF Counted
  <2> QED
    BY <1>1, <1>3, <2>4, OneCounted
<1> QED
  BY <1>1, <1>2, <1>6, <1>7 DEF Counted

\* The other steps of the network.
LEMMA NetworkCounts ==
  ASSUME TorrentsAssumption, IInv, AllCounted, Network
  PROVE  AllCounted'
<1>0. tor \in [Torrent -> Cbt_file] /\ \A t \in listed : t \in Torrent /\ Counted(t, tor[t])
  BY DEF IInv, Types, AllCounted
<1>1. ASSUME NEW t \in Torrent, RatioReached(t)
      PROVE  AllCounted'
  <2>1. t \in listed /\ listed' = listed /\ tor' = [tor EXCEPT ![t] = Closed(tor[t])]
    BY <1>1 DEF RatioReached
  <2>2. Counted(t, Closed(tor[t]))
    BY <1>0, <2>1, ClosedCounted
  <2> QED
    BY <2>1, <2>2, OneCounted
<1>2. ASSUME NEW t \in Torrent, ReadInfo(t)
      PROVE  AllCounted'
  <2> DEFINE new == [tor[t] EXCEPT !.info = TRUE, !.place = "none"]
  <2>1. /\ t \in listed /\ listed' = listed /\ tor[t].at = NoHasher /\ ~tor[t].info
    BY <1>2 DEF ReadInfo, Polled
  <2>2. tor' = [tor EXCEPT ![t] = new]
    BY <1>0, <1>2 DEF ReadInfo
  <2>3. tor[t].valid = {} /\ tor[t].left = -1
    BY <1>0, <2>1 DEF IInv, Good, Counted
  <2>4. new.valid = {} /\ new.left = -1 /\ new.place = "none" /\ new.at = NoHasher /\ new.info
    BY <1>0, <2>1, <2>3 DEF Cbt_file
  <2> HIDE DEF new
  <2>5. new.left = -1 - Cardinality(new.valid)
    BY <2>4, FS_EmptySet
  <2>6. Counted(t, new)
    BY <2>4, <2>5 DEF Counted
  <2> QED
    BY <2>1, <2>2, <2>6, OneCounted
<1>3. ASSUME NEW t \in Torrent, NEW p \in Piece(t), NEW b \in BOOLEAN, Chunk(t, p, b)
      PROVE  AllCounted'
  <2> DEFINE new == IF b THEN [tor[t] EXCEPT !.state = "paused"] ELSE tor[t]
  <2>1. t \in listed /\ listed' = listed /\ IsOpen(tor[t])
    BY <1>3 DEF Chunk, Polled
  <2>2. tor' = [tor EXCEPT ![t] = new]
    BY <1>0, <1>3 DEF Chunk
  <2>3. /\ new.at = tor[t].at /\ new.left = tor[t].left /\ new.valid = tor[t].valid
        /\ new.place = tor[t].place /\ new.info = tor[t].info
    BY <1>0 DEF Cbt_file
  <2> HIDE DEF new
  <2>4. Counted(t, new)
    BY <1>0, <2>1, <2>3 DEF Counted
  <2> QED
    BY <2>1, <2>2, <2>4, OneCounted
<1> QED
  BY <1>1, <1>2, <1>3, CompleteCounts DEF Network

\* The commands of the user.
LEMMA CommandCounts ==
  ASSUME TorrentsAssumption, IInv, AllCounted, Command
  PROVE  AllCounted'
<1>0. /\ tor \in [Torrent -> Cbt_file]
      /\ \A t \in listed : t \in Torrent /\ Counted(t, tor[t])
      /\ \A t \in listed : ~IsOpen(tor[t]) => tor[t].at = NoHasher
  BY DEF IInv, Types, AllCounted, Good
<1>1. ASSUME NEW t \in Torrent, NEW room \in BOOLEAN, OpenTorrent(t, room)
      PROVE  AllCounted'
  <2> DEFINE n   == New(TRUE)
             new == IF room THEN Opened(t, n) ELSE n
  <2>1. n \in Cbt_file /\ Counted(t, n) /\ n.at = NoHasher
    BY NewType, NewCounted
  <2> HIDE DEF n
  <2>2. Counted(t, new)
    BY <2>1, OpenedCounted
  <2>3. listed' = listed \cup {t} /\ tor' = [tor EXCEPT ![t] = new]
    BY <1>1 DEF OpenTorrent, n
  <2> HIDE DEF new
  <2> QED
    BY <2>2, <2>3, OneCounted
<1>2. ASSUME NEW t \in Torrent, NEW room \in BOOLEAN, OpenUrl(t, room)
      PROVE  AllCounted'
  <2> DEFINE new == IF room THEN [New(FALSE) EXCEPT !.state = "running"] ELSE New(FALSE)
  <2>1. /\ New(FALSE) \in Cbt_file /\ New(FALSE).at = NoHasher /\ New(FALSE).left = -1
        /\ ~New(FALSE).info
    BY NewType DEF New
  <2>2. new.at = NoHasher /\ new.left = -1 /\ ~new.info
    BY <2>1 DEF Cbt_file
  <2>3. listed' = listed \cup {t} /\ tor' = [tor EXCEPT ![t] = new]
    BY <1>2 DEF OpenUrl
  <2> HIDE DEF new
  <2>4. Counted(t, new)
    BY <2>2 DEF Counted
  <2> QED
    BY <2>3, <2>4, OneCounted
<1>3. ASSUME NEW t \in Torrent, NEW erase \in BOOLEAN, CloseTorrent(t, erase)
      PROVE  AllCounted'
  <2>1. listed' = listed \ {t} /\ tor' = [tor EXCEPT ![t] = New(TRUE)]
    BY <1>3 DEF CloseTorrent
  <2>2. listed' \subseteq listed \cup {t} /\ t \notin listed'
    BY <2>1
  <2> QED
    BY <2>1, <2>2, OneCounted
<1>4. ASSUME NEW t \in Torrent, NEW v \in State, SetState(t, v)
      PROVE  AllCounted'
  <2> DEFINE r == tor[t]
             shuts == v \in {"queued", "stopped"}
             opens == ~shuts /\ ~IsOpen(r)
             base  == IF shuts THEN Closed(r) ELSE r
             new   == IF opens THEN Opened(t, r) ELSE [base EXCEPT !.state = v]
  <2>1. t \in listed /\ listed' = listed
    BY <1>4 DEF SetState
  <2>2. tor' = [tor EXCEPT ![t] = new]
    BY <1>0, <1>4 DEF SetState
  <2>3. r \in Cbt_file /\ Counted(t, r) /\ (~IsOpen(r) => r.at = NoHasher)
    BY <1>0, <2>1
  <2>4. Counted(t, new)
    <3>1. CASE opens
      BY <2>3, <3>1, OpenedCounted
    <3>2. CASE ~opens
      <4> DEFINE s == [base EXCEPT !.state = v]
      <4>1. new = s
        BY <3>2
      <4>2. base \in Cbt_file /\ Counted(t, base)
        BY <2>3, ClosedFields, ClosedCounted
      <4>3. IsOpen([state |-> v]) => IsOpen(base)
        BY <3>2 DEF IsOpen
      <4> HIDE DEF base
      <4>4. /\ s.state = v /\ s.at = base.at /\ s.valid = base.valid
            /\ s.place = base.place /\ s.left = base.left /\ s.info = base.info
        BY <4>2 DEF Cbt_file
      <4> HIDE DEF s
      <4>5. IsOpen(s) => IsOpen(base)
        BY <4>3, <4>4 DEF IsOpen
      <4>6. Counted(t, s)
        BY <4>2, <4>4, <4>5 DEF Counted
      <4> HIDE DEF new
      <4> QED
        BY <4>1, <4>6
    <3> QED
      BY <3>1, <3>2
  <2> HIDE DEF new
  <2> QED
    BY <2>1, <2>2, <2>4, OneCounted
<1> QED
  BY <1>1, <1>2, <1>3, <1>4 DEF Command

\* Torrents that are opened by a timer.
LEMMA TimerCounts ==
  ASSUME TorrentsAssumption, IInv, AllCounted, NEW s \in SUBSET Torrent,
         UpdateStates(s) \/ StopTurn(s)
  PROVE  AllCounted'
<1>0. /\ tor \in [Torrent -> Cbt_file] /\ listed' = listed
      /\ \A t \in listed : t \in Torrent /\ Counted(t, tor[t])
      /\ \A t \in listed : ~IsOpen(tor[t]) => tor[t].at = NoHasher
  BY DEF IInv, Types, AllCounted, Good, UpdateStates, StopTurn
<1>1. ASSUME NEW f \in [Torrent -> Cbt_file], tor' = Dequeued(f, s),
             \A t \in listed : Counted(t, f[t]),
             \A t \in listed : ~IsOpen(f[t]) => f[t].at = NoHasher
      PROVE  AllCounted'
  <2>1. ASSUME NEW t \in listed
        PROVE  Counted(t, tor'[t])
    <3>1. /\ t \in Torrent /\ f[t] \in Cbt_file /\ Counted(t, f[t])
          /\ ~IsOpen(f[t]) => f[t].at = NoHasher
      BY <1>0, <1>1
    <3>2. tor'[t] = IF t \in s THEN Opened(t, f[t]) ELSE f[t]
      BY <1>1, <3>1 DEF Dequeued
    <3> QED
      BY <3>1, <3>2, OpenedCounted
  <2> QED
    BY <1>0, <2>1 DEF AllCounted, Counted, Missing
<1>2. CASE UpdateStates(s)
  <2>1. tor' = Dequeued(tor, s)
    BY <1>2 DEF UpdateStates
  <2> QED
    BY <1>0, <1>1, <2>1
<1>3. CASE StopTurn(s)
  <2> DEFINE f == [t \in Torrent |-> IF t \in listed THEN Closed(tor[t]) ELSE tor[t]]
  <2>1. tor' = Dequeued(f, s)
    BY <1>3 DEF StopTurn
  <2>2. f \in [Torrent -> Cbt_file]
    BY <1>0, ClosedFields
  <2>3. ASSUME NEW t \in listed
        PROVE  Counted(t, f[t]) /\ (~IsOpen(f[t]) => f[t].at = NoHasher)
    <3>1. t \in Torrent /\ f[t] = Closed(tor[t]) /\ tor[t] \in Cbt_file
      BY <1>0
    <3>2. Counted(t, Closed(tor[t])) /\ Closed(tor[t]).at = NoHasher
      BY <1>0, <3>1, ClosedFields, ClosedCounted
    <3> QED
      BY <3>1, <3>2
  <2> HIDE DEF f
  <2> QED
    BY <1>1, <2>1, <2>2, <2>3
<1> QED
  BY <1>2, <1>3

\* Every step keeps the counts.
LEMMA StepCounts ==
  ASSUME TorrentsAssumption, IInv, AllCounted, [Next]_vars
  PROVE  AllCounted'
<1>1. CASE UNCHANGED <<listed, tor>>
  BY <1>1 DEF AllCounted, Counted, Missing
<1>2. CASE Next
  <2>1. CASE Start
    <3>1. ASSUME NEW t \in listed'
          PROVE  Counted(t, tor'[t])
      <4>1. t \in Torrent /\ saved[t] \in Record /\ tor'[t] = Loaded(t, saved[t])
        BY <2>1, <3>1 DEF Start, IInv, Types
      <4> QED
        BY <4>1, LoadedCounted
    <3> QED
      BY <3>1 DEF AllCounted, Counted, Missing
  <2>2. ASSUME NEW t \in Torrent, Hash(t)
        PROVE  AllCounted'
    BY <2>2, HashCounts
  <2>3. CASE Network
    BY <2>3, NetworkCounts
  <2>4. CASE Command
    BY <2>4, CommandCounts
  <2>5. CASE Save
    BY <1>1, <2>5 DEF Save
  <2>6. CASE Exit \/ Crash
    BY <2>6 DEF Exit, Crash, Down, AllCounted
  <2>7. ASSUME NEW s \in SUBSET Torrent, UpdateStates(s) \/ StopTurn(s)
        PROVE  AllCounted'
    BY <2>7, TimerCounts
  <2>8. ASSUME NEW t \in Torrent, NEW pl \in Place, NEW s \in SubFile, Vanish(t, pl, s)
        PROVE  AllCounted'
    BY <1>1, <2>8 DEF Vanish
  <2> QED
    BY <1>2, <2>1, <2>2, <2>3, <2>4, <2>5, <2>6, <2>7, <2>8 DEF Next
<1> QED
  BY <1>1, <1>2 DEF vars

\* LeftExact: the bytes left are those of the pieces, however checks are broken off.
THEOREM LeftIsExact == TorrentsAssumption => (Spec => []LeftExact)
<1> SUFFICES ASSUME TorrentsAssumption
             PROVE  Spec => []LeftExact
  OBVIOUS
<1>1. Init => AllCounted
  BY DEF Init, AllCounted
<1>2. AllCounted /\ IInv /\ [Next]_vars => AllCounted'
  BY StepCounts
<1>3. Spec => []IInv
  BY Invariant
<1>4. AllCounted => LeftExact
  BY DEF AllCounted, Counted, LeftExact
<1> QED
  BY <1>1, <1>2, <1>3, <1>4, PTL DEF Spec
=============================================================================
