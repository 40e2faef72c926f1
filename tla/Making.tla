------------------------------- MODULE Making -------------------------------
(***************************************************************************)
(* The torrents the client makes of files that are dropped on it            *)
(* (Cdlg_make_torrent), and who reads them: the window before it opens one  *)
(* (Cbt_torrent) and the torrent itself (Cbt_file::torrent, info).          *)
(*                                                                         *)
(* A name is a number that stands for its place in the alphabet; the first *)
(* ones are special.  A dropped node is a directory [name, entries] or a   *)
(* file [name, size, read], where read is how much of it can be read when  *)
(* the torrent is made.  SHA-1 is free of collisions: the hash of bytes is *)
(* the bytes themselves, the hash of a chunk its number.                   *)
(***************************************************************************)
EXTENDS Layout, TLC

CONSTANTS
  Chunk, FirstPiece, MerklePiece,      \* 1 KiB, 256 KiB and 1 MiB
  MostPieces,                          \* 4096: pieces become larger above it
  MostFiles, LargestTorrent,           \* 255; 512 KiB: a larger file is none
  Smallest, Largest, LargestShown,     \* 16 KiB, 16 MiB, 4 MiB: pieces that are taken
  MostChunks                           \* bound: the chunks of a file

Texts == INSTANCE Texts
Hashed(n) == INSTANCE MerkleTree WITH Chunks <- n, tree <- <<>>, held <- <<>>, lied <- FALSE

None     == -1     \* no name
Hidden   == 0      \* begins with a dot
System   == 1      \* desktop.ini and thumbs.db
Improper == 2      \* holds one of the characters "*/:<>?\|
Refused(name) == name \in {None, Hidden, Improper}

LOCAL Ceil(n, c)    == (n + c - 1) \div c
LOCAL IsDir(node)   == "entries" \in DOMAIN node
LOCAL Without(m, i) == [j \in DOMAIN m \ {i} |-> m[j]]

-----------------------------------------------------------------------------
(* The list of the dialog: m.files, m_map, and m.name, m_name.             *)

NewList == [files |-> <<>>, name |-> None]

\* insert.  The first directory gives the torrent its name.
RECURSIVE Insert(_, _, _)
Insert(m, at, node) ==
  LET path == Append(at, node.name)
  IN IF node.name = System THEN m
     ELSE IF IsDir(node)
     THEN FoldLeft(LAMBDA r, e : IF e.name = Hidden THEN r ELSE Insert(r, path, e),
                   IF m.name = None THEN [m EXCEPT !.name = node.name] ELSE m, node.entries)
     ELSE IF node.size = 0 THEN m
     ELSE [m EXCEPT !.files = Append(@, [path |-> path, size |-> node.size, read |-> node.read])]

\* post_insert
PostInsert(m) == IF Len(m.files) = 1 THEN [m EXCEPT !.name = Last(m.files[1].path)] ELSE m
Savable(m)    == Len(m.files) \in 1..MostFiles

\* OnDropFiles of the dialog.
Drop(m, at, nodes) == PostInsert(FoldLeft(LAMBDA r, n : Insert(r, at, n), m, nodes))

\* OnDropFiles of the main window: small files are opened as torrents, the others are
\* taken in the order of their names.
DropOnWindow(at, nodes) ==
  Drop(NewList, at,
       SortSeq(SelectSeq(nodes, LAMBDA n : IsDir(n) \/ n.size > LargestTorrent),
               LAMBDA n, o : n.name < o.name))

-----------------------------------------------------------------------------
(* OnSave.                                                                 *)

SumOf(files) == FoldLeft(LAMBDA n, f : n + f.size, 0, files)

\* cb_piece
PieceLength(files, merkle) ==
  LET total == SumOf(files)
      double[k \in Nat] ==
        IF total \div (FirstPiece * 2 ^ k) > MostPieces THEN double[k + 1] ELSE FirstPiece * 2 ^ k
  IN IF merkle THEN MerklePiece ELSE double[0]

\* The set of full names.
Earlier(a, b) ==
  \E k \in DOMAIN b : /\ k - 1 <= Len(a) /\ SubSeq(a, 1, k - 1) = SubSeq(b, 1, k - 1)
                      /\ k > Len(a) \/ a[k] < b[k]
InOrder(files) == SetToSortSeq(ToSet(files), LAMBDA f, g : Earlier(f.path, g.path))

\* The files are read one after the other into one buffer of a piece.
Bytes(f) == [b \in 1..f.read |-> <<f.path, b - 1>>]
Pieces(files, piece) ==
  LET bytes == FlattenSeq([i \in DOMAIN files |-> Bytes(files[i])])
  IN [p \in 1..Ceil(Len(bytes), piece) |->
        SubSeq(bytes, (p - 1) * piece + 1, Min({p * piece, Len(bytes)}))]

\* The trees that are done, by their height, and what is made of them at the end.
RECURSIVE Carry(_, _, _)
Carry(m, i, h) ==
  IF i \in DOMAIN m THEN Carry(Without(m, i), i + 1, <<m[i], h>>) ELSE i :> h @@ m
RECURSIVE Close(_)
Close(m) ==
  LET a == Min(DOMAIN m)
      b == Min(DOMAIN m \ {a})
  IN IF m = <<>> THEN <<>>
     ELSE IF DOMAIN m = {a} THEN m[a]
     ELSE Close(0 :> <<m[b], m[a]>> @@ Without(Without(m, a), b))
MerkleHash(n) == Close(FoldLeft(LAMBDA m, k : Carry(m, 0, <<k - 1>>), <<>>, [k \in 1..n |-> k]))

ParseTrackers(v) == SelectSeq(Texts!Parts(v, Texts!Blanks), LAMBDA url : url # <<>>)

\* What is not in a dictionary is read as 0 or as empty.
Made(m, merkle, tracker, trackers) ==
  LET set   == InOrder(m.files)
      piece == PieceLength(m.files, merkle)
      files == [i \in DOMAIN set |->
                 [path |-> <<Last(set[i].path)>>, length |-> set[i].read,
                  merkle_hash |-> IF merkle THEN MerkleHash(Ceil(set[i].read, Chunk)) ELSE <<>>]]
      one   == [files |-> <<>>, length |-> files[1].length, merkle_hash |-> files[1].merkle_hash,
                name |-> files[1].path[1]]
      many  == [files |-> files, length |-> 0, merkle_hash |-> <<>>, name |-> m.name]
  IN [announce |-> tracker, announce_list |-> ParseTrackers(trackers),
      info |-> [piece_length |-> piece, pieces |-> IF merkle THEN <<>> ELSE Pieces(set, piece)]
               @@ (IF Len(m.files) = 1 THEN one ELSE many)]

-----------------------------------------------------------------------------
(* Who reads it.                                                           *)

SizesOf(info) ==
  IF info.files = <<>> THEN <<info.length>> ELSE [i \in DOMAIN info.files |-> info.files[i].length]
HashesOf(info) ==
  IF info.files = <<>> THEN <<info.merkle_hash>> ELSE [i \in DOMAIN info.files |-> info.files[i].merkle_hash]

\* Cbt_torrent: write_info stops at a name it refuses, and the torrent then has none.
Valid(info) ==
  /\ \A i \in DOMAIN info.files : \A k \in DOMAIN info.files[i].path : ~Refused(info.files[i].path[k])
  /\ \A i \in DOMAIN SizesOf(info) : SizesOf(info)[i] >= 0
  /\ ~Refused(info.name) /\ info.piece_length \in Smallest..LargestShown

\* Cbt_file::info
LayoutOf(info) == [piece |-> info.piece_length, merkle |-> info.pieces = <<>>, sizes |-> SizesOf(info)]
Taken(info) ==
  /\ info.name # None /\ Total(LayoutOf(info)) >= 1
  /\ info.piece_length \in Smallest..Largest
  /\ IF LayoutOf(info).merkle THEN \A i \in DOMAIN HashesOf(info) : HashesOf(info)[i] # <<>>
     ELSE Len(info.pieces) = Ceil(Total(LayoutOf(info)), info.piece_length)

\* CXBTClientDlg::open of the file that was saved.  Nothing unpacks a packed one.
Opened(info, packed) == ~packed /\ Valid(info) /\ Taken(info)

\* Cbt_file::torrent, and OnLoadTrackers of the dialog.
TrackersOf(t)     == IF t.announce_list = <<>> THEN <<t.announce>> ELSE t.announce_list
LoadedTrackers(t) == FlattenSeq([k \in DOMAIN t.announce_list |-> t.announce_list[k] \o <<13, 10>>])

\* What its tree makes of all the chunks of a file.
ClientHash == [n \in 1..MostChunks |-> Hashed(n)!FullTo[n][Hashed(n)!Depth][0]]

-----------------------------------------------------------------------------
\* A client that takes the torrent finds in the files what the hashes are of, piece by
\* piece or chunk by chunk, also if files were dropped twice or could not be read to the
\* end (dlg_make_torrent.cpp:213 and bt_file.cpp:57).
HashesHold(info, files) ==
  LET t == LayoutOf(info)
      bytes(p) == LET parts == Parts(t, p * t.piece, PieceSizes(t)[p + 1]).parts
                  IN FlattenSeq([k \in DOMAIN parts |->
                       SubSeq(Bytes(files[parts[k][1]]), parts[k][2] + 1, parts[k][2] + parts[k][3])])
  IN Taken(info) =>
       IF t.merkle
       THEN \A i \in DOMAIN files : HashesOf(info)[i] = ClientHash[Ceil(t.sizes[i], Chunk)]
       ELSE \A p \in 0..(Len(info.pieces) - 1) : info.pieces[p + 1] = bytes(p)

\* What was read in full can be seeded after making, if its name and the files that were
\* dropped by themselves (at an empty path) are named properly, but for what a limit and
\* the packing exclude: pieces larger than Cbt_torrent::valid takes, above
\* 16 GiB, and Merkle torrents that are saved packed (dlg_make_torrent.cpp:233, 333).
SeedsAfterMaking(m, merkle, info, packed) ==
  (/\ \A k \in DOMAIN m.files : m.files[k].read = m.files[k].size
   /\ ~Refused(m.name) /\ \A k \in DOMAIN m.files : Len(m.files[k].path) = 1 => ~Refused(m.files[k].path[1]))
    => (Opened(info, packed) <=> ~packed /\ (merkle \/ SumOf(m.files) < (MostPieces + 1) * LargestShown))

\* The trackers of a torrent made here come back from it, into its list of trackers and
\* into the dialog (dlg_make_torrent.cpp:193, 380).
TrackersComeBack(t, trackers) ==
  /\ ParseTrackers(LoadedTrackers(t)) = t.announce_list
  /\ t.announce_list # <<>> => TrackersOf(t) = Texts!Trackers(trackers)

\* All three, of what is dropped in several goes, saved under a name that was typed or not.
TorrentHolds(m, typed, merkle, packed, tracker, trackers) ==
  LET n == IF typed = None THEN m ELSE [m EXCEPT !.name = typed]
      t == Made(n, merkle, tracker, trackers)
  IN Savable(m) =>
       /\ HashesHold(t.info, InOrder(n.files))
       /\ SeedsAfterMaking(n, merkle, t.info, merkle /\ packed)
       /\ TrackersComeBack(t, trackers)
=============================================================================
