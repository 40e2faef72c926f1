------------------------------- MODULE Layout -------------------------------
(***************************************************************************)
(* Where the bytes of a torrent are: its pieces, the files they lie in,    *)
(* and the walks over the files that should agree about it (Cbt_file:      *)
(* info, write_data and read_data, open, update_piece_priorities; and the  *)
(* count of what is left in Cbt_hasher::run).  Two of them, open and       *)
(* update_piece_priorities, do not: they forget that the files of a Merkle *)
(* torrent start a piece.                                                  *)
(*                                                                         *)
(* A torrent is [piece, merkle, sizes]: mcb_piece, whether it is a Merkle  *)
(* torrent, and the sizes of its files.  The pieces of a Merkle torrent    *)
(* are a power of two.  Offsets and pieces count from 0.                   *)
(***************************************************************************)
EXTENDS Integers, Sequences, FiniteSetsExt, SequencesExt

LOCAL Lesser(a, b) == IF a < b THEN a ELSE b
LOCAL Files(t)     == DOMAIN t.sizes
LOCAL Ceil(n, c)   == (n + c - 1) \div c

\* info: the offset of each file; the files of a Merkle torrent start a piece.
Offsets(t) ==
  LET f[i \in Files(t)] ==
        IF i = 1 THEN 0
        ELSE LET e == f[i - 1] + t.sizes[i - 1]
             IN IF t.merkle THEN t.piece * Ceil(e, t.piece) ELSE e
  IN f

\* open and update_piece_priorities count along without that, in Merkle torrents too.
RunningOffsets(t) == Offsets([t EXCEPT !.merkle = FALSE])

\* Mutant: the last piece is a whole one.
InPiecesWhole(n, piece) == [k \in 1..Ceil(n, piece) |-> piece]

\* n bytes in pieces, the last one shorter.
InPieces(n, piece) == [k \in 1..Ceil(n, piece) |-> Lesser(n - piece * (k - 1), piece)]

Total(t) == FoldLeft(+, 0, t.sizes)

\* info: the sizes of the pieces.  No piece of a Merkle torrent lies in two files.
PieceSizes(t) ==
  IF t.merkle THEN FlattenSeq([i \in Files(t) |-> InPieces(t.sizes[i], t.piece)])
  ELSE InPieces(Total(t), t.piece)

\* write_data and read_data of n bytes at an offset: the parts <<file, at, bytes>>, in
\* the order in which they are written.
Parts(t, offset, n) ==
  LET place == Offsets(t)
      one(s, i) ==
        IF s.n = 0 \/ s.at >= place[i] + t.sizes[i] THEN s
        ELSE LET c == Lesser(s.n, place[i] + t.sizes[i] - s.at)
             IN [at |-> s.at + c, n |-> s.n - c,
                 parts |-> Append(s.parts, <<i, s.at - place[i], c>>)]
  IN FoldLeft(one, [at |-> offset, n |-> n, parts |-> <<>>], [i \in Files(t) |-> i])

\* run: what is left of each file, piece by piece; s: the file, and the place in it.
LeftOf(t, valid) ==
  LET take[s \in [file : Nat, at : Nat, left : [Files(t) -> Nat], n : Nat], p \in Nat] ==
        IF s.n = 0 THEN s
        ELSE LET c == Lesser(s.n, t.sizes[s.file] - s.at)
                 e == s.at + c = t.sizes[s.file]
             IN take[[file |-> IF e THEN s.file + 1 ELSE s.file, at |-> IF e THEN 0 ELSE s.at + c,
                      left |-> IF p \in valid THEN s.left ELSE [s.left EXCEPT ![s.file] = @ + c],
                      n |-> s.n - c], p]
      pieces == PieceSizes(t)
      f[p \in 0..Len(pieces)] ==
        IF p = 0 THEN [file |-> 1, at |-> 0, left |-> [i \in Files(t) |-> 0], n |-> 0]
        ELSE take[[f[p - 1] EXCEPT !.n = pieces[p]], p - 1]
  IN f[Len(pieces)].left

\* The pieces a file lies in.  Of an empty file: the piece around it; C++ rounds the end
\* of an empty first file to piece 0.
Touched(t, i) ==
  LET a == RunningOffsets(t)[i]
      e == a + t.sizes[i] - 1
  IN a \div t.piece .. (IF e < 0 THEN 0 ELSE e \div t.piece)

\* open: the pieces that are given up for files that cannot be opened.
GivenUp(t, missing) == UNION {Touched(t, i) : i \in {j \in missing : t.sizes[j] > 0}}

\* update_piece_priorities
Priority(t, priority, p) == Max({-128} \cup {priority[i] : i \in {j \in Files(t) : p \in Touched(t, j)}})

-----------------------------------------------------------------------------
\* The walks of open and update_piece_priorities are in step at file i: in a Merkle
\* torrent, when the files before it fill their pieces.
InStep(t, i) == t.merkle => \A j \in 1..(i - 1) : t.sizes[j] % t.piece = 0

\* Every byte of every file lies in exactly one piece, and a piece that is written is read
\* back from the same places; what the hasher counts as left of a file is what its
\* invalid pieces hold of it.  A file that is missing costs exactly the pieces it has
\* bytes in, and makes them as wanted as it is, where the walks of open and
\* update_piece_priorities are in step, and nowhere else: the other files of a Merkle
\* torrent cost other pieces than their own (bt_file.cpp:197, 900).
BytesHavePlaces(t, priority) ==
  LET pieces == PieceSizes(t)
      P == 0..(Len(pieces) - 1)
      where == [p \in P |-> Parts(t, p * t.piece, pieces[p + 1])]
      bytes == [p \in P |-> [i \in Files(t) |->
                  FoldLeft(LAMBDA n, k : IF k[1] = i THEN n + k[3] ELSE n, 0, where[p].parts)]]
      full(i) == {p \in P : bytes[p][i] > 0}
  IN /\ \A p \in P : where[p].n = 0
     /\ \A i \in Files(t) : \A b \in 0..(t.sizes[i] - 1) :
          Quantify(P, LAMBDA p : \E k \in ToSet(where[p].parts) :
                                   k[1] = i /\ b \in k[2]..(k[2] + k[3] - 1)) = 1
     /\ \A p \in P : \A i \in Files(t) :
          /\ LeftOf(t, P \ {p})[i] = bytes[p][i]
          /\ LeftOf(t, {p})[i] = t.sizes[i] - bytes[p][i]
     /\ \A i \in Files(t) :
          /\ t.sizes[i] > 0 => (GivenUp(t, {i}) = full(i) <=> InStep(t, i))
          /\ InStep(t, i) => \A p \in full(i) : Priority(t, priority, p) >= priority[i]
     /\ (\A i \in Files(t) : InStep(t, i)) =>
          \A p \in P : \E i \in Files(t) :
            (p \in full(i) \/ t.sizes[i] = 0) /\ Priority(t, priority, p) = priority[i]
=============================================================================
