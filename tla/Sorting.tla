------------------------------- MODULE Sorting -------------------------------
(***************************************************************************)
(* How the lists of the Windows client are sorted (Client/XBT               *)
(* ClientDlg.cpp): each column has a comparison of two elements, which is   *)
(* handed to the list control.  Numbers are exact here; the code computes   *)
(* the products of the column "done" of the sub-files in float.             *)
(***************************************************************************)
EXTENDS Integers, Sequences, SequencesExt

Compare(a, b, c) == IF a < b THEN -1 ELSE IF a = b THEN c ELSE 1
Less(a, b) == Compare(a, b, 0)

\* A name is a number that stands for its place in the alphabet; icompare
\* compares names without case.
ICompare(a, b, c) == IF Less(a, b) = 0 THEN c ELSE Less(a, b)

\* A host name is the sequence of its labels.  They are compared from the last
\* one on; a name that ends first comes first.
CompareHostNames(a, b) ==
    LET ra == Reverse(a)
        rb == Reverse(b)
        differ == {k \in DOMAIN ra \cap DOMAIN rb : ra[k] # rb[k]}
    IN  IF differ = {} THEN Less(Len(a), Len(b))
        ELSE LET k == CHOOSE k \in differ : \A j \in differ : k <= j
             IN  ICompare(ra[k], rb[k], 0)

\* Thousandths of the size, by the division of C++, which rounds to zero.
Abs(n) == IF n < 0 THEN -n ELSE n
Share(part, size) ==
    IF size = 0 THEN 0
    ELSE (IF part * size < 0 THEN -1 ELSE 1) * ((Abs(part) * 1000) \div Abs(size))

-----------------------------------------------------------------------------
\* The torrents.  "up" and "down" stand for the columns that sort by one field,
\* in rising order (hash, size, leechers, seeders, state, name) or in falling
\* order (the totals, the rates, the priority and the times).
FileColumns == {"done", "left", "total_rel", "peers", "up", "down"}

FilesCompare(col, reverse, x, y) ==
    LET a == IF reverse THEN y ELSE x
        b == IF reverse THEN x ELSE y
    IN  CASE col = "done" -> Less(Share(b.left, b.size), Share(a.left, a.size))
          [] col = "left" -> Compare(a.left, b.left, Less(a.name, b.name))
          [] col = "total_rel" -> Less(Share(b.total, b.size), Share(a.total, a.size))
          [] col = "peers" -> Less(a.leechers + a.seeders, b.leechers + b.seeders)
          [] col = "up" -> Less(a.leechers, b.leechers)
          [] col = "down" -> Less(b.total, a.total)
          [] OTHER -> 0      \* the column of a list sorted by nothing (-1)

\* The events, and those of the server: by time means the newest first.
EventColumns == {"time", "level"}

EventsCompare(col, reverse, x, y) ==
    LET a == IF reverse THEN y ELSE x
        b == IF reverse THEN x ELSE y
    IN  CASE col = "time" -> Less(b.id, a.id)
          [] col = "level" -> Less(a.level, b.level)     \* and source, message
          [] OTHER -> 0

\* The peers; "up" and "down" as for the torrents.
PeerColumns == {"host_name", "done", "left", "up", "down"}

PeersCompare(col, reverse, x, y) ==
    LET a == IF reverse THEN y ELSE x
        b == IF reverse THEN x ELSE y
    IN  CASE col = "host_name" -> CompareHostNames(a.host_name, b.host_name)
          [] col = "done" -> Less(b.left, a.left)
          [] col = "left" -> Less(a.left, b.left)
          [] col = "up" -> Less(a.rate, b.rate)
          [] col = "down" -> Less(b.rate, a.rate)
          [] OTHER -> 0

\* The pieces: equal ones stand in the order of their rank.
PieceColumns == {"index", "c_chunks", "field", "rank"}

\* A plausible slip: the second key compares in one direction only.
PiecesCompareHalf(col, reverse, x, y) ==
    LET a == IF reverse THEN y ELSE x
        b == IF reverse THEN x ELSE y
    IN  IF a.chunks < b.chunks THEN 1 ELSE IF a.rank < b.rank THEN -1 ELSE 1

PiecesCompare(col, reverse, x, y) ==
    LET a == IF reverse THEN y ELSE x
        b == IF reverse THEN x ELSE y
        rank == Less(a.rank, b.rank)
    IN  CASE col = "index" -> Less(a.index, b.index)
          [] col = "c_chunks" -> Compare(b.chunks, a.chunks, rank)
          [] col = "field" -> Compare(a.field, b.field, rank)   \* peers, priority, valid
          [] col = "rank" -> rank
          [] OTHER -> 0

\* The sub-files.
SubFileColumns == {"extension", "done", "up", "down"}

SubFilesCompare(col, reverse, x, y) ==
    LET a == IF reverse THEN y ELSE x
        b == IF reverse THEN x ELSE y
    IN  CASE col = "extension" -> ICompare(a.extension, b.extension, ICompare(a.name, b.name, 0))
          [] col = "done" -> Less(a.size * b.left, b.size * a.left)
          [] col = "up" -> Less(a.size, b.size)
          [] col = "down" -> Less(b.left, a.left)
          [] OTHER -> 0

\* The files a torrent is made of.
MadeColumns == {"name", "size", "none"}

MadeCompare(col, reverse, x, y) ==
    LET a == IF reverse THEN y ELSE x
        b == IF reverse THEN x ELSE y
    IN  CASE col = "name" -> Less(a.name, b.name)
          [] col = "size" -> Less(a.size, b.size)
          [] OTHER -> 0

-----------------------------------------------------------------------------
\* A comparison the list control can sort with: the two directions agree, and
\* the order is transitive (files_compare, peers_compare, pieces_compare,
\* sub_files_compare, events_compare).  For the column "done" of the sub-files
\* this needs sizes above zero: an empty sub-file compares as equal to all.
InOrder(Cmp(_, _), elements) ==
    /\ \A x, y \in elements : Cmp(x, y) = -Cmp(y, x)
    /\ \A x, y, z \in elements : Cmp(x, y) <= 0 /\ Cmp(y, z) <= 0 => Cmp(x, z) <= 0

ListsSort(list, col, reverse, elements) ==
    InOrder(LAMBDA x, y :
              CASE list = "torrents" -> FilesCompare(col, reverse, x, y)
                [] list = "events" -> EventsCompare(col, reverse, x, y)
                [] list = "peers" -> PeersCompare(col, reverse, x, y)
                [] list = "pieces" -> PiecesCompare(col, reverse, x, y)
                [] list = "files" -> SubFilesCompare(col, reverse, x, y)
                [] list = "made" -> MadeCompare(col, reverse, x, y),
            elements)
=============================================================================
