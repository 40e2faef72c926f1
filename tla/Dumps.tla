-------------------------------- MODULE Dumps --------------------------------
(***************************************************************************)
(* The records that one part of the client writes and another reads with    *)
(* nothing but the order and the widths of the fields in common: the dump   *)
(* of the server (Cserver::dump) and the dialog that shows it               *)
(* (read_server_dump), the state file (save_state, load_state) and the      *)
(* accounts of trackers.  A stream is a sequence of cells: an int with the  *)
(* number of its bytes, or data with a length before it.  Reading with      *)
(* another width than was written gives nothing.  Ints of 4 and 8 bytes are *)
(* assumed to fit; those of one byte wrap.                                  *)
(***************************************************************************)
EXTENDS Integers, FiniteSets, Sequences, SequencesExt, FiniteSetsExt

\* A layout is a sequence of fields: ints, signed bytes, data, lists behind a
\* count, n signed bytes without one, and the state of a piece with its chunks.
Ints(cb, names) == [i \in DOMAIN names |-> [kind |-> "int", cb |-> cb, name |-> names[i]]]
Chars(names) == [i \in DOMAIN names |-> [kind |-> "char", cb |-> 1, name |-> names[i]]]
Data(names) == [i \in DOMAIN names |-> [kind |-> "data", cb |-> 0, name |-> names[i]]]
List(name, of) == <<[kind |-> "list", cb |-> 4, name |-> name, of |-> of]>>
EachChar(name, n) == <<[kind |-> "each", cb |-> 1, name |-> name, n |-> n]>>
PieceState(chunks) == <<[kind |-> "piece", cb |-> 1, name |-> "state", n |-> chunks]>>

\* Cstream_writer
Cell(cb, v) == [cb |-> cb, v |-> IF cb = 1 THEN v % 256 ELSE v]
Char(v) == IF v > 127 THEN v - 256 ELSE v

RECURSIVE Write(_, _)
Write(layout, r) ==
    FlattenSeq([i \in DOMAIN layout |->
      LET f == layout[i]
          v == r[f.name]
      IN  CASE f.kind \in {"int", "char", "data"} -> <<Cell(f.cb, v)>>
            [] f.kind \in {"each", "piece"} -> [k \in DOMAIN v |-> Cell(1, v[k])]
            [] f.kind = "list" ->
                 <<Cell(4, Len(v))>> \o FlattenSeq([k \in DOMAIN v |-> Write(f.of, v[k])])])

\* The bytes that Cstream_writer fills.
Size(cells) ==
    LET wide(cb) == Cardinality({i \in DOMAIN cells : cells[i].cb = cb})
    IN  wide(1) + 4 * wide(4) + 8 * wide(8)
        + FoldLeft(LAMBDA n, c : n + 4 + Len(c.v), 0, SelectSeq(cells, LAMBDA c : c.cb = 0))

\* Cstream_reader: the record and what is left, not ok when the widths differ.
Bad == [ok |-> FALSE, r |-> << >>, rest |-> << >>]
Good(r, rest) == [ok |-> TRUE, r |-> r, rest |-> rest]

RECURSIVE Read(_, _)
RECURSIVE ReadList(_, _, _)
ReadList(of, n, s) ==
    IF n = 0 THEN Good(<< >>, s)
    ELSE LET one == Read(of, s)
             more == ReadList(of, n - 1, one.rest)
         IN  IF one.ok /\ more.ok THEN Good(<<one.r>> \o more.r, more.rest) ELSE Bad

ReadChars(n, s) ==
    IF Len(s) < n \/ \E k \in 1..n : s[k].cb # 1 THEN Bad
    ELSE Good([k \in 1..n |-> Char(s[k].v)], SubSeq(s, n + 1, Len(s)))

ReadField(f, s) ==
    IF f.kind = "each" THEN ReadChars(f.n, s)
    ELSE IF s = << >> \/ Head(s).cb # f.cb THEN Bad
    ELSE CASE f.kind \in {"int", "data"} -> Good(Head(s).v, Tail(s))
           [] f.kind = "char" -> Good(Char(Head(s).v), Tail(s))
           [] f.kind = "list" -> ReadList(f.of, Head(s).v, Tail(s))
           [] f.kind = "piece" -> ReadChars(IF Head(s).v = 1 THEN f.n + 1 ELSE 1, s)

Read(layout, s) ==
    IF layout = << >> THEN Good(<< >>, s)
    ELSE LET f == Head(layout)
             one == ReadField(f, s)
             more == Read(Tail(layout), one.rest)
         IN  IF one.ok /\ more.ok THEN Good((f.name :> one.r) @@ more.r, more.rest) ELSE Bad

-----------------------------------------------------------------------------
\* What the server writes of an alert, a link, a sub-file and a piece, and the
\* sizes it announces for them.
AlertDump == Ints(4, <<"time", "level">>) \o Data(<<"message", "source">>)
AlertSize(r) == Len(r.message) + Len(r.source) + 16

PeerDump ==
    Ints(4, <<"host", "port">>) \o Data(<<"peer_id">>)
    \o Ints(8, <<"downloaded", "left", "uploaded">>) \o Ints(4, <<"down_rate", "up_rate">>)
    \o Ints(1, <<"local_link", "local_choked", "local_interested">>)
    \o Ints(4, <<"local_requests">>)
    \o Ints(1, <<"remote_choked", "remote_interested">>)
    \o Ints(4, <<"remote_requests", "ctime", "rtime", "stime">>) \o Data(<<"debug">>)
PeerSize(r) == Len(r.peer_id) + Len(r.debug) + 73

SubFileDump ==
    Ints(8, <<"left">>) \o Data(<<"name">>) \o Ints(4, <<"priority">>) \o Ints(8, <<"size">>)
    \o Data(<<"merkle_hash">>)
SubFileSize(r) == Len(r.name) + Len(r.merkle_hash) + 28

PieceDump ==
    Ints(1, <<"invalid", "valid_chunks">>) \o Ints(4, <<"peers">>) \o Chars(<<"priority">>)
    \o Ints(4, <<"rank">>) \o Ints(1, <<"valid">>)
PieceSize(r) == 12

Least(a, b) == IF a < b THEN a ELSE b
Rank(p) ==
    1000000 * (IF p.priority > 9 THEN 0 ELSE Least(9 - p.priority, 19))
    + 100000 * Least(p.peers, 3)
    + 100 * (IF p.chunks = 0 THEN 999 ELSE Least(p.invalid, 999))
    + Least(p.peers, 99)

PieceRow(p) ==
    [invalid |-> IF p.chunks = 0 THEN 0 ELSE p.invalid,
     valid_chunks |-> IF p.chunks = 0 THEN 0 ELSE p.chunks - p.invalid,
     peers |-> p.peers, priority |-> p.priority, rank |-> Rank(p), valid |-> p.valid]

TorrentDump ==
    Data(<<"info_hash", "name">>)
    \o List("trackers", Data(<<"url">>))
    \o Ints(8, <<"downloaded", "downloaded_l5", "left", "size", "uploaded", "uploaded_l5",
                 "total_downloaded", "total_uploaded">>)
    \o Ints(4, <<"down_rate", "up_rate", "leechers", "seeders", "leechers_total",
                 "seeders_total", "invalid_chunks", "invalid_pieces", "rejected_chunks",
                 "rejected_pieces", "valid_chunks", "valid_pieces", "cb_chunk", "cb_piece",
                 "state", "started_at", "session_started_at", "completed_at",
                 "distributed_copies", "distributed_copies_remainder", "priority",
                 "allow_end_mode", "seeding_ratio", "seeding_ratio_override",
                 "seeding_ratio_reached_at", "upload_slots_max", "upload_slots_max_override",
                 "upload_slots_min", "upload_slots_min_override",
                 "last_chunk_downloaded_at", "last_chunk_uploaded_at">>)
    \o List("peers", PeerDump) \o List("alerts", AlertDump)
    \o List("sub_files", SubFileDump) \o List("pieces", PieceDump)

Sum(seq, Of(_)) == FoldLeft(LAMBDA n, r : n + Of(r), 0, seq)

Flags == {"trackers", "peers", "alerts", "files", "pieces"}
TorrentSize(r, flags) ==
    Len(r.info_hash) + Len(r.name) + 216
    + (IF "trackers" \in flags THEN Sum(r.trackers, LAMBDA t : Len(t.url) + 4) ELSE 0)
    + (IF "peers" \in flags THEN Sum(r.peers, PeerSize) ELSE 0)
    + (IF "alerts" \in flags THEN Sum(r.alerts, AlertSize) ELSE 0)
    + (IF "files" \in flags THEN Sum(r.sub_files, SubFileSize) ELSE 0)
    + (IF "pieces" \in flags THEN Sum(r.pieces, PieceSize) ELSE 0)

\* How often the connected links hold every piece: the least number of holders
\* that are no seeds, this side counted while it downloads, and the number of
\* pieces that have more.  MaxInt without a piece.
MaxInt == 2147483647
Linked(r) == {k \in DOMAIN r.peers : r.peers[k].linked}
Seeders(r) == Cardinality({k \in Linked(r) : r.peers[k].left = 0})
Holders(r, p) == p.peers + (IF r.left # 0 /\ p.valid = 1 THEN 1 ELSE 0) - Seeders(r)
Copies(r) == Min({MaxInt} \cup {Holders(r, r.pieces[i]) : i \in DOMAIN r.pieces})
Started(r) == {i \in DOMAIN r.pieces : r.pieces[i].chunks # 0 /\ r.pieces[i].invalid # r.pieces[i].chunks}

\* What the fields of the dump hold, of the torrent r and its lists.
TorrentRow(r, flags) ==
    LET pieces(S, Of(_)) == MapThenSumSet(LAMBDA i : Of(r.pieces[i]), S)
        sent(flag, list) == IF flag \in flags THEN list ELSE << >>
    IN  [leechers |-> Cardinality(Linked(r)) - Seeders(r), seeders |-> Seeders(r),
         invalid_chunks |-> pieces(Started(r), LAMBDA p : p.invalid),
         valid_chunks |-> pieces(Started(r), LAMBDA p : p.chunks - p.invalid),
         valid_pieces |-> Cardinality({i \in DOMAIN r.pieces : r.pieces[i].valid = 1}),
         invalid_pieces |-> Cardinality({i \in DOMAIN r.pieces : r.pieces[i].valid = 0}),
         cb_chunk |-> 16384,
         completed_at |-> IF r.left # 0 THEN 0 ELSE r.completed_at,
         distributed_copies |-> Copies(r),
         distributed_copies_remainder |->
            Cardinality({i \in DOMAIN r.pieces : Holders(r, r.pieces[i]) > Copies(r)}),
         trackers |-> sent("trackers", r.trackers), peers |-> sent("peers", r.peers),
         alerts |-> sent("alerts", r.alerts), sub_files |-> sent("files", r.sub_files),
         pieces |-> sent("pieces", [i \in DOMAIN r.pieces |-> PieceRow(r.pieces[i])])] @@ r

ServerDump == List("alerts", AlertDump) \o List("files", TorrentDump) \o Ints(4, <<"start_time">>)
ServerSize(r, flags) == 12 + Sum(r.alerts, AlertSize) + Sum(r.files, LAMBDA t : TorrentSize(t, flags))

-----------------------------------------------------------------------------
\* What the dialog reads, in its own words.
ReadAlert == Ints(4, <<"time", "level">>) \o Data(<<"message", "source">>)
ReadTracker == Data(<<"url">>)
ReadSubFile ==
    Ints(8, <<"left">>) \o Data(<<"name">>) \o Ints(4, <<"priority">>) \o Ints(8, <<"size">>)
    \o Data(<<"merkle_hash">>)
ReadPiece ==
    Ints(1, <<"invalid", "valid_chunks">>) \o Ints(4, <<"peers">>) \o Chars(<<"priority">>)
    \o Ints(4, <<"rank">>) \o Ints(1, <<"valid">>)
ReadPeer ==
    Ints(4, <<"host", "port">>) \o Data(<<"peer_id">>)
    \o Ints(8, <<"downloaded", "left", "uploaded">>) \o Ints(4, <<"down_rate", "up_rate">>)
    \o Ints(1, <<"local_link", "local_choked", "local_interested">>)
    \o Ints(4, <<"local_requests">>)
    \o Ints(1, <<"remote_choked", "remote_interested">>)
    \o Ints(4, <<"remote_requests", "ctime", "rtime", "stime">>) \o Data(<<"debug">>)
ReadTorrent ==
    Data(<<"info_hash", "name">>) \o List("trackers", ReadTracker)
    \o Ints(8, <<"downloaded", "downloaded_l5", "left", "size", "uploaded", "uploaded_l5",
                 "total_downloaded", "total_uploaded">>)
    \o Ints(4, <<"down_rate", "up_rate", "leechers", "seeders", "leechers_total",
                 "seeders_total", "invalid_chunks", "invalid_pieces", "rejected_chunks",
                 "rejected_pieces", "valid_chunks", "valid_pieces", "cb_chunk", "cb_piece",
                 "state", "started_at", "session_started_at", "completed_at",
                 "distributed_copies", "distributed_copies_remainder", "priority",
                 "allow_end_mode", "seeding_ratio", "seeding_ratio_override",
                 "seeding_ratio_reached_at", "upload_slots_max", "upload_slots_max_override",
                 "upload_slots_min", "upload_slots_min_override",
                 "last_chunk_downloaded_at", "last_chunk_uploaded_at">>)
    \o List("peers", ReadPeer) \o List("alerts", ReadAlert)
    \o List("sub_files", ReadSubFile) \o List("pieces", ReadPiece)
ReadServer == List("alerts", ReadAlert) \o List("files", ReadTorrent) \o Ints(4, <<"start_time">>)

-----------------------------------------------------------------------------
(* The state file.  The data of the info of a torrent stands for what info() *)
(* makes of it: << >>, or <<hash, pieces, chunks of a piece, sub-files>>.     *)

StateHead == List("trackers", Data(<<"url">>)) \o Data(<<"info">>)
ChunkCount(info) == IF info = << >> THEN 0 ELSE info[3]
SubFiles(info) == IF info = << >> THEN 0 ELSE info[4]

StateInts ==
    Data(<<"name">>) \o Ints(8, <<"total_downloaded", "total_uploaded">>)
    \o Ints(4, <<"validate", "completed_at", "started_at">>) \o Chars(<<"priority">>)
    \o Ints(4, <<"state", "rejected_chunks", "rejected_pieces", "seeding_ratio",
                 "seeding_ratio_override">>)
SlotInts ==
    Ints(4, <<"upload_slots_max", "upload_slots_max_override", "upload_slots_min",
              "upload_slots_min_override", "seeding_ratio_reached_at">>)
    \o EachChar("pad", 44)

\* Cbt_file::save_state; the torrent knows its chunks and sub-files.
SaveState(t, intermediate) ==
    Write(StateHead
          \o (IF t.info = << >> THEN Data(<<"info_hash">>) ELSE << >>)
          \o StateInts
          \o List("pieces", PieceState(ChunkCount(t.info)))
          \o EachChar("priorities", Len(t.priorities))
          \o List("old_peers", Ints(4, <<"host", "port">>))
          \o SlotInts,
          [validate |-> IF (intermediate /\ t.left # 0) \/ t.validate # 0 THEN 1 ELSE 0,
           pad |-> [k \in 1..44 |-> 0]] @@ t)

\* pre_save_state, of the torrent and of a piece.
PieceStateSize(p) == IF p.state[1] = 1 THEN Len(p.state) ELSE 1
StateSize(t) ==
    Len(t.info) + Len(t.name) + Len(t.priorities) + 8 * Len(t.old_peers) + 133
    + (IF t.info = << >> THEN Len(t.info_hash) + 4 ELSE 0)
    + Sum(t.trackers, LAMBDA e : Len(e.url) + 4) + Sum(t.pieces, PieceStateSize)

\* Cbt_file::load_state: what info() makes of the data says how many chunks and
\* sub-files follow.
LoadBody(info) ==
    (IF info = << >> THEN Data(<<"info_hash">>) ELSE << >>)
    \o StateInts
    \o List("pieces", PieceState(ChunkCount(info)))
    \o EachChar("priorities", SubFiles(info))
    \o List("old_peers", Ints(4, <<"host", "port">>))
    \o SlotInts
LoadState(s) ==
    LET head == Read(StateHead, s)
        body == Read(LoadBody(head.r.info), head.rest)
        hash == IF head.r.info = << >> THEN << >> ELSE ("info_hash" :> <<head.r.info[1]>>)
    IN  IF head.ok /\ body.ok THEN Good(head.r @@ hash @@ body.r, body.rest) ELSE Bad

\* The file: the version, the number of torrents, and each of them.
RECURSIVE LoadEach(_, _)
LoadEach(n, s) ==
    IF n = 0 THEN Good(<< >>, s)
    ELSE LET one == LoadState(s)
             more == LoadEach(n - 1, one.rest)
         IN  IF one.ok /\ more.ok THEN Good(<<one.r>> \o more.r, more.rest) ELSE Bad

SaveFile(ts, intermediate) ==
    <<Cell(4, 4), Cell(4, Len(ts))>>
    \o FlattenSeq([k \in DOMAIN ts |-> SaveState(ts[k], intermediate)])
FileSize(ts) == 8 + Sum(ts, StateSize)
LoadFile(s) == IF Size(s) < 8 \/ s[1].v # 4 THEN Good(<< >>, << >>)
               ELSE LoadEach(s[2].v, SubSeq(s, 3, Len(s)))

\* The accounts: one writer in the dialog and one in the server, a reader each.
Accounts == List("accounts", Data(<<"tracker", "user", "pass">>))
AccountsSize(a) == 4 + Sum(a, LAMBDA e : Len(e.tracker) + Len(e.user) + Len(e.pass) + 12)

-----------------------------------------------------------------------------
\* The dialog shows of every torrent what the server holds, for any flags: all
\* is read to its last byte, as many bytes as pre_dump announced (the assert
\* of get_status).  Counts of chunks are right below 256.
DumpShown(r, flags) ==
    LET row == [r EXCEPT !.files = [k \in DOMAIN @ |-> TorrentRow(@[k], flags)]]
        cells == Write(ServerDump, row)
        read == Read(ReadServer, cells)
        same(got, sent, but) == \A name \in DOMAIN got \ but : got[name] = sent[name]
        lists == {"trackers", "peers", "alerts", "sub_files", "pieces"}
    IN  /\ Size(cells) = ServerSize(r, flags)
        /\ read.ok /\ read.rest = << >>
        /\ read.r.start_time = r.start_time /\ Len(read.r.files) = Len(r.files)
        /\ \A k \in DOMAIN r.files :
             LET got == read.r.files[k]
                 sent == row.files[k]
             IN  /\ same(got, sent, lists)
                 /\ \A l \in lists \ {"pieces"} :
                      /\ Len(got[l]) = Len(sent[l])
                      /\ \A i \in DOMAIN got[l] : same(got[l][i], sent[l][i], {})
                 /\ Len(got.pieces) = Len(sent.pieces)
                 /\ \A i \in DOMAIN got.pieces :
                      /\ same(got.pieces[i], sent.pieces[i], {"invalid", "valid_chunks"})
                      /\ r.files[k].pieces[i].chunks < 256 =>
                           same(got.pieces[i], sent.pieces[i], {})

\* A state file that was saved is loaded as it was, to its last byte, as many
\* as pre_save_state announced (the asserts of save_state and load_state), but
\* that every torrent with something left is to be validated when it was saved
\* while running.
StateKept(ts, intermediate) ==
    LET cells == SaveFile(ts, intermediate)
        read == LoadFile(cells)
    IN  /\ Size(cells) = FileSize(ts)
        /\ read.ok /\ read.rest = << >> /\ Len(read.r) = Len(ts)
        /\ \A k \in DOMAIN ts :
             /\ \A name \in DOMAIN ts[k] \ {"left", "validate"} : read.r[k][name] = ts[k][name]
             /\ read.r[k].validate # 0 <=> (ts[k].validate # 0 \/ (intermediate /\ ts[k].left # 0))

\* The accounts of the trackers survive the dialog and the profile.
AccountsKept(a) ==
    LET cells == Write(Accounts, [accounts |-> a])
    IN  Size(cells) = AccountsSize(a) /\ Read(Accounts, cells) = Good([accounts |-> a], << >>)
=============================================================================
