------------------------------ MODULE ClientView ------------------------------
(***************************************************************************)
(* The lists of the Windows client (Client/XBT ClientDlg.cpp).  Once a      *)
(* second a shown window, once a minute a hidden one, reads a dump of the   *)
(* server: it updates the map of torrents and of their peers, and adds and  *)
(* removes rows of the upper list (one row for each torrent) and of the     *)
(* lower list (one row for each peer, sub-file, piece, event or tracker of  *)
(* the chosen torrent, or for each event of the server).  A row holds only  *)
(* an id or an index; the texts are looked up by it when the list is        *)
(* painted and when it is sorted, and nothing checks that the element is    *)
(* there.  The rows have no order here: sorting only permutes them.         *)
(***************************************************************************)
EXTENDS Integers, FiniteSets, Sequences, SequencesExt

CONSTANTS
    Hashes,      \* info hashes of the torrents of the server
    PiecesOf,    \* hash -> how many pieces, and sub-files, a torrent has
    Says,        \* what a full dump may say of a torrent: [info, events, trackers, hosts]
    MaxEvents,   \* bound: events of the server
    MaxId        \* bound: the ids given to torrents and to peers

ASSUME ViewAssumption ==
    /\ IsFiniteSet(Hashes) /\ PiecesOf \in [Hashes -> Nat] /\ MaxEvents \in Nat /\ MaxId \in Nat
    /\ \A c \in Says : c.info \in BOOLEAN /\ c.events \in Nat /\ c.trackers \in Nat

VARIABLES
    files,       \* m_files_map: id -> torrent, with its peers as id -> host
    file,        \* m_file: the id of the chosen torrent, or None
    top,         \* data of the rows of m_files
    view,        \* m_bottom_view
    rows,        \* data of the rows of m_peers
    events,      \* m_events: how many
    visible,     \* IsWindowVisible()
    fresh,       \* the last dump was taken with all flags
    missed       \* the rows for which the last sort of m_peers looked up an element in vain

lists == <<files, file, top, view, rows, events, visible, fresh, missed>>

None == -1
BottomViews == {"details", "events", "files", "peers", "pieces", "trackers",
                "global_details", "global_events"}
DetailRows == 0..1      \* stands for dr_count and gdr_count rows

NewId(ids) == IF ids = {} THEN 0 ELSE 1 + (CHOOSE m \in ids : \A i \in ids : i <= m)

\* Give every element of the sequence new the next id after those of the map m.
Insert(m, new) ==
    LET base == NewId(DOMAIN m) - 1
    IN  [i \in DOMAIN m \cup {base + k : k \in DOMAIN new} |->
            IF i \in DOMAIN m THEN m[i] ELSE new[i - base]]

Named(peers, hosts) == [i \in {k \in DOMAIN peers : peers[k] \in hosts} |-> peers[i]]

-----------------------------------------------------------------------------
\* The rows fill_peers inserts, which are the elements that have data: those of the
\* chosen torrent f, or of the server, which has had n events.
Filled(v, f, n) ==
    CASE v \in {"details", "global_details"} -> DetailRows
      [] v = "events" -> 0..(f.events - 1)
      [] v = "files" -> 0..(f.subs - 1)
      [] v = "peers" -> DOMAIN f.peers
      [] v = "pieces" -> 0..(f.pieces - 1)
      [] v = "trackers" -> 0..(f.trackers - 1)
      [] v = "global_events" -> 0..(n - 1)

FillPeers(v, m, id, n) == IF id = None THEN {} ELSE Filled(v, m[id], n)

\* The elements of the list that is shown, whether they have rows or not.
HasData == IF view = "global_events" THEN 0..(events - 1)
           ELSE IF view = "global_details" THEN DetailRows
           ELSE IF file = None THEN {} ELSE Filled(view, files[file], events)

\* sort_peers compares the rows of five of the lists, of which there must be two.  The
\* comparators (*_compare) look up the elements of both, and ask only whether a torrent
\* is chosen.
SortsPeers ==
    IF /\ view \in {"events", "files", "peers", "pieces", "global_events"}
       /\ file # None \/ view = "global_events"
       /\ \E i, j \in rows : i # j
    THEN rows ELSE {}

Missed == SortsPeers \ HasData
Sort == missed' = Missed'

-----------------------------------------------------------------------------
(* A dump: the server lists its torrents in some order.  Without the flags  *)
(* it sends no peers, events, sub-files, pieces and trackers.               *)

PeersAfter(peers, hosts) ==
    LET known == {peers[i] : i \in DOMAIN peers}
    IN  Insert(peers, SetToSeq(hosts \ known))

\* What read_file_dump makes of the entry f of the torrent, before it drops
\* the peers that the dump did not name.
Updated(f, c, full) ==
    LET parts == IF full /\ c.info THEN PiecesOf[f.hash] ELSE 0
    IN  [hash |-> f.hash, info |-> c.info,
         peers |-> PeersAfter(f.peers, IF full THEN c.hosts ELSE {}),
         subs |-> parts, pieces |-> parts,
         events |-> IF full THEN c.events ELSE 0,
         trackers |-> IF full THEN c.trackers ELSE 0]

NoEntry(h) == [hash |-> h, peers |-> << >>]

\* Rows are added at the end until there are n.
Grown(r, n) == r \cup (Cardinality(r)..(n - 1))

\* So many events: some rows are deleted, or rows are added.
CutOrGrown(r, n) ==
    IF Cardinality(r) > n THEN {s \in SUBSET r : Cardinality(s) = n} ELSE {Grown(r, n)}

\* Mutant: the rows of peers that are gone stay.
RowsOfAll(v, f, hosts) ==
    CASE v = "events" -> CutOrGrown(rows, f.events)
      [] v = "files" -> {Grown(rows, f.subs)}
      [] v = "trackers" -> {Grown(rows, f.trackers) \cap (0..(f.trackers - 1))}
      [] v = "peers" -> {rows \cup DOMAIN f.peers}
      [] v \in {"details", "pieces", "global_details", "global_events"} -> {rows}

\* The rows of the lower list after read_file_dump of the chosen torrent f.
RowsOf(v, f, hosts) ==
    CASE v = "events" -> CutOrGrown(rows, f.events)
      [] v = "files" -> {Grown(rows, f.subs)}
      [] v = "trackers" -> {Grown(rows, f.trackers) \cap (0..(f.trackers - 1))}
      [] v = "peers" -> {(rows \cup DOMAIN f.peers)
                            \ {i \in DOMAIN f.peers : f.peers[i] \notin hosts}}
      [] v \in {"details", "pieces", "global_details", "global_events"} -> {rows}

\* Rows for the events of the server are only added.
GlobalRows(v, r, n) == IF v = "global_events" THEN Grown(r, n) ELSE r

\* read_server_dump: update or insert every torrent that is listed (c; the new ones in
\* the order new), then drop the others; a chosen torrent that is dropped empties the
\* lower list.  When none is chosen the one listed first becomes it: one that was known,
\* or the first new one.
ReadDump(full, new, c, n) ==
    LET known == {files[i].hash : i \in DOMAIN files}
        hosts(h) == IF full THEN c[h].hosts ELSE {}
        entries == Insert(files, [k \in DOMAIN new |-> NoEntry(new[k])])
        kept == {i \in DOMAIN entries : entries[i].hash \in DOMAIN c}
        read == [i \in kept |-> Updated(entries[i], c[entries[i].hash], full)]
        after == [i \in kept |-> [read[i] EXCEPT !.peers = Named(@, hosts(read[i].hash))]]
        first == {i \in kept : read[i].hash \in known \/ read[i].hash = new[1]}
    IN  /\ \A i \in kept : i <= MaxId /\ \A p \in DOMAIN read[i].peers : p <= MaxId
        /\ files' = after
        /\ top' = (top \cup DOMAIN entries) \ (DOMAIN entries \ kept)
        /\ events' = n
        /\ fresh' = full
        /\ \/ /\ file = None /\ DOMAIN c = {}
              /\ file' = None /\ rows' = GlobalRows(view, rows, n)
           \/ /\ file = None
              /\ file' \in first
              /\ rows' = GlobalRows(view, FillPeers(view, after, file', n), n)
           \/ /\ file \in kept
              /\ file' = file
              /\ \E r \in RowsOf(view, read[file], hosts(read[file].hash)) : rows' = GlobalRows(view, r, n)
           \/ /\ file # None /\ file \notin kept
              /\ file' = None /\ rows' = {}

\* What the server may send: the info of a torrent does not go away, and its
\* list of events does not get shorter, unless a dump without it came between.
Sends(full, c) ==
    \A i \in DOMAIN files :
       files[i].hash \in DOMAIN c =>
          /\ files[i].info => c[files[i].hash].info
          /\ full => files[i].events <= c[files[i].hash].events

Dumped(full) ==
    \E S \in SUBSET Hashes : \E c \in [S -> Says] :
       /\ Sends(full, c)
       /\ \E new \in SetToSeqs(S \ {files[i].hash : i \in DOMAIN files}), n \in events..MaxEvents :
             ReadDump(full, new, c, n)
       /\ UNCHANGED <<view, visible>>

-----------------------------------------------------------------------------
\* OnTimer: 0 reads a full dump and sorts while the window is shown, 1 reads one without
\* flags while it is hidden, and sorts only the rows of a torrent chosen by it.
Timer0 == visible /\ Dumped(TRUE) /\ Sort
Timer1 == /\ ~visible /\ Dumped(FALSE)
          /\ IF file' \notin {file, None} THEN Sort ELSE UNCHANGED missed

\* The tray icon, the hot key, Escape, the minimise command and timer 2 show
\* and hide the window.
ShowHide == visible' = ~visible /\ UNCHANGED <<files, file, top, view, rows, events, fresh, missed>>

\* OnItemchangedFiles: the focus moves to another row of the upper list.
Focus ==
    /\ visible
    /\ \E i \in top \ {file} :
         /\ file' = i
         /\ rows' = FillPeers(view, files, i, events)
    /\ UNCHANGED <<files, top, view, events, visible, fresh>>
    /\ Sort

SetBottomView ==
    /\ visible
    /\ \E v \in BottomViews \ {view} :
         /\ view' = v
         /\ rows' = FillPeers(v, files, file, events)
    /\ UNCHANGED <<files, file, top, events, visible, fresh>>
    /\ Sort

\* OnColumnclickPeers: the rows are sorted by another column, with the data of whatever
\* dump was read last.  A window that was hidden has that of a dump without flags until
\* timer 0 goes off.
ColumnClick ==
    /\ visible
    /\ UNCHANGED <<files, file, top, view, rows, events, visible, fresh>>
    /\ Sort

ViewInit ==
    /\ files = << >> /\ file = None /\ top = {} /\ rows = {} /\ events = 0
    /\ view \in BottomViews
    /\ visible \in BOOLEAN
    /\ fresh = TRUE /\ missed = {}

ViewNext == Timer0 \/ Timer1 \/ ShowHide \/ Focus \/ SetBottomView \/ ColumnClick
ViewSpec == ViewInit /\ [][ViewNext]_lists

-----------------------------------------------------------------------------
(* What painting looks up: the rows that reach an element of a map or a     *)
(* vector.  After a dump without flags the vectors may be empty while the   *)
(* rows are still there; only some of the handlers look at that.            *)

PaintsFiles == top
PaintsDetails == IF file = None THEN {} ELSE rows
PaintsGlobalDetails == rows
PaintsEvents == IF file = None \/ files[file].events = 0 THEN {} ELSE rows
PaintsGlobalEvents == rows
PaintsPeers == IF file = None THEN {} ELSE rows
PaintsPieces == IF file = None \/ files[file].pieces = 0 THEN {} ELSE rows
PaintsSubFiles == IF file = None \/ files[file].subs = 0 THEN {} ELSE rows
PaintsTrackers == IF file = None THEN {} ELSE rows

Paints ==
    CASE view = "details" -> PaintsDetails
      [] view = "events" -> PaintsEvents
      [] view = "files" -> PaintsSubFiles
      [] view = "peers" -> PaintsPeers
      [] view = "pieces" -> PaintsPieces
      [] view = "trackers" -> PaintsTrackers
      [] view = "global_details" -> PaintsGlobalDetails
      [] view = "global_events" -> PaintsGlobalEvents

\* The rows of sub-files and pieces outlive the vectors they index: read_file_dump empties
\* those with a dump without flags and deletes no row.
Stranded == ~fresh /\ view \in {"files", "pieces"} /\ HasData = {}

\* Whatever is painted, with the data of any dump, is an element that is there
\* (OnGetdispinfo*: the lookups are unchecked), and the chosen torrent is one of the map.
\* So is whatever is sorted, by the timer, by filling the list or by a click (*_compare),
\* but for a click on the list of sub-files or of pieces between a dump without flags and
\* the next full one: sub_files_compare and pieces_compare then index empty vectors.
RowsHaveData ==
    /\ file # None => file \in DOMAIN files
    /\ PaintsFiles \subseteq DOMAIN files
    /\ Paints \subseteq HasData
    /\ missed # {} => Stranded

\* After a full dump every torrent and every element of the chosen torrent has
\* its row, and no torrent has two; only the list of pieces, to which
\* read_file_dump adds nothing, may lack those that came after it was filled.
DataHasRows ==
    /\ DOMAIN files = top
    /\ \A i, j \in DOMAIN files : files[i].hash = files[j].hash => i = j
    /\ (fresh /\ file # None /\ view # "pieces") => HasData \subseteq rows

\* Rows and data match: what is looked up by a row is there, but for the click on rows whose
\* data a dump without flags took away, and what is there has its row
\* (XBT ClientDlg.cpp: OnGetdispinfo*, sort_*, read_server_dump, read_file_dump).
RowsMatchData == RowsHaveData /\ DataHasRows
=============================================================================
