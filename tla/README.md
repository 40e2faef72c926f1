# XBT: a verification project for the client backend and the tracker

XBT is a BitTorrent client (the backend in `src/xbt/BT Test`, with a Windows
interface, a command line and an HTTP administration port in front of it) and a
tracker (`src/xbt/Tracker`). This directory holds TLA+ models of the parts where
state is hard to keep right, the TLC runs that check them and TLAPS proofs of what
matters most. File names below are relative to `src/xbt/`.

| module | what it is | checked by | proved in |
|---|---|---|---|
| `Download` | how the pieces of a torrent are divided over peer links | `MCDownload`, 3 cfg | `DownloadProofs` |
| `PeerLinks` | a link as its peer sees it: handshake, news, chokes, answers | `MCPeerLinks` | `PeerLinksProofs` |
| `Torrents` | what is known of pieces, across checks, moves, crashes and restarts | `MCTorrents` | `TorrentsProofs` |
| `ClientLoop` | queue, limit of torrents, checks in turn, the end of the process | `MCClientLoop` | `ClientLoopProofs` |
| `TrackerLink`, `TrackerBackoff` | the announces of a torrent to its list of trackers; the back-off beside the protocol page | `MCTrackerLink`, `MCTrackerBackoff` | `TrackerLinkProofs` |
| `Tracker` | the announce state of the tracker and its tables | `MCTracker`, 2 cfg | `TrackerProofs` |
| `ByteQueue`, `RingBuffer`, `PeerReader` | a bounded queue of bytes, the four pointers that implement it, and how a link takes messages out of it | `MCParts` | `PartsProofs` |
| `MerkleTree` | the hash tree of a file | `MCParts` | `PartsProofs` |
| `Upload` | upload slots and the quota of a second | `MCParts` | `PartsProofs` (quota) |
| `Layout`, `Sha1` | bytes of a torrent in its files; blocks and padding of SHA-1 | `MCParts` | |
| `Making` | the torrents made of dropped files, and who reads them | `MCParts` | |
| `Bencoding`, `Texts`, `Xif`, `Dumps`, `Settings` | the formats that are written in one place and read in another | `MCParts` | |
| `Announcing` | an announce as bytes over HTTP and UDP | `MCParts`, `MCUdpPeers.cfg` | |
| `Connection` | a TCP connection of the tracker: request in pieces, answer, who is turned away | `MCParts` | `ConnectionProofs` |
| `Scheduler` | the profiles of the client and the times of the day for them | `MCParts` | `PartsProofs` |
| `Admin` | the administration link with its command line program | `MCParts` | |
| `ClientView` | the rows of the lists of the Windows client | `MCParts` | `PartsProofs` |
| `Columns`, `Sorting` | their columns and order | `MCParts` | |
| `MCInputs` | the inputs of the parts that keep no state | `MCParts` | |

`PROJECT.json` lists the components, the runs, the hazards at their lines, the
theorems, the source lines each definition stands for, and for every property a
mutant of the model (a plausible bug) that violates it.

## 1. Inventory

### Client backend (`BT Test`)

One thread runs `Cserver::run`: `pre_select` over everything, `select`,
`post_select` over everything, then at most one of the timers (chokes, states,
saved state, scheduler, remote links). Every component below is called from this
loop. Only in the Windows build the interface's thread calls methods of `Cserver`
as well, under a lock that the loop gives up around `select`; to the components
such a call is one more step between two turns of the loop.

| part | state | operations | called by / calls | hard part | correct when |
|---|---|---|---|---|---|
| pieces (`bt_piece`) | valid bit; per sub-piece valid and the links it is asked of; two counters; availability | give out a sub-piece, take it back, write, time out | links, file | late and double answers, timeouts, links that go | a sub-piece is asked of one link; counters equal what they count |
| file (`bt_file`) | pieces, sub-files, links, bytes left, end mode, state | open, hash, write, choose a piece, pause, stop, save, load | server; links, tracker link | hash failures, disk failures, crash between block and saved state | a valid piece is on disk; a served torrent completes |
| peer link (`bt_peer_link`) | handshake state, choke and interest bits on both sides, requests made and received, window | read messages, ask, check timeouts, close | file | a pass reads many messages before it acts; chokes leave requests behind | reservations end; interest comes back |
| choking and quota (`server::update_chokes`, `post_select`) | choke goals, quota | every 10 s; every turn | loop; links | three rounds over two limits, random order | slots bound the unchoked; no quota lost |
| client announces (`bt_tracker_link`) | attempt, tracker index, event, state of one announce | connect, ask, answer, fail | file | back-off, fail-over, lost events, edited tracker list | every tracker gets its turn, none is hammered |
| server | torrents, links without torrent, limits, timers | open, close, start, queue, shut down | interface, admin link | limits, start and stop order, HTTP links at shutdown | limits hold, it stops |
| hasher (`bt_hasher`) | next piece | a few pieces a turn | server | pause or stop while hashing | bytes left equals the invalid pieces |
| ring buffer | four pointers | write, read, combine | links | full and empty | a bounded queue |
| Merkle tree | hashes | get, set, test | file | odd sizes | a leaf accepted is one of the root's |
| scheduler, profiles | two numbered lists, the time of the last look | edit, save, load, switch | server timer, dialogs | lists are loaded by position and edited apart | a profile that is switched to is there |
| admin link | two buffers | request and answer | loop; server | messages in pieces, an answer that does not fit | every request is carried out once and answered |
| HTTP links | buffers | fetch | server, tracker link | a silent partner | the process ends |
| block list, rates | tables | look up, sample | loop | | |

### Tracker (`Tracker`)

One thread (epoll or select). HTTP connections and UDP transactions both end in
`Cserver::insert_peer` and `select_peers`; a chain of timers reads and writes the
database. It keeps `m_files` (peers by host, leechers, seeders, `dirty`, `fid`),
`m_users` (limits, `incompletes`, `completes`) and text buffers of updates that wait
for the next write. The administrator edits `xbt_files` and `xbt_users` meanwhile.

A TCP connection reads its request in pieces under edge-triggered epoll and writes an
answer that may not fit; it is closed after ten seconds whatever happens.

Hard: an announce moves a peer between four counters and may belong to another user
than before; users leave and return while their peers stay; a query can fail between
any two updates; a restart keeps the tables and loses the rest. Correct when the
counters equal the peers they count, when who is refused deserves it, and when what
is announced reaches the tables.

### Formats and interfaces

`misc` holds the formats: bencoding, trees of numbered keys (xif), URLs, links, ids,
integers and streams. What is written in one place is read in another, with no common
definition of it: the info of a torrent and its hash, the state file, the dump the Windows
client reads once a second, the settings with the dialog that shows them in other units,
the profiles. Correct when what was written is read back.

`Client` is the Windows client. Its rows hold only ids and indices, which are looked up
without a question when a row is painted or sorted, while each dump changes what there is.
`Client Command Line Interface` is a program that sends one request after the other to
the administration port.

`misc/sql` is a wrapper that throws when a query fails, `htdocs` documentation and
read-only pages, `misc/windows` a layout library of others.

## 2. Download

### What it models

`Download` is one open torrent without Merkle hashes: `Cbt_file`, its `Cbt_piece`s
and all its `Cbt_peer_link`s. Its variables are the members with the names in the
comments beside them; bytes are replaced by sub-pieces, and a sub-piece on disk is
right or wrong (`disk`).

The loop visits the links one at a time and a visit is not one step of the model, as
it reads any number of messages. `cur` and `phase` keep it in one piece: while a link
is visited no other link, no connect and no user command acts.

| action | code |
|---|---|
| `Begin`, `Drop` | a visit starts; it fails, and `Cbt_file::post_select` closes and erases the link |
| `ReadChoke`, `ReadUnchoke`, `ReadHave` | the cases of `read_message` that concern downloading |
| `ReadRejected`, `ReadPiece` | `read_piece` with the two ends of `Cbt_file::write_data`: refused, or stored and perhaps completing its piece |
| `Work`, `Check` | the part between messages and requests, without and with `check_pieces` |
| `Ask`, `Finish`, `FinishSeeder` | the loop of requests and its ends |
| `Connect`, `Disconnect`, `Reap` | a link enters the list; the user or a failed send closes it; the loop erases it |
| `Pause`, `Prioritise` | the user |

`Close` is part of `Drop`, `Disconnect`, `Reap` and `FinishSeeder`, as in the code, so
a link that is disconnected is closed twice.

Time is abstract. A visit may or may not find `check_pieces` due, and it may find any
set of the link's reservations too old. That covers both timeouts (15 s in end mode,
600 s otherwise). Which of the wanted pieces `next_invalid_piece` picks (rank, chance)
is left open. The remote side may send anything at any time; a block nobody asked for
makes `read_piece` fail, which is `Drop`.

Bounds: `MaxDup` stops a peer from choking while a sub-piece has that many open
requests on its link. Without it a peer that chokes and unchokes for ever would
grow the list for ever. With 2 a sub-piece can be asked twice on one link with both
answers coming; three in a row would add no new kind of state.

### What the runs show

| run | instance | properties |
|---|---|---|
| `download` | 2 interchangeable links, 1 piece of 2 sub-pieces, window 2, the piece may be excluded; 577 000 states | `AskedOnce`, `CountersExact`, `AvailabilityExact` |
| `download_faults` | the same with a link that sends wrong bytes and wrong sizes, and a disk that fails; window 1; 2.0 million states | `ValidIsOnDisk`, `OnlyMissizedLeaks` |
| `download_live` | 1 link, 2 pieces of one sub-piece; 16 000 states | `ReservationEnds`, `InterestRevives`, `SeedCompletes` |

Two links are what a conflict takes, and two sub-pieces what it takes for one to be
last. `BeginPieces` is 0 in the runs so that the window is ever larger than one.

What they found to be so, and is not obvious from the code:

* A choke resets `mc_local_requests_pending` but keeps the requests
  (`bt_peer_link.cpp:704-706`, two statements that would clear them are commented
  out). The count may then go below zero when answers still come; reservations end all
  the same (`ReservationEnds`).
* `read_piece` erases the request before the block is looked at
  (`bt_peer_link.cpp:658`). A block of a wrong size therefore leaves a reservation
  without a request; no later close gives it back, and after a reconnect nothing
  does. `OnlyMissizedLeaks` says that this is the only way.
* `remote_has` does not renew the interest of a link whose `not interested` has not
  been sent yet; the check every 30 s repairs it (`InterestRevives`).

### Fairness

`LiveSpec` assumes what the loop does: every link in the list is visited again and
again, a visit ends, `check_pieces` comes round, and as its clock passes every
timeout each reservation is found old at some check. These are strong fairness
conditions because a visit disables them between turns. `SeedCompletes` assumes of
the peer that it says what it has, and that while a request made since its last choke
is open it answers some request; its premise says that from some time on it is
connected, unchokes us, and the user lets the torrent run with nothing excluded.
`ReservationEnds` and `SeedCompletes` are checked with one link. With two a silent one
may take a sub-piece again in the visit that timed it out, before the other is
visited; nothing in the code prevents that, and `SeedCompletes` is not claimed there.

## 3. Tracker

### What it models

An announce, a clean-up or a visit to the database is one step, as the process has
one thread. `files` to `pend` are its memory, `rows` to `dbUsers` the tables. `behind`
is a history of which rows do not hold the counts of the memory, `seen` stands for
`m_fid_end`.

| action | code |
|---|---|
| `Refuse`, `Announce` | `insert_peer`; a refusal for a limit or a wait has already created the file |
| `CleanUp(X)` | the peers `X` are too old |
| `ReadFiles`, `ReadFilesFails` | `read_db_files_sql`, and where it may throw |
| `ReadUsers(ok)` | `read_db_users` |
| `WriteFiles`, `WriteFilesFails` | `write_db_files`; the insert of a row clashes with the unique `info_hash` |
| `WriteUsers(ok)` | `write_db_users` |
| `AddFile`, `FlagFile`, `EditUser` | the administrator (external) |
| `Crash` | the process dies and starts again; `up` is how far the start is |

A peer is known by its host (the default build; with `PEERS_KEY` by host and user). A
user with a wait time may be refused or let in at any announce: the file's creation
time that decides is read from an uninitialised member for a file that was not loaded
from the table (`server.h:81`, `server.cpp:260`). The amounts of traffic and the
logs are left out, and `pend` keeps the last `active` value queued for each user and
file, which is the one that counts.

### What the runs show

| run | instance | properties |
|---|---|---|
| `tracker` | registered file, 2 hosts, 2 users (a torrents limit, a peers limit) and anonymous announces, everything may fail; 72 000 states | `FileCountsExact`, `NeverOvercharged`, `UserCountsFollowPeers`, `LimitPassedByKnownHostsOnly`, `ActiveUsersArePeers` |
| `tracker_faults` | auto-registration, 2 files, a user who has to wait, failing queries and crashes; 6 000 states | `ClashOnlyUnread`, `OnlyFailedWritesForget`, `StatsWritten` |

Two hosts let a user have two peers, and two users let a host change from one to the
other. Two files are needed where the order of the inserts matters.

What they found to be so:

* Leechers and seeders are always exact. The counters of users are exact only while
  the user stays in the table: one who is removed and added again while his peers
  live starts at zero, and goes below as they leave. So he is charged too little and
  never too much (`NeverOvercharged`).
* The limits are not looked at for a host that has a peer, so a user passes
  `torrents_limit` with hosts that were complete, or another user's, before
  (`LimitPassedByKnownHostsOnly` says there is no other way).
* `xbt_files_users` keeps showing users as active who are not there in four cases
  only: after a restart, after a failed write of the buffer, when a host's
  announces change to another user, and of a file whose row a failed query left unread,
  as the tracker does not know its `fid` then (`ActiveUsersArePeers`).
* A failed write of files forgets what was dirty (`OnlyFailedWritesForget`). With
  auto-registration, a first read that fails leaves rows unread; when such a file is
  announced its insert clashes, and every later write of every file fails with it.
  `ClashOnlyUnread` says that without a failing query it cannot happen.

Fairness in `tracker_faults`: the timers of the loop come round, so files are read at the
start, users are read, and files are written. That queries succeed is no fairness but a
premise of `StatsWritten`: from some time on none fails, and the file goes on being
announced.

## 4. Announces of the client

### What they model

`TrackerLink` is `Cbt_tracker_link` with the parts of `Cbt_file` and `Cserver` that it
reads and that the user changes: the state, the list of trackers, whether bytes are left,
and whether there is room for peers (`below_peer_limit`). An action is one call of
`pre_select` or `post_select`, or one command of the user.

| action | code |
|---|---|
| `WrapIndex` | `pre_select` finds the index too large, and nothing to do |
| `SkipInvalid`, `FailAtOnce`, `FailToReach`, `Contact` | the ends of an attempt in `pre_select`: an invalid URL; a socket or connect that fails at once; a host that is not found; an announce that begins |
| `SendRequest`, `SendFails` | the request with the event is sent, or cannot be |
| `Fails`, `Answer(i)` | `post_select`: error, silence, or an answer with interval `i` |
| `Complete` | the last byte is written: once, as nothing is left then (`bt_file.cpp:468`) |
| `Open`, `Announce`, `Stop`, `Pause`, `EditTrackers`, `AddTracker` | what the file and the user do to it |
| `PeersChange` | the limit of peers is reached, or is not any more |
| `Pass` | `Tick` seconds pass |

`Close` is part of every end of an announce. It takes `mc_attempts = 0` for "has
answered", so `Promote` and `FailOver` are its two sides. The list is a vector that is
indexed without a look at its size; `crashed` is the index that is out of range.
`edited` and `owed` are histories: that the list was replaced during the announce, and
how long each tracker is still to be left alone. An event, a start and a new list
allow an announce at once, so they clear `owed`.

`pre_select` makes an attempt only when the torrent runs, its wait is over and there is room
for peers (`Ready`). The limit counts the peers of all torrents, so room comes and goes at
any time. A torrent that is still being hashed counts as paused. What trackers say is left
open.

`TrackerBackoff` runs the link beside the rule of `htdocs/udp_tracker_protocol.html:21`,
a history `n` and the seconds before a request may be repeated. It is the plain case: the
torrent is opened and left alone, there is room, every request goes out, and the tracker
stays silent until each attempt times out.

Bounds: time passes 60 s at a time, which divides every back-off (60, 300, 3600) and
stays above the timeout of 15 s; the waits of trackers are rounded to it (0 becomes
300, 420 stays). `MaxAttempts` stops the count of attempts. Above 6 the wait is the cap
of an hour until the shift overflows, and the run of `TrackerBackoff` goes on to 31 for
that; three attempts are more than the list of `tracker_link` needs to come
round. `Doublings` is 5 because 60 s doubled six times passes the cap.

### What the runs show

| run | instance | properties |
|---|---|---|
| `tracker_link` | UDP, invalid and HTTP tracker; lists replaced by an empty, a shorter and a reordered one; 665 000 states | `OnlyEditsCrash`, `PromoteOnlyAnswered`, `Paced`, `EveryTrackerTried` |
| `tracker_backoff_overflow` | one UDP tracker, 31 attempts | `ResendsLate` is violated |

* The list of trackers may be replaced by a shorter one while an announce is under
  way, and the answer then swaps elements that are not there (`bt_tracker_link.cpp:295`).
  `OnlyEditsCrash` says that nothing else makes the index wrong. `tracker_link` does not
  check deadlock because a crash is the end.
* Fail-over counts an attempt down when it moves to the next tracker, yet an attempt
  that fails is never mistaken for an answer (`PromoteOnlyAnswered`).
* The wait is looked at only for the first tracker. It is enough: a tracker that did not
  answer is not contacted again within a minute, nor one that answered within its
  interval (`Paced`). A list that names a tracker twice is excepted: nothing takes the
  second one out, and fail-over comes to it at once.
* The back-off is a shift of an `int` without a bound. After 26 attempts in a row at a
  UDP tracker (60 << 26), or 23 at an HTTP tracker, it is negative, and the tracker is
  contacted again as soon as each attempt times out. The trace of `tracker_backoff_overflow`
  has nothing but requests that are sent and time out. This contradicts the protocol page
  and is recorded as a finding.
* A socket or connect that fails at once (`FailAtOnce`) leaves the index where it is: a
  tracker that is not the first is tried again in the next turn of the loop, and those
  after it are not reached while it fails. `EveryTrackerTried` has as premise that the
  torrent runs on, has room for peers, and its list is not edited any more. Then every valid
  tracker gets its turn again and again, or one answers again and again, or every attempt
  from some time on is such a failure at one and the same tracker: nothing else stops the
  fail-over, and failures that come now and then do not.

Fairness in `tracker_link`: the loop calls `pre_select` and `post_select`, and time
passes. It includes that a TCP connection ends in an answer or an error, which the
client leaves to the network: HTTP has no timeout of its own.

## 5. Ring buffer and peer reader

### What they model

`RingBuffer` keeps the pointers as offsets and the bytes in a function of offsets; its
operators are the methods with the same names (`CbR` is `cb_r()`, `Released` is
`cb_r(n)`, and so on). Its actions are the operations with the conditions under which
all callers use them. `Contents` is the refinement mapping to `ByteQueue`. A buffer starts
without memory here; the class has no constructor, and every user calls `size()` before
it looks at a pointer.

`PeerReader` adds the order in which a peer link uses its buffer: `recv` fills it while
there is room, then state 3 of `post_select` takes whole messages, combines when the
bytes wrap, and frees the memory when nothing is left. The length in a header is its
last byte; a message that is refused, an error, or a header that is too long is `Close`.

### What is checked

The run `parts` checks `IsQueue` with three bytes and memories up to 3, and
`NoMessageIsLeft` for headers of 2 bytes and messages of 1 in a buffer of 3, which is the
relation of the code's numbers (4 + 32 KB fit into 33 KB) at its tightest. Larger ones add
nothing: the proofs cover every size.

The reader needs that relation. The administration link uses the same buffer without a
limit for its messages, and `Admin` shows what becomes of one that is too long.

## 6. Links as the peers see them

`PeerLinks` is the other half of `Cbt_peer_link`: how a link comes to be and what it tells
its peer. A host is named (`InsertNewPeer`), connected to (`Connect`) or accepted
(`Accept`, `LinkEnds`), and the two ways meet in `ReadPeerId`, which writes the bitfield.
Then pieces are completed (`QueueHave`), the choke goal changes (`Choose`, `WriteChoke`),
the peer requests and cancels, and messages wait in `out` until `Send` takes them; `heard`
is what the peer made of those it got. What we ask of the peer is in `Download`, so a
piece that completes is one step here; `Upload` says which links are let in.

| run | instance | properties |
|---|---|---|
| `peer_links` | 2 hosts, one of them blocked, 2 pieces, 2 requests, 1 message before the goal changes again; 122 000 states | `PeerToldRight`, `NewsArrives`, `RequestsEnd` |

The order of messages is what is easy to get wrong: news is queued before the handshake is
done and thrown away then, because the bitfield will say it; a choke drops the requests
but not the answer that is being sent. `PeerToldRight` says that no piece falls between
bitfield and have, and that no answer comes between a choke and an unchoke.

Bounds: `MaxRequests` is 256 in the code and 2 here, one more than what is answered at a
time; `MaxOut` keeps the chokes that wait in the buffer to what can be told apart.
Fairness: the loop visits the link and the peer reads what is sent; a link is quiet for
120 s again and again. Nothing is assumed of the peer's requests or of `Choose`.

## 7. Torrents and their saved state

`Torrents` is what the client believes of its pieces, through `open`, the check by the
hasher, download, `close`, `save_state`, `load_state` and the move of a complete torrent to
its other folder. The disk is part of the state (`there`, `disk`), and so is what a user
deletes there while a torrent is not open. `Crash` may come at any moment, also while
`state.bin` is written, which happens in place and so may leave nothing of it.

| run | instance | properties |
|---|---|---|
| `torrents` | a torrent with a piece in one file and one across two, and one of one piece that may be opened by URL, one of them in a behaviour; 1.35 million states | `KnownIsOnDisk`, `LeftExact`, `PauseHolds` |

A piece across two files is what a lost file may take away from another; a check takes a
piece a turn, so that it can be broken off in the middle. Deadlock is not looked for: the
process may be down, and a behaviour is about one torrent that may be gone.

What they found to be so:

* A piece that is claimed is on disk, but for two cases that `lies` follows. The state
  file is saved once a minute, and for a torrent that is complete without a request for a
  check; sub files that are made anew afterwards (the rest of a deleted file, or a move of
  the complete torrent that is not saved) are taken for what they were when a crash brings
  that save back. And a torrent that got its info while it ran (`bt_peer_link.cpp:598`)
  calls an `open()` that returns at once: it has no folder until it is opened again, and
  then finds other files there.
* `m_left` of such a torrent counts from -1 down and never reaches 0. All other torrents
  count right, however often a check is broken off.
* The end of a check sets a torrent running that was paused meanwhile (`bt_file.cpp:234`);
  nothing else does (`PauseHolds`).

## 8. The loop of the client

`ClientLoop` keeps of each torrent its state and how long its check still takes, and of
the process the queue, the limit, the HTTP links and the end.

| run | instance | properties |
|---|---|---|
| `client_loop` | 2 torrents, a limit of 1, checks of one turn, 2 HTTP links; 27 000 states | `QueueMoves`, `ChecksEnd`, `StopEnds`, `ResumesAsLeft` |

Two torrents and room for one is what a queue takes. Fairness: the loop turns, so checks and
`update_states` get their turn and an ended loop is left, and an HTTP link ends. The last is
an assumption about the network: the program has no timeout of its own for it, and a
partner that neither answers nor closes keeps the process (`server.cpp:297`). `ChecksEnd`
and `StopEnds` have the premise that users stop commanding at some time, as they can start
a check anew for ever. A command that comes while the process waits for its links is
carried out and forgotten (`server.cpp:423`): `ResumesAsLeft` says that the next process
opens just the torrents that were open when the stop was seen.

## 9. Parts

`MCParts` checks the smaller parts, in one run: a behaviour chooses one of them, and the
variables of the others stay as they are. Parts without a state of their own are
operators, and one input of each is chosen from `MCInputs`. The run has 235 000 states, and
its properties are conjunctions of what the modules say of themselves:

| property | part | what it says | instance |
|---|---|---|---|
| `IsQueue`, `NoMessageIsLeft` | `RingBuffer`, `PeerReader` | section 5 | |
| `ChunkIsOfFile` | `MerkleTree` | only chunks of the file are taken, whatever hashes were kept unproved before; an honest chunk always is; the hashes given to others prove | 5 chunks: an odd width at two levels |
| `UploadShared` | `Upload` | nobody waits beside a free slot, and no torrent gets more than its share while another has less; the quota is divided evenly, nothing is lost, the division ends, and what is left over no link could send | 5 links of 2 torrents in every order; 3 links that hold as much as they said, less or more, behind sockets that take less or more |
| `BytesHavePlaces` | `Layout` | every byte has one place; hasher, writes and reads agree about it, and `open` and the priorities exactly where they are in step with them | up to 3 files of 0 to 3 bytes, pieces of 2 to 4, with and without Merkle |
| | `Making` | a torrent made has the hashes of the bytes the client looks for, with files dropped twice or read in part too; what was read in full can be opened, but for the cases below; its trackers come back | 2 files and a directory in up to 2 goes, 0 to 13 units; pieces of 2 to 16 |
| `RoundTrips` | `Bencoding`, `Xif`, `Texts`, `Settings`, `Dumps`, `Sha1` | what is written is read back, to the last byte and as long as announced; the digest is of the whole message | values two levels deep; short sequences of the bytes that matter |
| | `Announcing` | both ends mean the same by an announce and its answer; a UDP host is answered only when it can receive | 2 peers an answer (50 in the code) |
| `RowsMatchData` | `ClientView` | every unchecked lookup by a row finds its element, but for one kind of click (below), and after a full dump every element has its row | 2 torrents of 2 and 1 pieces, 2 peers, 1 event |
| `ViewsExact` | `Columns`, `Sorting` | columns and orders are exact | 4 columns |
| `ProfileIsFound` | `Scheduler` | the profile that is switched to is there, after any edits, loads and restarts | 2 profiles, 4 times, 2 entries |
| `RequestsAnswered` | `Connection` | however a request is cut and however little the socket takes, one answer goes out, in order and whole | requests up to 10 bytes, a buffer of 8 |
| | `Admin` | each request is carried out once, in order, and answered, or the link or program ends, or an answer that does not fit is dropped | requests shorter and as long as the buffer, an answer that does not fit |

Sizes are scaled where only their relation matters: a block of SHA-1 has 8 bytes and a
word of its length one, an `IntBytes` is 2, the buffers of connections have 8 bytes. Bytes
stay bytes where their value matters (URLs, bencoding, ids, hosts).

What they found to be so, and is not obvious:

* The loop of `Cbt_tracker_link` takes three peers too many from a UDP answer, from bytes
  behind the datagram (`bt_tracker_link.cpp:218`): run `udp_peers`, a finding.
  `RoundTrips` holds beside it because those peers are only tried.
* A second `?` in the URL of a tracker makes the client's whole request a part of the
  first value (`bt_tracker_link.cpp:324`), and a comma in it splits the link that the
  client copies (`bt_file.cpp:844`). The properties except both.
* A folder that is set to the name the table gives it is lost for the one below the home
  of the user (`config_base.h:103`), and a rate below a kilobyte becomes no limit after OK in
  the dialog (`dlg_options.cpp:131`).
* Counts of sub-pieces in a dump are one byte (`bt_piece.cpp:126`): right below 256.
* The walks over the files of a Merkle torrent do not agree. Its files start a piece each;
  `open` (`bt_file.cpp:197`) and `update_piece_priorities` (`:900`) add up their offsets
  without that padding. Behind a file that does not fill its last piece a missing file costs
  the pieces of others, and a priority is given to them. `BytesHavePlaces` says that the
  pieces given up are the right ones exactly where the walks are in step (`InStep`): in every
  torrent that is not Merkle, and behind files that fill their pieces.
* What a link has to send is counted once, before the quota is divided; what it then sends is
  less when a block cannot be read, and more with the hashes of a Merkle torrent
  (`bt_peer_link.cpp:261`). A link whose buffer is empty, or whose socket is full, leaves the
  division, and the quota may be left over: only when no link can send any more.
* A click on a column sorts the lower list with whatever dump was read last
  (`XBT ClientDlg.cpp:2101`). After a minute in the tray that is one without flags, which
  empties the sub-files and pieces and leaves their rows. A click before timer 0 goes off then
  indexes an empty vector (`sub_files_compare`, `:2018`; `pieces_compare`, `:1992`). `missed`
  keeps what the last sort looked up in vain; `RowsMatchData` says that it is nothing, but in
  this case (`Stranded`).
* A Merkle torrent is saved packed when that is smaller (`dlg_make_torrent.cpp:333`), and
  nothing unpacks it: `xcc_z::gunzip` has no caller. Neither "Seed after Making" nor opening
  the file does anything then (`Opened`). By the same gap the client tells trackers that
  it takes packed answers (`bt_tracker_link.cpp:348`) and could not read one; the tracker
  here never packs the answer to an announce (`Tracker/connection.cpp:180`).
* Above 16 GiB (4097 pieces of 4 MiB) a torrent gets pieces that `Cbt_file::info` takes
  and the window refuses (`bt_torrent.cpp:76`), so that it cannot be opened there.
* A file whose name begins with a dot is left out of a directory and kept when it is
  dropped by itself; the torrent is refused then. `SeedsAfterMaking` excepts these three.
* Directories are not kept: two files of one name in two of them get one path
  (`dlg_make_torrent.cpp:305`), and no download can hold both. The hashes are right all the same.
* One read for an edge can miss the end of the stream (`Tracker/connection.cpp:41`): then
  only the time limit closes the connection. `EndsByItself` excepts a client that ends its side
  before its request is whole. With requests that end in CRLF lines nothing
  else is missed.
* An answer that does not fit the buffer is dropped after its request was carried out
  (`bt_admin_link.cpp:119`), and the program waits for ever.

`ClientView` assumes of the server that the info of a torrent stays and that its list of
events does not shrink without a dump between that lacks the torrent, i.e. that a torrent is
not closed and opened again within a second; that its hash determines how many pieces and
sub-files it has (here one number for both); and that a hidden window is one with a tray
icon. Alerts are capped at 250 in the code; `MaxEvents` is 1.

Fairness: a link of which bytes have come, or which can be written to, is visited; epoll
reports sockets that are ready; clients go on sending and reading. Nothing is assumed of the
limit of ten seconds.

## 10. Proofs

All theorems hold for any number of links, pieces, torrents, hosts, files and users, from the
named assumptions on the constants (`DownloadAssumption`, `TrackerAssumption`,
`LinkAssumption`, `LinksAssumption`, `LoopAssumption`, `RingAssumption`, `ReaderAssumption`,
`TorrentsAssumption`, `TreeAssumption`, `SchedulerAssumption`, `ViewAssumption`): finite sets, that a piece has a
sub-piece and lies in a sub file, the types of lists and numbers, and that the longest message fits with its header. Two theorems
have a hypothesis of their own, which the MC modules assert of their instances: `Patient`
for `Paced`, and `Sensible` (sizes are positive numbers) for the connection.

`DownloadProofs` proves `TypeOK`, `CountersExact`, `AskedOnce`, `OnlyMissizedLeaks`,
`ValidIsOnDisk` and `AvailabilityExact`. The first four and the disk rest on one
inductive invariant, `Bookkeeping`. The counters alone are not inductive: to know that
a block that arrives lowers the count of free sub-pieces by one exactly when nobody
is asked for it, one needs that a sub-piece is asked of one link at most; to know that
a close gives back what it counts, that a received sub-piece is asked of nobody; and
to know that `--mc_sub_pieces_left == 0` is the completion, that a piece without
sub-pieces has nothing received. `AvailabilityExact` has an invariant of its own.

`TrackerProofs` proves every safety property of `Tracker`. `FileCountsExact` with the types is
inductive (`FileInv`); the lemma `Replace` carries it through an announce, `TakeAway` through
a clean-up. `ClashInv` adds how `files`, `seen`, `fid`, `rows` and `behind` hang together,
which is different with and without auto-registration.

The counters of users are harder, as they are not what they count. `UserCountsFollowPeers` is
an action property (`StepDrift`: what an announce or a clean-up does to the peers of a user
it does to his counter) and needs the types only. `NeverOvercharged` needs `UserInv`: the
drift of a user in the table is never negative, *and* one who is not in it is charged with
nothing, or he could come back with a charge from before. `LimitPassedByKnownHostsOnly` uses
the drift again: a new host that is let in was counted. `ActiveUsersArePeers` rests on `RowInv`:
what is queued or written of a user is of a file with a row.

`TrackerLinkProofs` proves `OnlyEditsCrash`, `PromoteOnlyAnswered` and `Paced` for any list, edits
and bounds. `LinkInv` says that during an announce `mc_attempts` is not 0 and, unless the list
was replaced, the current tracker is the one contacted; without the first fact a failure
could not be told from an answer. `Paced` is about each tracker and the code looks at one
wait only; `Pacing` says why that is enough: outside a round nobody is owed more than the
wait; in a round (fail-over has moved on) nobody is owed more than the least back-off,
and the trackers whose turn is still to come are owed nothing. The last needs that the list
has no duplicates. The hypothesis `Patient` says that no back-off is shorter than the first
one: it is what the overflow breaks (`ResendsLate`), so within it no tracker is hammered.

`PeerLinksProofs` proves `TypeOK` and `PeerToldRight`. A peer hears messages late, so the
invariant (`LinksInv`) reads the queue in the order in which the peer will: every piece of
ours is named in the queue, known to the peer, or waits in `haves` (`Told`); the choke
messages in the queue, the last of which wins, leave the peer with what we believe it to be
(`Leaves`); and a piece stands in front only, and only while the peer is not choked
(`PieceInFront`). Lemmas say what appending to a queue and taking its head do to these three.

`ClientLoopProofs` proves the types, that a torrent is listed once and that only listed open
ones have a hasher, and `ResumesAsLeft`. The invariant (`Resumable`) is about the saved state:
from the moment the stop is seen it names just the torrents in `was` as open, each once,
whatever is opened, closed or checked until the process ends.

`ConnectionProofs` proves `AnswersExact` for any requests, buffer, sizes of the answer, room in
the socket and list of ranges. `Once` says that `m_state` is 0 exactly until an end of a
line was read, so that the request is looked at once, and that a proper request can reach
the state 5 without an answer only if the client goes before it has sent all; `Laid` that what
is out is the beginning of the answer and what waits is its end. `DeniesIsInRange` shows that
looking at one range is enough when no two overlap. What `recv` does to `m_state` is a loop
over the bytes of a read. Induction theorems that take an operator cannot be used here, but
a least counterexample can: `SetInduction` states induction for a *set* of numbers, from
`WFMin`, and `Recursion` that a function defined along the numbers exists; `ParsedType` is
proved with both.

`PartsProofs` proves that the ring buffer implements the queue (`ImplementsQueue`): a lemma
per operation says what it does to `Contents`, element by element. Two facts make it work:
the pointers are equal only at the start of the memory, and one byte stays free. On top
of it `ReaderKeepsRoom` and `ReaderLeavesNoMessage` follow from what `Wait` knows of the view.

Its longest part is the hash tree: `ChunksAreOfFile` proves `ChunkIsOfFile` for every number
of chunks. The loops of the tree are functions of the level, so the lemmas first say what
these functions are (`WidthIs`, `AboveIs`, `ClimbIs`, `UsedIs`; that they exist at all is the
lemma `Recursion`), and what they give for the hashes of the file, `NodeHash`:

* A climb that ends at a right hash began with the right chunk and took right hashes on its
  way (`ClimbProves`), as the hash of a pair tells the pair. This is all that is used of SHA-1.
* Chunks set one after the other give the tree of the file (`SetNext`, `FullIs`), and so does
  the check of a file on disk with the right root (`CheckedEmpty`, `DiskIsFile`). `compute_root`,
  which keeps a heap of trees by their height like the bits of a number, has that root
  (`HeapNext`, `MerkleHashIs`).
* `set` keeps the hashes that were sent although only those up to the first known node are
  proved. `TreeInv` therefore says nothing of most nodes. It says that of the nodes known on
  the path above a chunk the *lowest* is right (`LowestRight`), which is the only one that
  `test` looks at; and, so that this is kept, that what is known under one node of a pair
  is known under the other as well (`Covered`): otherwise an unproved hash that was kept
  could become the lowest on another chunk's path. That the tree is empty or has the root
  makes a lowest one exist, so the right hashes are never refused.
* While no peer has lied every node that is known is right, and the hashes beside the path of
  a known node are known (`AllRight`, `SidesKnown`): these are the hashes passed on.

`ScheduledProfileIsFound` proves `ProfileIsFound` of `Scheduler`. `ScheduleInvariant` says that
every entry names a profile that is there; it holds because `clean_scheduler` runs after both
lists were loaded, whatever became of the keys. That there is a latest entry, and among those
of one time a first, is `FirstLatest`; it needs that times are bounded. A profile is active at
every time of the day or at none (`ActiveIs`), so that no switch is to a profile that is missing.

`RowsAndDataMatch` proves `RowsMatchData` of `ClientView`, for any torrents and any dumps. While
the window is hidden the dumps leave out what the rows stand for, and the rows of sub-files
and pieces stay; that they are right again with the next full dump does not follow from
`RowsMatchData`. A click in between is the exception that the property and the theorem name:
`ViewInvariant` adds to `ListsInvariant` that rows which a sort looked up in vain are stranded
since that sort, and `SortFinds` that a sort at any other moment, clicks included, finds all it
looks up. `ListsInvariant` says for each list what its rows are (`RowsFit`): those of
the data the entry has now, but for sub-files and pieces all of the torrent or none, and only
if its info is known (`RowsOfChosen`). It uses that the number of pieces belongs to the
hash, and that the info does not go away. Ids and hashes stay unique because new ids lie
above all others (`NewIdIs`) and the dump names a torrent once.

`QuotaIsShared` proves `QuotaShared` of `Upload`, the half of `UploadShared` that is about the
quota, for any links and any quota. A link is in the division only with something to send
(`cb_write_buffer()`), so `has` is not 0; nothing is assumed of the order, nor of how what it
then holds and what its socket takes relate to that. Quota is left only when every link has
sent all it can (`Can`). `Come` says what a
round has done when it has come to a link: quota, what goes back and what was sent add up, a
link that is through has sent all it can, and the links to come are as they were. That a share
stays for each of those is `Fairly`; it needs that taking `quota / j` leaves the others what
they had (`ShareStays`). The loop ends because the last link of a round may take the whole
quota: something is sent, or a link is through, in each (`RoundIs`), so that quota and
number of links together go down.

`TorrentsProofs` proves all of `Torrents`: `TypeOK`, `KnownIsOnDisk`, `LeftExact` and `PauseHolds`,
for any torrents, any layout of pieces over sub files and any size of a turn of a check.
`KnownIsOnDisk` speaks of open torrents, but a torrent may be closed, saved, lost with
its process, read back and opened again before it is broken. `IInv` therefore says three
things at once: a check knows the pieces it has looked at (`Good`); a torrent that is
closed, and will not be checked, knows its pieces as far as their sub files stay
(`Sound`, which survives a user who deletes files because `open` gives such pieces up);
and the state file says of each torrent no more than that (`GoodRecord`), unless
`fileLies`. `LeftExact` rests on `AllCounted`, which adds what a check that is not over has
counted; it uses of `IInv` that a torrent that is not open has no check, and that
without info no piece is valid. `PauseHolds` needs no more than the types.

What proving showed about the models: `ActiveUsersArePeers` had missed the fourth way to a user
who is shown and not there (section 3; it takes auto-registration, a crash and a read that fails
together, and the run that checks it has no auto-registration); `Paced` is wrong for lists with duplicates, which no
instance had; and an exception that `ResumesAsLeft` made for torrents that are touched while
the process stops was not needed.

Only model-checked: `ResendsLate` (violated), the properties of section 9 other than `IsQueue`,
`NoMessageIsLeft`, `ChunkIsOfFile`, `ProfileIsFound`, `RowsMatchData`, the quota in `UploadShared` and the safety part of `RequestsAnswered` for a connection, and everything about liveness
(`EndsByItself` of a connection among it), which is beyond the prover. Many definitions of
section 9 are recursive operators, which TLAPS cannot use; they are compared with what they
should give on all inputs of `MCInputs`.

## 11. What is not modelled, and the plan

Done, in this order: `Download` and `Tracker` with their proofs; `TrackerLink` and
`TrackerBackoff`; `RingBuffer` as an implementation of `ByteQueue`, and `PeerReader`;
`Torrents`, `ClientLoop`, `PeerLinks`; the parts of section 9.

Left to do:

1. Prove what the other parts of section 9 promise where they are not recursive: that
   requests are carried out once (`Admin`), that the slots are shared (`Upload`).
2. The scrape of the tracker.
3. `Download` for Merkle torrents, whose answers lower a count without taking a request
   off its list (`bt_peer_link.cpp:668`).
4. Priorities of files beyond exclusion, and the messages that carry the info.

Not modelled, and why:

* The chain of timers in the loops: every property allows them at any time, and fairness
  says that they come round. Their periods are data.
* Rates (`data_counter`) and statistics: numbers for display that nothing reads back.
* The block list: a set of addresses, a constant of `PeerLinks`.
* The database wrapper beyond "a query succeeds or throws", sockets, zlib, SHA-1's
  compression function, start as a daemon or service.
* Drawing, menus and dialogs of the Windows client that keep no state beyond the list
  they show; `misc/windows` is a layout library of others.
* The pages in `htdocs`.
* The lock of the Windows build: the loop gives it up around `select` only, so that a call
  of the interface is one step between two turns.
* A peer that sends wrong bytes is neither remembered nor refused (`bt_file.cpp:462`), and
  the event of an announce is forgotten when the request is sent (`bt_tracker_link.cpp:172`):
  both are modelled, and no property is about them because the code promises nothing.
