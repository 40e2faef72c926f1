------------------------------ MODULE MCParts -------------------------------
(***************************************************************************)
(* The small parts of the program, each by itself: which one a behaviour   *)
(* is about is chosen at its start, and the variables of the others stay   *)
(* as they are.  Of a part without a state one input is chosen.            *)
(***************************************************************************)
EXTENDS PeerReader, MerkleTree, Scheduler, ClientView, MCInputs

CONSTANT InUse      \* the parts to check

VARIABLES
  use,                                       \* the part
  chosen, input,                             \* one without a state
  request, room, address, denied, received, left, link, conn, why, ready,    \* Connection
  columns, header, conf,                     \* Columns
  message, block, low, high, digest, computed, corrupted,                    \* Sha1
  server, todo, sent, program, up, down, read, write, close, gone, got, answer, shown, asked, applied   \* Admin

ofInput      == <<chosen, input>>
ofConnection == <<request, room, address, denied, received, left, link, conn, why, ready>>
ofColumns    == <<columns, header, conf>>
ofSha1       == <<message, block, low, high, digest, computed, corrupted>>
ofAdmin      == <<server, todo, sent, program, up, down, read, write, close, gone, got, answer, shown, asked, applied>>
all == <<use, vars, ofInput, merkle, ofConnection, lists, ofColumns, ofSha1, scheduler, ofAdmin>>

-----------------------------------------------------------------------------
(* Instances.                                                              *)

LOCAL Text2 == <<"x", "cr", "lf">>
Http == INSTANCE Connection WITH
  sent <- received, gone <- left, c <- link,
  Requests <- {Text2 \o <<"cr", "lf">>, Text2 \o Text2 \o <<"cr", "lf">>, <<"x", "lf", "x", "lf", "lf">>,
               <<"?", "cr", "lf", "cr", "lf">>, Text2 \o Text2 \o Text2 \o <<"cr", "lf">>,
               Text2 \o <<"cr", "lf">> \o Text2},
  ReadBuffer <- 8, HeadSize <- 2, BodySize <- 2, Rooms <- {1, 3, 4}, Addresses <- {1, 3},
  DenyLists <- {(2 :> 1) @@ (5 :> 4), (3 :> 2) @@ (5 :> 1)}
ASSUME ConnectionAssumption == Http!Sensible

LOCAL Content(i, n, t, h) == [info |-> i, events |-> n, trackers |-> t, hosts |-> h]
MCSays == {Content(FALSE, 0, 1, {}), Content(TRUE, 1, 2, {"p"}), Content(TRUE, 2, 0, {"p", "q"}), Content(TRUE, 2, 1, {"q"})}
MCPiecesOf == [a |-> 2, b |-> 1]

Header3 == INSTANCE Columns WITH
  Table <- <<[id |-> 2, show |-> TRUE], [id |-> 0, show |-> TRUE], [id |-> 3, show |-> FALSE], [id |-> 1, show |-> TRUE]>>,
  Confs <- UNION {{{[id |-> i, order |-> o[i], show |-> s[i]] : i \in S} : o \in [S -> 0..2], s \in [S -> BOOLEAN]} :
                    S \in {{}, {0, 2}, {0, 1, 3}}}

Sha == INSTANCE Sha1 WITH BlockSize <- 8, MaxBytes <- 36

LOCAL Torrent1(s, l, n) == <<171>> :> [state |-> s, left |-> l, name |-> n]
LOCAL AdminPass == [i \in 1..8 |-> 97]
LOCAL Given(option) ==
  CASE option \in {"close", "erase", "pause", "start", "stop", "queue"} -> Setups!HexEncode(<<171>>)
    [] option = "open" -> [info_hash |-> <<171>>, size |-> 7, name |-> <<98>>]
    [] option = "user_agent" -> <<45>>
    [] option = "upload_rate" -> 5
    [] OTHER -> -3
Remote == INSTANCE Admin WITH
  Commands <- {[o \in S |-> Given(o)] :
                 S \in {{}, {"pause"}, {"pause", "close"}, {"start", "status"}, {"stop", "options", "status"},
                        {"upload_rate", "options"}, {"tracker_port", "options"}, {"open", "status"},
                        {"erase", "status"}, {"peer_port", "options"}, {"user_agent", "options"}, {"queue"}}},
  Servers <- {[config |-> [Setups!ClientTable EXCEPT !.string.admin_pass = p], torrents |-> t] :
                p \in {AdminPass, <<>>},
                t \in {[h \in {} |-> 0], Torrent1("stopped", 5, <<47, 97>>), Torrent1("running", 0, <<97>>)}},
  Rest <- {[user |-> u, pass |-> AdminPass] : u \in {<<Setups!Folder.xbt>>, <<>>}},
  RequestSizes <- {1, 3, 4}, StatusSizes <- {1, 4}, ReadSize <- 8, WriteSize <- 8

-----------------------------------------------------------------------------
Stateless ==
  {"slots", "quotas", "layout", "makings", "values", "syntax", "trees", "numbers", "texts", "links", "trackers", "urls", "ids",
   "announces", "answers", "sets", "homes", "reloads", "dumps", "states", "accounts", "sorts"}
Inputs(part) ==
  CASE part = "slots" -> Slots [] part = "quotas" -> Quotas [] part = "layout" -> Layout
    [] part = "makings" -> Makings
    [] part = "values" -> Values [] part = "syntax" -> Syntax [] part = "trees" -> Tree
    [] part = "numbers" -> Number [] part = "texts" -> Text [] part = "links" -> Links
    [] part = "trackers" -> Trackers [] part = "urls" -> Joined(4) [] part = "ids" -> PeerIds
    [] part = "announces" -> Announces [] part = "answers" -> Answers [] part = "sets" -> Sets
    [] part = "homes" -> SetsAtHome [] part = "reloads" -> Reloads [] part = "dumps" -> DumpsOf
    [] part = "states" -> StateFiles [] part = "accounts" -> Accounts [] part = "sorts" -> Sorts

\* A variable of a part that is not in use; some have a value of their type, because TLC
\* looks at every predicate of a temporal property.
Idle == 0

MCInit ==
  /\ use \in InUse
  /\ ReaderInit
  /\ chosen = FALSE /\ input = Idle
  /\ TreeInit
  /\ IF use = "connection" THEN Http!Init
     ELSE /\ request = <<>> /\ room = Idle /\ address = Idle /\ denied = Idle /\ received = Idle /\ left = "no"
          /\ link = [answers |-> 0, out |-> <<>>] /\ conn = "" /\ why = "" /\ ready = Idle
  /\ ViewInit /\ (use = "view" \/ (visible /\ view = "peers"))
  /\ IF use = "columns" THEN Header3!Init ELSE columns = Idle /\ header = Idle /\ conf = Idle
  /\ IF use = "sha1" THEN Sha!Init
     ELSE /\ message = Idle /\ block = Idle /\ low = Idle /\ high = Idle /\ digest = Idle
          /\ computed = Idle /\ corrupted = Idle
  /\ SchedulerInit /\ (use = "scheduler" \/ now = CHOOSE t \in Time : TRUE)
  /\ IF use = "admin" THEN Remote!Init
     ELSE /\ server = Idle /\ todo = Idle /\ sent = Idle /\ program = "ready" /\ up = Idle /\ down = Idle
          /\ read = Idle /\ write = Idle /\ close = Idle /\ gone = Idle /\ got = Idle /\ answer = Idle
          /\ shown = Idle /\ asked = <<>> /\ applied = <<>>

\* The part in use, of which part is one.
Only(part) ==
  /\ use = part /\ UNCHANGED use
  /\ IF part \in {"ring", "reader"} THEN TRUE ELSE UNCHANGED vars
  /\ IF part \in Stateless THEN TRUE ELSE UNCHANGED ofInput
  /\ IF part = "merkle" THEN TRUE ELSE UNCHANGED merkle
  /\ IF part = "connection" THEN TRUE ELSE UNCHANGED ofConnection
  /\ IF part = "view" THEN TRUE ELSE UNCHANGED lists
  /\ IF part = "columns" THEN TRUE ELSE UNCHANGED ofColumns
  /\ IF part = "sha1" THEN TRUE ELSE UNCHANGED ofSha1
  /\ IF part = "scheduler" THEN TRUE ELSE UNCHANGED scheduler
  /\ IF part = "admin" THEN TRUE ELSE UNCHANGED ofAdmin

\* The buffer holds up to three bytes when nothing is read from it as messages.
Ring       == Only("ring") /\ Next /\ UNCHANGED phase
Reader     == Only("reader") /\ ReaderNext
Choose     == /\ use \in Stateless /\ ~chosen /\ chosen' = TRUE
              /\ input' \in Inputs(use)
              /\ Only(use)
MerkleStep == Only("merkle") /\ TreeNext
HttpStep   == Only("connection") /\ Http!Next
ViewStep   == Only("view") /\ ViewNext
ColumnStep == Only("columns") /\ Header3!Next
ShaStep    == Only("sha1") /\ Sha!Next
TimesStep  == Only("scheduler") /\ SchedulerNext
AdminStep  == Only("admin") /\ Remote!Next

MCNext == \/ Ring \/ Reader \/ Choose \/ MerkleStep \/ HttpStep \/ ViewStep \/ ColumnStep \/ ShaStep \/ TimesStep
          \/ AdminStep

\* Each part with the fairness its own module assumes.
MCSpec ==
  /\ MCInit /\ [][MCNext]_all
  /\ WF_ofConnection(use = "connection" /\ (Http!Accept \/ Http!Refuse))
  /\ WF_ofConnection(use = "connection" /\ Http!Deliver)
  /\ WF_ofConnection(use = "connection" /\ Http!ClientSends)
  /\ WF_ofConnection(use = "connection" /\ Http!ClientReads)
  /\ WF_ofAdmin(use = "admin" /\ Remote!Serve)
  /\ WF_ofAdmin(use = "admin" /\ Remote!Receive)
  /\ WF_ofAdmin(use = "admin" /\ Remote!Exit)
  /\ WF_ofAdmin(use = "admin" /\ \E n \in {1, 3, 4} : Remote!Send(n))

-----------------------------------------------------------------------------
(* Properties: those of the modules, each for the part it is about.  Their *)
(* comments there say what they mean and which code they are about.        *)

On(part) == chosen /\ use = part

\* Upload slots and the quota of a second are divided as promised (server.cpp:
\* update_chokes and post_select).
UploadShared ==
  /\ On("slots") => Uploads!SlotsShared(input.links, input.config, input.lim)
  /\ On("quotas") => Uploads!QuotaShared(input.links, input.quota)

\* Every byte of the pieces has one place in the files (bt_file.cpp: write_data, read_data),
\* and a torrent that is made of files has the hashes of just these bytes and can be
\* opened, but for what is named there (dlg_make_torrent.cpp).
BytesHavePlaces ==
  /\ On("layout")  => Layouts!BytesHavePlaces(input.torrent, input.priority)
  /\ On("makings") => Maker!TorrentHolds(Listed(input), input.typed.name, input.merkle, input.packed,
                                         <<99>>, input.typed.trackers)

\* What is written in any of the formats of the program is read back as it was: bencoding,
\* the trees of numbered keys, URLs, links and ids, the settings, what the backend tells
\* its windows, the state file and the accounts; an announce and its answer arrive as they
\* were meant, over HTTP and over UDP (bt_tracker_link.cpp and the tracker's connection.cpp,
\* transaction.cpp); and a digest is that of the whole message.
RoundTrips ==
  /\ On("values")   => Wire!ValueKept(input)
  /\ On("syntax")   => Wire!BytesSettle(input)
  /\ On("trees")    => Xifs!TreeKept(input)
  /\ On("numbers")  => Xifs!NumberKept(input.width, input.value)
  /\ On("texts")    => Wire!BytesKept(input)
  /\ On("links")    => Wire!UrlKept(input)
  /\ On("trackers") => Wire!TrackersKept(input)
  /\ On("urls")     => Wire!UrlSettles(input)
  /\ On("ids")      => Wire!OwnIdKnown(input.prefix, input.version, input.random)
  /\ On("homes")    => Setups!SettingsKept(input.config, input.home)
  /\ On("sets")     => Setups!OptionsKept(input)
  /\ On("reloads")  => Setups!ReloadSettles(input.use_sql, input.rows, input.file, input.more)
  /\ On("dumps")    => Dump!DumpShown(input.server, input.flags)
  /\ On("states")   => Dump!StateKept(input.torrents, input.intermediate)
  /\ On("accounts") => Dump!AccountsKept(input)
  /\ On("announces") => Wire!AnnounceHeard(input.client, input.event, input.sender, 1, input.stack)
  /\ On("answers")   => Wire!AnswerRead(input.asked, input.known, input.chosen, input.stack)
  /\ use = "sha1"   => Sha!DigestIsOfMessage

\* The number of peers the client reports of a UDP answer is the number it takes from it
\* (bt_tracker_link.cpp:217).
PeersReported ==
  On("answers") => Wire!PeersReported(input.asked, input.known, input.chosen, input.stack)

\* A list of the windows can be sorted by each column, and the columns stand as chosen
\* (XBT ClientDlg.cpp, ListCtrlEx1.cpp).
ViewsExact ==
  /\ use = "columns"   => Header3!ColumnsExact
  /\ On("sorts")       => Lists!ListsSort(input.list, input.col, input.reverse, Element[input.list])

\* Requests are answered.  Over HTTP a proper one is answered once, in order and to its end
\* (Tracker/connection.cpp); every request of the administration is carried out once, in
\* order, and answered (bt_admin_link.cpp, Cserver::admin_request).
RequestsAnswered ==
  /\ [](use = "connection" => Http!AnswersExact)
  /\ use = "connection" => Http!EndsByItself
  /\ [](use = "admin" => Remote!Exact)
  /\ use = "admin" => Remote!Ends
=============================================================================
