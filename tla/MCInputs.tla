------------------------------ MODULE MCInputs ------------------------------
(***************************************************************************)
(* The inputs for the definitions of the project that keep no state of     *)
(* their own: small sets that hold the cases each of them tells apart.     *)
(***************************************************************************)
EXTENDS Integers, Sequences, FiniteSets, TLC

Uploads == INSTANCE Upload
Layouts == INSTANCE Layout
Xifs    == INSTANCE Xif
Wire    == INSTANCE Announcing WITH MaxPeers <- 2   \* with Texts and Bencoding
Setups  == INSTANCE Settings
Dump    == INSTANCE Dumps
Lists   == INSTANCE Sorting
Maker   == INSTANCE Making WITH      \* sizes in units; pieces of 2 to 16
  Chunk <- 2, FirstPiece <- 2, MerklePiece <- 4, MostPieces <- 2, MostFiles <- 3, LargestTorrent <- 1,
  Smallest <- 1, Largest <- 8, LargestShown <- 4, MostChunks <- 7

LOCAL UpTo(n, S) == UNION {[1..k -> S] : k \in 0..n}

-----------------------------------------------------------------------------
(* Upload: five links of two torrents in every order of their kinds, and   *)
(* three links that hold what they should, less or more, or whose socket   *)
(* takes one byte only.                                                    *)
Kind == << [fast |-> TRUE, wants |-> TRUE, wanted |-> TRUE], [fast |-> TRUE, wants |-> FALSE, wanted |-> TRUE],
           [fast |-> FALSE, wants |-> TRUE, wanted |-> TRUE], [fast |-> FALSE, wants |-> TRUE, wanted |-> FALSE] >>
Limits == {[min |-> 0, max |-> 1], [min |-> 1, max |-> 2], [min |-> 3, max |-> 1], [min |-> 2, max |-> 0]}
Slots ==
  {[links |-> [i \in 1..5 |-> [id |-> i, file |-> f[i], running |-> TRUE, left |-> TRUE] @@ Kind[k[i]]],
    lim |-> l, config |-> n] :
     k \in {x \in [1..5 -> 1..4] : \A i \in 1..4 : x[i] <= x[i + 1]},
     f \in {x \in [1..5 -> {1, 2}] : x[1] = 1}, l \in [{1, 2} -> Limits], n \in {1, 5}}
Uplink ==
  {[has |-> h, holds |-> h + d, takes |-> 5] : h \in 1..3, d \in {-1, 0, 2}}
  \cup {[has |-> h, holds |-> h, takes |-> 1] : h \in 1..3}
Quotas ==
  {[links |-> l, quota |-> q] :
     l \in {x \in [1..3 -> Uplink] : \A i \in 1..2 : x[i].has <= x[i + 1].has}, q \in 0..9}

(* Layout: up to three files of 0 to 3 bytes, pieces of 2 to 4.            *)
Torrent == {t \in [piece : {2, 3, 4}, merkle : BOOLEAN, sizes : UNION {[1..n -> 0..3] : n \in 1..3}] :
              Layouts!Total(t) > 0 /\ (t.merkle => t.piece # 3)}
Layout == UNION {{[torrent |-> t, priority |-> p] : p \in [DOMAIN t.sizes -> {-10, 0}]} : t \in Torrent}

(* Making: a file, a second one with or without a special name, and a      *)
(* directory, dropped together or in turn, in sizes on both sides of every *)
(* limit, some of them read in part or not at all.                         *)
LOCAL File(n, s, r) == [name |-> n, size |-> s, read |-> r]
LOCAL Folder5(e)    == [name |-> 5, entries |-> e]
Disks ==
  {<<f, g, Folder5(e)>> :
     f \in {File(3, 0, 0), File(3, 1, 1), File(3, 5, 5), File(3, 5, 3), File(3, 5, 0), File(3, 13, 13)},
     g \in {File(4, 2, 2), File(4, 11, 11), File(4, 6, 1), File(Maker!Hidden, 2, 2), File(Maker!System, 2, 2)},
     e \in {<<>>, <<File(3, 3, 3), File(Maker!Hidden, 2, 2), File(Maker!System, 2, 2)>>,
            <<[name |-> 4, entries |-> <<File(3, 2, 2), File(6, 3, 3)>>], File(3, 1, 1)>>}}
Goes == {<<<<1>>>>, <<<<2, 1>>>>, <<<<2>>, <<1>>>>, <<<<1>>, <<1>>>>, <<<<3>>>>, <<<<3, 1>>>>, <<<<1>>, <<3, 2>>>>}
Typed == {[name |-> Maker!None, trackers |-> <<>>], [name |-> 7, trackers |-> <<97, 13, 10, 98, 98, 32>>],
          [name |-> Maker!Improper, trackers |-> <<9, 32>>]}
Drops == {[disk |-> d, goes |-> g, window |-> w, typed |-> t, merkle |-> k, packed |-> p] :
            d \in Disks, g \in Goes, w \in BOOLEAN, t \in Typed, k \in BOOLEAN, p \in BOOLEAN}
Makings == {x \in Drops : x.packed => x.merkle}
Listed(x) ==
  LET nodes(go) == [k \in DOMAIN go |-> x.disk[go[k]]]
      one(m, k) == IF k = 1 /\ x.window THEN Maker!DropOnWindow(<<>>, nodes(x.goes[1]))
                   ELSE Maker!Drop(m, <<>>, nodes(x.goes[k]))
  IN Uploads!FoldLeft(one, Maker!NewList, [k \in DOMAIN x.goes |-> k])

-----------------------------------------------------------------------------
(* Bencoding: values two levels deep, and every short sequence of the      *)
(* bytes the syntax is made of.                                            *)
Strings == {<<>>, <<97>>, <<101, 49>>, [i \in 1..10 |-> 97]}
Leaves  == {[int |-> n] : n \in {-12, 0, 7, 100}} \cup {[str |-> s] : s \in Strings}
Some    == {[int |-> -12], [int |-> 7], [str |-> <<>>], [str |-> <<101, 49>>]}
Keys    == {<<>>, <<97>>, <<98>>, <<97, 98>>}
Dicts(S) == UNION {{[dict |-> d] : d \in [D -> S]} : D \in {{}} \cup {{a, b} : a, b \in Keys}}
ListOf(S) == {[list |-> l] : l \in UpTo(2, S)}
Flat    == Leaves \cup ListOf(Leaves) \cup Dicts(Some)
Values  == Flat \cup {[dict |-> <<97>> :> v] : v \in Flat} \cup {[list |-> <<v, w>>] : v \in Some, w \in Flat}
Syntax  == UNION {[1..n -> {48, 49, 50, 58, 45, 100, 101, 105, 108}] : n \in 1..4}

(* Xif: trees of keys and values, and the ends of the range of each width. *)
Value == [type : {"int32", "bin32"}, data : {-300, 7}]
         \cup [type : {"string", "external", "binary"}, data : {<<>>, <<65, 66, 0>>}]
Branch(S) == UNION {[D -> S] : D \in {{}, {0}, {1, 3}, {0, 2}}}
Tree == LET leaves == {[keys |-> <<>>, values |-> v] : v \in Branch(Value)}
            few == {[keys |-> <<>>, values |-> v] : v \in Branch({[type |-> "int32", data |-> -300],
                                                                 [type |-> "external", data |-> <<65, 66, 0>>]})}
        IN leaves \cup UNION {{[keys |-> k, values |-> 1 :> [type |-> "external", data |-> <<67>>]] :
                                 k \in [D -> few]} : D \in {{5}, {1, 4}}}
Number == UNION {{[width |-> w, value |-> v] : v \in {0, 1, -1, 255 % 256 ^ w \div 2, 256 ^ w \div 2 - 1, -(256 ^ w \div 2)}} :
                   w \in 1..3}

-----------------------------------------------------------------------------
(* Texts: bytes that are kept, quoted or separate others, torrents with    *)
(* trackers and peers, URLs put together of their parts, peer ids.         *)
Text == UpTo(3, {0, 32, 37, 38, 43, 44, 47, 52, 65, 102, 255})
Url  == {<<>>, <<104, 58, 47>>, <<44, 37>>, <<32, 255>>}
Peers == UpTo(2, {[state |-> s, host |-> <<10, 0, 0, h>>, port |-> <<26, p>>] : s \in {1, 3}, h \in {1, 2}, p \in {7, 47}})
Links == {[trackers |-> t, info_hash |-> <<h, 47>>, local |-> l, peers |-> p] :
            t \in UpTo(2, Url), h \in {0, 255}, l \in {<<>>, <<10, 0, 0, 2, 26, 9>>}, p \in Peers}
Trackers == UpTo(3, Url \cup {<<13, 9>>})
UrlParts == {Wire!Http, Wire!Udp, <<72, 84, 84, 80>>, <<58>>, <<47>>, <<97>>, <<56, 48>>, <<45>>}
RECURSIVE Joined(_)
Joined(n) == IF n = 0 THEN {<<>>} ELSE LET S == Joined(n - 1) IN S \cup {p \o s : p \in UrlParts, s \in S}
PeerIds == {[prefix |-> p, version |-> v, random |-> [i \in 1..20 |-> Wire!Alphabet[1 + ((k + i) % 62)]]] :
              p \in {<<>>, <<65>>, [i \in 1..20 |-> 45]}, v \in {0, 73, 999}, k \in 0..61}

-----------------------------------------------------------------------------
(* Announcing: what a torrent may have to say, of whom and to whom, and    *)
(* what the tracker may have to answer.                                    *)
Hash(k) == [i \in 1..20 |-> (k + 37 * i) % 256]
Pass    == [i \in 1..32 |-> 65 + (i % 26)]
Own     == <<192, 168, 0, 7>>
Paths == {[path |-> <<47, 97>>, pass |-> <<>>], [path |-> <<47, 120, 47, 97>>, pass |-> <<>>],
          [path |-> <<47>> \o Pass \o <<47, 97>>, pass |-> Pass],
          [path |-> <<47>> \o Pass \o <<47>> \o [i \in 1..40 |-> 48] \o <<47, 97>>, pass |-> Pass],
          [path |-> <<47, 97, 63, 112, 61, 49>>, pass |-> <<>>]}
Where == {[local |-> <<>>, host |-> <<255, 255, 255, 255>>], [local |-> <<>>, host |-> Own],
          [local |-> <<1>>, host |-> <<80, 1, 2, 3>>]}
Clients == {[info_hash |-> Hash(h), key |-> <<48, 65>>, peer_id |-> Hash(3), port |-> o, downloaded |-> d, left |-> l,
             uploaded |-> 3, account |-> a] @@ p @@ w :
              p \in Paths, w \in Where, h \in {0, 100}, o \in {1, 65535}, d \in {0, 1234567}, l \in {-1, 0, 70000},
              a \in BOOLEAN}
Announces == {x \in {[client |-> c, event |-> e, sender |-> s, stack |-> k] :
                       c \in {c \in Clients : c.downloaded = 0 <=> c.port = 1},
                       e \in {0, 1, 3}, s \in {Own, <<80, 0, 0, 1>>}, k \in {255}} :
                x.event = 1 => x.client.left = 0}
Host3 == {<<10, 0, 0, 1>>, <<10, 0, 0, 2>>, <<9, 9, 9, 9>>}
Known == UNION {{[peers |-> [h \in D |-> [left |-> l[h], port |-> <<26, h[4]>>]], interval |-> i, seeders |-> 2,
                  leechers |-> 300] : l \in [D -> {0, 5}], i \in {60, 1800}} : D \in SUBSET Host3}
Asked == {[info_hash |-> Hash(0), peer_id |-> Hash(3), left |-> l, event |-> e, num_want |-> n] :
            l \in {0, 5}, e \in {0, 3}, n \in {-1, 0, 1, 9}}
Answers == UNION {UNION {{[asked |-> a, known |-> f, chosen |-> S, stack |-> k] :
                            S \in Wire!Selections(a, f.peers), k \in {0, 9}} : f \in Known} : a \in Asked}

-----------------------------------------------------------------------------
(* Settings: configurations of the client, the lines of the tracker.       *)
Words == {<<>>, <<32, 97, 61, 98, 9>>, <<97>>, <<49, 50>>}
Sets == LET Completes == Setups!Folder.Completes IN
  {[Setups!ClientTable EXCEPT !.bool.upnp = u, !.bool.send_stop_event = e, !.int.upload_rate = r,
                              !.int.seeding_ratio = s, !.int.peer_limit = -3, !.string.completes_dir = d,
                              !.string.user_agent = a] :
     u \in BOOLEAN, e \in BOOLEAN, r \in {0, 512, 1024, 5000}, s \in {0, 100, 150},
     d \in {<<Completes>>, <<47, 97>>, <<92, 47>>, <<1, 47, Setups!Folder.XBT, 47, Completes>>}, a \in Words}
SetsAtHome == {[config |-> c, home |-> h] : c \in Sets, h \in {<<>>, <<1>>}}
Line(n, v) == [off |-> FALSE, name |-> n, value |-> v]
SomeLines == {Line("listen_port", <<56, 48>>), Line("listen_ipa", <<42>>), Line("listen_ipa", <<49>>),
              Line("debug", <<49>>), Line("daemon", <<110, 111>>), Line("announce_interval", <<32, 54, 48>>),
              Line("redirect_url", <<97>>), Line("torrent_pass_private_key", <<107>>),
              [Line("debug", <<49>>) EXCEPT !.off = TRUE], Line("nonsense", <<49>>)}
Reloads == {[use_sql |-> b, rows |-> r, file |-> f, more |-> m] :
              b \in BOOLEAN, r \in UpTo(1, SomeLines), f \in UpTo(2, SomeLines), m \in UpTo(1, SomeLines)}

-----------------------------------------------------------------------------
(* Dumps: torrents with lists of one element at most, or two pieces, under *)
(* each flag; the state file; the accounts.                                *)
LOCAL Names(layout) == {layout[i].name : i \in {i \in DOMAIN layout : layout[i].kind \in {"int", "char"}}}
LOCAL Numbered(layout) == [n \in Names(layout) |-> CHOOSE i \in DOMAIN layout : layout[i].name = n]
APeer(b, l) == [linked |-> b, left |-> l, peer_id |-> <<1, 2>>, debug |-> <<7>>] @@ Numbered(Dump!PeerDump)
APiece(c, i, n) == [chunks |-> c, invalid |-> i, peers |-> n, priority |-> -10, valid |-> 0]
Large == [chunks |-> 0, invalid |-> 0, peers |-> 300, priority |-> 9, valid |-> 1]
Pieces == {<<>>, <<Large>>, <<APiece(0, 0, 2), Large>>, <<APiece(4, 4, 0)>>, <<APiece(4, 1, 2), APiece(4, 4, 0)>>,
           <<APiece(256, 255, 0)>>}
Alert == [message |-> <<1>>, source |-> <<>>] @@ Numbered(Dump!AlertDump)
SubFile == [name |-> <<1, 2, 3>>, merkle_hash |-> <<>>] @@ Numbered(Dump!SubFileDump)
ATorrent == {[info_hash |-> <<1>>, name |-> <<2, 2>>, left |-> l, completed_at |-> 99, trackers |-> t, peers |-> p,
              alerts |-> a, sub_files |-> s, pieces |-> q] @@ Numbered(Dump!TorrentDump) :
               l \in {0, 3}, t \in {<<>>, <<[url |-> <<3>>], [url |-> <<4, 4>>]>>},
               p \in {<<>>, <<APeer(TRUE, 0)>>, <<APeer(TRUE, 5)>>, <<APeer(FALSE, 5)>>},
               a \in {<<>>, <<Alert>>}, s \in {<<>>, <<SubFile>>}, q \in Pieces}
DumpsOf == {[server |-> [alerts |-> <<>>, files |-> <<t>>, start_time |-> 77], flags |-> f] :
              t \in {t \in ATorrent : (t.alerts = <<>> <=> t.sub_files = <<>>) /\ (t.left = 0 <=> t.trackers = <<>>)},
              f \in {Dump!Flags, {}, {"peers"}, {"pieces"}}}
States == {[info |-> i, info_hash |-> <<8>>, trackers |-> t, name |-> <<1>>, left |-> l, priority |-> -1,
            pieces |-> IF i = <<>> THEN <<>> ELSE p, priorities |-> IF i = <<>> THEN <<>> ELSE <<-10, 1>>,
            old_peers |-> o] @@ [validate |-> v] @@ Numbered(Dump!StateInts \o Dump!SlotInts) :
             i \in {<<>>, <<8, 2, 3, 2>>}, t \in {<<>>, <<[url |-> <<3>>]>>}, l \in {0, 3}, v \in {0, 1},
             p \in [1..2 -> {[state |-> <<0>>], [state |-> <<2>>], [state |-> <<1, 0, 1, 0>>]}],
             o \in {<<>>, <<[host |-> 1, port |-> 2]>>}}
StateFiles == {[torrents |-> <<t>>, intermediate |-> b] :
                 t \in {t \in States : t.trackers = <<>> <=> t.old_peers = <<>>}, b \in BOOLEAN}
              \cup {[torrents |-> <<t, t>>, intermediate |-> TRUE] : t \in States}
Accounts == UpTo(2, [tracker : {<<>>, <<1>>}, user : {<<>>, <<2, 3>>}, pass : {<<>>, <<4>>}])

-----------------------------------------------------------------------------
(* Sorting: the elements of each list, small in every field it sorts by.   *)
Element ==
  [torrents |-> {[size |-> s, left |-> l, name |-> n, total |-> t, leechers |-> t, seeders |-> n] :
                   s \in {-1, 0, 3}, l \in {-1, 0, 2}, n \in {1, 2}, t \in {0, 2}},
   events |-> [id : 0..2, level : 0..1],
   peers  |-> [host_name : {<<>>, <<1>>, <<2>>, <<1, 2>>, <<2, 1>>, <<1, 1, 2>>}, left : {0, 1}, rate : {0, 1}],
   pieces |-> {[index |-> 2 * k + c, rank |-> k, chunks |-> c, field |-> f] : k \in 0..2, c \in 0..1, f \in 0..1},
   files  |-> {x \in [name : 1..2, extension : 1..2, size : 1..3, left : 0..2] : x.left <= x.size},
   made   |-> [name : 1..3, size : 1..3]]
ColumnsOf ==
  [torrents |-> Lists!FileColumns, events |-> Lists!EventColumns, peers |-> Lists!PeerColumns,
   pieces |-> Lists!PieceColumns, files |-> Lists!SubFileColumns,
   made |-> Lists!MadeColumns]
Sorts == UNION {{[list |-> l, col |-> c, reverse |-> b] : c \in ColumnsOf[l], b \in BOOLEAN} : l \in DOMAIN Element}
=============================================================================
