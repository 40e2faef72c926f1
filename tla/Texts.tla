------------------------------- MODULE Texts -------------------------------
(***************************************************************************)
(* Texts that one part of the client or the tracker writes and another      *)
(* reads: hex and uri encoding, the xbtp:// link of a torrent, its list of  *)
(* trackers in the options dialog, the URL of a tracker, peer ids.          *)
(* Characters are their codes; a host is its four bytes and a port its two, *)
(* as the network has them.                                                 *)
(***************************************************************************)
EXTENDS Bencoding, FiniteSetsExt

Digit(c)  == c \in 48..57
Letter(c) == c \in 65..90 \cup 97..122
Lower(s)  == [k \in DOMAIN s |-> IF s[k] \in 65..90 THEN s[k] + 32 ELSE s[k]]

Space == 32
Percent == 37
And == 38
Plus == 43
Comma == 44
Minus == 45
Slash == 47
Colon == 58
Equals == 61
Question == 63
Blanks == {9, 10, 13, Space}
Starts(s, t) == Len(s) >= Len(t) /\ SubSeq(s, 1, Len(t)) = t

\* The parts of s between the characters in C.
Parts(s, C) ==
  LET cuts == <<0>> \o SelectSeq([k \in DOMAIN s |-> k], LAMBDA k : s[k] \in C) \o <<Len(s) + 1>>
  IN [k \in 1..(Len(cuts) - 1) |-> SubSeq(s, cuts[k] + 1, cuts[k + 1] - 1)]

-----------------------------------------------------------------------------
\* What is no hex digit counts as -1.
HexValue(c) == IF Digit(c) THEN c - 48 ELSE IF c \in 65..70 THEN c - 55
               ELSE IF c \in 97..102 THEN c - 87 ELSE -1
HexPair(a, b) == IF HexValue(b) = -1 THEN 255 ELSE (16 * HexValue(a) + HexValue(b)) % 256
HexDecode(s) == [k \in 1..(Len(s) \div 2) |-> HexPair(s[2 * k - 1], s[2 * k])]

HexOf(v) == IF v < 10 THEN 48 + v ELSE 87 + v
HexEncode(s) == FlattenSeq([k \in DOMAIN s |-> <<HexOf(s[k] \div 16), HexOf(s[k] % 16)>>])

Kept == {Minus, Comma, 46, 64, 95}
UriEncode(s) ==
  FlattenSeq([k \in DOMAIN s |->
    IF Letter(s[k]) \/ Digit(s[k]) \/ s[k] \in Kept THEN <<s[k]>>
    ELSE IF s[k] = Space THEN <<Plus>> ELSE <<Percent>> \o HexEncode(<<s[k]>>)])

\* A percent sign without two characters behind it makes the whole text empty.
UriDecode(s) ==
  LET from[a \in 1..(Len(s) + 1)] ==
        IF a > Len(s) THEN [cut |-> FALSE, s |-> <<>>]
        ELSE IF s[a] = Percent
        THEN IF a + 2 > Len(s) THEN [cut |-> TRUE, s |-> <<>>]
             ELSE [from[a + 3] EXCEPT !.s = <<HexPair(s[a + 1], s[a + 2])>> \o @]
        ELSE [from[a + 1] EXCEPT !.s = <<IF s[a] = Plus THEN Space ELSE s[a]>> \o @]
  IN IF from[1].cut THEN <<>> ELSE from[1].s

-----------------------------------------------------------------------------
(* The link of a torrent: its trackers, its info hash, where it listens if  *)
(* that is configured, and where its peers are.                             *)
Xbtp == <<120, 98, 116, 112, Colon, Slash, Slash>>

GetUrl(t) ==
  Xbtp \o FlattenSeq([k \in DOMAIN t.trackers |-> UriEncode(t.trackers[k]) \o <<Comma>>])
  \o <<Slash>> \o HexEncode(t.info_hash) \o <<Slash>> \o HexEncode(t.local)
  \o FlattenSeq([k \in DOMAIN t.peers |->
       IF t.peers[k].state = 3 THEN HexEncode(t.peers[k].host \o t.peers[k].port) ELSE <<>>])

\* insert_peers: a map from hosts to ports, six bytes each; what is left over is nothing.
InsertPeers(m, s) ==
  FoldLeft(LAMBDA new, k : (SubSeq(s, 6 * k - 5, 6 * k - 2) :> SubSeq(s, 6 * k - 1, 6 * k)) @@ new,
           m, [k \in 1..(Len(s) \div 6) |-> k])

NoPeers == [h \in {} |-> <<>>]
Refused == [trackers |-> <<>>, info_hash |-> <<>>, peers |-> NoPeers]

\* open_url, of a torrent that is not there yet.
OpenUrl(v) ==
  LET b == Find(v, Slash, Len(Xbtp) + 1)
      c == Find(v, Slash, b + 1)
      hash == HexDecode(SubSeq(v, b + 1, c - 1))
  IN IF ~Starts(v, Xbtp) \/ b > Len(v) \/ c > Len(v) \/ hash = <<>> THEN Refused
     ELSE [trackers |-> LET parts == Parts(SubSeq(v, Len(Xbtp) + 1, b - 1), {Comma})
                        IN [k \in 1..(Len(parts) - 1) |-> UriDecode(parts[k])],
           info_hash |-> hash,
           peers |-> InsertPeers(NoPeers, HexDecode(SubSeq(v, c + 1, Len(v))))]

\* What the options dialog shows of the trackers, and what Cbt_file::trackers makes of it.
Shown(trackers) == FlattenSeq([k \in DOMAIN trackers |-> trackers[k] \o <<13, 10>>])
Trackers(v) == SelectSeq(Parts(v, Blanks), LAMBDA part : part # <<>>)

-----------------------------------------------------------------------------
(* Cbt_tracker_url.                                                        *)
Http == <<104, 116, 116, 112, Colon, Slash, Slash>>
Udp  == <<117, 100, 112, Colon, Slash, Slash>>
Unknown == [protocol |-> <<>>, host |-> <<>>, port |-> 0, path |-> <<>>]

TrackerUrl(v) ==
  LET protocol == CHOOSE p \in {Http, Udp} : Starts(Lower(v), p)
      usual == IF protocol = Http THEN 80 ELSE 2710
      rest == SubSeq(v, Len(protocol) + 1, Len(v))
      colon == Find(rest, Colon, 1)
      slash == Find(rest, Slash, 1)
      end == IF colon < slash THEN colon ELSE slash
  IN IF ~\E p \in {Http, Udp} : Starts(Lower(v), p) THEN Unknown
     ELSE [protocol |-> protocol, host |-> SubSeq(rest, 1, end - 1),
           port |-> IF colon < slash THEN Number(SubSeq(rest, colon + 1, slash - 1), 1) ELSE usual,
           path |-> SubSeq(rest, slash, Len(rest))]

Valid(u) ==
  /\ u # Unknown /\ u.host # <<>> /\ u.port \in 0..65535
  /\ u.protocol = Http => u.path # <<>>

-----------------------------------------------------------------------------
(* The id of the client, and what it calls the ids of others.              *)
Alphabet == [k \in 1..62 |-> IF k <= 10 THEN 47 + k ELSE IF k <= 36 THEN 54 + k ELSE 60 + k]

\* new_peer_id, where random is what generate_random_string gives.
NewPeerId(prefix, version, random) ==
  LET own == <<88, 66, 84, 48 + ((version \div 100) % 10), 48 + ((version \div 10) % 10),
               48 + (version % 10), Minus, Minus>>
      start == IF prefix = <<>> THEN own ELSE prefix
  IN start \o SubSeq(random, 1, 20 - Len(start))

Client(is, name) == [is |-> is, name |-> name]
Clients == {Client(<<45, 65, 90>>, "Azureus "), Client(<<45, 66, 67>>, "BitComet "),
            Client(<<45, 85, 84>>, "uTorrent "), Client(<<45, 84, 83>>, "TorrentStorm "),
            Client(<<65>>, "ABC "), Client(<<77>>, "Mainline "), Client(<<83>>, "Shadow "),
            Client(<<84>>, "BitTornado "), Client(<<88, 66, 84>>, "XBT Client ")}
Alnum(s) == SubSeq(s, 1, Min({k \in DOMAIN s : ~Letter(s[k]) /\ ~Digit(s[k])} \cup {Len(s) + 1}) - 1)

\* peer_id2a: a name and what is behind it.
PeerId2a(v) ==
  LET of == {c \in Clients : Starts(v, c.is)}
      c == CHOOSE c \in of : TRUE
  IN IF Len(v) # 20 THEN <<"">>
     ELSE IF v[8] = Minus /\ of # {}
     THEN <<c.name, Alnum(SubSeq(v, Len(c.is) + 1, 20))>>
          \o (IF c.name = "XBT Client " /\ Len(Alnum(SubSeq(v, 9, 20))) < 12 THEN <<" (fake)">> ELSE <<>>)
     ELSE IF Starts(v, <<45, 71, 51>>) THEN <<"G3">>
     ELSE IF Starts(v, <<83, 5, 7>>) /\ v[4] < 10 THEN <<"Shadow 57", v[4]>>
     ELSE IF Starts(v, <<101, 120, 98, 99>>) /\ v[5] < 10 /\ v[6] < 100
     THEN <<"BitComet ", v[5], v[6] \div 10, v[6] % 10>>
     ELSE <<"Unknown">>

-----------------------------------------------------------------------------
\* Any bytes survive hex and uri encoding, and uri encoded they cannot end the value or
\* the line of a query.
BytesKept(s) ==
  /\ HexDecode(HexEncode(s)) = s /\ UriDecode(UriEncode(s)) = s
  /\ \A k \in DOMAIN UriEncode(s) :
       UriEncode(s)[k] \notin Blanks \cup {And, Equals, Slash, Question}

\* The link that the client copies opens as the torrent it was made of, with its
\* listening address and its connected peers among the peers to try; but for trackers with
\* a comma, which uri_encode keeps and open_url takes for the end of one (bt_file.cpp:844).
UrlKept(t) ==
  LET got == OpenUrl(GetUrl(t))
      six == {<<t.peers[k].host, t.peers[k].port>> :
                k \in {k \in DOMAIN t.peers : t.peers[k].state = 3}}
             \cup (IF t.local = <<>> THEN {} ELSE {<<SubSeq(t.local, 1, 4), SubSeq(t.local, 5, 6)>>})
  IN /\ got.info_hash = t.info_hash
     /\ DOMAIN got.peers = {s[1] : s \in six}
     /\ \A h \in DOMAIN got.peers : <<h, got.peers[h]>> \in six
     /\ (\A k \in DOMAIN t.trackers : ~Contains(t.trackers[k], Comma)) => got.trackers = t.trackers

\* The options dialog gives back the trackers it was given, if none holds a blank.
TrackersKept(trackers) ==
  (\A k \in DOMAIN trackers : trackers[k] # <<>> /\ ToSet(trackers[k]) \cap Blanks = {})
    => Trackers(Shown(trackers)) = trackers

\* A tracker's URL says to whom to connect: written with its port it is read the same.
UrlSettles(v) ==
  LET u == TrackerUrl(v)
  IN Valid(u) => TrackerUrl(u.protocol \o u.host \o <<Colon>> \o Digits(u.port) \o u.path) = u

\* An id has 20 bytes, and the client never calls one of its own kind a fake.
OwnIdKnown(prefix, version, random) ==
  LET id == NewPeerId(prefix, version, random)
  IN /\ Len(id) = 20
     /\ prefix = <<>> => PeerId2a(id) =
          <<"XBT Client ", <<48 + ((version \div 100) % 10), 48 + ((version \div 10) % 10), 48 + (version % 10)>>>>
=============================================================================
