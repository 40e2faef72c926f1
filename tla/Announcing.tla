----------------------------- MODULE Announcing -----------------------------
(***************************************************************************)
(* One announce from the client to the tracker and back, over HTTP and UDP: *)
(* what Cbt_tracker_link writes, what Cconnection and Ctransaction read, the *)
(* answer and what the client makes of it.  When the client announces and to *)
(* whom is in TrackerLink, what the tracker keeps in Tracker, how a request  *)
(* line is cut out of the stream in Connection.                              *)
(*                                                                           *)
(* Texts are codes, as in Texts; a name or a keyword is one code above 255.  *)
(***************************************************************************)
EXTENDS Texts

CONSTANT MaxPeers   (* the most peers of an answer (50 in the code) *)

Word == [info_hash |-> 1001, key |-> 1002, peer_id |-> 1003, port |-> 1004,
         downloaded |-> 1005, left |-> 1006, uploaded |-> 1007, compact |-> 1008,
         ip |-> 1009, event |-> 1010, numwant |-> 1011, complete |-> 1012,
         incomplete |-> 1013, interval |-> 1014, min_interval |-> 1015, peers |-> 1016,
         failure_reason |-> 1017, completed |-> 1018, started |-> 1019, stopped |-> 1020,
         files |-> 1021]
Events == <<"completed", "started", "stopped">>   \* 1, 2, 3; 0 is no event

PortBytes(n) == <<(n \div 256) % 256, n % 256>>
InetNtoa(h)  == Digits(h[1]) \o <<46>> \o Digits(h[2]) \o <<46>> \o Digits(h[3]) \o <<46>> \o Digits(h[4])
InetAddr(s)  == LET part == Parts(s, {46}) IN [k \in DOMAIN part |-> Number(part[k], 1)]
NoHost       == <<0, 0, 0, 0>>
IsPrivateIpa(h) == h[1] \in {10, 127} \/ (h[1] = 172 /\ h[2] \in 16..31) \/ (h[1] = 192 /\ h[2] = 168)

-----------------------------------------------------------------------------
(* HTTP: the request line and what the tracker reads in it.                 *)

HttpRequest(c, event) ==
  LET fields == <<<<Word.info_hash, UriEncode(c.info_hash)>>, <<Word.key, UriEncode(c.key)>>,
                  <<Word.peer_id, UriEncode(c.peer_id)>>, <<Word.port, Digits(c.port)>>,
                  <<Word.downloaded, Digits(c.downloaded)>>, <<Word.left, Digits(c.left)>>,
                  <<Word.uploaded, Digits(c.uploaded)>>, <<Word.compact, <<49>>>>>>
                \o (IF c.local = <<>> THEN <<>> ELSE <<<<Word.ip, InetNtoa(c.host)>>>>)
                \o (IF event = 0 THEN <<>> ELSE <<<<Word.event, <<Word[Events[event]]>>>>>>)
  IN <<71, 69, 84, Space>> \o c.path \o <<Question>>
     \o Tail(FlattenSeq([k \in DOMAIN fields |-> <<And, fields[k][1], Equals>> \o fields[k][2]]))
     \o <<Space, 72, 84, 84, 80>>

NoInput == [compact |-> FALSE, downloaded |-> 0, event |-> 0, ipa |-> NoHost, left |-> 0,
            port |-> PortBytes(0), uploaded |-> 0, num_want |-> -1, info_hash |-> <<>>, peer_id |-> <<>>]

\* Ctracker_input::set
Set(ti, name, value) ==
  CASE name = <<Word.compact>>    -> [ti EXCEPT !.compact = Number(value, 1) # 0]
    [] name = <<Word.downloaded>> -> [ti EXCEPT !.downloaded = Number(value, 1)]
    [] name = <<Word.event>> ->
         [ti EXCEPT !.event = IF \E e \in 1..3 : value = <<Word[Events[e]]>>
                              THEN CHOOSE e \in 1..3 : value = <<Word[Events[e]]>> ELSE 0]
    [] name = <<Word.info_hash>> /\ Len(value) = 20 -> [ti EXCEPT !.info_hash = value]
    [] name = <<Word.ip>>         -> [ti EXCEPT !.ipa = InetAddr(value)]
    [] name = <<Word.left>>       -> [ti EXCEPT !.left = Number(value, 1)]
    [] name = <<Word.numwant>>    -> [ti EXCEPT !.num_want = Number(value, 1)]
    [] name = <<Word.peer_id>> /\ Len(value) = 20 -> [ti EXCEPT !.peer_id = value]
    [] name = <<Word.port>>       -> [ti EXCEPT !.port = PortBytes(Number(value, 1))]
    [] name = <<Word.uploaded>>   -> [ti EXCEPT !.uploaded = Number(value, 1)]
    [] OTHER -> ti

\* The names and values of the query from a on, to the blank at b.
Fields(v, a, b) ==
  LET from[k \in 1..(Len(v) + 2)] ==
        LET c == Find(v, Equals, k)
            ends == {j \in (c + 1)..Len(v) : v[j] \in {Space, And}}
            d == Min(ends)
        IN IF k >= b \/ c > Len(v) \/ ends = {} THEN <<>>
           ELSE <<<<SubSeq(v, k, c - 1), UriDecode(SubSeq(v, c + 1, d - 1))>>>> \o from[d + 1]
  IN from[a]

\* Cconnection::read: the input, of a sender at that host.
ReadLine(v, sender) ==
  LET e == Find(v, Question, 1)
      ti == FoldLeft(LAMBDA t, f : Set(t, f[1], f[2]), NoInput, Fields(v, e + 1, Find(v, Space, e + 1)))
  IN IF ti.ipa = NoHost \/ ~IsPrivateIpa(sender) THEN [ti EXCEPT !.ipa = sender] ELSE ti

\* The 32 characters that name a user, and the letter that says what is asked for, behind
\* an optional directory of one letter.
Route(v) ==
  LET e == Find(v, Question, 1)
      slash(k) == k < e /\ v[k] = Slash
      a == IF slash(7) THEN 8 ELSE 6
      b == a + 33
      behind == IF slash(b + 40) THEN b + 41 ELSE b
  IN IF slash(5) THEN IF slash(a + 32) THEN [pass |-> SubSeq(v, a, a + 31), asks |-> v[behind]]
                      ELSE [pass |-> <<>>, asks |-> v[a]]
     ELSE [pass |-> <<>>, asks |-> v[5]]

ValidInput(ti) ==
  /\ ti.downloaded >= 0 /\ ti.uploaded >= 0 /\ ti.left >= -1
  /\ ti.event = 1 => ti.left = 0
  /\ Len(ti.info_hash) = 20 /\ Len(ti.peer_id) = 20

-----------------------------------------------------------------------------
(* UDP: datagrams are functions from offsets to bytes.  What is not written *)
(* holds whatever the stack held.                                           *)

uti  == [connection_id |-> 0, action |-> 8, transaction_id |-> 12, size |-> 16]
utia == [info_hash |-> 16, peer_id |-> 36, downloaded |-> 56, left |-> 64, uploaded |-> 72,
         event |-> 80, ipa |-> 84, key |-> 88, num_want |-> 92, port |-> 96, size |-> 98]
uto  == [action |-> 0, transaction_id |-> 4, size |-> 8]
utoc == [connection_id |-> 8, size |-> 16]
utoa == [interval |-> 8, leechers |-> 12, seeders |-> 16, size |-> 20]
uta  == [connect |-> 0, announce |-> 1, scrape |-> 2, error |-> 3]

IntBytes(n, v) ==
  [k \in 1..n |-> IF n - k > 3 THEN (IF v < 0 THEN 255 ELSE 0) ELSE (v \div 256 ^ (n - k)) % 256]
Bytes(b, at, n) == [k \in 1..n |-> b[at + k - 1]]
\* read_int, of numbers of at most 31 bits and a sign.
ReadInt(n, b, at) ==
  LET s == Bytes(b, at, n)
      low == SubSeq(s, IF n > 4 THEN n - 3 ELSE 1, n)
      first == IF n >= 4 /\ low[1] > 127 THEN low[1] - 256 ELSE low[1]
  IN FoldLeft(LAMBDA v, c : 256 * v + c, first, Tail(low))
Datagram(size, stack, fields) ==
  LET At(k) == {f \in fields : k - f[1] \in 0..(Len(f[2]) - 1)}
  IN [k \in 0..(size - 1) |->
        IF At(k) = {} THEN stack ELSE LET f == CHOOSE f \in At(k) : TRUE IN f[2][k - f[1] + 1]]
Length(b) == Cardinality(DOMAIN b)

ConnectRequest(transaction, stack) ==
  Datagram(uti.size, stack, {<<uti.connection_id, IntBytes(4, 1047) \o IntBytes(4, 655366528)>>,
                              <<uti.action, IntBytes(4, uta.connect)>>,
                              <<uti.transaction_id, IntBytes(4, transaction)>>})

\* A digest of the secret of the tracker and the host: the host itself stands for it.
ConnectionId(secret, host) == IntBytes(4, secret) \o host

NoAnswer == [k \in {} |-> 0]
SendConnect(b, sender, secret, stack) ==
  IF Bytes(b, uti.connection_id, 8) # IntBytes(4, 1047) \o IntBytes(4, 655366528) THEN NoAnswer
  ELSE Datagram(utoc.size, stack,
         {<<uto.action, IntBytes(4, uta.connect)>>,
           <<uto.transaction_id, Bytes(b, uti.transaction_id, 4)>>,
           <<utoc.connection_id, ConnectionId(secret, sender)>>})

Answers(b, transaction, action, size) ==
  /\ Length(b) >= size
  /\ ReadInt(4, b, uto.transaction_id) = transaction /\ ReadInt(4, b, uto.action) = action

\* The announce; an account puts 16 bytes behind it.
AnnounceRequest(c, event, connection, transaction, stack) ==
  Datagram(utia.size + (IF c.account THEN 16 ELSE 0), stack,
    {<<uti.connection_id, connection>>, <<uti.action, IntBytes(4, uta.announce)>>,
      <<uti.transaction_id, IntBytes(4, transaction)>>,
      <<utia.info_hash, c.info_hash>>, <<utia.peer_id, c.peer_id>>,
      <<utia.downloaded, IntBytes(8, c.downloaded)>>, <<utia.left, IntBytes(8, c.left)>>,
      <<utia.uploaded, IntBytes(8, c.uploaded)>>, <<utia.event, IntBytes(4, event)>>,
      <<utia.ipa, c.host>>, <<utia.num_want, IntBytes(4, -1)>>, <<utia.port, PortBytes(c.port)>>})

\* send_announce: the input, if the datagram shows that the sender is where it says.
Heard(b, sender, secret) ==
  /\ Length(b) >= utia.size /\ ReadInt(4, b, uti.action) = uta.announce
  /\ Bytes(b, uti.connection_id, 8) = ConnectionId(secret, sender)
ReadDatagram(b, sender) ==
  [compact |-> FALSE, downloaded |-> ReadInt(8, b, utia.downloaded), event |-> ReadInt(4, b, utia.event),
   ipa |-> IF Bytes(b, utia.ipa, 4) # NoHost /\ IsPrivateIpa(sender) THEN Bytes(b, utia.ipa, 4) ELSE sender,
   left |-> ReadInt(8, b, utia.left), port |-> Bytes(b, utia.port, 2),
   uploaded |-> ReadInt(8, b, utia.uploaded), num_want |-> ReadInt(4, b, utia.num_want),
   info_hash |-> Bytes(b, utia.info_hash, 20), peer_id |-> Bytes(b, utia.peer_id, 20)]

-----------------------------------------------------------------------------
(* The answer.                                                              *)

\* select_peers of the file: any of the peers, no seeds for a seed, none for a host that
\* stops, as many as wanted.
Selections(ti, peers) ==
  LET candidates == {h \in DOMAIN peers : ti.left # 0 \/ peers[h].left # 0}
      want == IF ti.num_want < 0 \/ ti.num_want > MaxPeers THEN MaxPeers ELSE ti.num_want
  IN IF ti.event = 3 THEN {{}}
     ELSE IF Cardinality(candidates) <= want THEN {candidates} ELSE kSubset(want, candidates)
Packed(S, peers) == FlattenSeq(LET s == SetToSeq(S) IN [k \in DOMAIN s |-> s[k] \o peers[s[k]].port])

HttpAnswer(f, packed) ==
  <<72, Space, 50, 48, 48, Space, 13, 10, 13, 10>>
  \o Read([dict |-> (<<Word.complete>> :> [int |-> f.seeders]) @@ (<<Word.incomplete>> :> [int |-> f.leechers])
                    @@ (<<Word.interval>> :> [int |-> f.interval]) @@ (<<Word.min_interval>> :> [int |-> f.interval])
                    @@ (<<Word.peers>> :> [str |-> packed])])
HttpError(reason) ==
  <<72, Space, 50, 48, 48, Space, 13, 10, 13, 10>>
  \o Read([dict |-> <<Word.failure_reason>> :> [str |-> reason]])

UdpAnswer(b, f, packed) ==
  Datagram(utoa.size + Len(packed), 0,
    {<<uto.action, IntBytes(4, uta.announce)>>, <<uto.transaction_id, Bytes(b, uti.transaction_id, 4)>>,
      <<utoa.interval, IntBytes(4, f.interval)>>, <<utoa.leechers, IntBytes(4, f.leechers)>>,
      <<utoa.seeders, IntBytes(4, f.seeders)>>, <<utoa.size, packed>>})

\* What the client learns: when to come back, how many peers there are, and whom to try.
Wait(interval) == IF interval > 300 THEN interval ELSE 300
Learned(interval, leechers, seeders, bytes) ==
  [wait |-> Wait(interval), leechers |-> leechers, seeders |-> seeders, peers |-> InsertPeers(NoPeers, bytes)]
Nothing == [wait |-> 0, leechers |-> 0, seeders |-> 0, peers |-> NoPeers]

\* Cbt_tracker_link::read
ReadHttp(d) ==
  LET blank == Find(d, Space, 1)
      ends == {k \in blank..(Len(d) - 3) : \/ SubSeq(d, k, k + 1) = <<10, 10>>
                                           \/ SubSeq(d, k, k + 3) = <<13, 10, 13, 10>>}
      body == Min(ends) + (IF d[Min(ends)] = 10 THEN 2 ELSE 4)
      v == Write(d, body)
      at(name) == v.v.dict[<<Word[name]>>]
  IN IF blank > Len(d) \/ Number(d, blank + 1) # 200 \/ ends = {} \/ v.at = 0
        \/ <<Word.failure_reason>> \in DOMAIN v.v.dict
     THEN Nothing
     ELSE Learned(at("interval").int, at("incomplete").int, at("complete").int, at("peers").str)

\* post_select, state 4: the range of the peers has the length of the whole datagram, so
\* that 20 bytes of the stack behind it are read for peers.
ReadUdp(b, transaction, stack) ==
  IF ~Answers(b, transaction, uta.announce, utoa.size) THEN Nothing
  ELSE Learned(ReadInt(4, b, utoa.interval), ReadInt(4, b, utoa.leechers), ReadInt(4, b, utoa.seeders),
               Bytes(b, utoa.size, Length(b) - utoa.size) \o [k \in 1..utoa.size |-> stack])

-----------------------------------------------------------------------------
Same(c, event, ti) ==
  /\ <<ti.info_hash, ti.peer_id, ti.port>> = <<c.info_hash, c.peer_id, PortBytes(c.port)>>
  /\ <<ti.downloaded, ti.left, ti.uploaded, ti.event>> = <<c.downloaded, c.left, c.uploaded, event>>
  /\ ti.num_want < 0 /\ ValidInput(ti)

\* What the client says of a torrent is what the tracker hears, over either protocol and
\* whatever bytes the hash has and the stack held, and it gets a host to answer for only
\* from the sender's address, or from its word if that is private.  Not if the path of the
\* tracker has a query already: a second ? is a part of its first value.
AnnounceHeard(c, event, sender, secret, stack) ==
  LET line == HttpRequest(c, event)
      asked == SendConnect(ConnectRequest(7, stack), sender, secret, stack)
      id == Bytes(asked, utoc.connection_id, 8)
      b == AnnounceRequest(c, event, id, 9, stack)
      where(said) == IF IsPrivateIpa(sender) /\ said # NoHost THEN said ELSE sender
  IN /\ ~Contains(c.path, Question) =>
          /\ Same(c, event, ReadLine(line, sender)) /\ ReadLine(line, sender).compact
          /\ ReadLine(line, sender).ipa = where(IF c.local = <<>> THEN NoHost ELSE c.host)
          /\ Route(line) = [pass |-> c.pass, asks |-> 97]
     /\ Answers(asked, 7, uta.connect, utoc.size) /\ ~Answers(asked, 9, uta.connect, utoc.size)
     /\ Heard(b, sender, secret) /\ ~Heard(b, sender, secret + 1)
     /\ Same(c, event, ReadDatagram(b, sender))
     /\ ReadDatagram(b, sender).ipa = where(c.host)

\* The client learns from an answer what the tracker has: the counts, when to come back,
\* and peers that are there, as many as wanted, no seed if it is one itself.  Over UDP it
\* learns of three peers more that are only what the stack held, and may take the port of
\* one that is real.
AnswerRead(ti, f, S, stack) ==
  LET packed == Packed(S, f.peers)
      b == AnnounceRequest([info_hash |-> ti.info_hash, peer_id |-> ti.peer_id, downloaded |-> 0, left |-> ti.left,
                            uploaded |-> 0, host |-> NoHost, port |-> 1, account |-> FALSE], 0,
                           ConnectionId(1, NoHost), 9, stack)
      http == ReadHttp(HttpAnswer(f, packed))
      udp == ReadUdp(UdpAnswer(b, f, packed), 9, stack)
      told(l) == <<l.wait, l.leechers, l.seeders>> = <<Wait(f.interval), f.leechers, f.seeders>>
      held == [k \in 1..4 |-> stack]
  IN /\ told(http) /\ http.peers = [h \in S |-> f.peers[h].port]
     /\ Cardinality(S) <= MaxPeers /\ (ti.left = 0 => \A h \in S : f.peers[h].left # 0)
     /\ told(udp) /\ S \subseteq DOMAIN udp.peers
     /\ \A h \in S \ {held} : udp.peers[h] = f.peers[h].port
     /\ Cardinality(DOMAIN udp.peers \ S) <= 3
     /\ ReadUdp(UdpAnswer(b, f, packed), 8, stack) = Nothing
     /\ ReadHttp(HttpError(<<97>>)) = Nothing

\* The number of peers the client reports of a UDP answer (bt_tracker_link.cpp:217:
\* n((r - utoa_size) / 6) + " peers") is the number it takes from it.
PeersReported(ti, f, S, stack) ==
  LET b == UdpAnswer(ConnectRequest(9, stack), f, Packed(S, f.peers))
  IN Cardinality(DOMAIN ReadUdp(b, 9, stack).peers) = (Length(b) - utoa.size) \div 6
=============================================================================
