----------------------------- MODULE PeerLinks -----------------------------
(***************************************************************************)
(* The links of a torrent to its peers, as the other side sees them:       *)
(* connecting and accepting, the handshake, what the peer is told of our   *)
(* pieces, choking, and the answers to its requests (Cserver, Cbt_file,    *)
(* Cbt_link and Cbt_peer_link of xbt/BT Test).  What we ask of the peer is *)
(* in Download.  The torrent has its info and is not being checked.        *)
(*                                                                         *)
(* A host has at most one link, as find_peer asks for.  A message is sent  *)
(* whole; requests ask for a whole piece.                                  *)
(***************************************************************************)
EXTENDS Integers, Sequences, FiniteSets

CONSTANTS
  Host, Piece,
  PeerLimit,     (* m_peer_limit; 0: none                           *)
  Blocked,       (* hosts on the block list                         *)
  MaxRequests,   (* requests kept for a peer: 256                   *)
  MaxOut         (* bound: messages in the write buffer when the choke goal changes *)

ASSUME LinksAssumption ==
  /\ IsFiniteSet(Host) /\ IsFiniteSet(Piece) /\ Blocked \subseteq Host
  /\ PeerLimit \in Nat /\ MaxRequests \in Nat \ {0} /\ MaxOut \in Nat

VARIABLES
  state,     (* of the torrent: "running", "paused", "stopped"      *)
  valid,     (* our valid pieces                                    *)
  new,       (* m_new_peers                                         *)
  accepted,  (* hosts with a Cbt_link in m_links                    *)
  stage,     (* m_state of the link of each host; -1: no link       *)
  remote,    (* m_remote_pieces; {} before stage 3                  *)
  haves,     (* m_have_queue                                        *)
  choked, goal,   (* m_local_choked, m_local_choked_goal            *)
  requests,  (* m_remote_requests                                   *)
  out,       (* m_write_b: messages not sent yet                    *)
  heard      (* what the peer knows: the pieces it was told of, and whether it is choked *)

link == <<stage, remote, haves, choked, goal, requests, out, heard>>
vars == <<state, valid, new, accepted, link>>

NoLink  == -1
Linked  == {h \in Host : stage[h] # NoLink}
Fresh   == [pieces |-> {}, choked |-> TRUE]
BelowPeerLimit == PeerLimit = 0 \/ Cardinality(Linked) < PeerLimit

-----------------------------------------------------------------------------
\* write_handshake, for a link that gets to stage g; a link that ends leaves nothing.
Reset(h, g) ==
  /\ stage' = [stage EXCEPT ![h] = g]
  /\ remote' = [remote EXCEPT ![h] = {}] /\ haves' = [haves EXCEPT ![h] = {}]
  /\ choked' = [choked EXCEPT ![h] = TRUE] /\ goal' = [goal EXCEPT ![h] = TRUE]
  /\ requests' = [requests EXCEPT ![h] = <<>>]
  /\ out' = [out EXCEPT ![h] = <<>>]
  /\ heard' = [heard EXCEPT ![h] = Fresh]

Init ==
  /\ state = "running" /\ valid = {} /\ new = {} /\ accepted = {}
  /\ stage = [h \in Host |-> NoLink]
  /\ remote = [h \in Host |-> {}] /\ haves = [h \in Host |-> {}]
  /\ choked = [h \in Host |-> TRUE] /\ goal = [h \in Host |-> TRUE]
  /\ requests = [h \in Host |-> <<>>] /\ out = [h \in Host |-> <<>>]
  /\ heard = [h \in Host |-> Fresh]

\* A tracker, a peer or a user names a host.
InsertNewPeer(h) ==
  /\ new' = new \cup {h}
  /\ UNCHANGED <<state, valid, accepted, link>>

\* Cbt_file::pre_select takes host h out of m_new_peers, and its link calls connect.
Connect(h, fails) ==
  /\ state = "running" /\ h \in new /\ BelowPeerLimit
  /\ new' = new \ {h}
  /\ IF h \in Linked \cup Blocked \/ fails THEN UNCHANGED link ELSE Reset(h, 2)
  /\ UNCHANGED <<state, valid, accepted>>

\* Cserver::run accepts all that wait, if there was room for one.
Accept(hosts) ==
  /\ BelowPeerLimit
  /\ accepted' = accepted \cup (hosts \ Blocked)
  /\ UNCHANGED <<state, valid, new, link>>

\* A Cbt_link has read a handshake, or fails, or has waited for 5 seconds.
LinkEnds(h, handshake) ==
  /\ h \in accepted /\ accepted' = accepted \ {h}
  /\ IF handshake /\ h \notin Linked /\ state \in {"running", "paused"}
     THEN Reset(h, 4) ELSE UNCHANGED link
  /\ UNCHANGED <<state, valid, new>>

\* read_handshake on a link we opened.
ReadHandshake(h) ==
  /\ stage[h] = 2 /\ stage' = [stage EXCEPT ![h] = 4]
  /\ UNCHANGED <<state, valid, new, accepted, remote, haves, choked, goal, requests, out, heard>>

\* The peer id is there: our pieces are written, if there are any.
ReadPeerId(h) ==
  /\ stage[h] = 4 /\ stage' = [stage EXCEPT ![h] = 3]
  /\ out' = IF valid = {} THEN out
            ELSE [out EXCEPT ![h] = Append(@, [kind |-> "bitfield", pieces |-> valid])]
  /\ UNCHANGED <<state, valid, new, accepted, remote, haves, choked, goal, requests, heard>>

\* The link fails, the peer is ourselves, refused or silent, or both have everything.
Drop(h) ==
  /\ stage[h] # NoLink /\ Reset(h, NoLink)
  /\ UNCHANGED <<state, valid, new, accepted>>

-----------------------------------------------------------------------------
(* Messages of the peer.                                                   *)

RemoteHas(h, p) ==
  /\ stage[h] = 3 /\ remote' = [remote EXCEPT ![h] = @ \cup {p}]
  /\ UNCHANGED <<state, valid, new, accepted, stage, haves, choked, goal, requests, out, heard>>

RemoteRequests(h, p) ==
  /\ stage[h] = 3 /\ p \in valid /\ ~choked[h] /\ Len(requests[h]) < MaxRequests
  /\ requests' = [requests EXCEPT ![h] = Append(@, p)]
  /\ UNCHANGED <<state, valid, new, accepted, stage, remote, haves, choked, goal, out, heard>>

\* The first request for it goes.
RemoteCancels(h, i) ==
  /\ stage[h] = 3 /\ \A j \in 1..(i - 1) : requests[h][j] # requests[h][i]
  /\ requests' = [requests EXCEPT ![h] = SubSeq(@, 1, i - 1) \o SubSeq(@, i + 1, Len(@))]
  /\ UNCHANGED <<state, valid, new, accepted, stage, remote, haves, choked, goal, out, heard>>

-----------------------------------------------------------------------------
(* Our side.                                                               *)

\* A piece is completed: every link is to say so, whatever its stage.
QueueHave(p) ==
  /\ state = "running" /\ p \notin valid /\ valid' = valid \cup {p}
  /\ haves' = [h \in Host |-> IF h \in Linked THEN haves[h] \cup {p} ELSE {}]
  /\ UNCHANGED <<state, new, accepted, stage, remote, choked, goal, requests, out, heard>>

\* update_chokes, for one link (see Slots for its choice).
Choose(h) ==
  /\ stage[h] = 3 /\ Len(out[h]) <= MaxOut /\ goal' = [goal EXCEPT ![h] = ~@]
  /\ UNCHANGED <<state, valid, new, accepted, stage, remote, haves, choked, requests, out, heard>>

\* The goal is followed by the link's next turn: write_choke.
WriteChoke(h) ==
  /\ stage[h] = 3 /\ choked[h] # goal[h]
  /\ choked' = [choked EXCEPT ![h] = goal[h]]
  /\ out' = [out EXCEPT ![h] = Append(@, [kind |-> "choke", on |-> goal[h]])]
  /\ requests' = IF goal[h] THEN [requests EXCEPT ![h] = <<>>] ELSE requests
  /\ UNCHANGED <<state, valid, new, accepted, stage, remote, haves, goal, heard>>

\* Mutant: nothing is said to a choked peer.
HavesOfUnchoked(h) ==
  LET ps == IF stage[h] = 3 /\ ~choked[h] THEN haves[h] \ remote[h] ELSE {}
  IN IF ps = {} THEN <<>> ELSE <<[kind |-> "have", pieces |-> ps]>>

\* write_haves: nothing is said before stage 3, nor of what the peer has.
HavesOf(h) ==
  LET ps == IF stage[h] = 3 THEN haves[h] \ remote[h] ELSE {}
  IN IF ps = {} THEN <<>> ELSE <<[kind |-> "have", pieces |-> ps]>>

\* Mutant: a quiet link writes a keepalive only.
IdleKeepalive(h) ==
  /\ stage[h] = 3 /\ out[h] = <<>> /\ UNCHANGED vars

\* Nothing was sent for 120 seconds.
IdleHaves(h) ==
  /\ stage[h] = 3
  /\ out' = [out EXCEPT ![h] = @ \o HavesOf(h)]
  /\ haves' = [haves EXCEPT ![h] = {}]
  /\ UNCHANGED <<state, valid, new, accepted, stage, remote, choked, goal, requests, heard>>

\* Mutant: the last request in the list waits for another one.
AnswerOfMany(h) ==
  /\ out[h] = <<>> /\ ~choked[h] /\ Len(requests[h]) > 1
  /\ out' = [out EXCEPT ![h] =
       <<[kind |-> "piece", piece |-> Head(requests[h])]>> \o HavesOf(h)]
  /\ haves' = [haves EXCEPT ![h] = {}]
  /\ requests' = [requests EXCEPT ![h] = Tail(@)]
  /\ UNCHANGED <<state, valid, new, accepted, stage, remote, choked, goal, heard>>

\* A request is answered when nothing else is to be written; its data may be unreadable.
AnswerNext(h) ==
  /\ out[h] = <<>> /\ ~choked[h] /\ requests[h] # <<>>
  /\ out' = [out EXCEPT ![h] =
       <<[kind |-> "piece", piece |-> Head(requests[h])]>> \o HavesOf(h)]
  /\ haves' = [haves EXCEPT ![h] = {}]
  /\ requests' = [requests EXCEPT ![h] = Tail(@)]
  /\ UNCHANGED <<state, valid, new, accepted, stage, remote, choked, goal, heard>>

Unreadable(h) ==
  /\ out[h] = <<>> /\ ~choked[h] /\ requests[h] # <<>>
  /\ requests' = [requests EXCEPT ![h] = Tail(@)]
  /\ UNCHANGED <<state, valid, new, accepted, stage, remote, haves, choked, goal, out, heard>>

\* What the peer learns from message m.
Learns(k, m) ==
  CASE m.kind \in {"bitfield", "have"} -> [k EXCEPT !.pieces = @ \cup m.pieces]
    [] m.kind = "choke" -> [k EXCEPT !.choked = m.on]
    [] OTHER -> k

\* send() of the next message, after write_haves.
Send(h) ==
  /\ stage[h] # NoLink /\ out[h] # <<>>
  /\ out' = [out EXCEPT ![h] = Tail(@ \o HavesOf(h))]
  /\ haves' = [haves EXCEPT ![h] = {}]
  /\ heard' = [heard EXCEPT ![h] = Learns(@, Head(out[h]))]
  /\ UNCHANGED <<state, valid, new, accepted, stage, remote, choked, goal, requests>>

\* Cbt_file::state: a torrent that stops closes its links.
SetState(s) ==
  /\ s # state /\ state' = s
  /\ IF s = "stopped"
     THEN /\ stage' = [h \in Host |-> NoLink]
          /\ remote' = [h \in Host |-> {}] /\ haves' = [h \in Host |-> {}]
          /\ choked' = [h \in Host |-> TRUE] /\ goal' = [h \in Host |-> TRUE]
          /\ requests' = [h \in Host |-> <<>>] /\ out' = [h \in Host |-> <<>>]
          /\ heard' = [h \in Host |-> Fresh]
     ELSE UNCHANGED link
  /\ UNCHANGED <<valid, new, accepted>>

Next ==
  \/ \E h \in Host :
       \/ InsertNewPeer(h) \/ ReadHandshake(h) \/ ReadPeerId(h) \/ Drop(h)
       \/ \E b \in BOOLEAN : Connect(h, b) \/ LinkEnds(h, b)
       \/ \E p \in Piece : RemoteHas(h, p) \/ RemoteRequests(h, p)
       \/ \E i \in DOMAIN requests[h] : RemoteCancels(h, i)
       \/ Choose(h) \/ WriteChoke(h) \/ IdleHaves(h) \/ AnswerNext(h) \/ Unreadable(h) \/ Send(h)
  \/ \E hosts \in SUBSET Host : Accept(hosts)
  \/ \E p \in Piece : QueueHave(p)
  \/ \E s \in {"running", "paused", "stopped"} : SetState(s)

Spec == Init /\ [][Next]_vars

\* The loop turns, and the peer reads what we send.
LiveSpec ==
  Spec /\ \A h \in Host : /\ WF_vars(IdleHaves(h)) /\ WF_vars(Send(h))
                          /\ WF_vars(AnswerNext(h))

-----------------------------------------------------------------------------
(* Properties.                                                             *)

\* Of each of our pieces a peer with a finished handshake was told, will be told, or
\* it has it: no piece is completed so that neither the bitfield nor a have mentions it
\* (bt_peer_link.cpp:316, 430: the queue is thrown away before stage 3).
EveryPieceTold ==
  \A h \in Host : stage[h] = 3 =>
    LET said == UNION {out[h][i].pieces : i \in {j \in DOMAIN out[h] :
                         out[h][j].kind \in {"bitfield", "have"}}}
    IN valid \subseteq said \cup heard[h].pieces \cup haves[h] \cup remote[h]

\* In the order in which the peer reads them, a piece never comes between a choke and
\* an unchoke: a peer drops what comes then.
NoPieceWhileChoked ==
  \A h \in Host : out[h] # <<>> /\ Head(out[h]).kind = "piece" => ~heard[h].choked

\* What a peer takes from our messages, in the order it reads them, is neither too little
\* nor something it must drop (write_bitfield, write_haves, write_choke, send).
PeerToldRight == EveryPieceTold /\ NoPieceWhileChoked

\* What a peer is to be told it hears, although the news waits for other messages or
\* for two quiet minutes.
NewsArrives ==
  \A h \in Host, p \in Piece :
    (stage[h] = 3 /\ p \in valid)
      ~> (stage[h] # 3 \/ p \in heard[h].pieces \/ p \in remote[h])

\* The requests of a peer do not wait for ever: they are answered one after the other,
\* although messages of all kinds go before an answer, or the link ends or chokes.
RequestsEnd ==
  \A h \in Host : []<>(requests[h] = <<>>) \/ []<><<AnswerNext(h) \/ Unreadable(h)>>_vars
=============================================================================
