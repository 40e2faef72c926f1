------------------------------ MODULE Download ------------------------------
(***************************************************************************)
(* The download core of the client backend: how the pieces of one open     *)
(* torrent (Cbt_file, Cbt_piece, Cbt_sub_piece) are divided over the links *)
(* to its peers (Cbt_peer_link), with the bookkeeping that must stay       *)
(* consistent while peers choke, answer late, answer wrongly or vanish.    *)
(*                                                                         *)
(* The backend is one thread.  Cbt_file::post_select visits the links one  *)
(* by one; a visit ("pass") reads any number of messages, then does its    *)
(* periodic work, then requests until its window is full.  `cur` and       *)
(* `phase` say which link is being visited and how far the visit is, so    *)
(* that no other link and no user command can act in the middle of it.     *)
(* The remote side is not constrained: any message may be read next.       *)
(***************************************************************************)
EXTENDS Integers, FiniteSets

CONSTANTS Peer,        (* link objects: an address is reused after an erase *)
          Piece,       (* the pieces of the torrent                          *)
          Chunk,       (* the sub-pieces of all pieces, numbered in order    *)
          PieceOf,     (* the piece a sub-piece belongs to                   *)
          NoPeer,      (* "no link is being visited"                         *)
          MaxWindow,   (* cap of mc_max_requests_pending (8 in the code)     *)
          ChokeWindow, (* its cap after a choke (2 in the code)              *)
          BeginPieces, (* begin mode lasts below this many pieces (4)        *)
          MaxDup,      (* bound: a peer does not choke while a sub-piece has *)
                       (* this many open requests on its link                *)
          Corrupt,     (* the peers that may send wrong bytes                *)
          Missizing,   (* the peers that may send a block of another size    *)
          Excludable,  (* the pieces the user may exclude and include again  *)
          DiskMayFail  (* may a write to disk fail?                          *)

ASSUME DownloadAssumption ==
  /\ IsFiniteSet(Peer) /\ NoPeer \notin Peer
  /\ IsFiniteSet(Piece)
  /\ Chunk \subseteq Nat /\ IsFiniteSet(Chunk)
  /\ PieceOf \in [Chunk -> Piece]
  /\ \A i \in Piece : \E c \in Chunk : PieceOf[c] = i
  /\ MaxWindow \in Nat \ {0} /\ ChokeWindow \in Nat \ {0}
  /\ BeginPieces \in Nat /\ MaxDup \in Nat \ {0}
  /\ Corrupt \subseteq Peer /\ Missizing \subseteq Peer
  /\ Excludable \subseteq Piece /\ DiskMayFail \in BOOLEAN

VARIABLES
  valid,        (* Cbt_piece_data::m_valid                                   *)
  alloc,        (* pieces whose m_sub_pieces is not empty                    *)
  got,          (* sub-pieces whose m_valid is set                           *)
  asked,        (* Cbt_sub_piece::m_peers: the links a sub-piece is asked of *)
  left,         (* Cbt_piece::mc_sub_pieces_left                             *)
  unrequested,  (* Cbt_piece::mc_unrequested_sub_pieces                      *)
  mcPeers,      (* Cbt_piece::mc_peers                                       *)
  excluded,     (* pieces of priority -10                                    *)
  disk,         (* sub-pieces whose bytes on disk are the right ones         *)
  fileLeft,     (* Cbt_file::m_left, in pieces                               *)
  endMode,      (* Cbt_file::m_end_mode                                      *)
  running,      (* m_state = s_running, else s_paused                        *)
  conn,         (* the link: "none", "up" (m_state 3) or "closed" (-1)       *)
  has,          (* m_remote_pieces                                           *)
  remoteChoked, (* m_remote_choked                                           *)
  interested,   (* m_local_interested                                        *)
  goal,         (* m_local_interested_goal                                   *)
  reqs,         (* m_local_requests, as a bag of sub-pieces                  *)
  pending,      (* mc_local_requests_pending                                 *)
  window,       (* mc_max_requests_pending                                   *)
  cur, phase    (* the link being visited; "idle", "read" or "ask"           *)

pieceVars == <<valid, alloc, got, asked, left, unrequested, disk, fileLeft>>
linkVars  == <<conn, has, remoteChoked, interested, goal, reqs, pending, window>>
vars == <<pieceVars, mcPeers, excluded, endMode, running, linkVars, cur, phase>>

-----------------------------------------------------------------------------
Sub(i)  == {c \in Chunk : PieceOf[c] = i}
Free(i) == {c \in Sub(i) : c \notin got /\ asked[c] = {}}
Invalid == {i \in Piece : ~valid[i]}
Lesser(a, b) == IF a < b THEN a ELSE b

\* What next_invalid_piece may hand out for a link that has the pieces h, when u
\* counts the unrequested sub-pieces.  Which of them it picks (priority, rarity,
\* progress, chance) is left open.
Wanted(h, u) == {i \in h : ~valid[i] /\ i \notin excluded /\ u[i] # 0}

\* A call of next_invalid_piece that finds nothing unrequested in any piece starts
\* end mode, for good.
LookEnds(u) == endMode \/ (fileLeft # 0 /\ Wanted(Piece, u) = {})

BeginMode == Cardinality(Piece) - fileLeft < BeginPieces

\* c_max_requests_pending() of the link, bounded by the one of the file.
Limit(p) == IF BeginMode \/ endMode THEN 1 ELSE window[p]

-----------------------------------------------------------------------------
Init ==
  /\ valid = [i \in Piece |-> FALSE]
  /\ alloc = {} /\ got = {} /\ disk = {}
  /\ asked = [c \in Chunk |-> {}]
  /\ left = [i \in Piece |-> Cardinality(Sub(i))]
  /\ unrequested = left
  /\ mcPeers = [i \in Piece |-> 0]
  /\ excluded = {}
  /\ fileLeft = Cardinality(Piece)
  /\ endMode = FALSE /\ running = TRUE
  /\ conn = [p \in Peer |-> "none"]
  /\ has = [p \in Peer |-> {}]
  /\ remoteChoked = [p \in Peer |-> TRUE]
  /\ interested = [p \in Peer |-> FALSE]
  /\ goal = [p \in Peer |-> FALSE]
  /\ reqs = [p \in Peer |-> [c \in Chunk |-> 0]]
  /\ pending = [p \in Peer |-> 0]
  /\ window = [p \in Peer |-> 1]
  /\ cur = NoPeer /\ phase = "idle"

-----------------------------------------------------------------------------
(* Links come and go.                                                      *)

\* A link enters the list, from m_new_peers or from an incoming handshake, and
\* reaches state 3 with the flags of write_handshake and no remote pieces.
Connect(p) ==
  /\ phase = "idle" /\ conn[p] = "none"
  /\ conn' = [conn EXCEPT ![p] = "up"]
  /\ remoteChoked' = [remoteChoked EXCEPT ![p] = TRUE]
  /\ interested' = [interested EXCEPT ![p] = FALSE]
  /\ goal' = [goal EXCEPT ![p] = FALSE]
  /\ pending' = [pending EXCEPT ![p] = 0]
  /\ window' = [window EXCEPT ![p] = 1]
  /\ UNCHANGED <<pieceVars, mcPeers, excluded, endMode, running, has, reqs, cur, phase>>

\* Cbt_piece::erase_peer for every request of the link: the reservations that go.
\* A request whose reservation is gone already (it timed out, its piece is valid
\* or was rejected) releases nothing.
Released(p) == {c \in Chunk : /\ reqs[p][c] > 0 /\ p \in asked[c]
                              /\ ~valid[PieceOf[c]] /\ PieceOf[c] \in alloc}

\* The sub-pieces are given back and not counted.
GiveBackSilently(p, S, N) ==
  /\ asked' = [c \in Chunk |-> IF c \in S THEN asked[c] \ {p} ELSE asked[c]]
  /\ UNCHANGED unrequested

\* The link p gives back the sub-pieces S, and those of them in N are unrequested.
GiveBack(p, S, N) ==
  /\ asked' = [c \in Chunk |-> IF c \in S THEN asked[c] \ {p} ELSE asked[c]]
  /\ unrequested' = [i \in Piece |-> unrequested[i] + Cardinality(N \cap Sub(i))]

\* m_remote_pieces is not cleared: the erase that follows counts them once more.
CloseKeepsPieces(p) ==
  /\ GiveBack(p, Released(p), Released(p))
  /\ reqs' = [reqs EXCEPT ![p] = [c \in Chunk |-> 0]]
  /\ pending' = [pending EXCEPT ![p] = 0]
  /\ mcPeers' = [i \in Piece |-> IF i \in has[p] THEN mcPeers[i] - 1 ELSE mcPeers[i]]
  /\ UNCHANGED <<valid, alloc, got, left, disk, fileLeft, excluded, endMode, running, has,
                 remoteChoked, interested, goal, window>>

\* Cbt_peer_link::close, also on a link that is closed already.
Close(p) ==
  /\ GiveBack(p, Released(p), Released(p))
  /\ reqs' = [reqs EXCEPT ![p] = [c \in Chunk |-> 0]]
  /\ pending' = [pending EXCEPT ![p] = 0]
  /\ mcPeers' = [i \in Piece |-> IF i \in has[p] THEN mcPeers[i] - 1 ELSE mcPeers[i]]
  /\ has' = [has EXCEPT ![p] = {}]
  /\ UNCHANGED <<valid, alloc, got, left, disk, fileLeft, excluded, endMode, running,
                 remoteChoked, interested, goal, window>>

\* post_select fails (connection lost, a message out of protocol, a block nobody
\* asked for): Cbt_file closes the link and erases it from the list.
Drop(p) ==
  /\ cur = p /\ phase = "read"
  /\ Close(p)
  /\ conn' = [conn EXCEPT ![p] = "none"]
  /\ cur' = NoPeer /\ phase' = "idle"

\* Cserver::peer_disconnect, or a failed send in Cserver::send: the link is closed and
\* stays in the list.
Disconnect(p) ==
  /\ phase = "idle" /\ conn[p] # "none"
  /\ Close(p)
  /\ conn' = [conn EXCEPT ![p] = "closed"]
  /\ UNCHANGED <<cur, phase>>

\* The next pre_select closes it once more and erases it.
Reap(p) ==
  /\ phase = "idle" /\ conn[p] = "closed"
  /\ Close(p)
  /\ conn' = [conn EXCEPT ![p] = "none"]
  /\ UNCHANGED <<cur, phase>>

-----------------------------------------------------------------------------
(* A pass of post_select over one link: the messages.                      *)

Begin(p) ==
  /\ phase = "idle" /\ conn[p] = "up"
  /\ cur' = p /\ phase' = "read"
  /\ UNCHANGED <<pieceVars, mcPeers, excluded, endMode, running, linkVars>>

Reading(p) == cur = p /\ phase = "read"

\* The bound of the model on the environment.
MayChoke(p) == \A c \in Chunk : reqs[p][c] < MaxDup

\* The list is cleared and the reservations are not given back.
ReadChokeClears(p) ==
  /\ Reading(p) /\ MayChoke(p)
  /\ remoteChoked' = [remoteChoked EXCEPT ![p] = TRUE]
  /\ reqs' = [reqs EXCEPT ![p] = [c \in Chunk |-> 0]]
  /\ UNCHANGED <<pieceVars, mcPeers, excluded, endMode, running, conn, has, interested,
                 goal, pending, window, cur, phase>>

\* bti_choke: the requests stay in the list, only their count is reset.
ReadChoke(p) ==
  /\ Reading(p) /\ MayChoke(p)
  /\ remoteChoked' = [remoteChoked EXCEPT ![p] = TRUE]
  /\ pending' = [pending EXCEPT ![p] = 0]
  /\ window' = [window EXCEPT ![p] = Lesser(@, ChokeWindow)]
  /\ UNCHANGED <<pieceVars, mcPeers, excluded, endMode, running, conn, has, interested,
                 goal, reqs, cur, phase>>

ReadUnchoke(p) ==
  /\ Reading(p)
  /\ remoteChoked' = [remoteChoked EXCEPT ![p] = FALSE]
  /\ UNCHANGED <<pieceVars, mcPeers, excluded, endMode, running, conn, has, interested,
                 goal, reqs, pending, window, cur, phase>>

\* bti_have; a bitfield is a series of them (remote_has).
ReadHave(p, i) ==
  /\ Reading(p) /\ i \notin has[p]
  /\ has' = [has EXCEPT ![p] = @ \cup {i}]
  /\ mcPeers' = [mcPeers EXCEPT ![i] = @ + 1]
  /\ goal' = [goal EXCEPT ![p] = @ \/ (~interested[p] /\ ~valid[i])]
  /\ UNCHANGED <<pieceVars, excluded, endMode, running, conn, remoteChoked, interested,
                 reqs, pending, window, cur, phase>>

\* read_piece takes the request off the list before the block is looked at.
TakeRequest(p, c) ==
  /\ reqs[p][c] > 0
  /\ reqs' = [reqs EXCEPT ![p][c] = @ - 1]
  /\ pending' = [pending EXCEPT ![p] = @ - 1]
  /\ \E w \in 1..Lesser(window[p] + 1, MaxWindow) \cup {MaxWindow} :
       window' = [window EXCEPT ![p] = w]

\* The piece is valid already, but the test is forgotten.
RejectsLess(c, fits) == ~fits \/ c \in got

\* What Cbt_piece::write refuses.
Rejects(c, fits) ==
  \/ valid[PieceOf[c]] \/ ~fits \/ PieceOf[c] \notin alloc \/ c \in got

ReadRejected(p, c, fits) ==
  /\ Reading(p) /\ TakeRequest(p, c) /\ Rejects(c, fits)
  /\ UNCHANGED <<pieceVars, mcPeers, excluded, endMode, running, conn, has, remoteChoked,
                 interested, goal, cur, phase>>

\* The block is written to disk; a failure pauses the torrent but the sub-piece
\* counts as received all the same.
Store(c, good, written) ==
  /\ disk' = IF ~written THEN disk ELSE IF good THEN disk \cup {c} ELSE disk \ {c}
  /\ running' = (running /\ written)

\* A block nobody is asked for any more (it came after a timeout) is not counted.
AcceptUncounted(c) ==
  LET i == PieceOf[c] IN
  /\ left[i] # 1
  /\ got' = got \cup {c}
  /\ asked' = [asked EXCEPT ![c] = {}]
  /\ left' = [left EXCEPT ![i] = @ - 1]
  /\ UNCHANGED <<valid, alloc, fileLeft, unrequested>>

\* Cbt_piece::write of a block that is not the last of its piece.
Accept(c) ==
  LET i == PieceOf[c] IN
  /\ left[i] # 1
  /\ got' = got \cup {c}
  /\ asked' = [asked EXCEPT ![c] = {}]
  /\ left' = [left EXCEPT ![i] = @ - 1]
  /\ unrequested' = [unrequested EXCEPT ![i] = IF asked[c] = {} THEN @ - 1 ELSE @]
  /\ UNCHANGED <<valid, alloc, fileLeft>>

\* All sub-pieces are there: the piece is read back and hashed, and is either
\* valid or starts all over again.
Complete(c) ==
  LET i    == PieceOf[c]
      hash == Sub(i) \subseteq disk'
      n    == IF hash THEN 0 ELSE Cardinality(Sub(i)) IN
  /\ left[i] = 1
  /\ alloc' = alloc \ {i}
  /\ got' = got \ Sub(i)
  /\ asked' = [d \in Chunk |-> IF d \in Sub(i) THEN {} ELSE asked[d]]
  /\ valid' = [valid EXCEPT ![i] = hash]
  /\ left' = [left EXCEPT ![i] = n]
  /\ unrequested' = [unrequested EXCEPT ![i] = n]
  /\ fileLeft' = IF hash THEN fileLeft - 1 ELSE fileLeft

ReadPiece(p, c, good, written) ==
  /\ Reading(p) /\ TakeRequest(p, c) /\ ~Rejects(c, TRUE)
  /\ Store(c, good, written)
  /\ Accept(c) \/ Complete(c)
  /\ UNCHANGED <<mcPeers, excluded, endMode, conn, has, remoteChoked, interested, goal,
                 cur, phase>>

-----------------------------------------------------------------------------
(* A pass of post_select over one link: the work after the messages.       *)

\* What check_peer finds in the pieces the link has a request in: its reservations
\* there.  Those older than the timeout, which may be any of them, are given back.
Expirable(p) == {c \in Chunk : p \in asked[c] /\ \E d \in Sub(PieceOf[c]) : reqs[p][d] > 0}

Expire(p, old) == GiveBack(p, old, {c \in old : asked[c] = {p}})

\* The time of check_pieces has not come; write_interested sends the goal.
Work(p) ==
  /\ Reading(p)
  /\ interested' = [interested EXCEPT ![p] = goal[p]]
  /\ phase' = "ask"
  /\ UNCHANGED <<pieceVars, mcPeers, excluded, endMode, running, conn, has, remoteChoked,
                 goal, reqs, pending, window, cur>>

\* A link that is not interested does not look again.
CheckNoLook(p, old) ==
  /\ Reading(p) /\ old \subseteq Expirable(p)
  /\ Expire(p, old)
  /\ interested' = [interested EXCEPT ![p] = goal[p]]
  /\ phase' = "ask"
  /\ UNCHANGED <<valid, alloc, got, left, disk, fileLeft, mcPeers, excluded, endMode, running,
                 conn, has, remoteChoked, goal, reqs, pending, window, cur>>

\* It has: old reservations go, the requests stay; then a link that is not
\* interested looks for something to ask and renews its goal.
Check(p, old) ==
  LET looks == ~interested[p] IN
  /\ Reading(p) /\ old \subseteq Expirable(p)
  /\ Expire(p, old)
  /\ goal' = [goal EXCEPT ![p] = @ \/ (looks /\ Wanted(has[p], unrequested') # {})]
  /\ interested' = [interested EXCEPT ![p] = goal'[p]]
  /\ endMode' = (endMode \/ (looks /\ LookEnds(unrequested')))
  /\ phase' = "ask"
  /\ UNCHANGED <<valid, alloc, got, left, disk, fileLeft, mcPeers, excluded, running, conn,
                 has, remoteChoked, reqs, pending, window, cur>>

\* The condition of the request loop.
CanAsk(p) == interested[p] /\ running /\ ~remoteChoked[p] /\ pending[p] < Limit(p)

\* A sub-piece that is asked of another link already is handed out again.
FirstMissing(i, c) == c \in Sub(i) \ got /\ \A d \in Sub(i) \ got : c <= d

\* next_invalid_sub_piece: the first one that is neither received nor asked for.
FirstFree(i, c) == c \in Free(i) /\ \A d \in Free(i) : c <= d

Ask(p, c) ==
  LET i == PieceOf[c] IN
  /\ cur = p /\ phase = "ask" /\ CanAsk(p)
  /\ i \in Wanted(has[p], unrequested) /\ FirstFree(i, c)
  /\ alloc' = alloc \cup {i}
  /\ asked' = [asked EXCEPT ![c] = @ \cup {p}]
  /\ unrequested' = [unrequested EXCEPT ![i] = @ - 1]
  /\ reqs' = [reqs EXCEPT ![p][c] = @ + 1]
  /\ pending' = [pending EXCEPT ![p] = @ + 1]
  /\ UNCHANGED <<valid, got, left, disk, fileLeft, mcPeers, excluded, endMode, running, conn,
                 has, remoteChoked, interested, goal, window, cur, phase>>

SeederToSeeder(p) == fileLeft = 0 /\ has[p] = Piece

\* The loop ends: it may not go on, or there is nothing to ask (interested(false)).
Finish(p) ==
  /\ cur = p /\ phase = "ask" /\ ~SeederToSeeder(p)
  /\ \/ ~CanAsk(p) /\ UNCHANGED <<goal, endMode>>
     \/ /\ CanAsk(p) /\ Wanted(has[p], unrequested) = {}
        /\ goal' = [goal EXCEPT ![p] = FALSE]
        /\ endMode' = LookEnds(unrequested)
  /\ cur' = NoPeer /\ phase' = "idle"
  /\ UNCHANGED <<pieceVars, mcPeers, excluded, running, conn, has, remoteChoked, interested,
                 reqs, pending, window>>

\* Neither side has anything to ask of the other: the link is closed and erased.
FinishSeeder(p) ==
  /\ cur = p /\ phase = "ask" /\ SeederToSeeder(p)
  /\ Close(p)
  /\ conn' = [conn EXCEPT ![p] = "none"]
  /\ cur' = NoPeer /\ phase' = "idle"

-----------------------------------------------------------------------------
(* The user.                                                               *)

\* state(s_paused) and state(s_running) on an open torrent.
Pause ==
  /\ phase = "idle"
  /\ running' = ~running
  /\ UNCHANGED <<pieceVars, mcPeers, excluded, endMode, linkVars, cur, phase>>

\* sub_file_priority, where it takes a piece to or from priority -10.
Prioritise(i) ==
  /\ phase = "idle"
  /\ excluded' = IF i \in excluded THEN excluded \ {i} ELSE excluded \cup {i}
  /\ UNCHANGED <<pieceVars, mcPeers, endMode, running, linkVars, cur, phase>>

-----------------------------------------------------------------------------
Message(p) ==
  \/ ReadChoke(p)
  \/ ReadUnchoke(p)
  \/ \E i \in Piece : ReadHave(p, i)
  \/ \E c \in Chunk, fits \in BOOLEAN : (fits \/ p \in Missizing) /\ ReadRejected(p, c, fits)
  \/ \E c \in Chunk, good, written \in BOOLEAN :
        /\ good \/ p \in Corrupt
        /\ written \/ DiskMayFail
        /\ ReadPiece(p, c, good, written)

Pass(p) ==
  \/ Begin(p)
  \/ Message(p)
  \/ Drop(p)
  \/ Work(p)
  \/ \E old \in SUBSET Expirable(p) : Check(p, old)
  \/ \E c \in Chunk : Ask(p, c)
  \/ Finish(p)
  \/ FinishSeeder(p)

Next ==
  \/ \E p \in Peer : Connect(p) \/ Disconnect(p) \/ Reap(p) \/ Pass(p)
  \/ Pause
  \/ \E i \in Excludable : Prioritise(i)

Spec == Init /\ [][Next]_vars

\* The select loop visits every link again and again and ends every visit; its
\* clock passes every timeout, so that every reservation is old at some check.
LoopFairness ==
  \A p \in Peer :
    /\ SF_vars(Begin(p)) /\ WF_vars(Reap(p))
    /\ WF_vars(Work(p) \/ \E old \in SUBSET Expirable(p) : Check(p, old))
    /\ WF_vars(Finish(p) \/ FinishSeeder(p) \/ \E c \in Chunk : Ask(p, c))
    /\ SF_vars(\E old \in SUBSET Expirable(p) : Check(p, old))
    /\ \A c \in Chunk : SF_vars(\E old \in SUBSET Expirable(p) : c \in old /\ Check(p, old))

\* A seed says what it has, and while a request made since its last choke is open
\* (it forgets the older ones) it answers some request.
SeedFairness(s) ==
  /\ \A i \in Piece : SF_vars(ReadHave(s, i))
  /\ SF_vars(pending[s] > 0 /\ \E c \in Chunk : \/ ReadRejected(s, c, TRUE)
                                                \/ ReadPiece(s, c, TRUE, TRUE))

LiveSpec == Spec /\ LoopFairness /\ \A s \in Peer : SeedFairness(s)

-----------------------------------------------------------------------------
(* What the bookkeeping promises.                                          *)

\* Every variable keeps its type.
TypeOK ==
  /\ valid \in [Piece -> BOOLEAN]
  /\ alloc \subseteq Piece /\ got \subseteq Chunk /\ disk \subseteq Chunk
  /\ asked \in [Chunk -> SUBSET Peer]
  /\ left \in [Piece -> Int] /\ unrequested \in [Piece -> Int]
  /\ mcPeers \in [Piece -> Int] /\ fileLeft \in Int
  /\ excluded \subseteq Piece
  /\ endMode \in BOOLEAN /\ running \in BOOLEAN
  /\ conn \in [Peer -> {"none", "up", "closed"}]
  /\ has \in [Peer -> SUBSET Piece]
  /\ remoteChoked \in [Peer -> BOOLEAN]
  /\ interested \in [Peer -> BOOLEAN] /\ goal \in [Peer -> BOOLEAN]
  /\ reqs \in [Peer -> [Chunk -> Nat]]
  /\ pending \in [Peer -> Int] /\ window \in [Peer -> Nat]
  /\ cur \in Peer \cup {NoPeer} /\ phase \in {"idle", "read", "ask"}

\* A sub-piece is asked of at most one link at a time, and of none once it is
\* there: neither of the two assertions of Cbt_piece can fail (bt_piece.cpp:43 and
\* :58), and a block is never downloaded twice on purpose.
AskedOnce ==
  /\ \A c \in Chunk : \A p, q \in asked[c] : p = q
  /\ \A c \in got : asked[c] = {}
  /\ \A i \in Piece : ~valid[i] /\ unrequested[i] # 0 => Free(i) # {}

\* mc_unrequested_sub_pieces and mc_sub_pieces_left say what the sub-pieces say,
\* through late answers, timeouts, closed links and rejected pieces.
Counted(i) ==
  /\ ~valid[i] => /\ unrequested[i] = Cardinality(Free(i))
                  /\ left[i] = Cardinality(Sub(i) \ got)
                  /\ left[i] > 0
  /\ valid[i] => unrequested[i] = 0 /\ left[i] = 0 /\ i \notin alloc
  /\ i \notin alloc => \A c \in Sub(i) : c \notin got /\ asked[c] = {}

CountersExact == \A i \in Piece : Counted(i)

\* mc_peers counts the links in the list that have the piece: a link that is closed
\* twice, or that says twice what it has, is counted once.
AvailabilityExact ==
  /\ \A i \in Piece : mcPeers[i] = Cardinality({p \in Peer : i \in has[p]})
  /\ \A p \in Peer : conn[p] # "up" => has[p] = {}

\* m_left counts the pieces that are not valid, and the bytes on disk of a valid
\* piece are the right ones, whatever a peer sends late or wrongly afterwards.
ValidIsOnDisk ==
  /\ fileLeft = Cardinality(Invalid)
  /\ \A i \in Piece : valid[i] => Sub(i) \subseteq disk

\* The sub-pieces that are asked of a link which has no request for them any more:
\* no answer, no close and (if it has no other request in the piece) no timeout
\* gives them back.
Leaked == {c \in Chunk : \E p \in asked[c] : reqs[p][c] = 0}

\* Only a block of the wrong size does that (read_piece has dropped the request
\* when Cbt_piece::write refuses the block).
LeakStep ==
  Leaked' \subseteq Leaked \/ \E p \in Missizing, c \in Chunk : ReadRejected(p, c, FALSE)
OnlyMissizedLeaks == [][LeakStep]_vars

\* Every reservation ends, by an answer, a timeout or the end of the link: no
\* sub-piece waits for ever for one peer (no peer sends blocks of a wrong size).
ReservationEnds ==
  \A p \in Peer, c \in Chunk : (p \in asked[c]) ~> (p \notin asked[c])

\* A link that has something to ask becomes interested, also when the news came
\* while interested(false) was waiting to be sent (remote_has ignores it then).
InterestRevives ==
  \A p \in Peer :
    (conn[p] = "up" /\ Wanted(has[p], unrequested) # {})
      ~> (interested[p] \/ conn[p] # "up" \/ Wanted(has[p], unrequested) = {})

\* A torrent that is left running with a seed that stays and unchokes completes.
SeedServes(s) == conn[s] = "up" /\ ~remoteChoked[s] /\ running /\ excluded = {}
SeedCompletes == \A s \in Peer : <>[]SeedServes(s) => <>(fileLeft = 0)
=============================================================================
