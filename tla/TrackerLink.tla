---------------------------- MODULE TrackerLink ----------------------------
(***************************************************************************)
(* The announces of one torrent of the client (Cbt_tracker_link): the list *)
(* of its trackers, the announce under way, the waits between announces    *)
(* and the fail-over to the next tracker.                                  *)
(*                                                                         *)
(* Seconds pass Tick at a time; times are kept as what is left of them.    *)
(* The answers, errors and silence of trackers are left open.              *)
(***************************************************************************)
EXTENDS Integers, Sequences

CONSTANTS Url,                  (* URLs of trackers                             *)
          Protocol,             (* of each: "http", "udp", or "bad": not valid() *)
          Lists,                (* what the user may replace the list with      *)
          FirstList,            (* the list of the torrent file                 *)
          Intervals,            (* seconds trackers ask for                     *)
          LocalFailures,        (* may a socket or connect fail at once?        *)
          HttpBase, UdpBase, LongestWait, ShortestInterval, Timeout,
                                (* 300, 60, 3600, 300 and 15 in the code        *)
          Tick,                 (* bound: the grain of time                     *)
          MaxAttempts           (* bound: attempts are counted up to here       *)

ASSUME LinkAssumption ==
  /\ Protocol \in [Url -> {"http", "udp", "bad"}]
  /\ FirstList \in Seq(Url) /\ Lists \subseteq Seq(Url) /\ Intervals \subseteq Nat
  /\ LocalFailures \in BOOLEAN
  /\ {HttpBase, UdpBase, LongestWait, ShortestInterval, Timeout, Tick, MaxAttempts} \subseteq Nat
  /\ MaxAttempts \in 1..31   \* a longer shift of an int has no meaning

VARIABLES
  mode,      (* Cbt_file::state: "running", "paused" (or hashed), "stopped" *)
  left,      (* Cbt_file::m_left # 0: something is missing, or all unknown *)
  room,      (* Cserver::below_peer_limit()                                *)
  trackers,  (* Cbt_file::m_trackers                                       *)
  cur,       (* m_current_tracker                                          *)
  state,     (* m_state: 0 idle, 1 connecting and 2 waiting over HTTP,     *)
             (* 3 connecting and 4 announcing over UDP                     *)
  url,       (* m_url: the tracker of the last announce                    *)
  attempts,  (* mc_attempts                                                *)
  event,     (* m_event                                                    *)
  wait,      (* seconds to m_announce_time, 0 when it has passed           *)
  age,       (* seconds since m_connect_send or m_announce_send            *)
  crashed,   (* the list was indexed out of its range                      *)
  edited,    (* history: the list was replaced since the announce began    *)
  owed       (* history: seconds a tracker must still be left alone        *)

given    == <<mode, left, room>>     \* what the link only reads
fileVars == <<given, trackers>>
linkVars == <<cur, state, url, attempts, event, wait, age>>
vars == <<fileVars, linkVars, crashed, edited, owed>>

-----------------------------------------------------------------------------
Bigger(a, b)  == IF a > b THEN a ELSE b
Smaller(a, b) == IF a < b THEN a ELSE b

\* base << n in an int of 32 bits.
Half == 2 ^ 30
Shifted(base) ==
  LET f[n \in 0..MaxAttempts] ==
        IF n = 0 THEN base
        ELSE LET x == f[n - 1]
             IN CASE x >= Half  -> 2 * ((x - Half) - Half)
                  [] x < -Half  -> 2 * ((x + Half) + Half)
                  [] OTHER      -> 2 * x
  IN f

\* The time until the next attempt, from the number of attempts before.
Backoff(u, n) ==
  Bigger(0, Smaller(Shifted(IF Protocol[u] = "http" THEN HttpBase ELSE UdpBase)[n], LongestWait))

More(n) == Smaller(n + 1, MaxAttempts)

\* The last tracker is tried again instead of the first.
FailOverStays(n, c) ==
  /\ IF c + 1 < Len(trackers) THEN cur' = c + 1 /\ attempts' = n - 1
     ELSE cur' = c /\ attempts' = n
  /\ UNCHANGED <<trackers, crashed>>

\* close(), with n for mc_attempts and c for m_current_tracker, without an answer:
\* the next tracker gets its turn.
FailOver(n, c) ==
  /\ IF c + 1 < Len(trackers) THEN cur' = c + 1 /\ attempts' = n - 1
     ELSE cur' = 0 /\ attempts' = n
  /\ UNCHANGED <<trackers, crashed>>

\* close() after an answer: the tracker goes to the front.
Promote(c) ==
  /\ crashed' = (c >= Len(trackers))
  /\ trackers' = IF crashed' THEN trackers
                 ELSE [trackers EXCEPT ![1] = trackers[c + 1], ![c + 1] = trackers[1]]
  /\ cur' = 0 /\ attempts' = 0

Close(n, c) == state' = 0 /\ age' = 0 /\ IF n = 0 THEN Promote(c) ELSE FailOver(n, c)

\* The tracker whose turn it is, and whether it may be tried: not while there are as
\* many peers as there may be.
Index == IF cur >= Len(trackers) THEN 0 ELSE cur

Ready ==
  /\ state = 0 /\ mode = "running" /\ room
  /\ Index = 0 => wait = 0
  /\ Index < Len(trackers)

-----------------------------------------------------------------------------
Init ==
  /\ mode = "stopped" /\ left = TRUE /\ room \in BOOLEAN /\ trackers = FirstList
  /\ cur = 0 /\ state = 0 /\ url \in Url /\ attempts = 0
  /\ event = "started" /\ wait = 0 /\ age = 0
  /\ crashed = FALSE /\ edited = FALSE /\ owed = [u \in Url |-> 0]

\* pre_select: an idle link whose index has become too large starts over.
WrapIndex ==
  /\ state = 0 /\ ~Ready /\ cur # Index
  /\ cur' = Index
  /\ UNCHANGED <<fileVars, state, url, attempts, event, wait, age, crashed, edited, owed>>

\* The attempt is not counted.
SkipUncounted ==
  /\ Ready /\ Protocol[trackers[Index + 1]] = "bad"
  /\ url' = trackers[Index + 1]
  /\ Close(attempts, Index)
  /\ UNCHANGED <<given, event, wait, edited, owed>>

\* pre_select: the URL makes no sense, the next one gets its turn.
SkipInvalid ==
  /\ Ready /\ Protocol[trackers[Index + 1]] = "bad"
  /\ url' = trackers[Index + 1]
  /\ Close(More(attempts), Index)
  /\ UNCHANGED <<given, event, wait, edited, owed>>

\* What every other attempt does first.
Attempt ==
  /\ Ready /\ Protocol[trackers[Index + 1]] # "bad"
  /\ url' = trackers[Index + 1]
  /\ wait' = Backoff(url', attempts)
  /\ UNCHANGED <<given, event>>

\* The socket, or its connect, fails at once: the link stays where it is.
FailAtOnce ==
  /\ LocalFailures
  /\ Attempt
  /\ cur' = Index /\ attempts' = More(attempts)
  /\ UNCHANGED <<trackers, state, age, crashed, edited, owed>>

\* The host is not found, or the UDP connect request cannot be sent.
FailToReach == Attempt /\ Close(More(attempts), Index) /\ UNCHANGED <<edited, owed>>

\* An index that was too large stays so.
ContactAtOldIndex ==
  /\ Attempt
  /\ cur' = cur /\ attempts' = More(attempts) /\ age' = 0
  /\ state' = IF Protocol[url'] = "udp" THEN 3 ELSE 1
  /\ edited' = FALSE /\ owed' = [owed EXCEPT ![url'] = Smaller(HttpBase, UdpBase)]
  /\ UNCHANGED <<trackers, crashed>>

\* The tracker is contacted.
Contact ==
  /\ Attempt
  /\ cur' = Index /\ attempts' = More(attempts) /\ age' = 0
  /\ state' = IF Protocol[url'] = "udp" THEN 3 ELSE 1
  /\ edited' = FALSE /\ owed' = [owed EXCEPT ![url'] = Smaller(HttpBase, UdpBase)]
  /\ UNCHANGED <<trackers, crashed>>

\* post_select in the states 1 and 3: the request with the event is sent, or not.
SendRequest ==
  /\ state \in {1, 3} /\ state' = state + 1 /\ age' = 0
  /\ event' = "none"
  /\ UNCHANGED <<fileVars, cur, url, attempts, wait, crashed, edited, owed>>

SendFails ==
  /\ state \in {1, 3}
  /\ event' = "none"
  /\ Close(attempts, cur)
  /\ UNCHANGED <<given, url, wait, edited, owed>>

\* A connection is refused or breaks, or the tracker answers an error; or a UDP
\* tracker has been silent for too long.  HTTP has no timeout of its own.
Fails ==
  /\ state \in {1, 2, 4} \/ (state = 3 /\ age > Timeout)
  /\ Close(attempts, cur)
  /\ UNCHANGED <<given, url, event, wait, edited, owed>>

\* The attempts before the answer still count.
AnswerCounted(i) ==
  /\ state \in {2, 4}
  /\ wait' = Bigger(ShortestInterval, i)
  /\ Close(attempts, cur)
  /\ owed' = [owed EXCEPT ![url] = Bigger(ShortestInterval, i)]
  /\ UNCHANGED <<given, url, event, edited>>

\* The tracker answers, with an interval of i seconds.
Answer(i) ==
  /\ state \in {2, 4}
  /\ wait' = Bigger(ShortestInterval, i)
  /\ Close(0, cur)
  /\ owed' = [owed EXCEPT ![url] = Bigger(ShortestInterval, i)]
  /\ UNCHANGED <<given, url, event, edited>>

PreSelect  == WrapIndex \/ SkipInvalid \/ FailAtOnce \/ FailToReach \/ Contact
PostSelect == SendRequest \/ SendFails \/ Fails \/ \E i \in Intervals : Answer(i)

-----------------------------------------------------------------------------
\* m_announce_time = 0: the next announce need not wait.
AnnounceNow == wait' = 0 /\ owed' = [u \in Url |-> 0]

\* The last piece that was missing is valid; a paused torrent has its links still.
Complete ==
  /\ mode # "stopped" /\ left
  /\ left' = FALSE /\ event' = "completed" /\ AnnounceNow
  /\ UNCHANGED <<mode, room, trackers, cur, state, url, attempts, age, crashed, edited>>

\* Cbt_file::open: what is missing is found anew, by a check (that is taken for a
\* pause) or at once.
Open ==
  /\ mode = "stopped" /\ mode' \in {"running", "paused"} /\ left' \in BOOLEAN
  /\ AnnounceNow
  /\ UNCHANGED <<room, trackers, cur, state, url, attempts, event, age, crashed, edited>>

\* Cserver::announce, at the user's command.
Announce ==
  /\ AnnounceNow
  /\ UNCHANGED <<fileVars, cur, state, url, attempts, event, age, crashed, edited>>

\* Cbt_file::close; the event of stopping goes through a link of its own.
Stop ==
  /\ mode # "stopped" /\ mode' = "stopped"
  /\ \/ UNCHANGED <<event, wait, owed>>
     \/ /\ trackers # <<>> /\ Protocol[trackers[1]] = "http"
        /\ event' = "none" /\ AnnounceNow
  /\ UNCHANGED <<left, room, trackers, cur, state, url, attempts, age, crashed, edited>>

\* The user pauses the torrent or lets it go on; a write that fails pauses it too, the
\* end of a check sets it running.
Pause ==
  /\ mode # "stopped" /\ mode' = IF mode = "running" THEN "paused" ELSE "running"
  /\ UNCHANGED <<left, room, trackers, linkVars, crashed, edited, owed>>

\* Peers of any torrent come or go, or the user changes the limit.
PeersChange ==
  /\ room' = ~room
  /\ UNCHANGED <<mode, left, trackers, linkVars, crashed, edited, owed>>

\* Cbt_file::trackers
EditTrackers(l) ==
  /\ trackers' = l /\ edited' = (state # 0) /\ owed' = [u \in Url |-> 0]
  /\ UNCHANGED <<given, linkVars, crashed>>

\* Cbt_file::add_tracker, when the same torrent is opened once more.
AddTracker(u) ==
  /\ \A i \in 1..Len(trackers) : trackers[i] # u
  /\ trackers' = Append(trackers, u)
  /\ UNCHANGED <<given, linkVars, crashed, edited, owed>>

User == \/ Complete \/ Open \/ Announce \/ Stop \/ Pause \/ PeersChange
        \/ \E l \in Lists : EditTrackers(l)
        \/ \E u \in Url : AddTracker(u)

Pass ==
  /\ wait' = Bigger(0, wait - Tick)
  /\ age' = IF state \in {3, 4} THEN Smaller(age + Tick, Timeout + 1) ELSE 0
  /\ owed' = [u \in Url |-> Bigger(0, owed[u] - Tick)]
  /\ UNCHANGED <<fileVars, cur, state, url, attempts, event, crashed, edited>>

\* A crash is the end.
Next == ~crashed /\ (PreSelect \/ PostSelect \/ User \/ Pass)

Spec == Init /\ [][Next]_vars

\* The select loop turns and time passes; a TCP connection is answered or breaks.
LiveSpec == Spec /\ WF_vars(PreSelect) /\ WF_vars(PostSelect) /\ WF_vars(Pass)

-----------------------------------------------------------------------------
(***************************************************************************)
(* Properties                                                              *)
(***************************************************************************)
TypeOK ==
  /\ mode \in {"running", "paused", "stopped"} /\ left \in BOOLEAN /\ room \in BOOLEAN
  /\ trackers \in Seq(Url) /\ url \in Url
  /\ cur \in Nat /\ state \in 0..4 /\ attempts \in 0..MaxAttempts
  /\ event \in {"none", "started", "completed"}
  /\ wait \in Nat /\ age \in 0..(Timeout + 1)
  /\ crashed \in BOOLEAN /\ edited \in BOOLEAN /\ owed \in [Url -> Nat]

\* close() swaps the elements 0 and m_current_tracker of the list without a look at
\* its size (bt_tracker_link.cpp:295): the index is out of range only when the list
\* was replaced while an announce was under way.
OnlyEditsCrash == (crashed => edited) /\ (state # 0 /\ ~edited => cur < Len(trackers))

\* close() takes mc_attempts = 0 for "has answered": through fail-over, which counts
\* attempts down again, no tracker gets to the front without having answered, and
\* the one that answered does (unless the list was replaced meanwhile).
PromoteOnlyAnswered ==
  [][trackers' # trackers =>
       \/ UNCHANGED linkVars                           \* the user's change
       \/ /\ state \in {2, 4} /\ state' = 0 /\ attempts' = 0
          /\ edited \/ trackers'[1] = url]_vars

Distinct(l) == \A i, j \in 1..Len(l) : l[i] = l[j] => i = j

\* A tracker that has not answered is left alone for a minute, and one that has for
\* the interval it asked for ("Do not announce again until interval seconds have
\* passed or an event has happened", htdocs/udp_tracker_protocol.html:115), although
\* the wait is looked at only for the first tracker in the list.  One that the list
\* names twice is tried twice in a row (nothing takes it out, bt_file.cpp:50, 1003).
Paced == [][state = 0 /\ state' # 0 /\ Distinct(trackers) => owed[url'] = 0]_vars

\* The times it rests on: the back-off never gets shorter than the first one (as it
\* does once the shift overflows), nor is an interval.
Patient ==
  /\ \A u \in Url, n \in 0..MaxAttempts :
       Backoff(u, n) \in Nat /\ Backoff(u, n) >= Smaller(HttpBase, UdpBase)
  /\ ShortestInterval >= Smaller(HttpBase, UdpBase)

\* The fail-over gives every valid tracker of the list its turn again and again, while
\* none answers, the torrent runs, there is room for peers and the list is left alone.
\* It comes to a halt in one way only: at a tracker for which every socket or connect
\* fails at once from then on, because then the link stays where it is
\* (bt_tracker_link.cpp:50, 56, 70).
Turn(u) == (FailToReach \/ Contact) /\ url' = u
Listed(u) == \E i \in 1..Len(trackers) : trackers[i] = u
Undisturbed ==
  /\ <>[](mode = "running" /\ room /\ ~crashed)
  /\ <>[][\A l \in Lists : ~EditTrackers(l)]_vars
HaltsAt(u) == FailAtOnce /\ url' = u

EveryTrackerTried ==
  Undisturbed =>
    \/ \A u \in {u \in Url : Protocol[u] # "bad"} : <>[]~Listed(u) \/ []<><<Turn(u)>>_vars
    \/ []<><<\E i \in Intervals : Answer(i)>>_vars
    \/ \E u \in Url : <>[][PreSelect => HaltsAt(u)]_vars
=============================================================================
