---------------------------- MODULE Connection ----------------------------
(***************************************************************************)
(* A TCP connection of the tracker (Cconnection): the request that arrives *)
(* in pieces, the answer that may not fit the socket at once, and the      *)
(* edge-triggered epoll the tracker waits on.                              *)
(*                                                                         *)
(* A byte of a request is text, a carriage return, a line feed, or the     *)
(* question mark of a query that no space ends; a byte of the answer is    *)
(* its position.  An edge puts the socket into the ready list of epoll,    *)
(* and what is reported is looked up when it is delivered.                 *)
(***************************************************************************)
EXTENDS Integers, Sequences, SequencesExt

CONSTANTS Requests,      (* what a client may send                            *)
          ReadBuffer,    (* size of m_read_b, 4096 bytes in the code          *)
          HeadSize, BodySize,    (* bytes of the header and of the body of the answer *)
          Rooms,         (* bytes the socket takes before it is full          *)
          Addresses,     (* of clients                                        *)
          DenyLists      (* m_deny_from_hosts: from the end of a range to its beginning *)

VARIABLES
  request, room, address, denied,    (* of this client and this tracker       *)
  sent,         (* bytes of the request the client has sent                   *)
  gone,         (* what it did besides: "no", "closes" its side, "aborts"     *)
  c,            (* the connection and its socket, see Accepted                *)
  conn,         (* "new", "open", "refused", "closed"                         *)
  why,          (* what closed it: "served", "error", "late"                  *)
  ready         (* in the ready list of epoll                                 *)

Sign == {"x", "?", "cr", "lf"}      (* the bytes of a request                      *)

\* What the constants are: sizes are numbers, and only the body may be empty.
Sensible ==
  /\ ReadBuffer \in Nat \ {0} /\ HeadSize \in Nat \ {0} /\ BodySize \in Nat
  /\ Rooms \subseteq Nat \ {0} /\ Addresses \subseteq Nat
  /\ \A r \in Requests : r \in Seq(Sign)
  /\ \A list \in DenyLists : \A e \in DOMAIN list : e \in Nat /\ list[e] \in Nat

choice == <<request, room, address, denied>>
vars   == <<choice, sent, gone, c, conn, why, ready>>

-----------------------------------------------------------------------------
\* accept: the range of the list with the lowest end that is not below a.
Denies(list, a) ==
  LET E == {e \in DOMAIN list : e >= a} IN
  E # {} /\ a >= list[CHOOSE e \in E : \A o \in E : e <= o]

Accepted == [read |-> 0,        (* bytes read from the socket                 *)
             filled |-> 0,      (* bytes in m_read_b: m_w                     *)
             state |-> 0, answers |-> 0,     (* m_state, calls of read()      *)
             rest |-> <<>>,     (* m_r: what of the answer waits              *)
             out |-> <<>>,      (* what of it the socket has taken            *)
             unread |-> 0,      (* what of that the client has not read       *)
             failed |-> FALSE]

\* One byte in the loop of recv().  `began` is m_state at the top of the loop: a
\* line that leaves m_state as it was ends the loop, and what follows it in this
\* read is not looked at.
LineEnd(m, b) ==
  CASE m \in {0, 1, 3} -> (IF m = 0 THEN 1 ELSE m) + (IF b = "lf" THEN 2 ELSE 1)
    [] m \in {2, 4}    -> m + 1
    [] OTHER           -> m

Text(p) == [p EXCEPT !.state = IF @ = 0 THEN 0 ELSE 1]

Look(p, b) ==
  IF ~p.on THEN p
  ELSE IF b \notin {"cr", "lf"} THEN Text(p)
  ELSE LET s == LineEnd(p.state, b) IN
       [state |-> s, began |-> s, on |-> s # p.began]

Place == [state : 0..5, began : 0..5, on : BOOLEAN]
Scan  == [z \in Place \X Sign |-> Look(z[1], z[2])]
Parsed(m, bytes) ==
  LET at[i \in 0..Len(bytes)] ==
        IF i = 0 THEN [state |-> m, began |-> m, on |-> TRUE] ELSE Scan[<<at[i - 1], bytes[i]>>]
  IN  at[Len(bytes)].state

Reply == [i \in 1..(HeadSize + BodySize) |-> i]

\* What sendmsg leaves over: of header and body, or of the body alone.
LeftOverOfBoth(n) ==
  IF n < HeadSize THEN SubSeq(Reply, n + 1, HeadSize + BodySize) ELSE SubSeq(Reply, HeadSize + 1, HeadSize + BodySize)
LeftOver(n) ==
  IF n < HeadSize THEN SubSeq(Reply, n + 1, HeadSize + BodySize)
  ELSE SubSeq(SubSeq(Reply, HeadSize + 1, HeadSize + BodySize), n - HeadSize + 1, BodySize)

Lesser(a, b) == IF a < b THEN a ELSE b

Put(k, bytes) == [k EXCEPT !.out = @ \o bytes, !.unread = @ + Len(bytes)]

\* read(): nothing for a query without its end; a reset connection takes nothing.
Read(k, line) ==
  IF "?" \in {line[i] : i \in DOMAIN line} \/ gone = "aborts" THEN k
  ELSE LET n == Lesser(room - k.unread, HeadSize + BodySize) IN
       [Put(k, SubSeq(Reply, 1, n)) EXCEPT !.rest = IF n = HeadSize + BodySize THEN <<>> ELSE LeftOver(n)]

FirstEnd == CHOOSE i \in 1..(Len(request) + 1) :
              /\ i \in DOMAIN request => request[i] \in {"cr", "lf"}
              /\ \A j \in 1..(i - 1) : request[j] \notin {"cr", "lf"}

\* recv(): one read of what there is and of what fits m_read_b.  A read of nothing
\* into a full buffer looks like the end of the stream.
Recv(k) ==
  LET n     == Lesser(sent - k.read, ReadBuffer - k.filled)
      ends  == k.filled = ReadBuffer \/ (n = 0 /\ gone = "closes")
      bytes == SubSeq(request, k.read + 1, k.read + n)
      after == [k EXCEPT !.read = @ + n, !.filled = @ + n, !.state = Parsed(k.state, bytes)]
  IN  CASE gone = "aborts" -> [k EXCEPT !.failed = TRUE]
        [] gone # "aborts" /\ ends -> [k EXCEPT !.state = 5]
        [] gone # "aborts" /\ ~ends /\ n = 0 -> k
        [] gone # "aborts" /\ ~ends /\ n > 0 /\ k.state = 5 -> [k EXCEPT !.read = @ + n]
        [] OTHER -> IF k.state = 0 /\ after.state # 0
                    THEN Read([after EXCEPT !.answers = @ + 1], SubSeq(request, 1, FirstEnd - 1))
                    ELSE after

\* send(): what fits of m_r.
Send(k) ==
  LET n == Lesser(room - k.unread, Len(k.rest)) IN
  CASE k.rest = <<>> -> k
    [] k.rest # <<>> /\ gone = "aborts" -> [k EXCEPT !.failed = TRUE]
    [] OTHER -> [Put(k, SubSeq(k.rest, 1, n)) EXCEPT !.rest = SubSeq(@, n + 1, Len(@))]

\* process_events: read, then write, then close when both have ended.
Processed(in, out) ==
  UNION {{IF out /\ ~a.failed THEN Send(a) ELSE a} : a \in {IF in THEN Recv(c) ELSE c}}
Ends(k) == k.failed \/ (k.state = 5 /\ k.rest = <<>>)
Readable(k) == sent > k.read \/ gone # "no"
Writable(k) == k.unread < room \/ gone = "aborts"

Init ==
  /\ request \in Requests /\ room \in Rooms
  /\ address \in Addresses /\ denied \in DenyLists
  /\ sent = 0 /\ gone = "no" /\ c = Accepted
  /\ conn = "new" /\ why = "" /\ ready = FALSE

Goes(k, alive) ==
  /\ c' = k
  /\ conn' = IF Ends(k) THEN "closed" ELSE "open"
  /\ why' = IF k.failed THEN "error" ELSE IF Ends(k) THEN "served" ELSE ""
  /\ ready' = (~Ends(k) /\ alive)

\* Cserver::accept: what has arrived is read before the socket joins epoll, which
\* looks at it once more then.
Accept ==
  /\ conn = "new" /\ ~Denies(denied, address)
  /\ \E k \in Processed(TRUE, FALSE) : Goes(k, Readable(k) \/ Writable(k))
  /\ UNCHANGED <<choice, sent, gone>>

Refuse ==
  /\ conn = "new" /\ Denies(denied, address)
  /\ conn' = "refused"
  /\ UNCHANGED <<choice, sent, gone, c, why, ready>>

\* Cserver::run: epoll reports the socket.
Deliver ==
  /\ conn = "open" /\ ready
  /\ \E k \in Processed(Readable(c), Writable(c)) : Goes(k, FALSE)
  /\ UNCHANGED <<choice, sent, gone>>

\* run(): more than ten seconds after it was accepted.
Expire ==
  /\ conn = "open"
  /\ conn' = "closed" /\ why' = "late" /\ ready' = FALSE
  /\ UNCHANGED <<choice, sent, gone, c>>

Edge == ready' = (ready \/ conn = "open")

\* The client sends n more bytes, closes its side, resets the connection, or
\* reads n bytes of the answer: room in a socket that was full is an edge.
ClientSends ==
  /\ gone = "no" /\ conn \in {"new", "open"}
  /\ \E n \in 1..(Len(request) - sent) : sent' = sent + n
  /\ Edge
  /\ UNCHANGED <<choice, gone, c, conn, why>>

ClientGoes ==
  /\ gone = "no" /\ conn \in {"new", "open"}
  /\ gone' \in {"closes", "aborts"}
  /\ Edge
  /\ UNCHANGED <<choice, sent, c, conn, why>>

ClientReads ==
  /\ gone # "aborts" /\ c.unread > 0
  /\ \E n \in 1..c.unread : c' = [c EXCEPT !.unread = @ - n]
  /\ ready' = (ready \/ (conn = "open" /\ c.unread = room))
  /\ UNCHANGED <<choice, sent, gone, conn, why>>

Next == Accept \/ Refuse \/ Deliver \/ Expire \/ ClientSends \/ ClientGoes \/ ClientReads

Spec == Init /\ [][Next]_vars

\* epoll reports what is ready and the tracker accepts; the client sends its
\* request and reads.  Nothing is assumed of the time limit.
LiveSpec == Spec /\ WF_vars(Accept \/ Refuse) /\ WF_vars(Deliver)
                 /\ WF_vars(ClientSends) /\ WF_vars(ClientReads)

-----------------------------------------------------------------------------
\* A request whose lines all end in CRLF, the last one empty, and that fits.
Proper(r) ==
  /\ Len(r) \in 4..ReadBuffer /\ "?" \notin {r[i] : i \in DOMAIN r}
  /\ SubSeq(r, Len(r) - 3, Len(r)) = <<"cr", "lf", "cr", "lf">>
  /\ \A i \in 1..(Len(r) - 4) : r[i] = "cr" => r[i + 1] = "lf" /\ r[i + 2] \notin {"cr", "lf"}
  /\ \A i \in DOMAIN r : r[i] = "lf" => i > 1 /\ r[i - 1] = "cr"

InRange(list, a) == \E e \in DOMAIN list : list[e] <= a /\ a <= e
Apart(list) == \A e, o \in DOMAIN list : list[e] <= e /\ (o < e => o < list[e])

(* However a request in CRLF lines is cut into reads, and however little the   *)
(* socket takes at a time, it is answered once, the answer goes out in order,  *)
(* and the connection is closed only when all of it is out.  A host is turned  *)
(* away exactly when a range of the list holds it, if no two overlap (recv,    *)
(* send, read, process_events, accept).                                        *)
AnswersExact ==
  /\ c.answers <= 1 /\ IsPrefix(c.out, Reply)
  /\ why = "served" /\ Proper(request) /\ sent = Len(request) => c.out = Reply
  /\ Apart(denied) /\ conn # "new" => (conn = "refused" <=> InRange(denied, address))

(* It is closed without the ten second limit, unless the client closes its     *)
(* side in the middle of the request, which one read for an edge may not       *)
(* notice (connection.cpp:41).                                                 *)
EndsByItself ==
  Proper(request) /\ [](gone # "no" => sent = Len(request)) => <>(conn \in {"refused", "closed"})
=============================================================================
