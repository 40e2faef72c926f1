------------------------------- MODULE Admin -------------------------------
(***************************************************************************)
(* The administration of the client: the command line program sends a      *)
(* request and waits for the answer, the link of the server               *)
(* (Cbt_admin_link) reads it out of its buffer, lets the server carry it   *)
(* out (Cserver::admin_request) and writes the answer into another.        *)
(*                                                                         *)
(* A message is its length in the buffers and the request in it; of the    *)
(* bytes on their way only the number counts.  The program sends one       *)
(* request after the other, so that no buffer holds more than one.         *)
(***************************************************************************)
EXTENDS Settings

CONSTANTS
  Commands,              (* the command lines: functions from options to values *)
  Servers,               (* the states of the server at the start *)
  Rest,                  (* the user and the pass the program may give *)
  RequestSizes, StatusSizes,  (* the lengths of a request and of an answer with the status *)
  ReadSize, WriteSize    (* the sizes of the buffers, 512 KB in the code *)

VARIABLES
  server,    (* [config, torrents]: what requests read and change *)
  todo,      (* the requests the program still has to send *)
  sent,      (* the request that is on its way, as a sequence; empty if none is *)
  program,   (* "ready", "waits", "done", "failed" *)
  up, down,  (* bytes on their way to the server and to the program *)
  read, write,           (* bytes in m_read_b and m_write_b *)
  close,     (* m_close *)
  gone,      (* the link is closed *)
  got,       (* bytes of the answer the program has *)
  answer,    (* the answer in m_write_b or on its way, as a sequence *)
  shown,     (* what the program has printed *)
  asked, applied         (* history: the requests that were sent and that were carried out *)

link == <<up, down, read, write, close, gone, got, answer>>
vars == <<server, todo, sent, program, link, shown, asked, applied>>

-----------------------------------------------------------------------------
(* The program.                                                            *)

Precedence ==
  <<"close", "erase", "open", "pause", "peer_port", "queue", "start", "stop", "tracker_port", "upload_rate",
    "upload_slots", "user_agent">>
StateOf == [pause |-> "paused", queue |-> "queued", start |-> "running", stop |-> "stopped"]

Request(option, v) ==
  CASE option \in {"close", "erase"} -> [action |-> option, hash |-> HexDecode(v)]
    [] option = "open"            -> [action |-> "open", torrent |-> v]
    [] option \in DOMAIN StateOf  -> [action |-> "set_state", hash |-> HexDecode(v), state |-> StateOf[option]]
    [] option = "upload_rate"     -> [action |-> "set_options", options |-> option :> 1024 * v]
    [] option = "user_agent"      -> [action |-> "set_options", options |-> option :> IF v = <<Minus>> THEN <<>> ELSE v]
    [] OTHER                      -> [action |-> "set_options", options |-> option :> v]

\* main: of several options only the first in its order is carried out; then what is to be
\* shown, the status also if there is no option at all.
Requests(opts) ==
  LET S == {k \in DOMAIN Precedence : Precedence[k] \in DOMAIN opts}
      first == Precedence[Min(S)]
  IN (IF S = {} THEN <<>> ELSE <<Request(first, opts[first])>>)
     \o (IF "options" \in DOMAIN opts THEN <<[action |-> "get_options"]>> ELSE <<>>)
     \o (IF "status" \in DOMAIN opts \/ DOMAIN opts = {} THEN <<[action |-> "get_status"]>> ELSE <<>>)

StripName(name) ==
  LET S == {k \in DOMAIN name : name[k] \in {Slash, 92}}
  IN IF S = {} THEN name ELSE SubSeq(name, Max(S) + 1, Len(name))

OptionFields == {"admin_port", "peer_port", "tracker_port", "upload_rate", "upload_slots", "seeding_ratio",
                 "completes_dir", "incompletes_dir", "torrents_dir", "user_agent"}

\* show_options, where an int that is missing is 0, and show_status.
Printed(a) ==
  CASE DOMAIN a = {"options"} ->
         [f \in OptionFields |-> IF f \in DOMAIN a.options THEN a.options[f] ELSE 0]
    [] DOMAIN a = {"files"} ->
         [h \in DOMAIN a.files |-> [left |-> a.files[h].left, name |-> StripName(a.files[h].name)]]
    [] OTHER -> shown

-----------------------------------------------------------------------------
(* The server.                                                             *)

Authenticated(c, q) ==
  q.user = c.string.admin_user /\ q.pass = c.string.admin_pass /\ Len(q.pass) >= 8

\* Cbt_file::state: a torrent that is not open is opened, whatever state it is to have.
State(t, s) ==
  IF s \in {"queued", "stopped"} THEN [t EXCEPT !.state = s]
  ELSE IF t.state \in {"queued", "stopped"} THEN [t EXCEPT !.state = "hashing"]
  ELSE [t EXCEPT !.state = s]

SetOptions(c, options) ==
  FoldSet(LAMBDA name, d : IF name \in DOMAIN options /\ name # "tracker_port" THEN Put(d, name, options[name]) ELSE d,
          c, DOMAIN options)

Fails == [failure |-> TRUE]
Done  == [x \in {} |-> 0]

\* admin_request: the server after it, and the answer.  The ports are those of the
\* configuration, which the loop opens at its next turn.
AdminRequest(s, q) ==
  IF ~Authenticated(s.config, q) THEN [server |-> s, answer |-> Fails]
  ELSE CASE q.action \in {"close", "erase"} ->
         IF q.hash \notin DOMAIN s.torrents THEN [server |-> s, answer |-> Fails]
         ELSE [server |-> [s EXCEPT !.torrents = Restrict(@, DOMAIN @ \ {q.hash})], answer |-> Done]
    [] q.action = "get_options" ->
         [server |-> s, answer |->
           [options |-> [f \in (OptionFields \cup {"peer_limit", "torrent_limit"}) \ {"tracker_port"} |->
              CASE f \in DOMAIN s.config.int -> s.config.int[f] [] OTHER -> s.config.string[f]]]]
    [] q.action = "get_status" ->
         [server |-> s, answer |-> [files |-> s.torrents]]
    [] q.action = "open" ->
         IF q.torrent.info_hash \in DOMAIN s.torrents THEN [server |-> s, answer |-> Fails]
         ELSE [server |-> [s EXCEPT !.torrents = @ @@
                 (q.torrent.info_hash :> [state |-> "hashing", left |-> q.torrent.size, name |-> q.torrent.name])],
               answer |-> Done]
    [] q.action = "set_options" ->
         [server |-> [s EXCEPT !.config = SetOptions(@, q.options)], answer |-> Done]
    [] q.action = "set_state" ->
         IF q.hash \notin DOMAIN s.torrents THEN [server |-> s, answer |-> Fails]
         ELSE [server |-> [s EXCEPT !.torrents[q.hash] = State(@, q.state)], answer |-> Done]

-----------------------------------------------------------------------------
Init ==
  /\ server \in Servers
  /\ \E opts \in Commands, who \in Rest : todo = [k \in DOMAIN Requests(opts) |-> Requests(opts)[k] @@ who]
  /\ sent = <<>> /\ program = "ready" /\ shown = <<>> /\ asked = <<>> /\ applied = <<>>
  /\ up = 0 /\ down = 0 /\ read = 0 /\ write = 0 /\ close = FALSE /\ gone = FALSE
  /\ got = 0 /\ answer = <<>>

\* send_recv: the request is sent; the link is there, as it closes only on a request.
Send(size) ==
  /\ program = "ready" /\ todo # <<>> /\ ~gone
  /\ asked' = Append(asked, Head(todo)) /\ todo' = Tail(todo)
  /\ program' = "waits" /\ sent' = <<[q |-> Head(todo), size |-> 5 + size]>>
  /\ up' = 5 + size
  /\ UNCHANGED <<server, down, read, write, close, gone, got, answer, shown, applied>>

\* recv: some bytes of the answer, or the end of the link.
Receive ==
  /\ program = "waits"
  /\ \/ \E n \in 1..down :
          /\ down' = down - n /\ got' = got + n
          /\ IF got + n < answer[1].size THEN UNCHANGED <<program, shown, answer, sent>>
             ELSE /\ program' = IF answer[1].a = Fails THEN "failed" ELSE "ready"
                  /\ shown' = IF answer[1].a = Fails THEN shown ELSE Printed(answer[1].a)
                  /\ sent' = <<>> /\ answer' = <<>>
     \/ /\ gone /\ down = 0 /\ program' = "failed" /\ UNCHANGED <<down, got, shown, answer, sent>>
  /\ UNCHANGED <<server, todo, up, read, write, close, gone, asked, applied>>

Exit ==
  /\ program = "ready" /\ todo = <<>> /\ program' = "done"
  /\ UNCHANGED <<server, todo, sent, link, shown, asked, applied>>

\* The first bytes of the buffer are a whole message.
Whole(n) == read + n >= sent[1].size

\* Of n bytes that have come, those there is room for.
Taken(n) == IF n > ReadSize - read THEN ReadSize - read ELSE n

\* post_select of the link when n bytes have come, and can be written if w: recv(), then
\* read_message() if a message is there, and send().  A recv for which no room is left
\* gets no byte and is taken for the end, if bytes wait; if none do, systems differ.
Visit(n, w, size, ends) ==
  LET t == Taken(n)
      whole == sent # <<>> /\ t > 0 /\ Whole(t)
      r == AdminRequest(server, sent[1].q)
      fits == write + 5 + size <= WriteSize
  IN /\ ~gone /\ n \in 0..up /\ (w => write > 0) /\ (n > 0 \/ w)
     /\ up' = up - t
     /\ ends => n > 0 /\ read + t = ReadSize
     /\ (n > t) => ends
     /\ close' = (close \/ ends)
     /\ IF ~whole THEN read' = read + t /\ UNCHANGED <<server, applied>>
        ELSE read' = read + t - sent[1].size /\ server' = r.server /\ applied' = Append(applied, sent[1].q)
     /\ got' = IF whole THEN 0 ELSE got
     /\ \E k \in (IF w THEN 1..write ELSE {0}) :
          /\ down' = down + k
          /\ write' = IF close' THEN 0 ELSE write - k + (IF whole /\ fits THEN 5 + size ELSE 0)
     /\ answer' = IF whole /\ fits THEN <<[a |-> r.answer, size |-> 5 + size]>> ELSE answer
     /\ gone' = close'
     /\ UNCHANGED <<todo, sent, program, shown, asked>>

AnswerSizes == IF sent # <<>> /\ sent[1].q.action = "get_status" THEN StatusSizes ELSE {2}
Serve == \E n \in 0..up, w, ends \in BOOLEAN : \E size \in AnswerSizes : Visit(n, w, size, ends)

Next == \/ \E size \in RequestSizes : Send(size)
        \/ Receive \/ Exit \/ Serve

Spec == Init /\ [][Next]_vars

\* The loop visits a link of which bytes have come or may go, and the program waits for
\* nothing but the link.
LiveSpec == Spec /\ WF_vars(Serve) /\ WF_vars(Receive) /\ WF_vars(Exit)
                 /\ WF_vars(\E size \in RequestSizes : Send(size))

-----------------------------------------------------------------------------
(* Properties.                                                             *)

\* Every request is carried out once and in order, at most one of them that is not
\* answered; the program ends unless an answer does not fit the buffer of the link
\* (bt_admin_link.cpp:119: it is dropped and the program waits), and what it shows is what
\* the server had.  A request as long as the buffer, or longer, ends the link instead.
Exact ==
  /\ applied \in {asked, SubSeq(asked, 1, Len(asked) - 1)}
  /\ program \in {"ready", "done"} => applied = asked
  /\ program = "done" /\ applied # <<>> =>
       LET first == applied[1]
           last == applied[Len(applied)]
       IN /\ todo = <<>> /\ Authenticated(server.config, first)
          /\ last.action = "get_status" =>
               shown = [h \in DOMAIN server.torrents |->
                         [left |-> server.torrents[h].left, name |-> StripName(server.torrents[h].name)]]
          /\ first.action = "set_state" /\ first.hash \in DOMAIN server.torrents =>
               (server.torrents[first.hash].state \in {"queued", "stopped"} <=> first.state \in {"queued", "stopped"})
\* The answer to a status request was dropped, and the program waits for it.
Dropped ==
  /\ program = "waits" /\ ~gone /\ applied = asked /\ answer = <<>>
  /\ asked[Len(asked)].action = "get_status" /\ \E size \in StatusSizes : 5 + size > WriteSize
Ends == <>(program \in {"done", "failed"} \/ Dropped)
=============================================================================
