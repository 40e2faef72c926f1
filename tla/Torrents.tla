------------------------------ MODULE Torrents ------------------------------
(***************************************************************************)
(* What the client knows of the pieces of its torrents, and what of it     *)
(* outlives the process: torrents are opened, checked, downloaded, closed, *)
(* saved to state.bin, and read back by the next process, after an orderly *)
(* stop or a crash (Cserver, Cbt_file and Cbt_hasher of xbt/BT Test).      *)
(*                                                                         *)
(* A torrent's pieces are 1..N(t), and piece p lies in the sub files       *)
(* Spans[t][p].  They are in one of three places: the directory of         *)
(* complete torrents, that of incomplete ones, or, while the name of the   *)
(* torrent has no directory, the working directory ("none").               *)
(*                                                                         *)
(* The limit of open torrents and the HTTP links that keep a stopping      *)
(* process alive are in ClientLoop; here a queued torrent may find room or *)
(* not, and a stopping process ends at any time.                           *)
(***************************************************************************)
EXTENDS Integers, Sequences, FiniteSets

CONSTANTS
  Torrent,
  Spans,     (* torrent -> sequence of the sub files of each piece           *)
  ByUrl,     (* torrents that may be opened without their info               *)
  PerTurn,   (* pieces checked in a turn: max(1, (4 << 20) / mcb_piece)      *)
  Losable    (* torrents of which a user may delete sub files                *)

N(t)     == Len(Spans[t])
Piece(t) == 1..N(t)
SubFile  == UNION {UNION {Spans[t][p] : p \in Piece(t)} : t \in Torrent}

ASSUME TorrentsAssumption ==
  /\ Spans \in [Torrent -> Seq(SUBSET SubFile)]
  /\ \A t \in Torrent : \A p \in Piece(t) : Spans[t][p] # {}
  /\ ByUrl \subseteq Torrent /\ Losable \subseteq Torrent
  /\ PerTurn \in Nat \ {0}

VARIABLES
  phase,     (* "down", "running", or "stopping" (it waits for HTTP links)   *)
  listed,    (* m_files                                                      *)
  tor,       (* the Cbt_file of each listed torrent (see New)                *)
  there,     (* torrent -> place -> sub files that exist                     *)
  disk,      (* torrent -> place -> pieces whose bytes are right there       *)
  saved,     (* state.bin: a record for each torrent in it, or NotSaved      *)
  fileLies,  (* history: torrents of which state.bin may claim too much      *)
  lies       (* history: torrents of which the process may                   *)

files == <<there, disk>>
vars  == <<phase, listed, tor, files, saved, fileLies, lies>>

State    == {"queued", "hashing", "running", "paused", "stopped"}
Place    == {"none", "incompletes", "completes"}
NoHasher == -1

\* A new Cbt_file; at is m_i of its hasher.
New(i) == [state |-> "queued", at |-> NoHasher, validate |-> TRUE, info |-> i,
           valid |-> {}, left |-> -1, place |-> "none"]

NotSaved == [state |-> "unknown"]

IsOpen(r)     == r.state \in {"hashing", "running", "paused"}
Missing(t, v) == Cardinality(Piece(t) \ v)

-----------------------------------------------------------------------------
\* The directory open() puts a name in, which has none yet.
Directory(t, r) ==
  IF r.place # "none" THEN r.place
  ELSE IF there[t]["completes"] # {} THEN "completes" ELSE "incompletes"

\* What is missing is not looked for.
OpenedBlindly(t, r) ==
  IF IsOpen(r) THEN r
  ELSE IF r.info /\ r.validate
       THEN [r EXCEPT !.place = Directory(t, r), !.left = 0, !.at = 0, !.state = "hashing"]
       ELSE [r EXCEPT !.place = Directory(t, r), !.left = Missing(t, r.valid), !.state = "running"]

\* A check goes on counting where an earlier one was broken off.
OpenedOnTop(t, r) ==
  IF IsOpen(r) THEN r
  ELSE IF r.info /\ r.validate
       THEN [r EXCEPT !.place = Directory(t, r), !.at = 0, !.state = "hashing"]
       ELSE [r EXCEPT !.place = Directory(t, r), !.left = Missing(t, r.valid), !.state = "running"]

\* Cbt_file::open.  The name gets its directory; pieces in a sub file that cannot be
\* opened are not valid; without m_validate the hasher only counts them, at once.
Opened(t, r) ==
  LET pl == Directory(t, r)
      v  == {p \in r.valid : Spans[t][p] \subseteq there[t][pl]}
  IN IF IsOpen(r) THEN r
     ELSE IF ~r.info THEN [r EXCEPT !.state = "running"]
     ELSE IF r.validate
          THEN [r EXCEPT !.place = pl, !.valid = v, !.left = 0, !.at = 0, !.state = "hashing"]
          ELSE [r EXCEPT !.place = pl, !.valid = v, !.left = Missing(t, v), !.state = "running"]

\* Cbt_file::close.
Closed(r) ==
  IF IsOpen(r)
  THEN [r EXCEPT !.validate = r.at # NoHasher, !.at = NoHasher, !.state = "stopped"]
  ELSE r

\* Cbt_file::save_state.
Written(r, intermediate) ==
  [state |-> r.state, info |-> r.info, valid |-> r.valid, place |-> r.place,
   validate |-> (intermediate /\ r.left # 0) \/ r.validate]

\* Cbt_file::load_state: what was open is opened, with nothing else remembered of it.
Loaded(t, e) ==
  LET r == [New(e.info) EXCEPT !.validate = e.validate, !.valid = e.valid, !.place = e.place]
  IN IF IsOpen(e) THEN Opened(t, [r EXCEPT !.state = "stopped"])
     ELSE [r EXCEPT !.state = e.state]

\* A name without a directory is about to get one, and what is known of the working
\* directory is not checked again.
Misled(r) == r.info /\ r.place = "none" /\ ~r.validate

-----------------------------------------------------------------------------
Init ==
  /\ phase = "down" /\ listed = {}
  /\ tor = [t \in Torrent |-> New(TRUE)]
  /\ there = [t \in Torrent |-> [pl \in Place |-> {}]]
  /\ disk = [t \in Torrent |-> [pl \in Place |-> {}]]
  /\ saved = [t \in Torrent |-> NotSaved]
  /\ fileLies = {} /\ lies = {}

Up == phase # "down"

\* Cserver::run up to its loop.
Start ==
  LET known == {t \in Torrent : saved[t] # NotSaved}
  IN /\ phase = "down" /\ phase' = "running"
     /\ listed' = known
     /\ tor' = [t \in Torrent |-> IF t \in known THEN Loaded(t, saved[t]) ELSE New(TRUE)]
     /\ lies' = fileLies \cup {t \in known : Misled(saved[t])}
     /\ UNCHANGED <<files, saved, fileLies>>

\* Cbt_file::hash: the next PerTurn pieces, or the end of the check.
Hash(t) ==
  LET r == tor[t]
      n == IF r.at + PerTurn <= N(t) THEN PerTurn ELSE N(t) - r.at
      c == (r.at + 1)..(r.at + n)
      v == (r.valid \ c) \cup (c \cap disk[t][r.place])
      s == [r EXCEPT !.valid = v, !.left = r.left + Cardinality(c \ v)]
  IN /\ Up /\ t \in listed /\ r.at # NoHasher
     /\ tor' = [tor EXCEPT ![t] =
          IF n = PerTurn THEN [s EXCEPT !.at = r.at + n]
          ELSE [s EXCEPT !.at = NoHasher, !.validate = FALSE, !.state = "running"]]
     /\ lies' = IF n = PerTurn THEN lies ELSE lies \ {t}
     /\ UNCHANGED <<phase, listed, files, saved, fileLies>>

\* pre_select: a complete torrent that has been uploaded enough is closed.
RatioReached(t) ==
  /\ Up /\ t \in listed
  /\ tor[t].at = NoHasher /\ tor[t].state = "running" /\ tor[t].left = 0
  /\ tor' = [tor EXCEPT ![t] = Closed(@)]
  /\ UNCHANGED <<phase, listed, files, saved, fileLies, lies>>

\* Links are polled: the torrent is open and not being checked.
Polled(t) == Up /\ t \in listed /\ IsOpen(tor[t]) /\ tor[t].at = NoHasher

\* write_data of a chunk that does not complete a right piece p: missing sub files are
\* made, and a write that fails pauses the torrent.
Chunk(t, p, fails) ==
  LET pl == tor[t].place IN
    /\ Polled(t) /\ tor[t].info /\ p \notin tor[t].valid
    /\ there' = [there EXCEPT ![t][pl] = @ \cup Spans[t][p]]
    /\ tor' = IF fails THEN [tor EXCEPT ![t].state = "paused"] ELSE tor
    /\ fileLies' = IF Spans[t][p] \subseteq there[t][pl] THEN fileLies ELSE fileLies \cup {t}
    /\ UNCHANGED <<phase, listed, disk, saved, lies>>

\* A piece that is completed sets its torrent running.
CompleteResumes(t, p, moves) ==
  /\ Polled(t) /\ tor[t].info /\ p \notin tor[t].valid /\ ~moves
  /\ tor' = [tor EXCEPT ![t].valid = @ \cup {p}, ![t].left = @ - 1, ![t].state = "running"]
  /\ there' = [there EXCEPT ![t][tor[t].place] = @ \cup Spans[t][p]]
  /\ disk' = [disk EXCEPT ![t][tor[t].place] = @ \cup {p}]
  /\ UNCHANGED <<phase, listed, saved, fileLies, lies>>

\* write_data of the chunk that completes piece p; the last piece moves the sub files
\* to the directory of complete torrents, unless the rename fails.
Complete(t, p, moves) ==
  LET r  == tor[t]
      th == there[t][r.place] \cup Spans[t][p]
      dk == disk[t][r.place] \cup {p}
  IN /\ Polled(t) /\ r.info /\ p \notin r.valid
     /\ moves => r.left = 1 /\ r.place = "incompletes"
     /\ tor' = [tor EXCEPT ![t].valid = @ \cup {p}, ![t].left = @ - 1,
                           ![t].place = IF moves THEN "completes" ELSE @]
     /\ there' = [there EXCEPT ![t] =
          IF moves THEN [@ EXCEPT !["completes"] = th, !["incompletes"] = {}]
          ELSE [@ EXCEPT ![r.place] = th]]
     /\ disk' = [disk EXCEPT ![t] =
          IF moves THEN [@ EXCEPT !["completes"] = dk, !["incompletes"] = {}]
          ELSE [@ EXCEPT ![r.place] = dk]]
     /\ fileLies' = IF ~moves /\ Spans[t][p] \subseteq there[t][r.place]
                    THEN fileLies ELSE fileLies \cup {t}
     /\ UNCHANGED <<phase, listed, saved, lies>>

\* read_info: open() does nothing, as the torrent is open: no directory, no check.
ReadInfo(t) ==
  /\ Polled(t) /\ ~tor[t].info
  /\ tor' = [tor EXCEPT ![t].info = TRUE, ![t].place = "none"]
  /\ UNCHANGED <<phase, listed, files, saved, fileLies, lies>>

-----------------------------------------------------------------------------
(* Commands of the user, by an administration link or the window.          *)

\* Cserver::open.
OpenTorrent(t, room) ==
  /\ Up /\ t \notin listed
  /\ listed' = listed \cup {t}
  /\ tor' = [tor EXCEPT ![t] = IF room THEN Opened(t, New(TRUE)) ELSE New(TRUE)]
  /\ lies' = lies \ {t}
  /\ UNCHANGED <<phase, files, saved, fileLies>>

\* Cserver::open_url: the torrent runs without open().
OpenUrl(t, room) ==
  /\ Up /\ t \in ByUrl \ listed
  /\ listed' = listed \cup {t}
  /\ tor' = [tor EXCEPT ![t] =
       IF room THEN [New(FALSE) EXCEPT !.state = "running"] ELSE New(FALSE)]
  /\ lies' = lies \ {t}
  /\ UNCHANGED <<phase, files, saved, fileLies>>

\* Cserver::close.
CloseTorrent(t, erase) ==
  /\ Up /\ t \in listed
  /\ listed' = listed \ {t}
  /\ tor' = [tor EXCEPT ![t] = New(TRUE)]
  /\ IF erase THEN /\ there' = [there EXCEPT ![t][tor[t].place] = {}]
                   /\ disk' = [disk EXCEPT ![t][tor[t].place] = {}]
              ELSE UNCHANGED files
  /\ UNCHANGED <<phase, saved, fileLies, lies>>

\* Cserver::file_state, with Cbt_file::state.
SetState(t, v) ==
  LET opens == v \notin {"queued", "stopped"} /\ ~IsOpen(tor[t])
  IN /\ Up /\ t \in listed
     /\ tor' = [tor EXCEPT ![t] =
          IF opens THEN Opened(t, @)
          ELSE [(IF v \in {"queued", "stopped"} THEN Closed(@) ELSE @) EXCEPT !.state = v]]
     /\ lies' = IF opens /\ Misled(tor[t]) THEN lies \cup {t} ELSE lies
     /\ UNCHANGED <<phase, listed, files, saved, fileLies>>

-----------------------------------------------------------------------------
(* Timers, the end of the process, and what happens behind its back.       *)

\* update_states opens the queued torrents s, for which there is room.
Dequeued(f, s) == [t \in Torrent |-> IF t \in s THEN Opened(t, f[t]) ELSE f[t]]
Queued(f)      == {t \in listed : f[t].state = "queued"}

UpdateStates(s) ==
  /\ phase = "running" /\ s \subseteq Queued(tor)
  /\ tor' = Dequeued(tor, s)
  /\ lies' = lies \cup {t \in s : Misled(tor[t])}
  /\ UNCHANGED <<phase, listed, files, saved, fileLies>>

\* save_state: memory and file now say the same, true or not.
SaveState(intermediate) ==
  /\ saved' = [t \in Torrent |->
                 IF t \in listed THEN Written(tor[t], intermediate) ELSE NotSaved]
  /\ fileLies' = lies \cap listed

Save ==
  /\ phase = "running" /\ SaveState(TRUE)
  /\ UNCHANGED <<phase, listed, tor, files, lies>>

\* The turn that finds SIGTERM or stop(): the state is saved, every torrent is closed,
\* and the timers of the same turn may open queued ones, s, again.
StopTurn(s) ==
  LET f == [t \in Torrent |-> IF t \in listed THEN Closed(tor[t]) ELSE tor[t]]
  IN /\ phase = "running" /\ phase' = "stopping"
     /\ SaveState(FALSE)
     /\ s \subseteq Queued(f) /\ tor' = Dequeued(f, s)
     /\ lies' = lies \cup {t \in s : Misled(f[t])}
     /\ UNCHANGED <<listed, files>>

Down ==
  /\ phase' = "down" /\ listed' = {} /\ lies' = {}
  /\ tor' = [t \in Torrent |-> New(TRUE)]
  /\ UNCHANGED <<files, fileLies>>

\* The loop ends.
Exit == phase = "stopping" /\ Down /\ UNCHANGED saved

\* The process dies.  state.bin is truncated and written in place, so that nothing of
\* it may be left when that happens in a save.
Crash ==
  /\ Up /\ Down
  /\ \/ UNCHANGED saved
     \/ phase = "running" /\ saved' = [t \in Torrent |-> NotSaved]

\* A user deletes a sub file of a torrent that is not open.
Vanish(t, pl, s) ==
  /\ t \in Losable /\ ~(t \in listed /\ IsOpen(tor[t]))
  /\ s \in there[t][pl]
  /\ there' = [there EXCEPT ![t][pl] = @ \ {s}]
  /\ disk' = [disk EXCEPT ![t][pl] = {p \in @ : s \notin Spans[t][p]}]
  /\ UNCHANGED <<phase, listed, tor, saved, fileLies, lies>>

Command ==
  \E t \in Torrent :
    \/ \E room \in BOOLEAN : OpenTorrent(t, room) \/ OpenUrl(t, room)
    \/ \E erase \in BOOLEAN : CloseTorrent(t, erase)
    \/ \E v \in State : SetState(t, v)

Network ==
  \E t \in Torrent :
    \/ RatioReached(t) \/ ReadInfo(t)
    \/ \E p \in Piece(t), b \in BOOLEAN : Chunk(t, p, b) \/ Complete(t, p, b)

Next ==
  \/ Start \/ (\E t \in Torrent : Hash(t)) \/ Network \/ Command
  \/ Save \/ Exit \/ Crash
  \/ \E s \in SUBSET Torrent : UpdateStates(s) \/ StopTurn(s)
  \/ \E t \in Torrent, pl \in Place, s \in SubFile : Vanish(t, pl, s)

Spec == Init /\ [][Next]_vars

-----------------------------------------------------------------------------
(* Properties.                                                             *)

\* Every variable keeps its type.
TypeOK ==
  /\ phase \in {"down", "running", "stopping"} /\ listed \subseteq Torrent
  /\ \A t \in Torrent :
       /\ tor[t].state \in State /\ tor[t].at \in -1..N(t) /\ tor[t].left \in Int
       /\ tor[t].valid \subseteq Piece(t) /\ tor[t].place \in Place
       /\ tor[t].validate \in BOOLEAN /\ tor[t].info \in BOOLEAN
  /\ fileLies \subseteq Torrent /\ lies \subseteq Torrent

\* A torrent that is open and not being checked claims no piece that is not on disk,
\* whatever was stopped, killed, saved, deleted or reopened in between: it would
\* spread wrong bytes.  The code can break this in two ways, which `lies' follows:
\* sub files were made anew after the last save that did not ask for a check, and a
\* crash brings that save back; or a torrent that got its info while open is closed
\* and opened again, and finds other sub files under its new directory.
KnownIsOnDisk ==
  \A t \in listed \ lies :
    IsOpen(tor[t]) /\ tor[t].at = NoHasher => tor[t].valid \subseteq disk[t][tor[t].place]

\* m_left, which says when a torrent is complete, what the tracker is told and whether
\* the next start must check, agrees with the pieces, however often a check is broken
\* off and started again.  A torrent that got its info while open counts from -1
\* down (bt_peer_link.cpp:598): it is never complete before it is opened again.
LeftExact ==
  \A t \in listed :
    IsOpen(tor[t]) /\ tor[t].at = NoHasher /\ tor[t].info
      => \/ tor[t].left = Missing(t, tor[t].valid)
         \/ tor[t].place = "none" /\ tor[t].left = -1 - Cardinality(tor[t].valid)

\* A torrent paused, by a user or by a disk that is full, stays paused until a user
\* says otherwise or the process ends; only the end of a check overrules it
\* (bt_file.cpp:234).
PauseHolds ==
  [][\A t \in listed \cap listed' :
       /\ phase = phase'
       /\ tor[t].state = "paused" /\ tor'[t].state \in {"running", "hashing", "queued"}
       => tor[t].at # NoHasher \/ \E v \in State : SetState(t, v)]_vars
=============================================================================
