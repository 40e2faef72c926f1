----------------------------- MODULE ClientLoop -----------------------------
(***************************************************************************)
(* The loop of the client (Cserver::run, xbt/BT Test): which torrents are  *)
(* open, who may open the next one, whose check goes first, and how the    *)
(* process ends.  What a torrent knows of its pieces is in Torrents; here  *)
(* a check lasts any number of turns up to MaxTurns.  Priorities are data: *)
(* any queued torrent may be the best one.                                 *)
(***************************************************************************)
EXTENDS Integers, Sequences, FiniteSets

CONSTANTS
  Torrent,
  TorrentLimit,   (* m_torrent_limit; 0: none                   *)
  MaxTurns,       (* bound: turns a check lasts                 *)
  MaxHttp         (* bound: HTTP links at a time                *)

ASSUME LoopAssumption ==
  /\ IsFiniteSet(Torrent) /\ TorrentLimit \in Nat
  /\ MaxTurns \in Nat /\ MaxHttp \in Nat

VARIABLES
  phase,     (* "down", "running", or "stopping"                       *)
  files,     (* m_files: the listed torrents, in order                 *)
  state,     (* of each torrent                                        *)
  turns,     (* of each torrent: what its hasher has to do; 0: no hasher *)
  http,      (* number of m_http_links                                 *)
  saved,     (* state.bin of a process that was stopped, until it is read *)
  was        (* history: the torrents open when the stop was seen      *)

vars == <<phase, files, state, turns, http, saved, was>>

State  == {"queued", "hashing", "running", "paused", "stopped"}
Open   == {"hashing", "running", "paused"}
Listed == {files[i] : i \in DOMAIN files}

\* is_open, of the torrents of the list.
OpenOnes(f) == {t \in Listed : f[t] \in Open}

BelowTorrentLimit(n) == TorrentLimit = 0 \/ n < TorrentLimit
Up == phase # "down"

-----------------------------------------------------------------------------
\* Each of n closed torrents may make an HTTP link for its stop event.
StopEvents(n) == http' \in http..(IF http + n < MaxHttp THEN http + n ELSE MaxHttp)

\* The torrents s are opened: each is checked for some turns, or not at all.
OpenAll(s, f, k) ==
  \E c \in [s -> 0..MaxTurns] :
    /\ turns' = [t \in Torrent |-> IF t \in s THEN c[t] ELSE k[t]]
    /\ state' = [t \in Torrent |-> IF t \notin s THEN f[t]
                                   ELSE IF c[t] = 0 THEN "running" ELSE "hashing"]

\* A torrent is opened only when there is room for another one as well.
ChosenTimidly(f) ==
  LET queued == {t \in Listed : f[t] = "queued"}
      open   == Cardinality(OpenOnes(f))
  IN {s \in SUBSET queued :
        /\ s # {} => BelowTorrentLimit(open + Cardinality(s))
        /\ s = queued \/ ~BelowTorrentLimit(open + Cardinality(s) + 1)}

\* What update_states opens when the states are f: queued torrents, until none is left
\* or the limit is reached.
Chosen(f) ==
  LET queued == {t \in Listed : f[t] = "queued"}
      open   == Cardinality(OpenOnes(f))
  IN {s \in SUBSET queued :
        /\ s # {} => BelowTorrentLimit(open + Cardinality(s) - 1)
        /\ s = queued \/ ~BelowTorrentLimit(open + Cardinality(s))}

Init ==
  /\ phase = "down" /\ files = <<>> /\ http = 0 /\ saved = <<>>
  /\ state = [t \in Torrent |-> "stopped"] /\ turns = [t \in Torrent |-> 0]
  /\ was = {}

\* load_state opens what was open, whatever the limit; then the version is asked for.
Start ==
  /\ phase = "down" /\ phase' = "running"
  /\ files' = [i \in DOMAIN saved |-> saved[i].id]
  /\ LET f == [t \in Torrent |-> IF \E i \in DOMAIN saved : saved[i].id = t
                 THEN saved[CHOOSE i \in DOMAIN saved : saved[i].id = t].state
                 ELSE "stopped"]
     IN OpenAll({t \in Torrent : f[t] \in Open}, f, turns)
  /\ StopEvents(1)
  /\ saved' = <<>> /\ was' = {}

\* Only the torrent at the head of the list is looked at.
HashHead(i) ==
  LET t == files[i] IN
    /\ Up /\ turns[t] > 0 /\ i = 1
    /\ turns' = [turns EXCEPT ![t] = @ - 1]
    /\ state' = [state EXCEPT ![t] = IF turns[t] = 1 THEN "running" ELSE @]
    /\ UNCHANGED <<phase, files, http, saved, was>>

\* The first torrent with a hasher gets its turn, and then the next one if that was
\* its last; the state is set when a check ends, whatever it was.
Hash(i) ==
  LET t == files[i] IN
    /\ Up /\ turns[t] > 0 /\ \A j \in 1..(i - 1) : turns[files[j]] = 0
    /\ turns' = [turns EXCEPT ![t] = @ - 1]
    /\ state' = [state EXCEPT ![t] = IF turns[t] = 1 THEN "running" ELSE @]
    /\ UNCHANGED <<phase, files, http, saved, was>>

Closing(t, v) ==
  /\ state' = [state EXCEPT ![t] = v]
  /\ turns' = [turns EXCEPT ![t] = 0]
  /\ IF state[t] \in Open THEN StopEvents(1) ELSE UNCHANGED http

\* pre_select closes a torrent that has been uploaded enough.
RatioReached(t) ==
  /\ Up /\ t \in Listed /\ state[t] = "running" /\ turns[t] = 0
  /\ Closing(t, "stopped")
  /\ UNCHANGED <<phase, files, saved, was>>

\* A write fails.
DiskFull(t) ==
  /\ Up /\ t \in Listed /\ state[t] \in Open /\ turns[t] = 0
  /\ state' = [state EXCEPT ![t] = "paused"]
  /\ UNCHANGED <<phase, files, turns, http, saved, was>>

-----------------------------------------------------------------------------
(* Commands of the user.                                                   *)

\* open and open_url; the latter never checks.
OpenTorrent(t) ==
  /\ Up /\ t \notin Listed /\ files' = Append(files, t)
  /\ IF BelowTorrentLimit(Cardinality(OpenOnes(state))) THEN OpenAll({t}, state, turns)
     ELSE state' = [state EXCEPT ![t] = "queued"] /\ UNCHANGED turns
  /\ UNCHANGED <<phase, http, saved, was>>

CloseTorrent(t) ==
  /\ Up
  /\ \E i \in DOMAIN files :
       files[i] = t /\ files' = SubSeq(files, 1, i - 1) \o SubSeq(files, i + 1, Len(files))
  /\ Closing(t, "stopped")
  /\ UNCHANGED <<phase, saved, was>>

SetState(t, v) ==
  /\ Up /\ t \in Listed
  /\ IF v \in {"queued", "stopped"} THEN Closing(t, v)
     ELSE /\ IF state[t] \in Open THEN state' = [state EXCEPT ![t] = v] /\ UNCHANGED turns
             ELSE OpenAll({t}, state, turns)
          /\ UNCHANGED http
  /\ UNCHANGED <<phase, files, saved, was>>

Command ==
  \E t \in Torrent : OpenTorrent(t) \/ CloseTorrent(t) \/ \E v \in State : SetState(t, v)

-----------------------------------------------------------------------------
UpdateStates ==
  /\ phase = "running" /\ \E s \in Chosen(state) : OpenAll(s, state, turns)
  /\ UNCHANGED <<phase, files, http, saved, was>>

\* save_state.
SaveState(f) == saved' = [i \in DOMAIN files |-> [id |-> files[i], state |-> f[files[i]]]]

\* The torrents are closed before they are saved.
StopTurnSavesLast ==
  LET f == [t \in Torrent |-> IF state[t] \in Open THEN "stopped" ELSE state[t]]
  IN /\ phase = "running" /\ phase' = "stopping"
     /\ SaveState(f)
     /\ StopEvents(Cardinality(OpenOnes(state)))
     /\ \E s \in {{}} \cup Chosen(f) : OpenAll(s, f, [t \in Torrent |-> 0])
     /\ was' = OpenOnes(state)
     /\ UNCHANGED files

\* The turn that finds SIGTERM or stop(): the state is saved, then every torrent is
\* closed; the timers of the same turn may open queued ones again.
StopTurn ==
  LET f == [t \in Torrent |-> IF state[t] \in Open THEN "stopped" ELSE state[t]]
  IN /\ phase = "running" /\ phase' = "stopping"
     /\ SaveState(state)
     /\ StopEvents(Cardinality(OpenOnes(state)))
     /\ \E s \in {{}} \cup Chosen(f) : OpenAll(s, f, [t \in Torrent |-> 0])
     /\ was' = OpenOnes(state)
     /\ UNCHANGED files

HttpEnds ==
  /\ Up /\ http > 0 /\ http' = http - 1
  /\ UNCHANGED <<phase, files, state, turns, saved, was>>

\* The loop goes on while a torrent is open.
ExitClosed ==
  /\ phase = "stopping" /\ http = 0 /\ OpenOnes(state) = {} /\ phase' = "down"
  /\ files' = <<>> /\ http' = 0
  /\ state' = [t \in Torrent |-> "stopped"] /\ turns' = [t \in Torrent |-> 0]
  /\ UNCHANGED <<saved, was>>

\* The loop goes on while there is an HTTP link.
Exit ==
  /\ phase = "stopping" /\ http = 0 /\ phase' = "down"
  /\ files' = <<>> /\ http' = 0
  /\ state' = [t \in Torrent |-> "stopped"] /\ turns' = [t \in Torrent |-> 0]
  /\ UNCHANGED <<saved, was>>

Next ==
  \/ Start \/ (\E i \in DOMAIN files : Hash(i))
  \/ (\E t \in Torrent : RatioReached(t) \/ DiskFull(t))
  \/ Command \/ UpdateStates \/ StopTurn \/ HttpEnds \/ Exit

Spec == Init /\ [][Next]_vars

\* The loop turns: checks and timers get their turn, and it sees that it should end.
\* An HTTP link ends when its peer answers or closes, or TCP gives it up: the program
\* itself has no timeout for it.
LiveSpec ==
  Spec /\ WF_vars(\E i \in DOMAIN files : Hash(i)) /\ WF_vars(UpdateStates)
       /\ WF_vars(HttpEnds) /\ WF_vars(Exit)

-----------------------------------------------------------------------------
(* Properties.                                                             *)

\* Users leave the program alone from some time on.
CommandsCease == <>[][~Command]_vars

\* A queued torrent is opened unless the limit is reached, also when others are closed
\* by their seeding ratio, paused by a full disk or checked for a long time meanwhile.
QueueMoves ==
  \A t \in Torrent :
    (phase = "running" /\ t \in Listed /\ state[t] = "queued")
      ~> (\/ t \notin Listed \/ state[t] # "queued" \/ phase # "running"
          \/ ~BelowTorrentLimit(Cardinality(OpenOnes(state))))

\* One check at a time, in the order of the list (server.cpp:336): every check comes to
\* its end although those before it go first.
ChecksEnd ==
  CommandsCease => \A t \in Torrent : (phase = "running" /\ turns[t] > 0)
                     ~> (turns[t] = 0 \/ phase # "running")

\* A process that was asked to stop ends (server.cpp:297): the stop events it sends
\* then, and torrents opened again meanwhile, do not keep it alive for ever.
StopEnds == CommandsCease => (phase = "stopping" ~> phase = "down")

\* After an orderly stop the next process has just the torrents open that were open then:
\* what a user does while the process is stopping is forgotten (server.cpp:423).
ResumesAsLeft ==
  [][phase = "down" /\ phase' = "running" => OpenOnes(state)' = was]_vars
=============================================================================
