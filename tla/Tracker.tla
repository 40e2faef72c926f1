------------------------------ MODULE Tracker ------------------------------
(***************************************************************************)
(* The announce state of the tracker (Cserver of xbt/Tracker): which peers *)
(* share which file, the counters kept beside them for files and users,    *)
(* and the SQL tables that are read and written behind them.               *)
(*                                                                         *)
(* The tracker is one thread: an announce, a clean-up or a visit to the    *)
(* database is one step.  In between, the administrator edits the tables,  *)
(* a query fails, or the process dies and starts again from the tables.    *)
(***************************************************************************)
EXTENDS Integers, FiniteSets

CONSTANTS File,          (* info hashes, in the order of m_files              *)
          Host,          (* peer addresses: the key of a peer (no PEERS_KEY)  *)
          User,          (* uids                                              *)
          NoUser,        (* uid 0: an anonymous or UDP announce               *)
          NoPeer,        (* "the host has no peer in this file"               *)
          AutoRegister, Anonymous,     (* auto_register, anonymous_announce   *)
          CanLeech,      (* users with can_leech                              *)
          Waits,         (* users with a wait_time                            *)
          TorrentsLimit, PeersLimit,   (* of each user, 0 is no limit         *)
          Deletable,     (* files whose row may be flagged for deletion       *)
          Removable,     (* users who may leave and re-enter the users table  *)
          DbMayFail, MayCrash

ASSUME TrackerAssumption ==
  /\ File \subseteq Nat /\ IsFiniteSet(File) /\ IsFiniteSet(Host)
  /\ NoUser \notin User
  /\ NoPeer \notin [uid : User \cup {NoUser}, left : BOOLEAN]
  /\ AutoRegister \in BOOLEAN /\ Anonymous \in BOOLEAN
  /\ CanLeech \subseteq User /\ Waits \subseteq User
  /\ TorrentsLimit \in [User -> Nat] /\ PeersLimit \in [User -> Nat]
  /\ Deletable \subseteq File /\ Removable \subseteq User
  /\ DbMayFail \in BOOLEAN /\ MayCrash \in BOOLEAN

VARIABLES
  files,        (* the files in m_files                                      *)
  peer,         (* t_file::peers: the peer of each host, or NoPeer           *)
  leechers, seeders,          (* of each file                                *)
  dirty,        (* files with t_file::dirty                                  *)
  fid,          (* files with a t_file::fid                                  *)
  users,        (* the users in m_users                                      *)
  incompletes, completes,     (* of each user                                *)
  pend,         (* m_files_users_updates_buffer: the last `active` queued    *)
  rows,         (* xbt_files: the files that have a row                      *)
  seen,         (* rows below m_fid_end                                      *)
  flagged,      (* rows with flags & 1                                       *)
  behind,       (* files whose row does not hold the counts of the memory    *)
  active,       (* xbt_files_users: file and user with active = 1            *)
  dbUsers,      (* xbt_users                                                 *)
  up            (* "files", "users": what a starting tracker reads; "serving" *)

swarmVars == <<files, peer, leechers, seeders>>
userVars  == <<users, incompletes, completes>>
tableVars == <<rows, seen, flagged, active>>
vars == <<swarmVars, userVars, tableVars, dirty, fid, pend, behind, dbUsers, up>>

-----------------------------------------------------------------------------
PeerType == [uid : User \cup {NoUser}, left : BOOLEAN]

\* The peers of a file, the leeching and the seeding ones.
Present(f)  == {h \in Host : peer[f][h] # NoPeer}
Leeching(f) == {h \in Present(f) : peer[f][h].left}
Seeding(f)  == {h \in Present(f) : ~peer[f][h].left}

\* The peers of a user in all files.
PeersOf(u, left) == {x \in File \X Host : peer[x[1]][x[2]] = [uid |-> u, left |-> left]}

One(b) == IF b THEN 1 ELSE 0

\* find_user_by_uid: the counters of the users in the table lose the peers X.
Uncharge(X) ==
  /\ incompletes' = [u \in User |-> IF u \in users
                       THEN incompletes[u] - Cardinality(PeersOf(u, TRUE) \cap X)
                       ELSE incompletes[u]]
  /\ completes' = [u \in User |-> IF u \in users
                     THEN completes[u] - Cardinality(PeersOf(u, FALSE) \cap X)
                     ELSE completes[u]]

-----------------------------------------------------------------------------
Init ==
  /\ files = {} /\ dirty = {} /\ fid = {} /\ users = {}
  /\ peer = [f \in File |-> [h \in Host |-> NoPeer]]
  /\ leechers = [f \in File |-> 0] /\ seeders = leechers
  /\ incompletes = [u \in User |-> 0] /\ completes = incompletes
  /\ pend = [x \in File \X User |-> "none"]
  /\ rows = {} /\ seen = {} /\ flagged = {} /\ behind = {} /\ active = {}
  /\ dbUsers = User
  /\ up = "files"

-----------------------------------------------------------------------------
(* Announces (insert_peer).                                                *)

\* An announce is looked at: the user may announce, and the file is tracked.
Heard(f, u, left) ==
  /\ up = "serving"
  /\ Anonymous \/ u # NoUser
  /\ AutoRegister \/ f \in files
  /\ left /\ u \in User => u \in CanLeech

\* One more than the limit is let in.
OverLimitLate(f, h, u, left) ==
  /\ peer[f][h] = NoPeer /\ left /\ u \in User
  /\ TorrentsLimit[u] # 0 /\ incompletes[u] > TorrentsLimit[u]

\* The limits, which are looked at for a host that has no peer in the file yet.
OverLimit(f, h, u, left) ==
  /\ peer[f][h] = NoPeer /\ left /\ u \in User
  /\ \/ TorrentsLimit[u] # 0 /\ incompletes[u] >= TorrentsLimit[u]
     \/ /\ PeersLimit[u] # 0
        /\ Cardinality({g \in Leeching(f) : peer[f][g].uid = u}) >= PeersLimit[u]

\* The file that is created is not dirty.
RefuseClean(f, h, u, left) ==
  /\ Heard(f, u, left)
  /\ (left /\ u \in Waits) \/ OverLimit(f, h, u, left)
  /\ files' = files \cup {f}
  /\ behind' = behind \cup ({f} \ files)
  /\ UNCHANGED <<peer, leechers, seeders, userVars, tableVars, dirty, fid, pend, dbUsers, up>>

\* A refusal for wait_time or for a limit: the file has been created by then.
Refuse(f, h, u, left) ==
  /\ Heard(f, u, left)
  /\ (left /\ u \in Waits) \/ OverLimit(f, h, u, left)
  /\ files' = files \cup {f}
  /\ dirty' = dirty \cup ({f} \ files)
  /\ behind' = behind \cup ({f} \ files)
  /\ UNCHANGED <<peer, leechers, seeders, userVars, tableVars, fid, pend, dbUsers, up>>

\* The peer the host had is not taken off the counters.
AnnounceTwice(f, h, u, left, stopped) ==
  /\ Heard(f, u, left) /\ ~OverLimit(f, h, u, left)
  /\ files' = files \cup {f}
  /\ peer' = [peer EXCEPT ![f][h] = IF stopped THEN NoPeer ELSE [uid |-> u, left |-> left]]
  /\ leechers' = [leechers EXCEPT ![f] = @ + One(~stopped /\ left)]
  /\ seeders' = [seeders EXCEPT ![f] = @ + One(~stopped /\ ~left)]
  /\ incompletes' = [w \in User |-> incompletes[w] + One(w = u /\ ~stopped /\ left)]
  /\ completes' = [w \in User |-> completes[w] + One(w = u /\ ~stopped /\ ~left)]
  /\ dirty' = dirty \cup {f} /\ behind' = behind \cup {f}
  /\ UNCHANGED <<users, tableVars, fid, pend, dbUsers, up>>

\* The peer that the host had, of whichever user, makes place for the new one.
Announce(f, h, u, left, stopped) ==
  LET old     == peer[f][h]
      was(l)  == old # NoPeer /\ old.left = l
      is(l)   == ~stopped /\ left = l
      of(w,l) == old = [uid |-> w, left |-> l] /\ w \in users IN
  /\ Heard(f, u, left) /\ ~OverLimit(f, h, u, left)
  /\ files' = files \cup {f}
  /\ peer' = [peer EXCEPT ![f][h] = IF stopped THEN NoPeer ELSE [uid |-> u, left |-> left]]
  /\ leechers' = [leechers EXCEPT ![f] = @ - One(was(TRUE)) + One(is(TRUE))]
  /\ seeders' = [seeders EXCEPT ![f] = @ - One(was(FALSE)) + One(is(FALSE))]
  /\ incompletes' = [w \in User |->
                       incompletes[w] - One(of(w, TRUE)) + One(w = u /\ is(TRUE))]
  /\ completes' = [w \in User |->
                       completes[w] - One(of(w, FALSE)) + One(w = u /\ is(FALSE))]
  /\ pend' = [x \in File \X User |-> IF x = <<f, u>> /\ f \in fid
                THEN IF stopped THEN "off" ELSE "on"
                ELSE pend[x]]
  /\ dirty' = dirty \cup {f} /\ behind' = behind \cup {f}
  /\ UNCHANGED <<users, tableVars, fid, dbUsers, up>>

-----------------------------------------------------------------------------
(* Clean-up.                                                               *)

\* The users of the peers are not told.
CleanUpQuietly(X) ==
  /\ up = "serving" /\ X # {}
  /\ peer' = [f \in File |-> [h \in Host |-> IF <<f, h>> \in X THEN NoPeer ELSE peer[f][h]]]
  /\ leechers' = [f \in File |-> leechers[f] - Cardinality({h \in Leeching(f) : <<f, h>> \in X})]
  /\ seeders' = [f \in File |-> seeders[f] - Cardinality({h \in Seeding(f) : <<f, h>> \in X})]
  /\ dirty' = dirty \cup {x[1] : x \in X} /\ behind' = behind \cup {x[1] : x \in X}
  /\ UNCHANGED <<files, userVars, tableVars, fid, pend, dbUsers, up>>

\* The peers X have not announced for one and a half interval.
CleanUp(X) ==
  /\ up = "serving" /\ X # {}
  /\ peer' = [f \in File |-> [h \in Host |-> IF <<f, h>> \in X THEN NoPeer ELSE peer[f][h]]]
  /\ leechers' = [f \in File |-> leechers[f] - Cardinality({h \in Leeching(f) : <<f, h>> \in X})]
  /\ seeders' = [f \in File |-> seeders[f] - Cardinality({h \in Seeding(f) : <<f, h>> \in X})]
  /\ Uncharge(X)
  /\ pend' = [x \in File \X User |->
                IF /\ x[1] \in fid
                   /\ \E h \in Present(x[1]) : <<x[1], h>> \in X /\ peer[x[1]][h].uid = x[2]
                THEN "off" ELSE pend[x]]
  /\ dirty' = dirty \cup {x[1] : x \in X} /\ behind' = behind \cup {x[1] : x \in X}
  /\ UNCHANGED <<files, users, tableVars, fid, dbUsers, up>>

-----------------------------------------------------------------------------
(* Reading the tables.                                                     *)

\* The next step of a starting tracker.
Started(next) == up' = IF up = "serving" THEN up ELSE next

\* The files G leave m_files with their peers.  What the tables say of a fid that
\* is gone from xbt_files is not looked at any more (D).
Erase(G, D) ==
  /\ peer' = [f \in File |-> IF f \in G THEN [h \in Host |-> NoPeer] ELSE peer[f]]
  /\ leechers' = [f \in File |-> IF f \in G THEN 0 ELSE leechers[f]]
  /\ seeders' = [f \in File |-> IF f \in G THEN 0 ELSE seeders[f]]
  /\ Uncharge(G \X Host)
  /\ rows' = rows \ D /\ flagged' = flagged \ D
  /\ active' = {x \in active : x[1] \notin D}
  /\ pend' = [x \in File \X User |-> IF x[1] \in D THEN "none" ELSE pend[x]]

\* The files that are loaded are not given the fid of their row.
ReadFilesNoFid ==
  /\ up # "users"
  /\ Erase({}, {})
  /\ files' = files \cup rows /\ seen' = rows
  /\ Started("users")
  /\ UNCHANGED <<users, dbUsers, fid, dirty, behind>>

\* read_db_files_sql.  A tracker that registers files by itself reads the table only
\* while it has no file; a tracker that has none resets the counts of every row.
ReadFiles ==
  LET gone == IF AutoRegister THEN {} ELSE flagged
      kept == files \ gone
      new  == IF AutoRegister /\ kept # {} THEN {} ELSE rows \ (gone \cup seen) IN
  /\ up # "users"
  /\ Erase(gone, gone)
  /\ files' = kept \cup new
  /\ fid' = (fid \ gone) \cup (new \ kept)
  /\ dirty' = dirty \ gone
  /\ seen' = IF AutoRegister /\ kept # {} THEN seen ELSE rows \ gone
  /\ behind' = IF kept = {} THEN {} ELSE behind \ gone
  /\ Started("users")
  /\ UNCHANGED <<users, dbUsers>>

\* A query of it fails: some flagged files are erased, the row of the last one may
\* still be there; or the counts are reset and no row is read.
ReadFilesFails(G, D) ==
  /\ up # "users" /\ DbMayFail
  /\ D \subseteq G /\ G \subseteq flagged /\ Cardinality(G \ D) <= 1
  /\ AutoRegister => G = {}
  /\ Erase(G, D)
  /\ files' = files \ G /\ fid' = fid \ G /\ dirty' = dirty \ G
  /\ seen' = seen \ D
  /\ behind' = behind \ D \/ (files' = {} /\ behind' = {})
  /\ Started("users")
  /\ UNCHANGED <<users, dbUsers>>

\* read_db_users: a user who is new starts with no peers, whatever peers have the uid.
ReadUsers(ok) ==
  /\ up # "files" /\ (ok \/ DbMayFail)
  /\ users' = IF ok THEN dbUsers ELSE users
  /\ incompletes' = [u \in User |-> IF u \in users' THEN incompletes[u] ELSE 0]
  /\ completes' = [u \in User |-> IF u \in users' THEN completes[u] ELSE 0]
  /\ Started("serving")
  /\ UNCHANGED <<swarmVars, tableVars, dirty, fid, pend, behind, dbUsers>>

-----------------------------------------------------------------------------
(* Writing the tables.                                                     *)

\* The files that have a row the tracker does not know of: a row for them cannot be
\* inserted (info_hash is a unique key).
Clashing == {f \in files : f \notin fid /\ f \in rows}

\* Only files that have a row are written.
WriteFilesKnown ==
  /\ up = "serving" /\ dirty \subseteq fid
  /\ dirty' = {}
  /\ behind' = behind \ dirty
  /\ UNCHANGED <<swarmVars, userVars, rows, seen, fid, flagged, active, pend, dbUsers, up>>

\* write_db_files: the dirty files without a row get one, then one query writes the
\* counts of the dirty files.
WriteFiles ==
  /\ up = "serving" /\ dirty \cap Clashing = {}
  /\ rows' = rows \cup dirty /\ fid' = fid \cup dirty
  /\ dirty' = {}
  /\ behind' = behind \ dirty
  /\ UNCHANGED <<swarmVars, userVars, seen, flagged, active, pend, dbUsers, up>>

\* It fails at the insert of a row (which it does whenever a file clashes) or at the
\* last query: the files it had looked at are not dirty any more, nothing is written.
WriteFilesFails(D) ==
  /\ up = "serving" /\ D \subseteq dirty
  /\ \A f \in D, g \in dirty \ D : f < g
  /\ D \cap Clashing = {}
  /\ IF D = dirty THEN DbMayFail
     ELSE \E g \in dirty \ D : /\ g \notin fid /\ (DbMayFail \/ g \in Clashing)
                               /\ \A h \in dirty \ D : g <= h
  /\ rows' = rows \cup D /\ fid' = fid \cup D
  /\ dirty' = dirty \ D
  /\ UNCHANGED <<swarmVars, userVars, seen, flagged, active, behind, pend, dbUsers, up>>

\* write_db_users: the buffer is erased also when the query fails.
WriteUsers(ok) ==
  /\ up = "serving" /\ (ok \/ DbMayFail)
  /\ active' = IF ~ok THEN active
               ELSE {x \in active : pend[x] # "off"} \cup {x \in File \X User : pend[x] = "on"}
  /\ pend' = [x \in File \X User |-> "none"]
  /\ UNCHANGED <<swarmVars, userVars, rows, seen, flagged, dirty, fid, behind, dbUsers, up>>

-----------------------------------------------------------------------------
(* The world around it.                                                    *)

\* The administrator adds a file, flags one for deletion, adds or removes a user.
AddFile(f) ==
  /\ ~AutoRegister /\ f \notin rows
  /\ rows' = rows \cup {f}
  /\ UNCHANGED <<swarmVars, userVars, seen, flagged, active, dirty, fid, pend, behind,
                 dbUsers, up>>

FlagFile(f) ==
  /\ f \in rows \ flagged
  /\ flagged' = flagged \cup {f}
  /\ UNCHANGED <<swarmVars, userVars, rows, seen, active, dirty, fid, pend, behind,
                 dbUsers, up>>

EditUser(u) ==
  /\ dbUsers' = IF u \in dbUsers THEN dbUsers \ {u} ELSE dbUsers \cup {u}
  /\ UNCHANGED <<swarmVars, userVars, tableVars, dirty, fid, pend, behind, up>>

\* The process dies and is started again; only the tables are left.
Crash ==
  /\ MayCrash
  /\ files' = {} /\ dirty' = {} /\ fid' = {} /\ users' = {} /\ seen' = {}
  /\ peer' = [f \in File |-> [h \in Host |-> NoPeer]]
  /\ leechers' = [f \in File |-> 0] /\ seeders' = [f \in File |-> 0]
  /\ incompletes' = [u \in User |-> 0] /\ completes' = [u \in User |-> 0]
  /\ pend' = [x \in File \X User |-> "none"]
  /\ behind' = rows
  /\ up' = "files"
  /\ UNCHANGED <<rows, flagged, active, dbUsers>>

-----------------------------------------------------------------------------
Announcing ==
  \E f \in File, h \in Host, u \in users \cup {NoUser}, left \in BOOLEAN :
     \/ Refuse(f, h, u, left)
     \/ \E stopped \in BOOLEAN : Announce(f, h, u, left, stopped)

Database ==
  \/ ReadFiles
  \/ \E G \in SUBSET flagged : \E D \in SUBSET G : ReadFilesFails(G, D)
  \/ \E ok \in BOOLEAN : ReadUsers(ok) \/ WriteUsers(ok)
  \/ WriteFiles
  \/ \E D \in SUBSET dirty : WriteFilesFails(D)

Administrator ==
  \/ \E f \in File : AddFile(f)
  \/ \E f \in Deletable : FlagFile(f)
  \/ \E u \in Removable : EditUser(u)

Next ==
  \/ Announcing
  \/ \E X \in SUBSET {x \in File \X Host : peer[x[1]][x[2]] # NoPeer} : CleanUp(X)
  \/ Database
  \/ Administrator
  \/ Crash

Spec == Init /\ [][Next]_vars

\* The timers of the loop come round, and a starting tracker starts.
LiveSpec == Spec /\ WF_vars(ReadFiles) /\ WF_vars(ReadUsers(TRUE)) /\ WF_vars(WriteFiles)

-----------------------------------------------------------------------------
(* What the counters and the tables promise.                               *)

\* Every variable keeps its type.
TypeOK ==
  /\ files \subseteq File /\ dirty \subseteq File /\ fid \subseteq File
  /\ peer \in [File -> [Host -> PeerType \cup {NoPeer}]]
  /\ leechers \in [File -> Int] /\ seeders \in [File -> Int]
  /\ users \subseteq User /\ dbUsers \subseteq User
  /\ incompletes \in [User -> Int] /\ completes \in [User -> Int]
  /\ pend \in [File \X User -> {"none", "on", "off"}]
  /\ rows \subseteq File /\ seen \subseteq rows /\ flagged \subseteq rows
  /\ behind \subseteq File /\ active \subseteq File \X User
  /\ up \in {"files", "users", "serving"}

\* The leechers and seeders that announces and scrapes are told are the peers in the
\* swarm, through announces of known hosts, changes of user, clean-ups and erased
\* files; and only files in m_files have peers.
FileCountsExact ==
  /\ \A f \in File : /\ leechers[f] = Cardinality(Leeching(f))
                     /\ seeders[f] = Cardinality(Seeding(f))
  /\ \A f \in File \ files : Present(f) = {}

\* No user is charged for a peer that is not there, so nobody is refused for
\* torrents_limit without having that many incomplete peers.
NeverOvercharged ==
  \A u \in users : /\ incompletes[u] <= Cardinality(PeersOf(u, TRUE))
                   /\ completes[u] <= Cardinality(PeersOf(u, FALSE))

\* How far the counter of a user is from the peers with his uid.
Drift(u, left) == Cardinality(PeersOf(u, left)) - IF left THEN incompletes[u] ELSE completes[u]

\* While a user stays in the table his counters follow his peers exactly; only one who
\* was away, and comes back while peers still have his uid, is charged too little.
DriftStep == \A u \in users \cap users', left \in BOOLEAN : Drift(u, left)' = Drift(u, left)
UserCountsFollowPeers == [][DriftStep]_vars

\* A user gets further above his torrents_limit only if he is charged too little or by
\* a host that had a peer already (the limit is not looked at for it, though it may
\* have been complete, or another user's).
LimitStep ==
  \A u \in users \cap users' :
     \/ TorrentsLimit[u] = 0 \/ Drift(u, TRUE) > 0
     \/ Cardinality(PeersOf(u, TRUE)') <= TorrentsLimit[u]
     \/ PeersOf(u, TRUE)' \subseteq PeersOf(u, TRUE)
     \/ \E f \in File, h \in Host, stopped \in BOOLEAN :
           peer[f][h] # NoPeer /\ Announce(f, h, u, TRUE, stopped)
LimitPassedByKnownHostsOnly == [][LimitStep]_vars

\* The users the database shows, once the buffer is written, as active in a file in
\* which they have no peer.
Ghosts ==
  {x \in File \X User :
     /\ x[1] \in rows \ flagged
     /\ pend[x] = "on" \/ (pend[x] = "none" /\ x \in active)
     /\ \A h \in Present(x[1]) : peer[x[1]][h].uid # x[2]}

\* They come only from a restart, from a buffer that is lost with a failed query, from a
\* file whose row was left unread by one (it does not know its fid), and from a host
\* whose announces change to another user (nobody tells about the first).
GhostStep ==
  \/ Ghosts' \subseteq Ghosts \cup (Clashing \X User)
  \/ Crash
  \/ WriteUsers(FALSE)
  \/ \E f \in File, h \in Host, w \in users \cup {NoUser}, left, stopped \in BOOLEAN :
        /\ Announce(f, h, w, left, stopped)
        /\ peer[f][h] # NoPeer /\ peer[f][h].uid # w
ActiveUsersArePeers == [][GhostStep]_vars

\* Files whose row is not up to date and that no write will look at.
Silent == (files \cap behind) \ dirty

\* Only a failed write leaves a file like that, until its next announce.
SilentStep == Silent' \subseteq Silent \/ \E D \in SUBSET dirty : WriteFilesFails(D)
OnlyFailedWritesForget == [][SilentStep]_vars

\* A row the tracker has read belongs to a file that knows its fid, and while no query
\* fails every row does: the insert of a row never clashes (a file that clashes stops
\* every later write of every file).
ClashOnlyUnread == Clashing \cap seen = {} /\ (~DbMayFail => Clashing = {})

\* Once no query fails any more, a file that goes on being announced has its counts
\* written again and again; unless its row, or another's, was left unread by a failed
\* read: then every write fails at it.
QueryFails ==
  \/ \E G \in SUBSET flagged : \E D \in SUBSET G : ReadFilesFails(G, D)
  \/ ReadUsers(FALSE) \/ WriteUsers(FALSE)
  \/ \E D \in SUBSET dirty : WriteFilesFails(D)

StatsWritten ==
  \A f \in File :
    <>[][~QueryFails]_vars /\ []<>(f \in dirty) =>
      []<>(f \notin files \/ f \notin behind \/ Clashing # {})
=============================================================================
