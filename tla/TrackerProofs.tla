--------------------------- MODULE TrackerProofs ---------------------------
(***************************************************************************)
(* The safety of Tracker for every set of files, hosts and users.          *)
(***************************************************************************)
EXTENDS Tracker, FiniteSetTheorems, TLAPS

-----------------------------------------------------------------------------
(* Types.                                                                  *)

LEMMA InitType == Init => TypeOK
BY DEF Init, TypeOK

\* Erasing files keeps the types of what it changes.
SwarmTyped ==
  /\ peer \in [File -> [Host -> PeerType \cup {NoPeer}]]
  /\ leechers \in [File -> Int] /\ seeders \in [File -> Int]
  /\ incompletes \in [User -> Int] /\ completes \in [User -> Int]

\* The peers of a user are finitely many, and so are some of them.
LEMMA PeersFinite ==
  ASSUME NEW u, NEW left, NEW X
  PROVE  /\ IsFiniteSet(PeersOf(u, left) \cap X)
         /\ Cardinality(PeersOf(u, left) \cap X) \in Nat
<1>1. IsFiniteSet(File \X Host)
  BY TrackerAssumption, FS_Product
<1>2. PeersOf(u, left) \cap X \in SUBSET (File \X Host)
  BY DEF PeersOf
<1> QED
  BY <1>1, <1>2, FS_Subset, FS_CardinalityType

LEMMA UnchargeType ==
  ASSUME TypeOK, NEW X, Uncharge(X)
  PROVE  incompletes' \in [User -> Int] /\ completes' \in [User -> Int]
<1>1. ASSUME NEW u \in User, NEW left \in BOOLEAN
      PROVE  Cardinality(PeersOf(u, left) \cap X) \in Int
  BY PeersFinite
<1>2. \A u \in User : incompletes[u] \in Int /\ completes[u] \in Int
  BY DEF TypeOK
<1>3. ASSUME NEW u \in User
      PROVE  /\ incompletes[u] - Cardinality(PeersOf(u, TRUE) \cap X) \in Int
             /\ completes[u] - Cardinality(PeersOf(u, FALSE) \cap X) \in Int
  <2>1. /\ Cardinality(PeersOf(u, TRUE) \cap X) \in Int
        /\ Cardinality(PeersOf(u, FALSE) \cap X) \in Int
    BY <1>1
  <2> QED
    BY <1>2, <2>1
<1> QED
  BY <1>2, <1>3 DEF Uncharge

\* The hosts with a peer in a file are finitely many.
LEMMA HostsFinite ==
  ASSUME NEW f, NEW S \in SUBSET Present(f)
  PROVE  IsFiniteSet(S) /\ Cardinality(S) \in Nat
<1>1. S \in SUBSET Host
  BY DEF Present
<1> QED
  BY <1>1, TrackerAssumption, FS_Subset, FS_CardinalityType

LEMMA AnnounceType ==
  ASSUME TypeOK, NEW f \in File, NEW h \in Host, NEW u \in users \cup {NoUser},
         NEW left \in BOOLEAN, NEW stopped \in BOOLEAN, Announce(f, h, u, left, stopped)
  PROVE  TypeOK'
<1> DEFINE new == IF stopped THEN NoPeer ELSE [uid |-> u, left |-> left]
<1>1. new \in PeerType \cup {NoPeer}
  BY DEF PeerType, TypeOK
<1>2. peer' \in [File -> [Host -> PeerType \cup {NoPeer}]]
  <2>1. peer' = [peer EXCEPT ![f][h] = new]
    BY DEF Announce
  <2> QED
    BY <1>1, <2>1 DEF TypeOK
<1>3. \A b \in BOOLEAN : One(b) \in Int
  BY DEF One
<1>4. leechers' \in [File -> Int] /\ seeders' \in [File -> Int]
  BY <1>3 DEF Announce, TypeOK, One
<1>5. incompletes' \in [User -> Int] /\ completes' \in [User -> Int]
  BY <1>3 DEF Announce, TypeOK, One
<1>6. pend' \in [File \X User -> {"none", "on", "off"}]
  BY DEF Announce, TypeOK
<1> QED
  BY <1>2, <1>4, <1>5, <1>6 DEF Announce, TypeOK, tableVars

LEMMA CleanUpType ==
  ASSUME TypeOK, NEW X \in SUBSET (File \X Host), CleanUp(X)
  PROVE  TypeOK'
<1>1. peer' \in [File -> [Host -> PeerType \cup {NoPeer}]]
  BY DEF CleanUp, TypeOK
<1>2. \A f \in File : /\ Cardinality({h \in Leeching(f) : <<f, h>> \in X}) \in Nat
                      /\ Cardinality({h \in Seeding(f) : <<f, h>> \in X}) \in Nat
  <2>1. \A f \in File : /\ {h \in Leeching(f) : <<f, h>> \in X} \in SUBSET Present(f)
                        /\ {h \in Seeding(f) : <<f, h>> \in X} \in SUBSET Present(f)
    BY DEF Leeching, Seeding
  <2> QED
    BY <2>1, HostsFinite
<1>3. leechers' \in [File -> Int] /\ seeders' \in [File -> Int]
  <2> DEFINE L(f) == {h \in Leeching(f) : <<f, h>> \in X}
             S(f) == {h \in Seeding(f) : <<f, h>> \in X}
  <2>1. \A f \in File : Cardinality(L(f)) \in Nat /\ Cardinality(S(f)) \in Nat
    BY <1>2
  <2>2. /\ leechers' = [f \in File |-> leechers[f] - Cardinality(L(f))]
        /\ seeders' = [f \in File |-> seeders[f] - Cardinality(S(f))]
    BY DEF CleanUp
  <2>3. \A f \in File : leechers[f] \in Int /\ seeders[f] \in Int
    BY DEF TypeOK
  <2> HIDE DEF L, S
  <2> QED
    BY <2>1, <2>2, <2>3
<1>4. incompletes' \in [User -> Int] /\ completes' \in [User -> Int]
  BY UnchargeType DEF CleanUp
<1>5. pend' \in [File \X User -> {"none", "on", "off"}]
  BY DEF CleanUp, TypeOK
<1>6. {x[1] : x \in X} \subseteq File
  OBVIOUS
<1> QED
  BY <1>1, <1>3, <1>4, <1>5, <1>6 DEF CleanUp, TypeOK, tableVars

LEMMA EraseType ==
  ASSUME TypeOK, NEW G \in SUBSET File, NEW D \in SUBSET File, Erase(G, D)
  PROVE  /\ SwarmTyped'
         /\ rows' \subseteq File /\ flagged' \subseteq rows'
         /\ active' \subseteq File \X User
         /\ pend' \in [File \X User -> {"none", "on", "off"}]
<1>1. peer' \in [File -> [Host -> PeerType \cup {NoPeer}]]
  BY DEF Erase, TypeOK
<1>2. leechers' \in [File -> Int] /\ seeders' \in [File -> Int]
  BY DEF Erase, TypeOK
<1>3. incompletes' \in [User -> Int] /\ completes' \in [User -> Int]
  BY UnchargeType DEF Erase
<1>4. pend' \in [File \X User -> {"none", "on", "off"}]
  BY DEF Erase, TypeOK
<1> QED
  BY <1>1, <1>2, <1>3, <1>4 DEF Erase, TypeOK, SwarmTyped

LEMMA ReadFilesType == TypeOK /\ ReadFiles => TypeOK'
<1> SUFFICES ASSUME TypeOK, ReadFiles PROVE TypeOK'
  OBVIOUS
<1> DEFINE gone == IF AutoRegister THEN {} ELSE flagged
<1>1. gone \in SUBSET File /\ gone \subseteq flagged
  BY DEF TypeOK
<1>2. Erase(gone, gone)
  BY DEF ReadFiles
<1>3. /\ SwarmTyped' /\ flagged' \subseteq rows' /\ rows' = rows \ gone /\ rows' \subseteq File
      /\ active' \subseteq File \X User
      /\ pend' \in [File \X User -> {"none", "on", "off"}]
  BY <1>1, <1>2, EraseType DEF Erase
<1>4. seen' \subseteq rows'
  <2>1. AutoRegister => gone = {}
    OBVIOUS
  <2>2. seen' = seen \/ seen' = rows \ gone
    BY DEF ReadFiles
  <2>3. seen' = seen => gone = {} \/ seen' = rows \ gone
    BY <2>1 DEF ReadFiles
  <2> QED
    BY <1>3, <2>2, <2>3 DEF TypeOK
<1>5. files' \subseteq File /\ fid' \subseteq File /\ dirty' \subseteq File
      /\ behind' \subseteq File
  BY DEF ReadFiles, TypeOK
<1>6. up' \in {"files", "users", "serving"} /\ users' = users /\ dbUsers' = dbUsers
  BY DEF ReadFiles, Started, TypeOK
<1> QED
  BY <1>3, <1>4, <1>5, <1>6 DEF TypeOK, SwarmTyped

LEMMA ReadFilesFailsType ==
  ASSUME TypeOK, NEW G \in SUBSET flagged, NEW D \in SUBSET flagged, ReadFilesFails(G, D)
  PROVE  TypeOK'
<1>1. G \in SUBSET File /\ D \in SUBSET File
  BY DEF TypeOK
<1>2. Erase(G, D)
  BY DEF ReadFilesFails
<1>3. /\ SwarmTyped' /\ flagged' \subseteq rows' /\ rows' = rows \ D /\ rows' \subseteq File
      /\ active' \subseteq File \X User
      /\ pend' \in [File \X User -> {"none", "on", "off"}]
  BY <1>1, <1>2, EraseType DEF Erase
<1>4. files' \subseteq File /\ fid' \subseteq File /\ dirty' \subseteq File
      /\ behind' \subseteq File /\ seen' \subseteq rows'
  BY <1>3 DEF ReadFilesFails, TypeOK
<1>5. up' \in {"files", "users", "serving"} /\ users' = users /\ dbUsers' = dbUsers
  BY DEF ReadFilesFails, Started, TypeOK
<1> QED
  BY <1>3, <1>4, <1>5 DEF TypeOK, SwarmTyped

LEMMA StepType == TypeOK /\ [Next]_vars => TypeOK'
<1> SUFFICES ASSUME TypeOK, [Next]_vars PROVE TypeOK'
  OBVIOUS
<1> USE DEF swarmVars, userVars, tableVars
<1>1. ASSUME NEW f \in File, NEW h \in Host, NEW u \in users \cup {NoUser},
             NEW left \in BOOLEAN, Refuse(f, h, u, left)
      PROVE  TypeOK'
  BY <1>1 DEF Refuse, TypeOK
<1>2. ASSUME Announcing PROVE TypeOK'
  BY <1>1, <1>2, AnnounceType DEF Announcing
<1>3. ASSUME NEW ok \in BOOLEAN, ReadUsers(ok) PROVE TypeOK'
  <2>1. incompletes' \in [User -> Int] /\ completes' \in [User -> Int]
    BY <1>3 DEF ReadUsers, TypeOK
  <2> QED
    BY <1>3, <2>1 DEF ReadUsers, Started, TypeOK
<1>4. ASSUME NEW ok \in BOOLEAN, WriteUsers(ok) PROVE TypeOK'
  <2>1. pend' \in [File \X User -> {"none", "on", "off"}] /\ active' \subseteq File \X User
    BY <1>4 DEF WriteUsers, TypeOK
  <2> QED
    BY <1>4, <2>1 DEF WriteUsers, TypeOK
<1>5. CASE WriteFiles
  BY <1>5 DEF WriteFiles, TypeOK
<1>6. ASSUME NEW D \in SUBSET dirty, WriteFilesFails(D) PROVE TypeOK'
  BY <1>6 DEF WriteFilesFails, TypeOK
<1>7. ASSUME Database PROVE TypeOK'
  BY <1>3, <1>4, <1>5, <1>6, <1>7, ReadFilesType, ReadFilesFailsType DEF Database
<1>8. ASSUME Administrator PROVE TypeOK'
  BY <1>8, TrackerAssumption DEF Administrator, AddFile, FlagFile, EditUser, TypeOK
<1>9. CASE Crash
  BY <1>9 DEF Crash, TypeOK
<1>10. ASSUME NEW X \in SUBSET {x \in File \X Host : peer[x[1]][x[2]] # NoPeer}, CleanUp(X)
       PROVE  TypeOK'
  BY <1>10, CleanUpType
<1>11. CASE UNCHANGED vars
  BY <1>11 DEF vars, TypeOK
<1> QED
  BY <1>2, <1>7, <1>8, <1>9, <1>10, <1>11 DEF Next

\* Every variable keeps its type (TypeOK).
THEOREM TrackerTypeCorrect == Spec => []TypeOK
BY InitType, StepType, PTL DEF Spec

-----------------------------------------------------------------------------
(* The counters of the files.                                              *)

\* One host of a set makes place for another peer of the same host.
LEMMA Replace ==
  ASSUME NEW S, IsFiniteSet(S), NEW h, NEW b \in BOOLEAN
  PROVE  Cardinality((S \ {h}) \cup IF b THEN {h} ELSE {})
           = Cardinality(S) - One(h \in S) + One(b)
<1>1. /\ IsFiniteSet(S \ {h})
      /\ Cardinality(S \ {h}) = IF h \in S THEN Cardinality(S) - 1 ELSE Cardinality(S)
  BY FS_RemoveElement
<1>2. Cardinality(S) \in Int
  BY FS_CardinalityType
<1>3. Cardinality(S \ {h}) = Cardinality(S) - One(h \in S) /\ Cardinality(S \ {h}) \in Int
  BY <1>1, <1>2 DEF One
<1>4. CASE b
  <2>1. h \notin S \ {h}
    OBVIOUS
  <2>2. Cardinality((S \ {h}) \cup {h}) = Cardinality(S \ {h}) + 1
    BY <1>1, <2>1, FS_AddElement
  <2> QED
    BY <1>3, <1>4, <2>2 DEF One
<1>5. CASE ~b
  <2>1. (S \ {h}) \cup {} = S \ {h}
    OBVIOUS
  <2> QED
    BY <1>3, <1>5, <2>1 DEF One
<1> QED
  BY <1>4, <1>5

\* Some of a set are taken away.
LEMMA TakeAway ==
  ASSUME NEW S, IsFiniteSet(S), NEW T \in SUBSET S
  PROVE  Cardinality(S \ T) = Cardinality(S) - Cardinality(T)
<1>1. S \cap T = T
  OBVIOUS
<1> QED
  BY <1>1, FS_Difference

FileInv == TypeOK /\ FileCountsExact

LEMMA InitCounts == Init => FileInv
<1> SUFFICES ASSUME Init PROVE FileCountsExact
  BY InitType DEF FileInv
<1>1. \A f \in File : Present(f) = {} /\ Leeching(f) = {} /\ Seeding(f) = {}
  BY DEF Init, Present, Leeching, Seeding
<1> QED
  BY <1>1, FS_EmptySet DEF Init, FileCountsExact

\* The counts stay when the peers stay, whatever files come.
LEMMA KeepCounts ==
  ASSUME FileCountsExact, UNCHANGED <<peer, leechers, seeders>>, files \subseteq files'
  PROVE  FileCountsExact'
<1>1. \A f \in File : /\ Present(f)' = Present(f)
                      /\ Leeching(f)' = Leeching(f) /\ Seeding(f)' = Seeding(f)
  BY DEF Present, Leeching, Seeding
<1> QED
  BY <1>1 DEF FileCountsExact

LEMMA AnnounceCounts ==
  ASSUME FileInv, NEW f \in File, NEW h \in Host, NEW u \in users \cup {NoUser},
         NEW left \in BOOLEAN, NEW stopped \in BOOLEAN, Announce(f, h, u, left, stopped)
  PROVE  FileCountsExact'
<1> USE DEF FileInv
<1> DEFINE new == IF stopped THEN NoPeer ELSE [uid |-> u, left |-> left]
           l == ~stopped /\ left
           s == ~stopped /\ ~left
<1>1. NoPeer # [uid |-> u, left |-> left]
  BY TrackerAssumption DEF TypeOK
<1>2. \A g \in File, k \in Host : peer'[g][k] = IF g = f /\ k = h THEN new ELSE peer[g][k]
  BY DEF Announce, TypeOK
<1>3. ASSUME NEW g \in File, g # f
      PROVE  /\ Present(g)' = Present(g)
             /\ leechers'[g] = Cardinality(Leeching(g)') /\ seeders'[g] = Cardinality(Seeding(g)')
  <2>1. Present(g)' = Present(g)
    BY <1>2, <1>3 DEF Present
  <2>2. Leeching(g)' = Leeching(g) /\ Seeding(g)' = Seeding(g)
    BY <1>2, <1>3, <2>1 DEF Leeching, Seeding, Present
  <2>3. leechers'[g] = leechers[g] /\ seeders'[g] = seeders[g]
    BY <1>3 DEF Announce, TypeOK
  <2> QED
    BY <2>1, <2>2, <2>3 DEF FileCountsExact
<1>4. Leeching(f)' = (Leeching(f) \ {h}) \cup IF l THEN {h} ELSE {}
  <2>1. ASSUME NEW k \in Host
        PROVE  k \in Leeching(f)' <=> (k # h /\ k \in Leeching(f)) \/ (k = h /\ l)
    BY <1>1, <1>2 DEF Leeching, Present
  <2>2. Leeching(f) \subseteq Host /\ Leeching(f)' \subseteq Host
    BY DEF Leeching, Present
  <2> QED
    BY <2>1, <2>2
<1>5. Seeding(f)' = (Seeding(f) \ {h}) \cup IF s THEN {h} ELSE {}
  <2>1. ASSUME NEW k \in Host
        PROVE  k \in Seeding(f)' <=> (k # h /\ k \in Seeding(f)) \/ (k = h /\ s)
    BY <1>1, <1>2 DEF Seeding, Present
  <2>2. Seeding(f) \subseteq Host /\ Seeding(f)' \subseteq Host
    BY DEF Seeding, Present
  <2> QED
    BY <2>1, <2>2
<1>6. IsFiniteSet(Leeching(f)) /\ IsFiniteSet(Seeding(f))
  <2>1. Leeching(f) \in SUBSET Present(f) /\ Seeding(f) \in SUBSET Present(f)
    BY DEF Leeching, Seeding
  <2> QED
    BY <2>1, HostsFinite
<1>7. /\ leechers'[f] = leechers[f] - One(h \in Leeching(f)) + One(l)
      /\ seeders'[f] = seeders[f] - One(h \in Seeding(f)) + One(s)
  <2>1. /\ (peer[f][h] # NoPeer /\ peer[f][h].left = TRUE) <=> h \in Leeching(f)
        /\ (peer[f][h] # NoPeer /\ peer[f][h].left = FALSE) <=> h \in Seeding(f)
    BY DEF Leeching, Seeding, Present, TypeOK, PeerType
  <2>2. (~stopped /\ left = TRUE <=> l) /\ (~stopped /\ left = FALSE <=> s)
    OBVIOUS
  <2>3. /\ leechers'[f] = leechers[f] - One(peer[f][h] # NoPeer /\ peer[f][h].left = TRUE)
                            + One(~stopped /\ left = TRUE)
        /\ seeders'[f] = seeders[f] - One(peer[f][h] # NoPeer /\ peer[f][h].left = FALSE)
                           + One(~stopped /\ left = FALSE)
    BY DEF Announce, TypeOK
  <2> QED
    BY <2>1, <2>2, <2>3 DEF One
<1>8. leechers'[f] = Cardinality(Leeching(f)') /\ seeders'[f] = Cardinality(Seeding(f)')
  <2>1. leechers[f] = Cardinality(Leeching(f)) /\ seeders[f] = Cardinality(Seeding(f))
    BY DEF FileCountsExact
  <2> HIDE DEF l, s
  <2>2. l \in BOOLEAN /\ s \in BOOLEAN
    BY DEF l, s
  <2>3. /\ Cardinality(Leeching(f)') = Cardinality(Leeching(f)) - One(h \in Leeching(f)) + One(l)
        /\ Cardinality(Seeding(f)') = Cardinality(Seeding(f)) - One(h \in Seeding(f)) + One(s)
    BY <1>4, <1>5, <1>6, <2>2, Replace
  <2> QED
    BY <1>7, <2>1, <2>3
<1>9. f \in files' /\ files \subseteq files'
  BY DEF Announce
<1> QED
  BY <1>3, <1>8, <1>9 DEF FileCountsExact

LEMMA CleanUpCounts ==
  ASSUME FileInv, NEW X \in SUBSET {x \in File \X Host : peer[x[1]][x[2]] # NoPeer}, CleanUp(X)
  PROVE  FileCountsExact'
<1> USE DEF FileInv
<1>1. \A f \in File, h \in Host : peer'[f][h] = IF <<f, h>> \in X THEN NoPeer ELSE peer[f][h]
  BY DEF CleanUp
<1>2. files' = files
  BY DEF CleanUp
<1>3. ASSUME NEW f \in File
      PROVE  /\ Present(f)' \subseteq Present(f)
             /\ leechers'[f] = Cardinality(Leeching(f)') /\ seeders'[f] = Cardinality(Seeding(f)')
  <2> DEFINE L == {h \in Leeching(f) : <<f, h>> \in X}
             S == {h \in Seeding(f) : <<f, h>> \in X}
  <2>1. Present(f)' \subseteq Present(f)
    BY <1>1 DEF Present
  <2>2. Leeching(f)' = Leeching(f) \ L /\ Seeding(f)' = Seeding(f) \ S
    BY <1>1 DEF Leeching, Seeding, Present
  <2>3. leechers'[f] = leechers[f] - Cardinality(L) /\ seeders'[f] = seeders[f] - Cardinality(S)
    BY DEF CleanUp
  <2>4. L \in SUBSET Leeching(f) /\ S \in SUBSET Seeding(f)
    OBVIOUS
  <2>5. Leeching(f) \in SUBSET Present(f) /\ Seeding(f) \in SUBSET Present(f)
    BY DEF Leeching, Seeding
  <2>6. IsFiniteSet(Leeching(f)) /\ IsFiniteSet(Seeding(f))
    BY <2>5, HostsFinite
  <2>7. leechers[f] = Cardinality(Leeching(f)) /\ seeders[f] = Cardinality(Seeding(f))
    BY DEF FileCountsExact
  <2> HIDE DEF L, S
  <2>8. /\ Cardinality(Leeching(f) \ L) = Cardinality(Leeching(f)) - Cardinality(L)
        /\ Cardinality(Seeding(f) \ S) = Cardinality(Seeding(f)) - Cardinality(S)
    BY <2>4, <2>6, TakeAway
  <2> QED
    BY <2>1, <2>2, <2>3, <2>7, <2>8
<1> QED
  BY <1>2, <1>3 DEF FileCountsExact

\* Erased files have no peers and counts of zero; the others keep theirs.
LEMMA EraseCounts ==
  ASSUME FileInv, NEW G, NEW D, Erase(G, D), files \ G \subseteq files'
  PROVE  FileCountsExact'
<1> USE DEF FileInv
<1>1. ASSUME NEW f \in File, f \in G
      PROVE  /\ Present(f)' = {}
             /\ leechers'[f] = Cardinality(Leeching(f)') /\ seeders'[f] = Cardinality(Seeding(f)')
  <2>1. Present(f)' = {} /\ Leeching(f)' = {} /\ Seeding(f)' = {}
    BY <1>1 DEF Erase, Present, Leeching, Seeding
  <2> QED
    BY <1>1, <2>1, FS_EmptySet DEF Erase
<1>2. ASSUME NEW f \in File, f \notin G
      PROVE  /\ Present(f)' = Present(f)
             /\ leechers'[f] = Cardinality(Leeching(f)') /\ seeders'[f] = Cardinality(Seeding(f)')
  <2>1. /\ Present(f)' = Present(f)
        /\ Leeching(f)' = Leeching(f) /\ Seeding(f)' = Seeding(f)
    BY <1>2 DEF Erase, Present, Leeching, Seeding
  <2> QED
    BY <1>2, <2>1 DEF Erase, FileCountsExact
<1> QED
  BY <1>1, <1>2 DEF FileCountsExact

LEMMA StepCounts == FileInv /\ [Next]_vars => FileInv'
<1> SUFFICES ASSUME FileInv, [Next]_vars PROVE FileCountsExact'
  BY StepType DEF FileInv
<1> USE DEF swarmVars, userVars, tableVars
<1>1. ASSUME UNCHANGED <<peer, leechers, seeders>>, files \subseteq files'
      PROVE  FileCountsExact'
  BY <1>1, KeepCounts DEF FileInv
<1>2. CASE Announcing
  BY <1>1, <1>2, AnnounceCounts DEF Announcing, Refuse
<1>3. CASE ReadFiles
  <2> DEFINE gone == IF AutoRegister THEN {} ELSE flagged
  <2>1. Erase(gone, gone) /\ files \ gone \subseteq files'
    BY <1>3 DEF ReadFiles
  <2> QED
    BY <2>1, EraseCounts
<1>4. ASSUME NEW G \in SUBSET flagged, NEW D \in SUBSET flagged, ReadFilesFails(G, D)
      PROVE  FileCountsExact'
  BY <1>4, EraseCounts DEF ReadFilesFails
<1>5. CASE Database
  BY <1>1, <1>3, <1>4, <1>5 DEF Database, ReadUsers, WriteUsers, WriteFiles, WriteFilesFails
<1>6. CASE Administrator
  BY <1>1, <1>6 DEF Administrator, AddFile, FlagFile, EditUser
<1>7. CASE Crash
  <2>1. \A f \in File : Present(f)' = {} /\ Leeching(f)' = {} /\ Seeding(f)' = {}
    BY <1>7 DEF Crash, Present, Leeching, Seeding
  <2> QED
    BY <1>7, <2>1, FS_EmptySet DEF Crash, FileCountsExact
<1>8. ASSUME NEW X \in SUBSET {x \in File \X Host : peer[x[1]][x[2]] # NoPeer}, CleanUp(X)
      PROVE  FileCountsExact'
  BY <1>8, CleanUpCounts
<1>9. CASE UNCHANGED vars
  BY <1>1, <1>9 DEF vars
<1> QED
  BY <1>2, <1>5, <1>6, <1>7, <1>8, <1>9 DEF Next

\* What announces and scrapes are told of a file is its peers, counted
\* (FileCountsExact).
THEOREM FileCountsAreExact == Spec => []FileCountsExact
<1>1. FileInv => FileCountsExact
  BY DEF FileInv
<1> QED
  BY <1>1, InitCounts, StepCounts, PTL DEF Spec

-----------------------------------------------------------------------------
(* What is written to the tables.                                          *)

\* In auto-register mode a row that is read is one of a file that is served; else a
\* file that is served is one whose row was read, and what is behind was read too.
\* Only a failed query leaves rows unread while files are served.
ClashInv ==
  /\ FileInv
  /\ seen \cap files \subseteq fid
  /\ AutoRegister => seen \subseteq files
  /\ ~AutoRegister => files \subseteq seen
  /\ ~AutoRegister /\ files # {} => behind \subseteq seen
  /\ ~DbMayFail /\ AutoRegister => (up = "files" /\ files = {}) \/ rows \subseteq seen \cup fid

LEMMA InitClash == Init => ClashInv
BY InitCounts DEF Init, ClashInv

LEMMA StepClash == ClashInv /\ [Next]_vars => ClashInv'
<1> SUFFICES ASSUME ClashInv, [Next]_vars PROVE ClashInv'
  OBVIOUS
<1>1. TypeOK /\ TypeOK' /\ FileInv'
  BY StepCounts DEF ClashInv, FileInv
<1> USE DEF ClashInv, swarmVars, userVars, tableVars
<1>2. CASE Announcing
  <2>1. \A f \in File, h \in Host, u \in users \cup {NoUser}, l \in BOOLEAN :
           Refuse(f, h, u, l) => ClashInv'
    BY <1>1 DEF Refuse, Heard
  <2>2. \A f \in File, h \in Host, u \in users \cup {NoUser}, l, s \in BOOLEAN :
           Announce(f, h, u, l, s) => ClashInv'
    BY <1>1 DEF Announce, Heard
  <2> QED
    BY <1>1, <1>2, <2>1, <2>2 DEF Announcing
<1>3. CASE ReadFiles
  BY <1>1, <1>3 DEF ReadFiles, Erase, Started, TypeOK
<1>4. ASSUME NEW G \in SUBSET flagged, NEW D \in SUBSET flagged, ReadFilesFails(G, D)
      PROVE  ClashInv'
  BY <1>1, <1>4 DEF ReadFilesFails, Erase, Started, TypeOK
<1>5. CASE Database
  BY <1>1, <1>3, <1>4, <1>5
     DEF Database, ReadUsers, WriteUsers, WriteFiles, WriteFilesFails, Started
<1>6. CASE Administrator
  BY <1>1, <1>6 DEF Administrator, AddFile, FlagFile, EditUser
<1>7. CASE Crash
  BY <1>1, <1>7 DEF Crash
<1>8. ASSUME NEW X \in SUBSET {x \in File \X Host : peer[x[1]][x[2]] # NoPeer}, CleanUp(X)
      PROVE  ClashInv'
  <2>1. {x[1] : x \in X} \subseteq files
    BY DEF FileInv, FileCountsExact, Present
  <2> QED
    BY <1>1, <1>8, <2>1 DEF CleanUp
<1>9. CASE UNCHANGED vars
  BY <1>1, <1>9 DEF vars
<1> QED
  BY <1>1, <1>2, <1>5, <1>6, <1>7, <1>8, <1>9 DEF Next

\* While no query fails the insert of a row never clashes with one that is there
\* (ClashOnlyUnread).
THEOREM OnlyUnreadRowsClash == Spec => []ClashOnlyUnread
<1>1. ClashInv => ClashOnlyUnread
  BY DEF ClashInv, ClashOnlyUnread, Clashing, FileInv, TypeOK
<1> QED
  BY <1>1, InitClash, StepClash, PTL DEF Spec

LEMMA StepSilent == ClashInv /\ [Next]_vars => [SilentStep]_vars
<1> SUFFICES ASSUME ClashInv, Next PROVE SilentStep
  BY DEF vars
<1> USE DEF SilentStep, Silent, swarmVars, userVars, tableVars
<1>1. CASE Announcing
  BY <1>1 DEF Announcing, Announce, Refuse
<1>2. CASE ReadFiles
  BY <1>2 DEF ReadFiles, ClashInv
<1>3. ASSUME NEW G \in SUBSET flagged, NEW D \in SUBSET flagged, ReadFilesFails(G, D)
      PROVE  SilentStep
  BY <1>3 DEF ReadFilesFails
<1>4. CASE Database
  BY <1>2, <1>3, <1>4 DEF Database, ReadUsers, WriteUsers, WriteFiles
<1>5. CASE Administrator
  BY <1>5 DEF Administrator, AddFile, FlagFile, EditUser
<1>6. CASE Crash
  BY <1>6 DEF Crash
<1>7. ASSUME NEW X \in SUBSET {x \in File \X Host : peer[x[1]][x[2]] # NoPeer}, CleanUp(X)
      PROVE  SilentStep
  BY <1>7 DEF CleanUp
<1> QED
  BY <1>1, <1>4, <1>5, <1>6, <1>7 DEF Next

\* A file whose row is not up to date stays dirty, and so is written by the next
\* write, unless a write fails (OnlyFailedWritesForget).
THEOREM ChangesStayDirty == Spec => OnlyFailedWritesForget
BY InitClash, StepClash, StepSilent, PTL DEF Spec, OnlyFailedWritesForget

-----------------------------------------------------------------------------
(* The counters of the users.                                              *)

\* The counter of a user that PeersOf(u, left) is compared with.
Counter(u, left) == IF left THEN incompletes[u] ELSE completes[u]

LEMMA DriftIs ==
  ASSUME NEW u, NEW left \in BOOLEAN
  PROVE  /\ Drift(u, left) = Cardinality(PeersOf(u, left)) - Counter(u, left)
         /\ Drift(u, left)' = Cardinality(PeersOf(u, left)') - Counter(u, left)'
BY DEF Drift, Counter

LEMMA AllPeersFinite ==
  ASSUME NEW u, NEW left \in BOOLEAN
  PROVE  /\ IsFiniteSet(PeersOf(u, left)) /\ Cardinality(PeersOf(u, left)) \in Nat
         /\ IsFiniteSet(PeersOf(u, left)') /\ Cardinality(PeersOf(u, left)') \in Nat
<1>1. IsFiniteSet(File \X Host)
  BY TrackerAssumption, FS_Product
<1>2. PeersOf(u, left) \in SUBSET (File \X Host) /\ PeersOf(u, left)' \in SUBSET (File \X Host)
  BY DEF PeersOf
<1> QED
  BY <1>1, <1>2, FS_Subset, FS_CardinalityType

\* A file and a host are in PeersOf(u, left) as long as they have such a peer.
LEMMA InPeersOf ==
  ASSUME NEW u, NEW left, NEW f \in File, NEW h \in Host
  PROVE  /\ <<f, h>> \in PeersOf(u, left) <=> peer[f][h] = [uid |-> u, left |-> left]
         /\ <<f, h>> \in PeersOf(u, left)' <=> peer'[f][h] = [uid |-> u, left |-> left]
BY DEF PeersOf

\* The users who have no row in the table are not counted.
LEMMA AnnounceDrift ==
  ASSUME TypeOK, NEW f \in File, NEW h \in Host, NEW w \in users \cup {NoUser},
         NEW l \in BOOLEAN, NEW stopped \in BOOLEAN, Announce(f, h, w, l, stopped),
         NEW u \in users, NEW left \in BOOLEAN
  PROVE  /\ Drift(u, left)' = Drift(u, left)
         /\ PeersOf(u, left)' = (PeersOf(u, left) \ {<<f, h>>})
                                   \cup IF u = w /\ ~stopped /\ l = left THEN {<<f, h>>} ELSE {}
<1> DEFINE new == IF stopped THEN NoPeer ELSE [uid |-> w, left |-> l]
           b == u = w /\ ~stopped /\ l = left
           S == PeersOf(u, left)
           x == <<f, h>>
<1>1. u \in User /\ NoPeer # [uid |-> u, left |-> left]
  BY TrackerAssumption DEF TypeOK
<1>2. \A g \in File, k \in Host : peer'[g][k] = IF g = f /\ k = h THEN new ELSE peer[g][k]
  BY DEF Announce, TypeOK
<1>3. b <=> new = [uid |-> u, left |-> left]
  BY <1>1
<1>4. S' = (S \ {x}) \cup IF b THEN {x} ELSE {}
  <2>1. S' \subseteq File \X Host /\ S \subseteq File \X Host
    BY DEF PeersOf
  <2>2. ASSUME NEW g \in File, NEW k \in Host
        PROVE  <<g, k>> \in S' <=> (<<g, k>> # x /\ <<g, k>> \in S) \/ (<<g, k>> = x /\ b)
    BY <1>2, <1>3, InPeersOf
  <2>3. \A y \in File \X Host : y \in S' <=> (y # x /\ y \in S) \/ (y = x /\ b)
    BY <2>2
  <2>4. x \in File \X Host
    OBVIOUS
  <2> HIDE DEF S, b, x
  <2> QED
    BY <2>1, <2>3, <2>4
<1>5. Cardinality(S') = Cardinality(S) - One(x \in S) + One(b)
  <2>1. b \in BOOLEAN /\ IsFiniteSet(S)
    BY AllPeersFinite
  <2> HIDE DEF S, b, x
  <2> QED
    BY <1>4, <2>1, Replace
<1>6. Counter(u, left)' = Counter(u, left) - One(x \in S) + One(b)
  <2>1. x \in S <=> peer[f][h] = [uid |-> u, left |-> left] /\ u \in users
    BY InPeersOf
  <2>2. CASE left
    <3>1. incompletes'[u] = incompletes[u]
                              - One(peer[f][h] = [uid |-> u, left |-> TRUE] /\ u \in users)
                              + One(u = w /\ ~stopped /\ l = TRUE)
      BY <1>1 DEF Announce
    <3> QED
      BY <2>1, <2>2, <3>1 DEF Counter, One
  <2>3. CASE ~left
    <3>1. completes'[u] = completes[u]
                            - One(peer[f][h] = [uid |-> u, left |-> FALSE] /\ u \in users)
                            + One(u = w /\ ~stopped /\ l = FALSE)
      BY <1>1 DEF Announce
    <3> QED
      BY <2>1, <2>3, <3>1 DEF Counter, One
  <2> QED
    BY <2>2, <2>3
<1>7. Cardinality(S) \in Int /\ Counter(u, left) \in Int
  BY <1>1, AllPeersFinite DEF Counter, TypeOK
<1>8. Drift(u, left)' = Drift(u, left)
  <2> HIDE DEF b, x
  <2>1. One(x \in S) \in Int /\ One(b) \in Int
    BY DEF One
  <2>2. /\ Drift(u, left) = Cardinality(S) - Counter(u, left)
        /\ Drift(u, left)' = Cardinality(S') - Counter(u, left)'
    BY DriftIs
  <2> QED
    BY <1>5, <1>6, <1>7, <2>1, <2>2
<1> QED
  BY <1>4, <1>8

\* Peers are taken away and uncharged.
LEMMA UnchargeDrift ==
  ASSUME TypeOK, NEW X, Uncharge(X), NEW u \in users, NEW left \in BOOLEAN,
         PeersOf(u, left)' = PeersOf(u, left) \ X
  PROVE  Drift(u, left)' = Drift(u, left)
<1> DEFINE S == PeersOf(u, left)
           T == S \cap X
<1>1. S \ X = S \ T /\ T \in SUBSET S
  OBVIOUS
<1>2. IsFiniteSet(S) /\ Cardinality(S) \in Int /\ Cardinality(T) \in Int
  BY AllPeersFinite, PeersFinite
<1>3. Cardinality(S \ T) = Cardinality(S) - Cardinality(T)
  <2> HIDE DEF S, T
  <2> QED
    BY <1>1, <1>2, TakeAway
<1>4. u \in User
  BY DEF TypeOK
<1>5. Counter(u, left)' = Counter(u, left) - Cardinality(T)
  <2>1. CASE left
    BY <1>4, <2>1 DEF Uncharge, Counter
  <2>2. CASE ~left
    BY <1>4, <2>2 DEF Uncharge, Counter
  <2> QED
    BY <2>1, <2>2
<1>6. Counter(u, left) \in Int
  BY <1>4 DEF Counter, TypeOK
<1>7. Cardinality(S') = Cardinality(S) - Cardinality(T)
  BY <1>1, <1>3
<1>8. /\ Drift(u, left) = Cardinality(S) - Counter(u, left)
      /\ Drift(u, left)' = Cardinality(S') - Counter(u, left)'
  BY DriftIs
<1> QED
  BY <1>2, <1>5, <1>6, <1>7, <1>8

LEMMA CleanUpPeers ==
  ASSUME TypeOK, NEW X \in SUBSET (File \X Host), CleanUp(X),
         NEW u \in users, NEW left \in BOOLEAN
  PROVE  PeersOf(u, left)' = PeersOf(u, left) \ X
<1>1. NoPeer # [uid |-> u, left |-> left]
  BY TrackerAssumption DEF TypeOK
<1>2. ASSUME NEW f \in File, NEW h \in Host
      PROVE  <<f, h>> \in PeersOf(u, left)' <=> <<f, h>> \in PeersOf(u, left) /\ <<f, h>> \notin X
  <2>1. peer'[f][h] = IF <<f, h>> \in X THEN NoPeer ELSE peer[f][h]
    BY DEF CleanUp
  <2> QED
    BY <1>1, <2>1, InPeersOf
<1>3. PeersOf(u, left)' \subseteq File \X Host /\ PeersOf(u, left) \subseteq File \X Host
  BY DEF PeersOf
<1> QED
  BY <1>2, <1>3

LEMMA ErasePeers ==
  ASSUME TypeOK, NEW G, NEW D, Erase(G, D), NEW u \in users, NEW left \in BOOLEAN
  PROVE  PeersOf(u, left)' = PeersOf(u, left) \ (G \X Host)
<1>1. NoPeer # [uid |-> u, left |-> left]
  BY TrackerAssumption DEF TypeOK
<1>2. ASSUME NEW f \in File, NEW h \in Host
      PROVE  <<f, h>> \in PeersOf(u, left)'
               <=> <<f, h>> \in PeersOf(u, left) /\ <<f, h>> \notin G \X Host
  <2>1. <<f, h>> \in G \X Host <=> f \in G
    OBVIOUS
  <2>2. peer'[f][h] = IF f \in G THEN NoPeer ELSE peer[f][h]
    BY DEF Erase
  <2>3. CASE f \in G
    <3>1. <<f, h>> \notin PeersOf(u, left)'
      BY <1>1, <2>2, <2>3, InPeersOf
    <3> QED
      BY <2>1, <2>3, <3>1
  <2>4. CASE f \notin G
    BY <2>1, <2>2, <2>4, InPeersOf
  <2> QED
    BY <2>3, <2>4
<1>3. PeersOf(u, left)' \subseteq File \X Host /\ PeersOf(u, left) \subseteq File \X Host
  BY DEF PeersOf
<1> QED
  BY <1>2, <1>3

\* Steps that leave the peers and the counters alone.
LEMMA KeepDrift ==
  ASSUME NEW u, NEW left \in BOOLEAN, peer' = peer,
         incompletes'[u] = incompletes[u], completes'[u] = completes[u]
  PROVE  Drift(u, left)' = Drift(u, left) /\ PeersOf(u, left)' = PeersOf(u, left)
<1>1. PeersOf(u, left)' = PeersOf(u, left)
  BY DEF PeersOf
<1> QED
  BY <1>1 DEF Drift

\* What any step does to the peers and the drift of a user who stays in the table.
LEMMA StepDrift ==
  ASSUME TypeOK, [Next]_vars, NEW u \in users \cap users', NEW left \in BOOLEAN
  PROVE  /\ Drift(u, left)' = Drift(u, left)
         /\ \/ PeersOf(u, left)' \subseteq PeersOf(u, left)
            \/ \E f \in File, h \in Host, stopped \in BOOLEAN :
                  /\ Announce(f, h, u, left, stopped)
                  /\ PeersOf(u, left)' \subseteq PeersOf(u, left) \cup {<<f, h>>}
<1> USE DEF swarmVars, userVars, tableVars
<1> DEFINE Goal == /\ Drift(u, left)' = Drift(u, left)
                   /\ \/ PeersOf(u, left)' \subseteq PeersOf(u, left)
                      \/ \E f \in File, h \in Host, stopped \in BOOLEAN :
                            /\ Announce(f, h, u, left, stopped)
                            /\ PeersOf(u, left)' \subseteq PeersOf(u, left) \cup {<<f, h>>}
<1>1. ASSUME peer' = peer, incompletes'[u] = incompletes[u], completes'[u] = completes[u]
      PROVE  Goal
  BY <1>1, KeepDrift
<1>2. ASSUME NEW G, NEW D, Erase(G, D) PROVE Goal
  <2>1. PeersOf(u, left)' = PeersOf(u, left) \ (G \X Host)
    BY <1>2, ErasePeers
  <2>2. Drift(u, left)' = Drift(u, left)
    BY <1>2, <2>1, UnchargeDrift DEF Erase
  <2> QED
    BY <2>1, <2>2
<1>3. ASSUME NEW f \in File, NEW h \in Host, NEW w \in users \cup {NoUser},
             NEW l \in BOOLEAN, NEW stopped \in BOOLEAN, Announce(f, h, w, l, stopped)
      PROVE  Goal
  <2>1. /\ Drift(u, left)' = Drift(u, left)
        /\ PeersOf(u, left)' = (PeersOf(u, left) \ {<<f, h>>})
                                  \cup IF u = w /\ ~stopped /\ l = left THEN {<<f, h>>} ELSE {}
    BY <1>3, AnnounceDrift
  <2>2. CASE u = w /\ l = left
    <3>1. Announce(f, h, u, left, stopped)
      BY <1>3, <2>2
    <3> QED
      BY <2>1, <3>1
  <2>3. CASE ~(u = w /\ l = left)
    BY <2>1, <2>3
  <2> QED
    BY <2>2, <2>3
<1>4. ASSUME NEW f \in File, NEW h \in Host, NEW w \in users \cup {NoUser},
             NEW l \in BOOLEAN, Refuse(f, h, w, l)
      PROVE  Goal
  BY <1>1, <1>4 DEF Refuse
<1>5. CASE Announcing
  BY <1>3, <1>4, <1>5 DEF Announcing
<1>6. ASSUME NEW X \in SUBSET {x \in File \X Host : peer[x[1]][x[2]] # NoPeer}, CleanUp(X)
      PROVE  Goal
  <2>1. PeersOf(u, left)' = PeersOf(u, left) \ X
    BY <1>6, CleanUpPeers
  <2>2. Drift(u, left)' = Drift(u, left)
    BY <1>6, <2>1, UnchargeDrift DEF CleanUp
  <2> QED
    BY <2>1, <2>2
<1>7. ASSUME NEW ok \in BOOLEAN, ReadUsers(ok) PROVE Goal
  <2>1. u \in User
    BY DEF TypeOK
  <2> QED
    BY <1>1, <1>7, <2>1 DEF ReadUsers
<1>8. CASE Database
  BY <1>1, <1>2, <1>7, <1>8
     DEF Database, ReadFiles, ReadFilesFails, WriteUsers, WriteFiles, WriteFilesFails
<1>9. CASE Administrator
  BY <1>1, <1>9 DEF Administrator, AddFile, FlagFile, EditUser
<1>10. CASE Crash
  BY <1>10 DEF Crash
<1>11. CASE UNCHANGED vars
  BY <1>1, <1>11 DEF vars
<1> QED
  BY <1>5, <1>6, <1>8, <1>9, <1>10, <1>11 DEF Next

\* While a user stays in the table, announces of his and of other users, clean-ups and
\* erased files leave his counters as far from his peers as they were
\* (UserCountsFollowPeers).
THEOREM CountsFollowPeers == Spec => UserCountsFollowPeers
<1>1. TypeOK /\ [Next]_vars => [DriftStep]_vars
  BY StepDrift DEF DriftStep
<1> QED
  BY <1>1, InitType, StepType, PTL DEF Spec, UserCountsFollowPeers

\* No user is charged too much, and one who is not in the table is not charged at all
\* (his counters start at zero when he comes back, whatever peers have his uid).
UserInv ==
  /\ TypeOK
  /\ \A u \in users, left \in BOOLEAN : Drift(u, left) >= 0
  /\ \A u \in User \ users : incompletes[u] = 0 /\ completes[u] = 0

LEMMA InitUsers == Init => UserInv
BY InitType DEF Init, UserInv

\* The users who are not in the table are not charged.
LEMMA StepAbsent == UserInv /\ [Next]_vars => \A u \in User \ users' : incompletes'[u] = 0 /\ completes'[u] = 0
<1> SUFFICES ASSUME UserInv, [Next]_vars, NEW u \in User \ users'
             PROVE  incompletes'[u] = 0 /\ completes'[u] = 0
  OBVIOUS
<1> USE DEF UserInv, swarmVars, userVars, tableVars
<1>1. ASSUME users' = users, UNCHANGED <<incompletes, completes>> \/ \E X : Uncharge(X)
      PROVE  incompletes'[u] = 0 /\ completes'[u] = 0
  BY <1>1 DEF Uncharge
<1>2. CASE Announcing
  <2>1. ASSUME NEW f \in File, NEW h \in Host, NEW w \in users \cup {NoUser},
               NEW left \in BOOLEAN, NEW stopped \in BOOLEAN, Announce(f, h, w, left, stopped)
        PROVE  incompletes'[u] = 0 /\ completes'[u] = 0
    <3>1. users' = users /\ u # w
      BY <2>1, TrackerAssumption DEF Announce
    <3> QED
      BY <2>1, <3>1 DEF Announce, One
  <2> QED
    BY <1>1, <1>2, <2>1 DEF Announcing, Refuse
<1>3. CASE Database
  BY <1>1, <1>3
     DEF Database, ReadFiles, ReadFilesFails, Erase, ReadUsers, WriteUsers, WriteFiles, WriteFilesFails
<1>4. CASE Administrator
  BY <1>1, <1>4 DEF Administrator, AddFile, FlagFile, EditUser
<1>5. CASE Crash
  BY <1>5 DEF Crash
<1>6. ASSUME NEW X \in SUBSET {x \in File \X Host : peer[x[1]][x[2]] # NoPeer}, CleanUp(X)
      PROVE  incompletes'[u] = 0 /\ completes'[u] = 0
  BY <1>1, <1>6 DEF CleanUp
<1>7. CASE UNCHANGED vars
  BY <1>1, <1>7 DEF vars
<1> QED
  BY <1>2, <1>3, <1>4, <1>5, <1>6, <1>7 DEF Next

\* A user comes into the table only when it is read, and is not charged then.
LEMMA StepNewUser ==
  ASSUME UserInv, [Next]_vars, NEW u \in users' \ users
  PROVE  u \in User /\ incompletes'[u] = 0 /\ completes'[u] = 0
<1> USE DEF UserInv, swarmVars, userVars, tableVars
<1>1. ASSUME NEW ok \in BOOLEAN, ReadUsers(ok)
      PROVE  u \in User /\ incompletes'[u] = 0 /\ completes'[u] = 0
  <2>1. u \in User
    BY <1>1 DEF ReadUsers, TypeOK
  <2> QED
    BY <1>1, <2>1 DEF ReadUsers
<1>2. CASE users' = users \/ users' = {}
  BY <1>2
<1>3. CASE Announcing
  BY <1>2, <1>3 DEF Announcing, Announce, Refuse
<1>4. CASE Database
  BY <1>1, <1>2, <1>4
     DEF Database, ReadFiles, ReadFilesFails, WriteUsers, WriteFiles, WriteFilesFails
<1>5. CASE Administrator
  BY <1>2, <1>5 DEF Administrator, AddFile, FlagFile, EditUser
<1> QED
  BY <1>2, <1>3, <1>4, <1>5 DEF Next, CleanUp, Crash, vars

LEMMA StepUsers == UserInv /\ [Next]_vars => UserInv'
<1> SUFFICES ASSUME UserInv, [Next]_vars PROVE UserInv'
  OBVIOUS
<1>1. TypeOK /\ TypeOK'
  BY StepType DEF UserInv
<1>2. ASSUME NEW u \in users', NEW left \in BOOLEAN PROVE Drift(u, left)' >= 0
  <2>1. CASE u \in users
    BY <1>1, <2>1, StepDrift DEF UserInv
  <2>2. CASE u \notin users
    <3>1. Counter(u, left)' = 0
      BY <2>2, StepNewUser DEF Counter
    <3>2. Cardinality(PeersOf(u, left)') \in Nat
      BY AllPeersFinite
    <3> QED
      BY <3>1, <3>2, DriftIs
  <2> QED
    BY <2>1, <2>2
<1> QED
  BY <1>1, <1>2, StepAbsent DEF UserInv

\* A user is refused for torrents_limit only with that many incomplete peers
\* (NeverOvercharged).
THEOREM UsersAreNeverOvercharged == Spec => []NeverOvercharged
<1>1. UserInv => NeverOvercharged
  <2> SUFFICES ASSUME UserInv, NEW u \in users
               PROVE  /\ incompletes[u] <= Cardinality(PeersOf(u, TRUE))
                      /\ completes[u] <= Cardinality(PeersOf(u, FALSE))
    BY DEF NeverOvercharged
  <2>1. ASSUME NEW left \in BOOLEAN PROVE Counter(u, left) <= Cardinality(PeersOf(u, left))
    <3>1. Cardinality(PeersOf(u, left)) - Counter(u, left) >= 0
      BY DriftIs DEF UserInv
    <3>2. Counter(u, left) \in Int /\ Cardinality(PeersOf(u, left)) \in Nat
      BY AllPeersFinite DEF Counter, UserInv, TypeOK
    <3> QED
      BY <3>1, <3>2
  <2>2. /\ Counter(u, TRUE) <= Cardinality(PeersOf(u, TRUE))
        /\ Counter(u, FALSE) <= Cardinality(PeersOf(u, FALSE))
    BY <2>1
  <2> QED
    BY <2>2 DEF Counter
<1> QED
  BY <1>1, InitUsers, StepUsers, PTL DEF Spec

\* One peer more is one peer more at most.
LEMMA OneMore ==
  ASSUME NEW S, IsFiniteSet(S), NEW x, NEW T \in SUBSET (S \cup {x})
  PROVE  Cardinality(T) <= Cardinality(S) + 1
<1>1. Cardinality(S) \in Nat
  BY FS_CardinalityType
<1>2. IsFiniteSet(S \cup {x}) /\ Cardinality(S \cup {x}) <= Cardinality(S) + 1
  <2>1. /\ IsFiniteSet(S \cup {x})
        /\ Cardinality(S \cup {x}) = IF x \in S THEN Cardinality(S) ELSE Cardinality(S) + 1
    BY FS_AddElement
  <2> QED
    BY <1>1, <2>1
<1>3. Cardinality(S \cup {x}) \in Nat
  BY <1>2, FS_CardinalityType
<1>4. Cardinality(T) <= Cardinality(S \cup {x}) /\ IsFiniteSet(T)
  BY <1>2, FS_Subset
<1>5. Cardinality(T) \in Nat
  BY <1>4, FS_CardinalityType
<1> QED
  BY <1>1, <1>2, <1>3, <1>4, <1>5

\* An announce of a host that has no peer in the file was within the limit.
LEMMA NewHostLimit ==
  ASSUME TypeOK, NEW u \in users, TorrentsLimit[u] # 0, ~(Drift(u, TRUE) > 0),
         NEW f \in File, NEW h \in Host, NEW stopped \in BOOLEAN,
         Announce(f, h, u, TRUE, stopped), peer[f][h] = NoPeer,
         PeersOf(u, TRUE)' \subseteq PeersOf(u, TRUE) \cup {<<f, h>>}
  PROVE  Cardinality(PeersOf(u, TRUE)') <= TorrentsLimit[u]
<1> DEFINE S == PeersOf(u, TRUE)
           T == PeersOf(u, TRUE)'
<1>1. u \in User /\ incompletes[u] \in Int /\ TorrentsLimit[u] \in Nat
  BY TrackerAssumption DEF TypeOK
<1>2. ~(incompletes[u] >= TorrentsLimit[u])
  BY <1>1 DEF Announce, OverLimit
<1>3. IsFiniteSet(S) /\ Cardinality(S) \in Nat /\ Cardinality(T) \in Nat
  BY AllPeersFinite
<1>4. ~(Cardinality(S) - incompletes[u] > 0)
  BY DEF Drift
<1>5. Cardinality(T) <= Cardinality(S) + 1
  <2>1. T \in SUBSET (S \cup {<<f, h>>})
    OBVIOUS
  <2> HIDE DEF S, T
  <2> QED
    BY <1>3, <2>1, OneMore
<1> HIDE DEF S, T
<1>6. Cardinality(T) <= TorrentsLimit[u]
  BY <1>1, <1>2, <1>3, <1>4, <1>5
<1> QED
  BY <1>6 DEF T

LEMMA StepLimit == TypeOK /\ [Next]_vars => [LimitStep]_vars
<1> SUFFICES ASSUME TypeOK, [Next]_vars, NEW u \in users \cap users',
                    TorrentsLimit[u] # 0, ~(Drift(u, TRUE) > 0),
                    ~(PeersOf(u, TRUE)' \subseteq PeersOf(u, TRUE)),
                    ~\E f \in File, h \in Host, stopped \in BOOLEAN :
                        peer[f][h] # NoPeer /\ Announce(f, h, u, TRUE, stopped)
             PROVE  Cardinality(PeersOf(u, TRUE)') <= TorrentsLimit[u]
  BY Zenon DEF LimitStep
<1>1. \E f \in File, h \in Host, stopped \in BOOLEAN :
         /\ Announce(f, h, u, TRUE, stopped)
         /\ PeersOf(u, TRUE)' \subseteq PeersOf(u, TRUE) \cup {<<f, h>>}
  BY StepDrift, Zenon
<1> QED
  BY <1>1, NewHostLimit, Zenon

\* A user who is not charged too little passes his torrents_limit only with a host that
\* had a peer in the file before (LimitPassedByKnownHostsOnly).
THEOREM OnlyKnownHostsPassTheLimit == Spec => LimitPassedByKnownHostsOnly
BY InitType, StepType, StepLimit, PTL DEF Spec, LimitPassedByKnownHostsOnly

-----------------------------------------------------------------------------
(* The users the database shows as active.                                 *)

\* What is queued and written about a user is about a file that has a row.
RowInv ==
  /\ FileInv
  /\ fid \subseteq rows /\ active \subseteq rows \X User
  /\ \A x \in File \X User : pend[x] # "none" => x[1] \in rows

LEMMA InitRows == Init => RowInv
BY InitCounts DEF Init, RowInv

LEMMA StepRows == RowInv /\ [Next]_vars => RowInv'
<1> SUFFICES ASSUME RowInv, [Next]_vars PROVE RowInv'
  OBVIOUS
<1>1. TypeOK /\ TypeOK' /\ FileInv'
  BY StepCounts DEF RowInv, FileInv
<1> USE DEF RowInv, swarmVars, userVars, tableVars
<1>2. ASSUME fid' = fid, active' = active, rows \subseteq rows',
             \A x \in File \X User : pend'[x] # "none" => pend[x] # "none" \/ x[1] \in fid
      PROVE  RowInv'
  BY <1>1, <1>2
<1>3. CASE Announcing
  <2>1. \A f \in File, h \in Host, u \in users \cup {NoUser}, l \in BOOLEAN :
           Refuse(f, h, u, l) => RowInv'
    BY <1>2 DEF Refuse
  <2>2. ASSUME NEW f \in File, NEW h \in Host, NEW u \in users \cup {NoUser},
               NEW l \in BOOLEAN, NEW s \in BOOLEAN, Announce(f, h, u, l, s)
        PROVE  RowInv'
    BY <1>2, <2>2 DEF Announce
  <2> QED
    BY <1>3, <2>1, <2>2 DEF Announcing
<1>4. ASSUME NEW G, NEW D, Erase(G, D), fid' \cap D = {}, fid' \subseteq rows PROVE RowInv'
  BY <1>1, <1>4 DEF Erase
<1>5. CASE ReadFiles
  BY <1>4, <1>5 DEF ReadFiles
<1>6. ASSUME NEW G \in SUBSET flagged, NEW D \in SUBSET flagged, ReadFilesFails(G, D)
      PROVE  RowInv'
  BY <1>4, <1>6 DEF ReadFilesFails
<1>7. ASSUME NEW ok \in BOOLEAN, WriteUsers(ok) PROVE RowInv'
  BY <1>1, <1>7 DEF WriteUsers
<1>8. CASE WriteFiles \/ \E D \in SUBSET dirty : WriteFilesFails(D)
  BY <1>1, <1>8 DEF WriteFiles, WriteFilesFails
<1>9. CASE Database
  BY <1>2, <1>5, <1>6, <1>7, <1>8, <1>9 DEF Database, ReadUsers
<1>10. CASE Administrator
  BY <1>2, <1>10 DEF Administrator, AddFile, FlagFile, EditUser
<1>11. CASE Crash
  BY <1>1, <1>11 DEF Crash
<1>12. ASSUME NEW X \in SUBSET {x \in File \X Host : peer[x[1]][x[2]] # NoPeer}, CleanUp(X)
       PROVE  RowInv'
  BY <1>2, <1>12 DEF CleanUp
<1>13. CASE UNCHANGED vars
  BY <1>2, <1>13 DEF vars
<1> QED
  BY <1>3, <1>9, <1>10, <1>11, <1>12, <1>13 DEF Next

\* No peer of the file is his.
Away(x) == \A h \in Present(x[1]) : peer[x[1]][h].uid # x[2]

LEMMA GhostIs ==
  ASSUME NEW x \in File \X User
  PROVE  /\ x \in Ghosts <=> /\ x[1] \in rows \ flagged /\ Away(x)
                             /\ pend[x] = "on" \/ (pend[x] = "none" /\ x \in active)
         /\ x \in Ghosts' <=> /\ x[1] \in rows' \ flagged' /\ Away(x)'
                              /\ pend'[x] = "on" \/ (pend'[x] = "none" /\ x \in active')
BY DEF Ghosts, Away

\* A file with a row and peers is served; it clashes if it does not know its fid.
LEMMA Unread ==
  ASSUME RowInv, NEW x \in File \X User, x[1] \in rows, x[1] \notin fid, x \notin Clashing \X User
  PROVE  Present(x[1]) = {} /\ Away(x)
BY DEF RowInv, FileInv, FileCountsExact, Clashing, Away

LEMMA AnnounceGhosts ==
  ASSUME RowInv, NEW f \in File, NEW h \in Host, NEW w \in users \cup {NoUser},
         NEW left \in BOOLEAN, NEW stopped \in BOOLEAN, Announce(f, h, w, left, stopped),
         ~(peer[f][h] # NoPeer /\ peer[f][h].uid # w)
  PROVE  Ghosts' \subseteq Ghosts \cup (Clashing \X User)
<1> DEFINE new == IF stopped THEN NoPeer ELSE [uid |-> w, left |-> left]
<1> SUFFICES ASSUME NEW x \in File \X User, x \in Ghosts', x \notin Clashing \X User
             PROVE  x \in Ghosts
  BY DEF Ghosts
<1>1. TypeOK
  BY DEF RowInv, FileInv
<1>2. \A g \in File, k \in Host : peer'[g][k] = IF g = f /\ k = h THEN new ELSE peer[g][k]
  BY <1>1 DEF Announce, TypeOK
<1>3. /\ x[1] \in File /\ x[2] \in User /\ x = <<x[1], x[2]>>
      /\ rows' = rows /\ flagged' = flagged /\ active' = active
      /\ x[1] \in rows \ flagged /\ Away(x)'
  BY GhostIs DEF Announce, tableVars
<1>4. pend'[x] = IF x = <<f, w>> /\ f \in fid THEN IF stopped THEN "off" ELSE "on" ELSE pend[x]
  BY DEF Announce
<1>5. ASSUME pend'[x] = pend[x], Away(x) PROVE x \in Ghosts
  BY <1>3, <1>5, GhostIs
<1>6. CASE x[1] # f
  <2>1. Away(x)
    BY <1>2, <1>3, <1>6 DEF Away, Present
  <2> QED
    BY <1>4, <1>5, <1>6, <2>1
<1>7. CASE x[1] = f /\ x[2] # w
  <2>1. ASSUME NEW k \in Present(f) PROVE peer[f][k].uid # x[2]
    <3>1. CASE k = h
      BY <1>7, <3>1 DEF Present
    <3>2. CASE k # h
      <4>1. k \in Host /\ peer'[f][k] = peer[f][k] /\ k \in Present(f)'
        BY <1>2, <2>1, <3>2 DEF Present
      <4> QED
        BY <1>3, <1>7, <4>1 DEF Away
    <3> QED
      BY <3>1, <3>2
  <2> QED
    BY <1>4, <1>5, <1>7, <2>1 DEF Away
<1>8. CASE x = <<f, w>> /\ f \in fid
  <2>1. ~stopped
    BY <1>4, <1>8, GhostIs
  <2>2. new # NoPeer /\ new.uid = w
    BY <1>1, <2>1, TrackerAssumption DEF TypeOK
  <2>3. h \in Present(f)' /\ peer'[f][h].uid = w
    BY <1>2, <2>2 DEF Present
  <2> QED
    BY <1>3, <1>8, <2>3 DEF Away
<1>9. CASE x = <<f, w>> /\ f \notin fid
  BY <1>3, <1>4, <1>5, <1>9, Unread
<1> QED
  BY <1>3, <1>6, <1>7, <1>8, <1>9

LEMMA CleanUpGhosts ==
  ASSUME RowInv, NEW X \in SUBSET {x \in File \X Host : peer[x[1]][x[2]] # NoPeer}, CleanUp(X)
  PROVE  Ghosts' \subseteq Ghosts \cup (Clashing \X User)
<1> SUFFICES ASSUME NEW x \in File \X User, x \in Ghosts', x \notin Clashing \X User
             PROVE  x \in Ghosts
  BY DEF Ghosts
<1>1. \A g \in File, k \in Host : peer'[g][k] = IF <<g, k>> \in X THEN NoPeer ELSE peer[g][k]
  BY DEF CleanUp
<1>2. /\ x[1] \in File /\ x[2] \in User
      /\ rows' = rows /\ flagged' = flagged /\ active' = active
      /\ x[1] \in rows \ flagged /\ Away(x)'
  BY GhostIs DEF CleanUp, tableVars
<1>3. pend'[x] = IF /\ x[1] \in fid
                    /\ \E h \in Present(x[1]) : <<x[1], h>> \in X /\ peer[x[1]][h].uid = x[2]
                 THEN "off" ELSE pend[x]
  BY DEF CleanUp
<1>4. pend'[x] # "off"
  BY GhostIs
<1>5. pend'[x] = pend[x]
  BY <1>3, <1>4
<1>6. CASE x[1] \in fid
  <2>1. ASSUME NEW k \in Present(x[1]) PROVE peer[x[1]][k].uid # x[2]
    <3>1. CASE <<x[1], k>> \in X
      BY <1>3, <1>4, <1>6, <3>1
    <3>2. CASE <<x[1], k>> \notin X
      <4>1. peer'[x[1]][k] = peer[x[1]][k] /\ k \in Present(x[1])'
        BY <1>1, <1>2, <2>1, <3>2 DEF Present
      <4> QED
        BY <1>2, <4>1 DEF Away
    <3> QED
      BY <3>1, <3>2
  <2>2. Away(x)
    BY <2>1 DEF Away
  <2> QED
    BY <1>2, <1>5, <2>2, GhostIs
<1>7. CASE x[1] \notin fid
  BY <1>2, <1>5, <1>7, Unread, GhostIs
<1> QED
  BY <1>6, <1>7

\* Erased files have no users; what is not erased keeps its own.
LEMMA EraseGhosts ==
  ASSUME NEW G, NEW D, Erase(G, D), G \subseteq flagged, D \subseteq G
  PROVE  Ghosts' \subseteq Ghosts
<1> SUFFICES ASSUME NEW x \in File \X User, x \in Ghosts' PROVE x \in Ghosts
  BY DEF Ghosts
<1>1. x[1] \in rows' /\ x[1] \notin flagged' /\ x[1] \in File
  BY GhostIs
<1>2. x[1] \in rows \ flagged /\ x[1] \notin G /\ x[1] \notin D
  BY <1>1 DEF Erase
<1>3. peer'[x[1]] = peer[x[1]] /\ pend'[x] = pend[x] /\ (x \in active' => x \in active)
  BY <1>1, <1>2 DEF Erase
<1>4. Away(x)' <=> Away(x)
  BY <1>3 DEF Away, Present
<1> QED
  BY <1>2, <1>3, <1>4, GhostIs

\* Rows that come have nobody active in them.
LEMMA MoreRows ==
  ASSUME RowInv, peer' = peer, pend' = pend, active' = active, flagged \subseteq flagged'
  PROVE  Ghosts' \subseteq Ghosts
<1> SUFFICES ASSUME NEW x \in File \X User, x \in Ghosts' PROVE x \in Ghosts
  BY DEF Ghosts
<1>1. Away(x)' <=> Away(x)
  BY DEF Away, Present
<1>2. x \in active => x[1] \in rows
  BY DEF RowInv
<1>3. pend[x] # "none" => x[1] \in rows
  BY DEF RowInv
<1> QED
  BY <1>1, <1>2, <1>3, GhostIs

LEMMA StepGhosts == RowInv /\ [Next]_vars => [GhostStep]_vars
<1> SUFFICES ASSUME RowInv, Next PROVE GhostStep
  BY DEF vars
<1> USE DEF swarmVars, userVars, tableVars
<1>1. ASSUME UNCHANGED <<peer, pend, active>>, flagged \subseteq flagged' PROVE GhostStep
  BY <1>1, MoreRows DEF GhostStep
<1>2. CASE Announcing
  <2>1. ASSUME NEW f \in File, NEW h \in Host, NEW w \in users \cup {NoUser},
               NEW l \in BOOLEAN, NEW s \in BOOLEAN, Announce(f, h, w, l, s)
        PROVE  GhostStep
    BY <2>1, AnnounceGhosts DEF GhostStep
  <2>2. ASSUME NEW f \in File, NEW h \in Host, NEW w \in users \cup {NoUser},
               NEW l \in BOOLEAN, Refuse(f, h, w, l)
        PROVE  GhostStep
    BY <1>1, <2>2 DEF Refuse
  <2> QED
    BY <1>2, <2>1, <2>2 DEF Announcing
<1>3. CASE ReadFiles
  <2> DEFINE gone == IF AutoRegister THEN {} ELSE flagged
  <2>1. Erase(gone, gone) /\ gone \subseteq flagged
    BY <1>3 DEF ReadFiles
  <2> HIDE DEF gone
  <2>2. Ghosts' \subseteq Ghosts
    BY <2>1, EraseGhosts
  <2> QED
    BY <2>2 DEF GhostStep
<1>4. ASSUME NEW G \in SUBSET flagged, NEW D \in SUBSET flagged, ReadFilesFails(G, D)
      PROVE  GhostStep
  BY <1>4, EraseGhosts DEF ReadFilesFails, GhostStep
<1>5. CASE WriteUsers(TRUE)
  <2> SUFFICES ASSUME NEW x \in File \X User, x \in Ghosts' PROVE x \in Ghosts
    BY DEF Ghosts, GhostStep
  <2>1. pend'[x] = "none" /\ rows' = rows /\ flagged' = flagged /\ peer' = peer
    BY <1>5 DEF WriteUsers
  <2>2. x \in active' <=> pend[x] = "on" \/ (pend[x] # "off" /\ x \in active)
    BY <1>5 DEF WriteUsers
  <2>3. Away(x)' <=> Away(x)
    BY <2>1 DEF Away, Present
  <2>4. pend[x] \in {"none", "on", "off"}
    BY DEF RowInv, FileInv, TypeOK
  <2> QED
    BY <2>1, <2>2, <2>3, <2>4, GhostIs
<1>6. CASE Database
  BY <1>1, <1>3, <1>4, <1>5, <1>6 DEF Database, ReadUsers, WriteFiles, WriteFilesFails, GhostStep
<1>7. CASE Administrator
  BY <1>1, <1>7 DEF Administrator, AddFile, FlagFile, EditUser
<1>8. ASSUME NEW X \in SUBSET {x \in File \X Host : peer[x[1]][x[2]] # NoPeer}, CleanUp(X)
      PROVE  GhostStep
  BY <1>8, CleanUpGhosts DEF GhostStep
<1> QED
  BY <1>2, <1>6, <1>7, <1>8 DEF Next, GhostStep

\* Only a restart, a failed query or a host that changes its user leave the database
\* with a user who is active in a file without a peer in it (ActiveUsersArePeers).
THEOREM ActiveUsersHavePeers == Spec => ActiveUsersArePeers
BY InitRows, StepRows, StepGhosts, PTL DEF Spec, ActiveUsersArePeers
=============================================================================
